\* The same instance with one command at a time.
SPECIFICATION FairSpec
CONSTANTS
  Devices = {d1}
  PassSize = 1
  Ids = {1}
  MaxNet = 2
  MaxLate = 2
  None = None
PROPERTY
  CommandObeyed
