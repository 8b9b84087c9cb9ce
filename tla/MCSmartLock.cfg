\* One device, one worker, passes of one report.
SPECIFICATION FairSpec
CONSTANTS
  Devices = {d1}
  PassSize = 1
  Ids = {1}
  MaxNet = 1
  MaxLate = 1
  Workers = {w1}
  Orders = {"lock", "normal"}
  MaxOut = 2
  None = None
INVARIANTS
  TypeOK
  OrderStands
  IInv
PROPERTY
  EntryGranted
