\* One device, passes of two reports, two commands held by the broker.
SPECIFICATION FairSpec
CONSTANTS
  Devices = {d1}
  PassSize = 2
  Ids = {1, 2}
  MaxNet = 2
  MaxLate = 2
  None = None
INVARIANTS
  TypeOK
  Agreement
  LockSilences
  IInv
  HistoryInv
PROPERTIES
  ImplementsCommandLink
  Delivered
  LoopGoesOn
