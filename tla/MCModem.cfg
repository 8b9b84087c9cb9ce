SPECIFICATION FairSpec
CONSTANTS
  Rounds = 4
  MaxOps = 4
INVARIANTS
  TypeOK
  CommandsReachModem
  FailDisconnects
  IInv
PROPERTIES
  TriesEnd
CHECK_DEADLOCK FALSE
