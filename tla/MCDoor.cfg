SPECIFICATION FairSpec
CONSTANTS
  TimeMod = 10
  OpenFor = 4
  Period = 2
  CbTicks = 2
  BootTicks = 6
  StatFirst = FALSE
INVARIANTS
  TypeOK
  OpenBounded
  LedFollows
  IInv
PROPERTIES
  ImplementsDoorLock
  OpeningEnds
