SPECIFICATION FairSpec
CONSTANTS
  BufSize = 4
  MaxLen = 4
  Tags = 6
INVARIANTS
  TypeOK
  AllSent
  IInv
PROPERTIES
  WireInOrder
  SendReturns
