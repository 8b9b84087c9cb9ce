SPECIFICATION Spec
CONSTANTS
  BufSize = 3
  MaxLen = 4
  Burst = 3
  Tags = 4
  Calls = {"recv", "flush"}
INVARIANTS
  TypeOK
  ReadsInOrder
  NeverAhead
  IInv
