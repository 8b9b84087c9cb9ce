SPECIFICATION FairSpec
CONSTANTS
  Addrs = {a1, a2}
  Workers = {w1, w2}
  Orders = {"open_door", "lock"}
  MaxOut = 2
  MaxWaiting = 1
  None = None
INVARIANTS
  TypeOK
  IInv
PROPERTIES
  OpenAuthorised
  EntitledLetIn
