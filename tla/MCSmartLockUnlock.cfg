\* The same instance with an owner who unlocks the door.
SPECIFICATION Spec
CONSTANTS
  Devices = {d1}
  PassSize = 1
  Ids = {1}
  MaxNet = 1
  MaxLate = 1
  Workers = {w1}
  Orders = {"unlock"}
  MaxOut = 2
  None = None
INVARIANT
  UnlockStands
