SPECIFICATION Spec
CONSTANTS
  a1 = a1
  a2 = a2
  a3 = a3
  NoAddr = NoAddr
  Addrs = {a1, a2, a3}
  ListSize = 2
  SentSize = 2
  Bucket <- Clash
  Lifetime = 2
  ScanSteps = 2
  TimeMod = 4
  Cap = 3
INVARIANTS
  TypeOK
  HoldOff
  NoTwins
  IInv
