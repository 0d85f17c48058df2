SPECIFICATION FairSpec
CONSTANTS
  MaxOps = 2
  Pids = {p1}
  NoPid = NoPid
  Addresses = {a1, a2}
  Null = Null
  Callers = {t1, t2}
  DefaultThreshold = 2
  DefaultWindow = 1
  Updates = {}
  UnloadDrains = FALSE
  MaxTrackedPids = 2
  MaxClock = 1
PROPERTY CallsReturn
