SPECIFICATION Spec
CONSTANTS
  MaxOps = 2
  Pids = {p1, p2}
  NoPid = NoPid
  Addresses = {a1, a2, a3}
  Null = Null
  Callers = {t1, t2}
  DefaultThreshold = 2
  DefaultWindow = 1
  Updates <- MCUpdates
  UnloadDrains = TRUE
  MaxTrackedPids = 2
  MaxClock = 2
SYMMETRY Symmetric
INVARIANTS
  TypeOK
  OneContextPerPid
  CountMatchesTable
  NoDangling
  NoLeak
PROPERTIES
  ImplementsBlockPolicy
  BlocksExplained
