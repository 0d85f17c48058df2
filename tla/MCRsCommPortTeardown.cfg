SPECIFICATION Spec
CONSTANTS
  Pids = {p1}
  NoPid = NoPid
  Callers = {t1}
  Clients = {c1, c2}
  NoPort = NoPort
  MaxSequence = 1
SYMMETRY Symmetric
INVARIANT NoClientAfterDestroy
CHECK_DEADLOCK FALSE
