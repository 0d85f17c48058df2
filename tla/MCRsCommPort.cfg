SPECIFICATION FairSpec
CONSTANTS
  Pids = {p1, p2}
  NoPid = NoPid
  Callers = {t1, t2}
  Clients = {c1, c2}
  NoPort = NoPort
  MaxSequence = 2
INVARIANTS TypeOK UniqueNumbers SendsOnOpenedPort ConnectedClientReachable
PROPERTY NotificationReturns
CHECK_DEADLOCK FALSE
