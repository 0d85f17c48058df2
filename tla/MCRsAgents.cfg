SPECIFICATION FairSpec
CONSTANTS
  Handles = {h1, h2}
  None = None
  Faults = {"noThread", "noMemory", "otherError", "requestFails"}
  Programs = {"tray", "daemon", "command"}
  Ticks = 2
  MaxAlerts = 2
INVARIANTS TypeOK HandlesClosed ListenerEndsFirst DaemonKeepsRunning DriverFollowsConfig AlertsAnnounced
PROPERTIES StopReturns DaemonNoticesLoss
CHECK_DEADLOCK FALSE
