SPECIFICATION Spec
CONSTANTS
  Handles = {h1, h2}
  None = None
  Faults = {}
  Programs = {"tray"}
  Ticks = 2
  MaxAlerts = 1
INVARIANT ConnectedMeansListening
CHECK_DEADLOCK FALSE
