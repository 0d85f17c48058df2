SPECIFICATION Spec
CONSTANTS
  MaxOps = 3
  Thresholds <- MCThresholds
  Windows <- MCWindows
  MaxClock = 4
  MaxLag = 3
  MaxLog = 5
PROPERTY NoFalseAlarm
