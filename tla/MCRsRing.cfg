SPECIFICATION Spec
CONSTANTS
  MaxOps = 3
  Thresholds <- MCThresholds
  Windows <- MCWindows
  MaxClock = 4
  MaxLag = 2
  MaxLog = 5
INVARIANT TypeOK
PROPERTY RingImplementsWindow
PROPERTY DetectionIsExact
PROPERTY NoMissedBurst
