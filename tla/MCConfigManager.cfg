SPECIFICATION Spec
CONSTANTS
  app = app
  APP = APP
  long = long
  Processes = {p1, p2}
  Settings <- MCSettings
  Values = {1, 2}
  Default = 1
  Names = {app, APP, long}
  Folded <- MCFolded
  LongNames = {long}
  Missing = Missing
  MaxEntries = 2
  Faults = {"open", "set", "delete"}
  MaxSaves = 2
SYMMETRY Symmetric
INVARIANTS TypeOK TornSave SuccessMeansSaved
CHECK_DEADLOCK FALSE
