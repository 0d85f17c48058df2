SPECIFICATION Spec
CONSTANTS
  system = system
  ordinary = ordinary
  builtin = builtin
  app = app
  other = other
  svchost = svchost
  Names = {app, other}
  EmptyName = EmptyName
  Lists <- MCLists
  MaxEntries = 2
  MaxChunk = 1
  Threads = {t1, t2}
  Pids <- MCPids
  SystemPids = {system}
  Image <- MCImage
  StaticNames = {svchost}
  NoName = NoName
  NoPid = NoPid
SYMMETRY Symmetric
INVARIANTS TypeOK PushInstallsList NoMixedList NamesFreed SubsystemsReady NothingLeft
PROPERTY AllowlistHonoured
CHECK_DEADLOCK FALSE
