CONSTANTS
  d1 = d1
  MaxChanges <- Changed
  MaxLost <- Lost
  MaxWire <- Wired
  MaxAsked = 1
  IcZones = 2
  PerMinute = 2
  MaxTimer = 3
  Confs <- NoneOrFirst
  OwsRescan = 2
  MaxConns = 2
  Zones = 2
  MaxLines = 2
  MaxOthers = 1
  Fields <- MonitoringTypes
  RrdDevs = {"a", "b"}
  Switches = {"s"}
  Others = {"t"}
  MaxAlarms = 2
  Lamps = {d1}
  Members <- Itself
  MaxAsks = 2
  MaxPresses = 1
  MaxAir = 2
  Delay = 1
  Targets <- TwoDevices
  Hubs = {"new", "old"}
  MaxBuf = 4
  Databases <- SomeDatabases
  Files <- OneFile
  ALDB_MAXSIZE = 3
  Listed <- TwoDevices
  Groups <- TwoGroupsOfA
SPECIFICATION Spec
INVARIANTS TypeOK Obeyed EachAsked Truthful
PROPERTIES NoFalseClear  CommandsEnd
CHECK_DEADLOCK FALSE
