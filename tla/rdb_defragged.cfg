SPECIFICATION PSpec
CONSTANTS
  key1 = key1
  key2 = key2
  Key = {key1}
  NumberOfItems = 5
  Item <- MCItem
  Seeds <- MCSeeds
  FixedSeed = "fixed"
  Hash <- MCHash
  DumpItem <- MCDumpItem
  ObjectBytes = 48
  BoxBytes = 8
  FilterBytes = 208
  FpFloor = 1000
  MaxFilters = 100
  CapacityMax = 1000
  Word = 65536
  Unset = Unset
  Absent = Absent
  Foreign = Foreign
  Commands <- TightCommands
  InitialConfig <- TightConfig
  ConfigChanges <- NoChanges
  RestartConfigs <- TightRestarts
  AppendOnly = FALSE
  MaxLog = 1
INVARIANT SnapshotLoads
