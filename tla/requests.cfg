SPECIFICATION Spec
CONSTANTS
  key = key
  Key = {key}
  Token <- MCToken
  Item <- MCToken
  DumpItem = "x"
  AsWord <- MCAsWord
  AsRate <- MCAsRate
  AsInteger <- MCAsInteger
  AsSeed <- MCAsSeed
  Outside = Outside
  Malformed = Malformed
  ExpansionMax = 2
  Configs <- MCConfigs
  MaxArguments = 6
  MaxItems = 2
  Seeds <- MCSeeds
  FixedSeed = "seed-fixed"
  Hash <- MCHash
  ObjectBytes = 48
  BoxBytes = 8
  FilterBytes = 208
  FpFloor = 1000
  MaxFilters = 100
  CapacityMax = 1000
  Word = 65536
  Unset = Unset
  Absent = Absent
  Foreign = Foreign
INVARIANTS LastOptionCounts AcceptedIsWellFormed CreationReplicates ReadsReflectRequest BatchesFit
