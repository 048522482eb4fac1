SPECIFICATION Spec
CONSTANTS
  Names <- MCNames
  Units = {"lib", "mid", "app"}
  Order <- MCOrder
  Configs <- MCConfigs
  Languages = {"ruby", "node-npm"}
  LibInputs = {"source"}
  v1 = v1
  NoPin = NoPin
  Contents = {NoPin, v1}
  MachineFields = {"tool", "env"}
  MaxEdits = 2
  MaxRounds = 3
CHECK_DEADLOCK FALSE
INVARIANTS
  GTypeOK
  InDegreeExact
  DepsInEarlierLevels
  EachUnitInOneLevel
  BuildIsExact
  HitIsFresh
  CiSettles
PROPERTY
  BuildReturns
