SPECIFICATION Spec
CONSTANTS
  Names <- MCNames
  Units = {"lib", "mid", "app"}
  Order <- MCOrder
  Configs <- MCConfigs
  Languages = {"go"}
  LibInputs = {"source"}
  v1 = v1
  NoPin = NoPin
  Contents = {NoPin, v1}
  MachineFields = {"pin"}
  MaxEdits = 2
  MaxRounds = 3
CHECK_DEADLOCK FALSE
INVARIANT
  PinBumpInvalidates
