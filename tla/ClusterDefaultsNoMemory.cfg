CONSTANTS
  MemValues <- MC_MemValues
  Unset = Unset
  UserValue = UserValue
SPECIFICATION Spec
PROPERTY MemoryDefaultsNeedMemory
