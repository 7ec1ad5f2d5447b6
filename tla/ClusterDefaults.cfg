CONSTANTS
  MemValues <- MC_MemValues
  Unset = Unset
  UserValue = UserValue
SPECIFICATION Spec
INVARIANT TypeOK
PROPERTY
  DefaultedBufferPoolMatchesTable
