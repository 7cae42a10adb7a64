SPECIFICATION Spec
CONSTANTS
  Operations = {"read", "write", "extend"}
  Geometries <- MCGeometries
  LastCluster = 5
  MaxLen = 12
  IoFaults = TRUE
  ReadsAtBorder = FALSE
INVARIANTS
  TypeOK
  BytesInPlace
  PositionFollows
  CountedBytesMoved
  NoOverAllocation
  ErasesNothingOfTheFile
PROPERTY
  Returns
CHECK_DEADLOCK FALSE
