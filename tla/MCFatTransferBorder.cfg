SPECIFICATION Spec
CONSTANTS
  Operations = {"read"}
  Geometries <- MCGeometries
  LastCluster = 4
  MaxLen = 9
  IoFaults = FALSE
  ReadsAtBorder = TRUE
PROPERTY
  NothingReadWhileDue
CHECK_DEADLOCK FALSE
