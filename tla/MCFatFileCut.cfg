SPECIFICATION Spec
CONSTANTS
  Files = {f1, f2}
  Byte = {0, 1}
  Stale = 1
  Modes <- MCModes
  MaxOpen = 1
  bytesPerSector = 2
  sectorsPerCluster = 1
  Clusters = {c1, c2}
  CLUSTER_FREE = free
  CLUSTER_EOF = eof
  MaxSize = 5
  MaxLen = 3
  Rules = {"gap", "room", "border"}
SYMMETRY MCSymmetry
PROPERTY WritesStayInFile
