SPECIFICATION Spec
CONSTANTS
  BlockSectors = 4
  Size = 9
  Values = {0, 1, 2}
  Garbled = Garbled
  BufferSectors = 1
  NumPages = 2
  FsInfo = 1
  Table = 3
  Writes <- MCWrites
INVARIANTS TypeOK FlushedIsKept KillLosesLittle
PROPERTIES UnmountKeeps
