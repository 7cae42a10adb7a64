\* Requests for whole blocks, two and a short one, by a program
\* that may be killed, with faults.
SPECIFICATION RequestSpec
CONSTANTS
  BlockSectors = 2
  Size = 5
  Values = {0}
  Garbled = garbled
  BufferSectors = 1
  Faults = TRUE
  Kills = TRUE
PROPERTIES
  PageSpec
