\* Reads and writes of the disc may fail.
SPECIFICATION Spec
CONSTANTS
  MaxWritten = 2
  NumPages = 2
  SectorsPerPage = 2
  EndOfPartition = 5
  Used = {1, 2, 4}
  Parts = {p}
  Values = {0, 1}
  Junk = 1
  AccessModulus = 2
  ReadFaults = TRUE
  WriteFaults = TRUE
CONSTRAINT FewWritten
PROPERTIES
  FailureKeepsACopy
