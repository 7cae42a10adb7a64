\* Three pages' worth of sectors, the last page short, two pages of memory, on
\* a disc that writes may fail on; up to two sectors hold data at a time.
SPECIFICATION Spec
CONSTANTS
  MaxWritten = 2
  NumPages = 2
  SectorsPerPage = 2
  EndOfPartition = 5
  Used = {1, 2, 4}
  Parts = {p}
  Values = {0, 1}
  Junk = 1
  AccessModulus = 2
  ReadFaults = FALSE
  WriteFaults = TRUE
CONSTRAINT FewWritten
INVARIANTS
  TypeOK
  Coherent
  CleanPagesMatchDisc
  SyncedIsDurable
PROPERTIES
  StoreSpec
