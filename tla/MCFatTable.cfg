\* A FAT32 volume whose table is followed by zero padding, as usual.
SPECIFICATION Spec
CONSTANTS
  Files = {f1, f2}
  LastCluster = 5
  PastEnd = 0
  FilesysType = "FAT32"
  CountCap = 5
  ReadFaults = FALSE
SYMMETRY FilesSymmetry
INVARIANTS
  TypeOK
  NoCrossLinks
  NoLostClusters
  ChainsTerminated
  FreeCountExact
PROPERTIES
  NoSpaceOnlyWhenFull
  LinkTakesFreeCluster
  OtherChainsUntouched
