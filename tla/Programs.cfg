SPECIFICATION Spec
CONSTANTS
  fA = fA
  fB = fB
  NoFile = NoFile
  Garbled = Garbled
  File <- MCFile
  Clusters <- MCClusters
  MAX_KFILES = 3
  UBLOCK_COUNT = 3
  PosMax = 1
SYMMETRY FileSymmetry
INVARIANTS
  TypeOK
  FdMeansItsFile
  TableAccounted
  HeapAccounted
PROPERTIES
  ImplementsHandles
