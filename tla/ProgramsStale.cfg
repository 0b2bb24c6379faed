SPECIFICATION Spec
CONSTANTS
  fA = fA
  fB = fB
  NoFile = NoFile
  Garbled = Garbled
  File <- MCFile
  Clusters <- MCClusters2
  MAX_KFILES = 3
  UBLOCK_COUNT = 3
  PosMax = 1
INVARIANTS
  RunsNamedFile
