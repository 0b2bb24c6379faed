SPECIFICATION Spec
CONSTANTS
  nA = nA
  nB = nB
  Name <- MCName
  NoName = NoName
  ROOT_SEC = 2
  PER_SEC = 2
  FAT_SEC = 2
  FAT_PER_SEC = 3
  NFATS = 2
  CLUSTERS = 3
SYMMETRY MCSymmetry
INVARIANTS
  FreeSpaceTrue
