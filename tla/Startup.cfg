SPECIFICATION Spec
CONSTANTS
  SECTORS = 2
  KernelLba = 72
  KeyMax = 2
  N = 2
  First <- MCFirst
  Last <- MCLast
  Lbas = {0, 1}
  PARTS = 2
  POLLS = 1
INVARIANTS
  TypeOK
  NoInterruptInBios
  KernelLoaded
  QuietKeyboardReady
  SectorOrFill
  NeverEarly
PROPERTIES
  StartEnds
  AtapiReturns
CHECK_DEADLOCK FALSE
