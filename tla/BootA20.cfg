SPECIFICATION BootSpec
CONSTANTS
  SECTORS = 1
  KernelLba = 72
  KeyMax = 1
INVARIANT
  ReadsOutputPort
CHECK_DEADLOCK FALSE
