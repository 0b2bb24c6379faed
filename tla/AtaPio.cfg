SPECIFICATION Spec
CONSTANTS
  dA = dA
  dB = dB
  Data <- MCData
  Lbas = 3
  CountMax = 2
INVARIANTS
  TypeOK
  ReadGetsSectors
  QuietAfterReturn
  WritePutsSectors
PROPERTIES
  EveryCallReturns
