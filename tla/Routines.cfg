SPECIFICATION Spec
CONSTANTS
  ROOM = 6
  LINE = 3
  WIDTH = 4
  HEIGHT = 3
  PITCH = 5
  ENTRIES = 4
  PAGE = 16
  TABLES_AT = 64
  Numbers <- MCNumbers
  Places <- MCPlaces
INVARIANTS
  Decodes
  TextRight
  MapsRight
