SPECIFICATION Spec
CONSTANTS
  COLS = 4
  ROWS = 2
  Space = " "
  Newline = "NL"
  Backspace = "BS"
  Smeared = "smeared"
  Typed <- MCTyped
  Dot = "."
  Prompt = ">"
  Upper <- MCUpper
  Suffix <- MCSuffix
  LINE_SIZE = 6
  FILE_SIZE = 5
  BASE_LEN = 2
  EXT_LEN = 1
  Dir <- MCDir
  Builtin <- MCBuiltin
  ClearLine <- MCClearLine
  Output <- MCOutput
  CxMax = 6
INVARIANTS
  TypeOK
  PromptShowsLine
  NothingSmeared
  NameFits
  ArgvOfPlainLine
