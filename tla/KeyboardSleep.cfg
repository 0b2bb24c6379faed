SPECIFICATION FairSpec
CONSTANTS
  kLetter = kLetter
  kEnter = kEnter
  letter = letter
  Enter = Enter
  NoChar = NoChar
  Key <- MCKey
  Char <- MCChar
  keymap <- MCkeymap
  KBD_BUF_SIZE = 2
  DevMax = 2
  DownMax = 1
PROPERTIES
  SleeperServed
