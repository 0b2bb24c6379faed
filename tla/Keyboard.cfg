SPECIFICATION FairSpec
CONSTANTS
  kLetter = kLetter
  kEnter = kEnter
  letter = letter
  Enter = Enter
  NoChar = NoChar
  Key <- MCKey
  Char <- MCChar
  keymap <- MCkeymap
  KBD_BUF_SIZE = 3
  DevMax = 1
  DownMax = 1
INVARIANTS
  TypeOK
  NeverWedged
  BootOrder
  NoGhost
PROPERTIES
  ImplementsKeyStream
  RingIsFifo
  ServedWhileTyping
