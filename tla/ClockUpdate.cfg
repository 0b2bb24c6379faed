SPECIFICATION ClockSpec
CONSTANTS
  N = 3
  First <- MCFirst
  Last <- MCLast
INVARIANTS
  ReadsCurrentTime
CHECK_DEADLOCK FALSE
