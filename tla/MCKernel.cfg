CONSTANTS
  CursorPeriod = 3
  MaxEvents = 2
  MaxKeyEvents = 1
  MaxInbox = 2
  MaxLag = 4
SPECIFICATION FairSpec
INVARIANTS NoLostWakeup BootBeforeTerminal OneCursorTimer
PROPERTIES CursorsBlink
CHECK_DEADLOCK TRUE
