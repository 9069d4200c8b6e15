CONSTANTS
  Height = 4
  Size <- Sizes
  StartAt <- Places
  CursorRows = {0}
  MaxMove = 1
  MaxOff = 1
SPECIFICATION Spec
INVARIANTS ScreenShowsStack MouseOnTop OneLooksActive
PROPERTIES DragFollowsMouse
CHECK_DEADLOCK TRUE
