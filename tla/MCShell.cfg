CONSTANTS
  kRows = 3
  kColumns = 5
  kLineMax = 8
  HistorySize = 2
  Levels = 3
  Entries = 4
  PageBytes = 4
  FAT <- Table
  EndMarks = {8, 9}
  Directory <- RootDirectory
  root_cluster = 2
  bytes_per_cluster = 2
  Chars = {"a"}
  Texts <- Written
  Names <- FileNames
  Image <- Files
  Frames = {1, 2, 3, 4, 5, 6, 7, 8, 9, 10, 11, 12}
SPECIFICATION Spec
INVARIANTS LineShown  FramesAccounted MemoryComesBack ProgramLoaded
CHECK_DEADLOCK TRUE
