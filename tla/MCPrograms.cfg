SPECIFICATION MCSpec
CONSTANTS
  TASK_SIZE = 2
  MAX_THREADS = 3
  DEFAULT_PIXEL_WIDTH = 4
  DEFAULT_PIXEL_HEIGHT = 4
  DEFAULT_MAX_ITER = 1
  Sizes = {0, 1, 3, 5}
  Iterations = {0}
  ThreadNumbers = {0, 2, 3, 4}
  CHIMES = 3
  BYTES = 4
  Names = {"a", "b", "temp.txt"}
  Contents <- MCContents
  MaxSizes = {2, 25000}
  LIMIT = 2
  BUFFER_SIZE = 4
  Checked <- MCChecked
  WORD = 2
  DEFAULT_READ_BUFFER = 5
  Captures <- MCCaptures
CHECK_DEADLOCK FALSE
INVARIANTS
  ProgramsTypeOK
  PixelsApart
  PictureWhole
  ChimeQuitIsGraceful
  BytecheckCountIsClose
  PacketsOfTheFile
PROPERTIES
  ProgramsEnd
  BitflipCopies
