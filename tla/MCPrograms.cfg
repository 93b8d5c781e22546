CONSTANTS
  WIDTH = 8
  SIZE = 12
  SHORT = 6
  MAX_OPEN_FILE = 8
  FILE_NAME_LENGTH = 2
  SYSTEM_CALL_TABLE_SIZE = 13
  Boots <- MCBoots
  Answer <- MCAnswer
  ARGSIZE = 8
  STACK = 12
  BUFSIZE = 3
  COUNTS <- MCCOUNTS
  SCREENWIDTH = 6
  Letters <- MCLetters
  MAX_FRAMES = 13
  MAX_ALARMS = 1
  MAX_TEXT = 6
  ARG_LENGTH = 6
  PIT_FREQUENCY = 1193180
  DURATION_UNIT = 100
  BEEP = 1
  LongSongs <- MCLongSongs
  TERMINAL_TEXT_COLS = 3
  TERMINAL_TEXT_ROWS = 2
  Screens = {t1, t2}
  PRINT_STEPS = 7
SPECIFICATION Spec
INVARIANTS
  CommandsPrint
  TestsPass
  LibraryAgrees
