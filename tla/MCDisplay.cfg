CONSTANTS
  VGA_WIDTH = 27
  VGA_HEIGHT = 12
  PAGE_ROWS = 4
  START_LOW = 4
  FONT_WIDTH = 3
  FONT_HEIGHT = 2
  FONT_HALF = 8
  TERMINAL_TEXT_COLS = 2
  TERMINAL_TEXT_ROWS = 2
  LEFT_RIGHT_MARGIN = 1
  TITLE_BAR_HEIGHT = 2
  DOWN_MARGIN = 1
  RED <- MCRed
  YELLOW <- MCYellow
  GREEN <- MCGreen
  GREY <- MCGrey
  TERMINAL_B <- MCTerminalB
  CLOCK <- MCClock
  GUI_MAX_WINDOW_NUM = 3
  Positions <- MCPositions
  time <- MCTime
SPECIFICATION Spec
INVARIANTS
  FrameShown
  DrawsUnseen
