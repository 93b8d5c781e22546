CONSTANTS
  VGA_WIDTH = 8
  VGA_HEIGHT = 6
  CURSOR = 1
  TERMINAL_WIDTH = 4
  TERMINAL_HEIGHT = 2
  LEFT_RIGHT_MARGIN = 1
  TITLE_BAR_HEIGHT = 2
  DOWN_MARGIN = 0
  INITIAL_X = 1
  INITIAL_Y = 2
  OFFSET_X = 1
  OFFSET_Y = 1
  RED <- MCRed
  YELLOW <- MCYellow
  GREEN <- MCGreen
  STATUS_BAR_HEIGHT = 1
  TERMINAL_B_X = 5
  TERMINAL_B_WIDTH = 2
  START <- MCStart
  GUI_MAX_WINDOW_NUM = 2
  Moves <- MCMoves
  MAX_SUSPENDED = 1
SPECIFICATION Spec
INVARIANTS
  MouseTypeOK
  WindowsOnScreen
  GripHolds
