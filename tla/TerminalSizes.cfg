CONSTANTS
  KEYBOARD_BUF_SIZE = 4
  Keys = {"ctrl", "lshift", "caps", "c", "l", "one", "enter", "back"}
  ReadSizes = {1, 2}
  MAX_HELD = 2
  LEAST_WRAPPED = 253
SPECIFICATION Spec
INVARIANTS
  EveryReadGivesTyped
