CONSTANTS
  TASK_MAX_COUNT = 4
  SCHED_TASK_TICKS = 1
  PAGE_ID_COUNT = 2
  TERMINAL_MAX_COUNT = 1
  KEYBOARD_BUF_SIZE = 2
  ShellReads = {2}
  ProgramReads = {2}
  VidmapTasks = {}
  TypedInto = {0}
  RtcCounts = {}
  LEAST_WRAPPED = 255
SPECIFICATION Spec
INVARIANT ListsLinked
