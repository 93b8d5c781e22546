CONSTANTS
  TASK_MAX_COUNT = 5
  SCHED_TASK_TICKS = 1
  TERMINAL_MAX_COUNT = 2
  PAGE_ID_COUNT = 3
  KEYBOARD_BUF_SIZE = 2
  ShellReads = {2}
  ProgramReads = {1}
  VidmapTasks = {3, 4}
  TypedInto = {0}
  RtcCounts = {1}
  LEAST_WRAPPED = 255
SPECIFICATION Spec
INVARIANTS
  TypeOK
  KernelListsLinked
  ListsAgree
  ResourcesAccounted
  OwnAddressSpace
  ReadersKeptApart
  TaskTree
  WindowsMatchTerminals
PROPERTY ParentReturnsOnlyAfterChild
