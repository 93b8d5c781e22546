CONSTANTS
  TASK_MAX_COUNT = 5
  SCHED_TASK_TICKS = 2
SPECIFICATION SchedSpec
INVARIANTS
  SchedTypeOK
  ListsLinked
  ListsComplete
  RunningIsRunnable
  HandlerStaysInList
PROPERTIES
  IdleOnlyWhenAlone
  ImplementsReadyQueue
  EveryoneServed
