CONSTANTS
  Task = {t1, t2}
  KernelTask = kernel
  None = none
  Value = {0, 1}
  HandledByUser = {3}
  RaisedByProgram = {1}
  ALARM_TICKS = 0
SPECIFICATION Spec
INVARIANTS
  SigTypeOK
  OneHandlerAtATime
  InterruptedProgramIntact
  PromptDelivery
PROPERTY CtrlCKills
