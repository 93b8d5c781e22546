CONSTANTS
  Task = {t1, t2, t3}
  KernelTask = kernel
  RTC_HARDWARE_FREQUENCY = 16
  Frequency = {1, 2, 3, 4}
  MAX_RTC_FD = 1
SPECIFICATION Spec
INVARIANTS
  RtcTypeOK
  WakesOnTime
PROPERTY RtcReadReturns
