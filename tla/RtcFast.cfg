CONSTANTS
  Task = {t1, t2}
  KernelTask = kernel
  RTC_HARDWARE_FREQUENCY = 16
  Frequency = {4, 8}
  MAX_RTC_FD = 1
SPECIFICATION Spec
PROPERTY RtcReadReturns
