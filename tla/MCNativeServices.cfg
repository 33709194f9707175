CONSTANTS
  Parts = {"timer", "freertos_timer", "work_queue", "wait_signal"}
  TimBackends = {"posix", "qnx", "linux", "zephyr", "cmsis_rtos2", "cmsis_rtos", "micrium",
                 "px5", "threadx", "nuttx", "chibios", "embos", "vxworks", "bare_metal"}
  QueueLength = 3
  WkqOses = {"posix", "zephyr", "nuttx"}
  WkqTasks = {t1, t2}
  JobCount = 3
  Depth = 2
  MaxFlushes = 2
  Owners = {w1, c1, c2}
  Waiters = {w1}
  Requesters = {r1}
  Producers = {p1}
  MaxCallbacks = 2
  NoOwner = NoOwner
  GenMod = 2
SPECIFICATION MCSpec
INVARIANTS
  ClosedIsQuiet
  TimOncePerStart
  WkqKeepsItsWord
PROPERTIES
  ServicesObey
  ServicesReturn
CHECK_DEADLOCK FALSE
