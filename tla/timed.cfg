\* Three calls by two threads and the event loop, timers of three lengths.
SPECIFICATION FairCallbacksSpec
CONSTANTS
  Threads = {t1, t2}
  Readers = {t1}
  EventLoop = EventLoop
  Infos = {1, 2, 3}
  NULL = NULL
  Wakeup = Wakeup
  Delays = {0, 2}
  WakeTimeout = 1
  MaxCalls = 3
INVARIANT WakeLockIsTimed
PROPERTIES EveryCallbackRuns RunsInOrder
CHECK_DEADLOCK FALSE
