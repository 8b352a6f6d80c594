\* Two threads on a device whose queues hold two packets and take one.
CONSTANTS
  Threads = {t1, t2}
  Queue = 2
  Room = 1
  Mtus = {1, 2}
  Headers = {0}
  Fionreads = {TRUE}
  Timeouts <- SomeTimeouts
SPECIFICATION Spec
INVARIANTS StuckOnlyIfOvertaken SizedReadWhole
PROPERTIES TimedCallEnds NonblockingEnds
