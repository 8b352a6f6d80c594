\* Two devices on two adapters and two threads that use either.
CONSTANTS
  Handles = {h1, h2}
  Threads = {t1, t2}
  Adapters = {0, 1}
  Units = {1, 2, 9}
  TUNTAP_ID_ANY = 9
  None = None
SPECIFICATION Spec
INVARIANTS TypeOK AdapterMine
PROPERTIES LateOnlyIfCrossedOrExpired TimedCallEnds
