\* One thread, whose first call timed out.
CONSTANTS
  Handles = {h1}
  Threads = {t1}
  Adapters = {0}
  Units = {0}
  TUNTAP_ID_ANY = 9
  None = None
SPECIFICATION Spec
INVARIANT WaitsForItsOwn
