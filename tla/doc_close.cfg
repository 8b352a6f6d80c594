\* Violated: what doc/api.md says and the code does not do.
CONSTANTS
  h1 = h1
  h2 = h2
  i1 = i1
  i2 = i2
  App = App
  None = None
  Handles = {h1, h2}
  Ifs = {i1, i2}
  Fds <- Fds4
  Modes <- TwoModes
  Tuns <- SomeTuns
  NewNames <- NoNames
  Faults <- NoFaults
  TUNTAP_ID_MAX = 2
  MaxUnit = 2
SPECIFICATION Spec
INVARIANT NothingStolen
