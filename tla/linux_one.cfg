\* One handle, every argument and every fault, thefts included.
CONSTANTS
  h1 = h1
  h2 = h2
  i1 = i1
  i2 = i2
  App = App
  None = None
  Handles = {h1}
  Ifs = {i1, i2}
  Fds <- Fds3
  Modes <- AllModes
  Tuns <- AllTuns
  NewNames <- LongNames
  Faults <- AllFaults
  TUNTAP_ID_MAX = 1
  MaxUnit = 2
SPECIFICATION Spec
SYMMETRY IfSymmetry
INVARIANTS TypeOK Intact SocketsNeverLeak
PROPERTIES OnlyDestroyUnpersists LostToAnIoctlOrByNumber Lives
