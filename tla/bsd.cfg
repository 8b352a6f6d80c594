\* Two handles, on each of the four systems, up to the first theft.
CONSTANTS
  h1 = h1
  h2 = h2
  App = App
  None = None
  Handles = {h1, h2}
  Ifs <- Nodes
  Fds <- Fds4
  Systems <- AllSystems
  Modes <- SomeModes
  Tuns <- SomeTuns
  NewNames <- SomeNames
  Faults <- SomeFaults
  TUNTAP_ID_MAX = 2
  MaxUnit = 2
SPECIFICATION Spec
SYMMETRY Symmetry
CONSTRAINT Bounds
INVARIANTS TypeOK Intact ExclusiveInterface PersistHonoured DestroyNotBlockedByOwn
PROPERTIES LostToAnIoctlOrByNumber LivesByName
