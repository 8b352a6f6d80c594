\* Two objects, three devices, two interfaces.
CONSTANTS
  h1 = h1
  h2 = h2
  h3 = h3
  i1 = i1
  i2 = i2
  o1 = o1
  o2 = o2
  None = None
  Handles = {h1, h2, h3}
  Ifs = {i1, i2}
  Objs = {o1, o2}
  Modes <- SomeModes
  Ids <- AllIds
  TUNTAP_ID_ANY = 3
SPECIFICATION BindSpec
SYMMETRY Symmetry
INVARIANTS OneOwner OwnedStarted
PROPERTY DestructionHonoursMode
