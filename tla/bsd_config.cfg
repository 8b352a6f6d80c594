\* Two devices, two addresses, two masks, every failure, an administrator.
CONSTANTS
  Handles = {h1, h2}
  Addrs = {a1, a2}
  Masks = {m1, m2}
  ClassMask = mc
  NoText = NoText
  Descrs = {NoText, d1, d2}
  Systems = {"openbsd", "freebsd", "darwin"}
  Faults = {"SIOCAIFADDR", "SIOCSIFADDR", "SIOCSIFNETMASK", "SIOCGIFDESCR"}
  MaxAdded = 2
SPECIFICATION Spec
INVARIANTS SettledAddress OwnDescription
