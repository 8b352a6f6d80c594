\* Names that move under the calls of two devices, IPv6 addresses included.
CONSTANTS
  None = None
  Gone = Gone
  NoName = NoName
  NoHw = NoHw
  NoAddr = NoAddr
  AnyAddr6 = AnyAddr6
  Modes = {"tun"}
  Handles = {h1, h2}
  Ifs = {i1, i2}
  IfNames = {n1, n2}
  OtherFlags = {}
  HwAddrs = {}
  BadHws = {}
  Mtus <- Nothing
  Addrs4 = {}
  Addrs6 = {a6}
  Netmasks = {1}
  Faults <- FaultsOfIPv6
  AdminTouches <- TouchNames
  W = 4
SPECIFICATION Spec
SYMMETRY Symmetry
INVARIANTS FlagsKnown NoSocketLeft
PROPERTY NeverAstray
