\* Violated: what doc/api.md says and the code does not do.
CONSTANTS
  None = None
  Gone = Gone
  NoName = NoName
  NoHw = NoHw
  NoAddr = NoAddr
  AnyAddr6 = AnyAddr6
  Modes = {"tun", "tap"}
  Handles = {h1}
  Ifs = {i1}
  IfNames = {n1}
  OtherFlags = {}
  HwAddrs = {hw1}
  BadHws = {}
  Mtus <- Nothing
  Addrs4 = {}
  Addrs6 = {b1, b2}
  Netmasks = {4}
  Faults <- Nothing
  AdminTouches <- Nothing
  W = 4
SPECIFICATION Spec
INVARIANT OneAddress6
