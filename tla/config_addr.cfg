\* The attributes of one device: flags, link-layer address, MTU, IPv4 address
\* under every netmask, against an administrator who changes them too.
CONSTANTS
  None = None
  Gone = Gone
  NoName = NoName
  NoHw = NoHw
  NoAddr = NoAddr
  AnyAddr6 = AnyAddr6
  Modes = {"tun", "tap"}
  Handles = {h1}
  Ifs = {i1}
  IfNames = {n1}
  OtherFlags = {promisc}
  HwAddrs = {hw1, hw2, mc}
  BadHws = {mc}
  Mtus <- SomeMtus
  Addrs4 = {a1, a2}
  Addrs6 = {}
  Netmasks <- EveryNetmask
  Faults <- FaultsOfAttributes
  AdminTouches <- TouchAttributes
  W = 4
SPECIFICATION Spec
INVARIANTS TypeOK FlagsKnown HwaddrKnown
PROPERTY AddressUnderPrefix
