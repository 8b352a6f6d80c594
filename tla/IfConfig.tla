------------------------------- MODULE IfConfig ------------------------------
(***************************************************************************)
(* The configuration of started devices on Linux: tuntap_up, tuntap_down,  *)
(* tuntap_set_mtu, tuntap_set_hwaddr, tuntap_set_ifname and tuntap_set_ip  *)
(* of src/tuntap.c, src/tuntap-unix.c and src/tuntap-unix-linux.c, while   *)
(* an administrator configures, renames and deletes the same interfaces.   *)
(*                                                                         *)
(* Every call finds its interface by the name cached in the handle.  How a *)
(* device is started and given back, one system call at a time, is in      *)
(* TunTapLinux: here each is one step.                                     *)
(***************************************************************************)
EXTENDS Netmask, FiniteSets

CONSTANTS Handles, Ifs, None, Modes,
          Gone,          \* what a started device is attached to after its
                         \* interface was deleted
          IfNames, NoName,
          OtherFlags,    \* interface flags besides UP
          HwAddrs,       \* link-layer addresses ("random" is any of them)
          BadHws,        \* those the kernel refuses (multicast, zero)
          NoHw,          \* the address of all zeros
          Mtus, Addrs4, Addrs6, NoAddr, AnyAddr6,
          Netmasks,      \* the netmask arguments of tuntap_set_ip
          Faults,        \* system calls that may fail for reasons of their own
          AdminTouches   \* what the administrator changes

Attrs == {"name", "flags", "hwaddr", "mtu", "addr", "mask", "addr6"}
SysCalls == {"SIOCSIFFLAGS", "SIOCSIFMTU", "SIOCSIFHWADDR", "SIOCGIFHWADDR",
             "SIOCSIFADDR", "SIOCSIFNETMASK", "socket", "SIOCGIFINDEX",
             "SIOCSIFADDR6"}

ASSUME ModesAssumption == Modes \subseteq {"tun", "tap"}
ASSUME NoneAssumption ==
  None \notin Ifs \cup Handles /\ Gone \notin Ifs /\ None # Gone
ASSUME NameAssumption == NoName \notin IfNames
ASSUME HwAssumption == BadHws \subseteq HwAddrs /\ NoHw \notin HwAddrs
ASSUME MtuAssumption == Mtus \subseteq Int
ASSUME AddrAssumption == NoAddr \notin Addrs4 /\ AnyAddr6 \notin Addrs6
ASSUME NetmasksAssumption == Netmasks \subseteq Int
ASSUME TouchesAssumption == AdminTouches \subseteq Attrs /\ Faults \subseteq SysCalls

VARIABLES link,     \* the interfaces of the system
          tun_fd,   \* the interface the descriptor is attached to, or None
          if_name, flags, hwaddr,  \* the cached fields of struct device
          pc, req,  \* the next system call of a tuntap_set_ip, its arguments
          sock6,    \* whether the local IPv6 socket of tuntap_set_ip is open
          foreign   \* ghost: what was last written by somebody else than the
                    \* handle attached to the interface

devVars == <<tun_fd, if_name, flags, hwaddr>>
callVars == <<pc, req, sock6>>
vars == <<link, devVars, callVars, foreign>>

Flags == {"UP"} \cup OtherFlags
ClassMask == -1     \* the mask the kernel gives a new address
Links == [type : Modes \cup {"tun"}, name : IfNames \cup {NoName}, flags : SUBSET Flags,
          hwaddr : HwAddrs \cup {NoHw}, mtu : Int, addr : Addrs4 \cup {NoAddr},
          mask : Words \cup {ClassMask}, addr6 : SUBSET (Addrs6 \X Int)]
Absent == [type |-> "tun", name |-> NoName, flags |-> {}, hwaddr |-> NoHw,
           mtu |-> 1500, addr |-> NoAddr, mask |-> ClassMask, addr6 |-> {}]
NoReq == [addr |-> NoAddr, netmask |-> 0, mask |-> 0, ifc |-> None]
Reqs == [addr : Addrs4 \cup Addrs6 \cup {NoAddr}, netmask : Int, mask : Words,
         ifc : Ifs \cup {None}]

TypeOK == /\ link \in [Ifs -> Links]
          /\ tun_fd \in [Handles -> Ifs \cup {None, Gone}]
          /\ if_name \in [Handles -> IfNames \cup {NoName}]
          /\ flags \in [Handles -> SUBSET Flags]
          /\ hwaddr \in [Handles -> HwAddrs \cup {NoHw}]
          /\ pc \in [Handles -> {"idle", "setmask", "getindex", "del6", "set6"}]
          /\ req \in [Handles -> Reqs]
          /\ sock6 \in [Handles -> BOOLEAN]
          /\ foreign \in [Ifs -> SUBSET Attrs]

-----------------------------------------------------------------------------
(***************************************************************************)
(* The kernel's side of the ioctls.                                        *)
(***************************************************************************)
Exists(i) == link[i].name # NoName
Started(h) == tun_fd[h] # None
Attached(i) == \E h \in Handles : tun_fd[h] = i
Free(name) == \A i \in Ifs : link[i].name # name

\* The control socket of a started device finds an interface by its name.
Reaches(h, i) == Started(h) /\ Exists(i) /\ link[i].name = if_name[h]
Unreachable(h) == \A i \in Ifs : ~Reaches(h, i)

\* w (a handle, or None for the administrator) writes an attribute of i.  A
\* changed name stays marked: the cached one may be stale ever after.
Mark(w, i, attr) ==
  foreign' = [foreign EXCEPT ![i] =
    IF w \in Handles /\ tun_fd[w] = i
    THEN IF attr = "name" THEN @ ELSE @ \ {attr}
    ELSE @ \cup {attr}]
Set(w, i, attr, value) ==
  link' = [link EXCEPT ![i][attr] = value] /\ Mark(w, i, attr)

\* A new address comes with the mask of its class; the same one changes
\* nothing.
SetAddr(w, i, addr) ==
  /\ link' = IF link[i].addr = addr THEN link
             ELSE [link EXCEPT ![i].addr = addr, ![i].mask = ClassMask]
  /\ Mark(w, i, "addr")

GoodMtu(mtu) == mtu \in 68..65521
GoodHw(i, hw) == link[i].type = "tap" /\ hw \notin BadHws

\* An interface disappears: its descriptor and a saved index lead nowhere.
Remove(i) ==
  /\ link' = [link EXCEPT ![i] = Absent]
  /\ foreign' = [foreign EXCEPT ![i] = {}]
  /\ req' = [g \in Handles |->
               IF req[g].ifc = i THEN [req[g] EXCEPT !.ifc = None] ELSE req[g]]

-----------------------------------------------------------------------------
(***************************************************************************)
(* The device: what a successful tuntap_start saves, and its release.      *)
(***************************************************************************)
\* A new interface; the kernel gives a tap an address.
FreeNames == {name \in IfNames : Free(name)}
NewHws(type) == IF type = "tap" THEN HwAddrs \ BadHws ELSE {NoHw}
NewLink(type, name, hw) ==
  [Absent EXCEPT !.type = type, !.name = name, !.hwaddr = hw]
FreshLinks(type) ==
  {NewLink(type, name, hw) : name \in FreeNames, hw \in NewHws(type)}

no_mac(h, i) == hwaddr' = hwaddr                 \* mutant of SaveHwaddr
SaveHwaddr(h, i) ==
  \/ hwaddr' = [hwaddr EXCEPT ![h] = IF link'[i].type = "tap" THEN link'[i].hwaddr ELSE @]
  \/ "SIOCGIFHWADDR" \in Faults /\ hwaddr' = hwaddr

tuntap_start(h, type) ==
  /\ pc[h] = "idle" /\ ~Started(h)
  /\ \E i \in Ifs :
       /\ \/ /\ ~Exists(i)
             /\ \E new \in FreshLinks(type) : link' = [link EXCEPT ![i] = new]
          \/ /\ Exists(i) /\ ~Attached(i) /\ link[i].type = type
             /\ link' = link
       /\ tun_fd' = [tun_fd EXCEPT ![h] = i]
       /\ if_name' = [if_name EXCEPT ![h] = link'[i].name]
       /\ flags' = [flags EXCEPT ![h] = link'[i].flags]
       /\ SaveHwaddr(h, i)
       /\ foreign' = [foreign EXCEPT ![i] = {}]
  /\ UNCHANGED callVars

\* The handle is freed; a persistent interface stays.
tuntap_release(h) ==
  /\ pc[h] = "idle"
  /\ \/ tun_fd[h] \in Ifs /\ Remove(tun_fd[h])
     \/ UNCHANGED <<link, foreign, req>>
  /\ tun_fd' = [tun_fd EXCEPT ![h] = None]
  /\ if_name' = [if_name EXCEPT ![h] = NoName]
  /\ flags' = [flags EXCEPT ![h] = {}]
  /\ hwaddr' = [hwaddr EXCEPT ![h] = NoHw]
  /\ UNCHANGED <<pc, sock6>>

-----------------------------------------------------------------------------
(***************************************************************************)
(* Calls of one ioctl.                                                     *)
(***************************************************************************)
cache_anyway(h, new) ==                          \* mutant of SetFlags
  /\ pc[h] = "idle"
  /\ flags' = [flags EXCEPT ![h] = new]
  /\ \/ \E i \in Ifs : Reaches(h, i) /\ Set(h, i, "flags", new)
     \/ /\ Unreachable(h) \/ "SIOCSIFFLAGS" \in Faults
        /\ UNCHANGED <<link, foreign>>
  /\ UNCHANGED <<tun_fd, if_name, hwaddr, callVars>>

\* All the flags are written, as cached but for UP.
SetFlags(h, new) ==
  /\ pc[h] = "idle"
  /\ \/ /\ \E i \in Ifs : Reaches(h, i) /\ Set(h, i, "flags", new)
        /\ flags' = [flags EXCEPT ![h] = new]
     \/ /\ Unreachable(h) \/ "SIOCSIFFLAGS" \in Faults
        /\ UNCHANGED <<link, foreign, flags>>
  /\ UNCHANGED <<tun_fd, if_name, hwaddr, callVars>>

tuntap_up(h) == SetFlags(h, flags[h] \cup {"UP"})
tuntap_down(h) == SetFlags(h, flags[h] \ {"UP"})

\* On a device that is not started nothing is done, and 0 is returned.
tuntap_set_mtu(h, mtu) ==
  /\ pc[h] = "idle"
  /\ \/ \E i \in Ifs : Reaches(h, i) /\ GoodMtu(mtu) /\ Set(h, i, "mtu", mtu)
     \/ /\ Unreachable(h) \/ ~GoodMtu(mtu) \/ "SIOCSIFMTU" \in Faults
        /\ UNCHANGED <<link, foreign>>
  /\ UNCHANGED <<devVars, callVars>>

\* The address is cached before the ioctl, also when the ioctl fails.
tuntap_set_hwaddr(h, hw) ==
  /\ pc[h] = "idle"
  /\ hwaddr' = [hwaddr EXCEPT ![h] = hw]
  /\ \/ \E i \in Ifs : Reaches(h, i) /\ GoodHw(i, hw) /\ Set(h, i, "hwaddr", hw)
     \/ /\ \/ Unreachable(h)
           \/ \E i \in Ifs : Reaches(h, i) /\ ~GoodHw(i, hw)
           \/ "SIOCSIFHWADDR" \in Faults
        /\ UNCHANGED <<link, foreign>>
  /\ UNCHANGED <<tun_fd, if_name, flags, callVars>>

keep_old_name(h, name) == if_name' = if_name     \* mutant of CacheName
CacheName(h, name) == if_name' = [if_name EXCEPT ![h] = name]

\* An interface that is up is renamed only by recent kernels.
tuntap_set_ifname(h, name) ==
  /\ pc[h] = "idle"
  /\ \/ /\ \E i \in Ifs : /\ Reaches(h, i)
                          /\ \A j \in Ifs \ {i} : link[j].name # name
                          /\ Set(h, i, "name", name)
        /\ CacheName(h, name)
     \/ /\ \/ Unreachable(h) \/ ~Free(name)
           \/ \E i \in Ifs : Reaches(h, i) /\ "UP" \in link[i].flags
        /\ UNCHANGED <<link, foreign, if_name>>
  /\ UNCHANGED <<tun_fd, flags, hwaddr, callVars>>

-----------------------------------------------------------------------------
(***************************************************************************)
(* tuntap_set_ip                                                           *)
(***************************************************************************)
Goto(h, step) == pc' = [pc EXCEPT ![h] = step]
Return(h) == Goto(h, "idle") /\ req' = [req EXCEPT ![h] = NoReq]

\* IPv4: SIOCSIFADDR, then SIOCSIFNETMASK.
set_ipv4_addr(h, addr, netmask) ==
  /\ pc[h] = "idle" /\ Started(h) /\ ~NetmaskRefused(netmask)
  /\ \/ \E i \in Ifs, m \in Masks(netmask) :
          /\ Reaches(h, i)
          /\ SetAddr(h, i, addr)
          /\ Goto(h, "setmask")
          /\ req' = [req EXCEPT ![h] =
               [addr |-> addr, netmask |-> netmask, mask |-> m, ifc |-> None]]
     \/ /\ Unreachable(h) \/ "SIOCSIFADDR" \in Faults
        /\ UNCHANGED <<link, foreign, pc, req>>
  /\ UNCHANGED <<devVars, sock6>>

set_ipv4_mask(h) ==
  /\ pc[h] = "setmask"
  /\ \/ \E i \in Ifs :
          /\ Reaches(h, i) /\ link[i].addr # NoAddr
          /\ Set(h, i, "mask", req[h].mask)
     \/ /\ \/ \A i \in Ifs : ~(Reaches(h, i) /\ link[i].addr # NoAddr)
           \/ "SIOCSIFNETMASK" \in Faults
        /\ UNCHANGED <<link, foreign>>
  /\ Return(h)
  /\ UNCHANGED <<devVars, sock6>>

\* IPv6: a socket of its own, the interface's index, a deletion, the address.
set_ipv6_socket(h, addr, netmask) ==
  /\ pc[h] = "idle" /\ Started(h) /\ ~NetmaskRefused(netmask)
  /\ \/ /\ sock6' = [sock6 EXCEPT ![h] = TRUE]
        /\ req' = [req EXCEPT ![h] =
             [addr |-> addr, netmask |-> netmask, mask |-> 0, ifc |-> None]]
        /\ Goto(h, "getindex")
     \/ "socket" \in Faults /\ UNCHANGED callVars
  /\ UNCHANGED <<link, foreign, devVars>>

CloseSock6(h) == sock6' = [sock6 EXCEPT ![h] = FALSE]

leave_open(h) ==                                 \* mutant of get_index_fails
  /\ pc[h] = "getindex"
  /\ Unreachable(h) \/ "SIOCGIFINDEX" \in Faults
  /\ Return(h)
  /\ UNCHANGED <<link, foreign, devVars, sock6>>

get_index_fails(h) ==
  /\ pc[h] = "getindex"
  /\ Unreachable(h) \/ "SIOCGIFINDEX" \in Faults
  /\ CloseSock6(h) /\ Return(h)
  /\ UNCHANGED <<link, foreign, devVars>>

get_index_ok(h) ==
  /\ pc[h] = "getindex"
  /\ \E i \in Ifs : Reaches(h, i) /\ req' = [req EXCEPT ![h].ifc = i]
  /\ Goto(h, "del6")
  /\ UNCHANGED <<link, foreign, devVars, sock6>>

\* SIOCDIFADDR deletes the address in its argument, which is all zeros.
del_addr6(h) ==
  /\ pc[h] = "del6"
  /\ link' = IF req[h].ifc \in Ifs
             THEN [link EXCEPT ![req[h].ifc].addr6 = @ \ {<<AnyAddr6, 0>>}] ELSE link
  /\ Goto(h, "set6")
  /\ UNCHANGED <<foreign, devVars, req, sock6>>

set_addr6(h) ==
  LET i == req[h].ifc
      has == i \in Ifs /\ \E a \in link[i].addr6 : a[1] = req[h].addr IN
  /\ pc[h] = "set6"
  /\ \/ /\ i \in Ifs /\ ~has
        /\ Set(h, i, "addr6", link[i].addr6 \cup {<<req[h].addr, req[h].netmask>>})
     \/ /\ i \notin Ifs \/ has \/ "SIOCSIFADDR6" \in Faults
        /\ UNCHANGED <<link, foreign>>
  /\ CloseSock6(h) /\ Return(h)
  /\ UNCHANGED devVars

-----------------------------------------------------------------------------
(***************************************************************************)
(* The administrator: any other process with the right to do this.         *)
(***************************************************************************)
AdminSets(i) ==
  /\ Exists(i)
  /\ \/ "flags" \in AdminTouches /\ \E f \in SUBSET Flags : Set(None, i, "flags", f)
     \/ /\ "hwaddr" \in AdminTouches
        /\ \E hw \in HwAddrs : GoodHw(i, hw) /\ Set(None, i, "hwaddr", hw)
     \/ /\ "addr" \in AdminTouches
        /\ \E a \in Addrs4 \cup {NoAddr} : SetAddr(None, i, a)
     \/ /\ "name" \in AdminTouches
        /\ \E name \in IfNames : Free(name) /\ Set(None, i, "name", name)
  /\ UNCHANGED <<devVars, callVars>>

\* ip link del: the descriptor of the device stays open, attached to nothing.
AdminDeletes(i) ==
  /\ Exists(i) /\ "name" \in AdminTouches
  /\ Remove(i)
  /\ tun_fd' = [h \in Handles |-> IF tun_fd[h] = i THEN Gone ELSE tun_fd[h]]
  /\ UNCHANGED <<if_name, flags, hwaddr, pc, sock6>>

\* Another process creates an interface.
AdminCreates(i) ==
  /\ ~Exists(i) /\ "name" \in AdminTouches
  /\ \E type \in Modes : \E new \in FreshLinks(type) : link' = [link EXCEPT ![i] = new]
  /\ UNCHANGED <<foreign, devVars, callVars>>

-----------------------------------------------------------------------------
Init == /\ link = [i \in Ifs |-> Absent]
        /\ tun_fd = [h \in Handles |-> None]
        /\ if_name = [h \in Handles |-> NoName]
        /\ flags = [h \in Handles |-> {}]
        /\ hwaddr = [h \in Handles |-> NoHw]
        /\ pc = [h \in Handles |-> "idle"]
        /\ req = [h \in Handles |-> NoReq]
        /\ sock6 = [h \in Handles |-> FALSE]
        /\ foreign = [i \in Ifs |-> {}]

Life(h) == (\E type \in Modes : tuntap_start(h, type)) \/ tuntap_release(h)

Configure(h) ==
  \/ tuntap_up(h) \/ tuntap_down(h)
  \/ \E mtu \in Mtus : tuntap_set_mtu(h, mtu)
  \/ \E hw \in HwAddrs : tuntap_set_hwaddr(h, hw)
  \/ \E name \in IfNames : tuntap_set_ifname(h, name)
  \/ \E addr \in Addrs4, n \in Netmasks : set_ipv4_addr(h, addr, n)
  \/ \E addr \in Addrs6, n \in Netmasks : set_ipv6_socket(h, addr, n)
  \/ set_ipv4_mask(h) \/ get_index_ok(h) \/ get_index_fails(h)
  \/ del_addr6(h) \/ set_addr6(h)

Admin(i) == AdminSets(i) \/ AdminDeletes(i) \/ AdminCreates(i)

Next == (\E h \in Handles : Life(h) \/ Configure(h)) \/ \E i \in Ifs : Admin(i)

Spec == Init /\ [][Next]_vars
-----------------------------------------------------------------------------
(***************************************************************************)
(* Properties.                                                             *)
(***************************************************************************)
\* Nobody else has changed this attribute of the device's interface, nor its
\* name, since the device last wrote it.
Undisputed(h, attr) ==
  tun_fd[h] \in Ifs /\ {"name", attr} \cap foreign[tun_fd[h]] = {}

\* The flags that tuntap_up and tuntap_down will write back are the ones the
\* interface has, after any calls that succeeded or failed, unless somebody
\* else changed them or the interface's name.
FlagsKnown == \A h \in Handles : Undisputed(h, "flags") => flags[h] = link[tun_fd[h]].flags

\* Unless SIOCGIFHWADDR or SIOCSIFHWADDR may fail without a reason,
\* tuntap_get_hwaddr answers the address of the device's tap interface, or
\* one that the kernel refused to set, until somebody else changes it or the
\* interface's name.
HwaddrKnown ==
  {"SIOCGIFHWADDR", "SIOCSIFHWADDR"} \cap Faults = {} =>
    \A h \in Handles :
      Undisputed(h, "hwaddr") /\ link[tun_fd[h]].type = "tap" =>
        hwaddr[h] = link[tun_fd[h]].hwaddr \/ hwaddr[h] \in BadHws

\* A configuration call changes an interface other than the one its device is
\* attached to only when that interface was renamed by somebody else or
\* deleted: renames by tuntap_set_ifname, of this or of another handle, never
\* lead a call astray, and an index that tuntap_sys_set_ipv6 has looked up
\* stays good when the name changes under it.
NeverAstray ==
  [][\A h \in Handles : Configure(h) =>
       \A i \in Ifs : link'[i] # link[i] =>
         \/ i = tun_fd[h] \/ tun_fd[h] = Gone
         \/ tun_fd[h] \in Ifs /\ "name" \in foreign[tun_fd[h]]]_vars

SecondStep(h) == pc[h] = "setmask" /\ pc'[h] = "idle"

\* A tuntap_set_ip that got past its first ioctl leaves the interface with
\* the new address, under the prefix asked for or, when the second ioctl
\* failed, the one it had after the first: never the new prefix on the old
\* address, and never a mask that is not the prefix.  Somebody else who sets
\* the address in between is excepted, and so are netmasks above W.
AddressUnderPrefix ==
  [][\A h \in Handles :
       SecondStep(h) /\ Undisputed(h, "addr") /\ req[h].netmask <= W =>
         LET i == tun_fd[h] IN
         /\ link'[i].addr = req[h].addr
         /\ \/ IsPrefix(link'[i].mask, req[h].netmask)
            \/ "SIOCSIFNETMASK" \in Faults /\ link'[i] = link[i]]_vars

\* The IPv6 socket of tuntap_sys_set_ipv6 is closed on every way out.
NoSocketLeft == \A h \in Handles : pc[h] = "idle" => ~sock6[h]

-----------------------------------------------------------------------------
(***************************************************************************)
(* What the documentation says and the code does not do.                   *)
(***************************************************************************)

\* doc/api.md on tuntap_set_ip: it replaces the IP address, so that there is
\* one of each family.
OneAddress6 == \A i \in Ifs : Cardinality(link[i].addr6) <= 1
=============================================================================
