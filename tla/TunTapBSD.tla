------------------------------ MODULE TunTapBSD -----------------------------
(***************************************************************************)
(* The life of a device handle on OpenBSD, NetBSD, FreeBSD and Darwin:     *)
(* TunTapUnix completed with the back-ends src/tuntap-unix-*bsd.c and      *)
(* src/tuntap-unix-darwin.c, one action per system call.  The four differ  *)
(* in which calls they make, in which order, and in what they check first; *)
(* `os' says which one it is.                                              *)
(*                                                                         *)
(* On these systems an interface is reached through its node /dev/tunN or  *)
(* /dev/tapN, so Ifs is a set of nodes <<"tun", N>> and <<"tap", N>>.  A    *)
(* node is opened by one file at a time.                                   *)
(***************************************************************************)
EXTENDS TunTapUnix

CONSTANT Systems
ASSUME SystemsAssumption == Systems \subseteq {"OpenBSD", "NetBSD", "FreeBSD", "Darwin"}
ASSUME NodesAssumption == Ifs \subseteq IfTypes \X Nat
ASSUME UnitsAssumption == TUNTAP_ID_MAX > 0

VARIABLES os,    \* the system; it never changes
          fd,    \* local `fd' of the tuntap_sys_start under way
          unit,  \* its `tun', counting up in the scans
          undone \* ghost: an interface was destroyed between its creation
                 \* by a persistent start and the open() of that start

locals == <<fd, unit>>
vars == <<kernelVars, unixVars, os, locals, undone>>

BsdSteps == {"null", "idle", "sys_start", "create", "recreate", "open", "getname",
             "getflags", "setflags", "clean", "ifdestroy", "release", "close_sock"}

TypeOK == /\ KernelTypeOK
          /\ tun_fd \in [Handles -> Fds \cup {NoFd}]
          /\ ctrl_sock \in [Handles -> Fds \cup {NoFd}]
          /\ if_name \in [Handles -> Names]
          /\ pc \in [Handles -> BsdSteps] /\ arg \in [Handles -> Args]
          /\ os \in Systems /\ fd \in [Handles -> Fds \cup {NoFd}]
          /\ unit \in [Handles -> Tuns \cup 0..TUNTAP_ID_MAX]
          /\ undone \in BOOLEAN

-----------------------------------------------------------------------------
(***************************************************************************)
(* The kernels.                                                            *)
(***************************************************************************)
NameFree(i) == ~Exists(i) /\ \A j \in Ifs : ~Named(j, i)
NewIface(i, persist) == [type |-> i[1], name |-> i, persist |-> persist]

\* ioctl(s, SIOCIFCREATE) and SIOCIFCREATE2: the interface stays.
CanCreate(s, i) == Socket(s) /\ i \in Ifs /\ NameFree(i)
IfCreate(s, i) == /\ CanCreate(s, i)
                  /\ iface' = [iface EXCEPT ![i] = NewIface(i, 1)]
                  /\ UNCHANGED <<files, stolen>>

\* open(/dev/...) as descriptor f.  Opening the node of an interface that does
\* not exist creates it, for good or until it is closed, or fails: the systems
\* and their versions differ.
OpenFile(h, f, i) ==
  files' = [files EXCEPT ![f] = [kind |-> "tun", owner |-> h, ifc |-> i]]
OpenNode(h, f, i) ==
  /\ LowestFree(f) /\ i \in Ifs /\ ~Attached(i)
  /\ OpenFile(h, f, i)
  /\ \/ Exists(i) /\ iface' = iface
     \/ \E persist \in {0, 1} :
          NameFree(i) /\ iface' = [iface EXCEPT ![i] = NewIface(i, persist)]
  /\ UNCHANGED stolen
OpenFails(i) ==
  "open" \in Faults \/ TableFull \/ i \notin Ifs \/ (i \in Ifs /\ (~Exists(i) \/ Attached(i)))

\* NetBSD's open(/dev/tap): a new interface, until it is closed.
OpenClone(h, f, i) ==
  /\ LowestFree(f) /\ i[1] = "tap" /\ NameFree(i)
  /\ OpenFile(h, f, i)
  /\ iface' = [iface EXCEPT ![i] = NewIface(i, 0)]
  /\ UNCHANGED stolen

\* ioctl(s, SIOCIFDESTROY): the descriptors of the interface are dead.  On
\* FreeBSD it blocks until they are closed.
Blocked(s, name) ==
  os = "FreeBSD" /\ \E i \in Ifs : Reaches(s, name, i) /\ Attached(i)
IfDestroy(s, name) ==
  \/ \E i \in Ifs :
       /\ Reaches(s, name, i) /\ ~Blocked(s, name)
       /\ iface' = [iface EXCEPT ![i] = Absent]
       /\ files' = [f \in Fds |-> IF files[f].ifc = i THEN [files[f] EXCEPT !.ifc = None]
                                                      ELSE files[f]]
       /\ UNCHANGED stolen
  \/ /\ (\A i \in Ifs : ~Reaches(s, name, i)) \/ "SIOCIFDESTROY" \in Faults
     /\ UNCHANGED kernelVars

-----------------------------------------------------------------------------
(***************************************************************************)
(* tuntap_sys_start: what it checks and which calls it makes.              *)
(***************************************************************************)
Persist(a) == "PERSIST" \in a.mode
Type(a) == CASE a.mode \ {"PERSIST"} = {"ETHERNET"} -> "tap"
             [] a.mode \ {"PERSIST"} = {"TUNNEL"} -> "tun"
             [] OTHER -> "none"
WildCard(a) == a.tun = TUNTAP_ID_ANY
BadUnit(a) == a.tun >= TUNTAP_ID_MAX /\ ~WildCard(a)
Invalid(a) == Type(a) = "none" \/ BadUnit(a) \/ (os = "Darwin" /\ Persist(a))

\* NetBSD makes a persistent interface before it checks anything, with the
\* name of a tun if the mode is no good; OpenBSD checks the mode before and
\* the unit after.
CreateType(a) == IF Type(a) = "tap" THEN "tap" ELSE "tun"
only_wild(a) == os = "FreeBSD" /\ ~Invalid(a) /\ WildCard(a)   \* mutant of CreatesFirst
CreatesFirst(a) ==
  CASE os = "NetBSD" -> Persist(a)
    [] os = "OpenBSD" -> Persist(a) /\ Type(a) # "none"
    [] os = "FreeBSD" -> ~Invalid(a) /\ (Persist(a) \/ WildCard(a))
    [] OTHER -> FALSE

\* NetBSD creates the interface of a tap's unit and ignores the outcome.
AfterChecks(a) ==
  IF Invalid(a) THEN "clean"
  ELSE IF os = "NetBSD" /\ Type(a) = "tap" /\ ~WildCard(a) THEN "recreate"
  ELSE "open"

\* The systems that find a free unit by opening one node after the other.
Scans(a) == /\ os \in {"OpenBSD", "Darwin"} \/ (os = "NetBSD" /\ Type(a) = "tun")
AsksName(a) == os = "FreeBSD" \/ (os = "NetBSD" /\ Type(a) = "tap")
Node(h) == <<CreateType(arg[h]), unit[h]>>

sys_start(h) ==
  /\ pc[h] = "sys_start"
  /\ Goto(h, IF CreatesFirst(arg[h]) THEN "create" ELSE AfterChecks(arg[h]))
  /\ unit' = [unit EXCEPT ![h] = IF WildCard(arg[h]) THEN 0 ELSE arg[h].tun]
  /\ UNCHANGED <<kernelVars, tun_fd, ctrl_sock, if_name, arg, os, fd>>

\* `return -1' anywhere in tuntap_sys_start: its fd is not closed.
SysStartFails(h) == /\ fd' = [fd EXCEPT ![h] = NoFd]
                    /\ unit' = [unit EXCEPT ![h] = 0]
                    /\ Goto(h, "clean")
                    /\ UNCHANGED <<tun_fd, ctrl_sock, if_name, arg, os>>

\* tuntap_sys_create_dev.  FreeBSD looks for a unit here: it goes on with the
\* next one as long as the interface exists, and with the one after the last
\* if they all do.
create_dev(h) ==
  LET i == Node(h) IN
  /\ pc[h] = "create"
  /\ \/ /\ IfCreate(ctrl_sock[h], i)
        /\ Goto(h, AfterChecks(arg[h]))
        /\ UNCHANGED <<tun_fd, ctrl_sock, if_name, arg, os, locals>>
     \/ /\ os = "FreeBSD" /\ WildCard(arg[h])
        /\ Socket(ctrl_sock[h]) /\ i \in Ifs /\ ~NameFree(i)
        /\ unit' = [unit EXCEPT ![h] = @ + 1]
        /\ Goto(h, IF unit[h] + 1 < TUNTAP_ID_MAX THEN "create" ELSE "open")
        /\ UNCHANGED <<kernelVars, tun_fd, ctrl_sock, if_name, arg, os, fd>>
     \/ /\ ~CanCreate(ctrl_sock[h], i) \/ "SIOCIFCREATE" \in Faults
        /\ (os = "FreeBSD" /\ WildCard(arg[h]) /\ Socket(ctrl_sock[h]) /\ i \in Ifs)
             => NameFree(i)
        /\ SysStartFails(h) /\ UNCHANGED kernelVars

recreate_dev(h) ==
  /\ pc[h] = "recreate"
  /\ \/ IfCreate(ctrl_sock[h], Node(h))
     \/ /\ ~CanCreate(ctrl_sock[h], Node(h)) \/ "SIOCIFCREATE" \in Faults
        /\ UNCHANGED kernelVars
  /\ Goto(h, "open")
  /\ UNCHANGED <<tun_fd, ctrl_sock, if_name, arg, os, locals>>

-----------------------------------------------------------------------------
\* With the node open as f, the name is known or asked for.  Where the units
\* are scanned, a switch that looks for the end of the scan tests fd.
EndOfScan(a, f) == Scans(a) /\ f = TUNTAP_ID_MAX
next_unit(a, tun) == <<Type(a), tun + 1>>        \* mutant of SavedName
first_unit(a, tun) == <<Type(a), IF WildCard(a) THEN 0 ELSE tun>>  \* mutant of SavedName
SavedName(a, tun) == <<Type(a), tun>>
Opened(h, f, tun) ==
  IF EndOfScan(arg[h], f) THEN SysStartFails(h)
  ELSE /\ fd' = [fd EXCEPT ![h] = f]
       /\ unit' = [unit EXCEPT ![h] = tun]
       /\ if_name' = IF AsksName(arg[h]) THEN if_name
                     ELSE [if_name EXCEPT ![h] = SavedName(arg[h], tun)]
       /\ Goto(h, IF AsksName(arg[h]) THEN "getname" ELSE "getflags")
       /\ UNCHANGED <<tun_fd, ctrl_sock, arg, os>>

NextUnitOf(h) == /\ unit' = [unit EXCEPT ![h] = @ + 1]
                 /\ UNCHANGED <<tun_fd, ctrl_sock, if_name, pc, arg, os, fd>>
one_more(h) == unit[h] = TUNTAP_ID_MAX           \* mutant of LastUnit
test_fd(h) == fd[h] = TUNTAP_ID_MAX              \* mutant of LastUnit
LastUnit(h) == unit[h] + 1 = TUNTAP_ID_MAX
Scanning(h) == WildCard(arg[h]) /\ Scans(arg[h])

\* One node: the unit asked for, or FreeBSD's new interface.
open_unit(h) ==
  /\ pc[h] = "open" /\ ~Scanning(h) /\ ~(os = "NetBSD" /\ WildCard(arg[h]))
  /\ \/ \E f \in Fds : OpenNode(h, f, Node(h)) /\ Opened(h, f, unit[h])
     \/ OpenFails(Node(h)) /\ SysStartFails(h) /\ UNCHANGED kernelVars

never_break(f) == FALSE                          \* mutant of Found
\* The scan tests open() > 0: descriptor 0 counts as a failure.
Found(f) == f > 0

open_scan(h) ==
  /\ pc[h] = "open" /\ Scanning(h)
  /\ \/ \E f \in Fds :
          /\ OpenNode(h, f, Node(h))
          /\ IF Found(f) THEN Opened(h, f, unit[h])
             ELSE IF LastUnit(h) THEN Opened(h, f, TUNTAP_ID_MAX)
             ELSE NextUnitOf(h)
     \/ /\ OpenFails(Node(h))
        /\ IF LastUnit(h) THEN SysStartFails(h) ELSE NextUnitOf(h)
        /\ UNCHANGED kernelVars

\* NetBSD's autocloning /dev/tap.
open_clone(h) ==
  /\ pc[h] = "open" /\ os = "NetBSD" /\ Type(arg[h]) = "tap" /\ WildCard(arg[h])
  /\ \/ \E f \in Fds, i \in Ifs : OpenClone(h, f, i) /\ Opened(h, f, unit[h])
     \/ /\ "open" \in Faults \/ TableFull \/ \A i \in Ifs : i[1] = "tap" => ~NameFree(i)
        /\ SysStartFails(h) /\ UNCHANGED kernelVars

\* TUNGIFNAME, TAPGIFNAME
get_name(h) ==
  /\ pc[h] = "getname"
  /\ \/ /\ files[fd[h]].ifc # None
        /\ if_name' = [if_name EXCEPT ![h] = iface[files[fd[h]].ifc].name]
        /\ Goto(h, "getflags")
        /\ UNCHANGED <<tun_fd, ctrl_sock, arg, os, locals>>
     \/ /\ files[fd[h]].ifc = None \/ "GIFNAME" \in Faults
        /\ SysStartFails(h)
  /\ UNCHANGED kernelVars

\* SIOCGIFFLAGS, and SIOCSIFFLAGS on OpenBSD and Darwin: return fd.
Returns(h) == /\ StartSucceeds(h, fd[h])
              /\ fd' = [fd EXCEPT ![h] = NoFd]
              /\ unit' = [unit EXCEPT ![h] = 0]
              /\ UNCHANGED <<if_name, os>>
NameReached(h) == \E i \in Ifs : Reaches(ctrl_sock[h], if_name[h], i)
get_flags(h) ==
  /\ pc[h] = "getflags"
  /\ \/ /\ NameReached(h)
        /\ IF os \in {"OpenBSD", "Darwin"}
           THEN /\ Goto(h, "setflags")
                /\ UNCHANGED <<tun_fd, ctrl_sock, if_name, arg, os, locals>>
           ELSE Returns(h)
     \/ (~NameReached(h) \/ "SIOCGIFFLAGS" \in Faults) /\ SysStartFails(h)
  /\ UNCHANGED kernelVars
set_flags(h) ==
  /\ pc[h] = "setflags"
  /\ \/ NameReached(h) /\ Returns(h)
     \/ (~NameReached(h) \/ "SIOCSIFFLAGS" \in Faults) /\ SysStartFails(h)
  /\ UNCHANGED kernelVars

-----------------------------------------------------------------------------
(***************************************************************************)
(* tuntap_destroy: tuntap_sys_destroy, then tuntap_release.                *)
(***************************************************************************)
late_close(h) ==                                 \* mutant of close_early
  /\ pc[h] = "idle" /\ os = "FreeBSD"
  /\ Goto(h, "ifdestroy")
  /\ UNCHANGED <<kernelVars, tun_fd, ctrl_sock, if_name, arg, os, locals>>

\* FreeBSD closes tun_fd before SIOCIFDESTROY.
close_early(h) ==
  /\ pc[h] = "idle" /\ os = "FreeBSD"
  /\ Close(h, tun_fd[h])
  /\ tun_fd' = [tun_fd EXCEPT ![h] = NoFd]
  /\ Goto(h, "ifdestroy")
  /\ UNCHANGED <<ctrl_sock, if_name, arg, os, locals>>

Created(g) == pc[g] \in {"recreate", "open"} /\ Persist(arg[g]) /\ Node(g) \in Ifs
sys_destroy(h) ==
  /\ \/ pc[h] = "idle" /\ os \in {"OpenBSD", "NetBSD"}
     \/ pc[h] = "ifdestroy"
  /\ IfDestroy(ctrl_sock[h], if_name[h])
  /\ undone' = (undone \/ \E g \in Handles :
                             Created(g) /\ iface[Node(g)] # iface'[Node(g)])
  /\ Goto(h, "release")
  /\ UNCHANGED <<tun_fd, ctrl_sock, if_name, arg, os, locals>>

sys_destroy_nothing(h) ==
  /\ pc[h] = "idle" /\ os = "Darwin"
  /\ Goto(h, "release")
  /\ UNCHANGED <<kernelVars, tun_fd, ctrl_sock, if_name, arg, os, locals>>

\* tuntap_set_ifname; only FreeBSD renames.
SysSetIfname(h, i, ifname) ==
  /\ os = "FreeBSD" /\ Reaches(ctrl_sock[h], if_name[h], i)
  /\ Trunc(ifname) # NoName /\ \A j \in Ifs \ {i} : ~Named(j, Trunc(ifname))
  /\ iface' = [iface EXCEPT ![i].name = Trunc(ifname)]
  /\ UNCHANGED <<files, stolen>>
tuntap_set_ifname(h, ifname) ==
  /\ pc[h] = "idle" /\ ~NameRefused(ifname)
  /\ \E i \in Ifs : SysSetIfname(h, i, ifname)
  /\ CacheName(h, ifname)
  /\ UNCHANGED <<tun_fd, ctrl_sock, pc, arg, os, locals>>

-----------------------------------------------------------------------------
exit == /\ KernelExit /\ UnixExit
        /\ fd' = [h \in Handles |-> NoFd]
        /\ unit' = [h \in Handles |-> 0]
        /\ undone' = FALSE
        /\ UNCHANGED os

Init == /\ KernelInit /\ UnixInit /\ os \in Systems
        /\ fd = [h \in Handles |-> NoFd]
        /\ unit = [h \in Handles |-> 0]
        /\ undone = FALSE

Unix(h) == /\ \/ tuntap_init(h) \/ tuntap_init_fails(h)
              \/ \E mode \in Modes, tun \in Tuns : tuntap_start(h, mode, tun)
              \/ clean(h) \/ tuntap_release(h) \/ release_ctrl_sock(h)
           /\ UNCHANGED <<os, locals>>

BSD(h) == \/ sys_start(h) \/ create_dev(h) \/ recreate_dev(h)
          \/ open_unit(h) \/ open_scan(h) \/ open_clone(h)
          \/ get_name(h) \/ get_flags(h) \/ set_flags(h)
          \/ close_early(h) \/ sys_destroy_nothing(h)
          \/ \E ifname \in NewNames : tuntap_set_ifname(h, ifname)

Next == \/ \E h \in Handles : (Unix(h) \/ BSD(h)) /\ UNCHANGED undone
        \/ \E h \in Handles : sys_destroy(h)
        \/ exit
Spec == Init /\ [][Next]_vars

-----------------------------------------------------------------------------
Started(h) == pc[h] = "idle" /\ tun_fd[h] # NoFd

\* The scan ended on descriptor 0 at the last unit, and went on with the unit
\* after it.
ZeroAtTheEnd(h) == Scanning(h) /\ tun_fd[h] = 0

\* As long as no descriptor was stolen, a started device stays whole: it owns
\* its open node, of the type and unit asked for, under the cached name unless
\* its scan ended on descriptor 0, and its control socket; and only FreeBSD's
\* scan, when all units exist, and NetBSD's autocloning leave the range of the
\* units (tuntap_sys_start).
Intact ==
  ~stolen => \A h \in Handles : Started(h) =>
    /\ files[tun_fd[h]].kind = "tun" /\ files[tun_fd[h]].owner = h
    /\ IfaceOf(h) \in Ifs
    /\ Named(IfaceOf(h), Trunc(if_name[h])) \/ ZeroAtTheEnd(h)
    /\ IfaceOf(h)[1] = Type(arg[h])
    /\ WildCard(arg[h]) \/ IfaceOf(h)[2] = arg[h].tun
    /\ IfaceOf(h)[2] < TUNTAP_ID_MAX \/ (AsksName(arg[h]) /\ WildCard(arg[h]))
    /\ ctrl_sock[h] \in Fds
    /\ files[ctrl_sock[h]].kind = "sock" /\ files[ctrl_sock[h]].owner = h

\* As long as no descriptor was stolen, two started devices never share an
\* interface, and no two of them answer the same name to tuntap_get_ifname
\* (up to the kernel's cut): scans that race for a unit, a scan that ended on
\* descriptor 0 and kept the name of no unit, renames and destroys by name
\* included (tuntap_sys_start, tuntap_sys_destroy, tuntap_sys_set_ifname).
ExclusiveInterface ==
  ~stolen => \A g, h \in Handles : g # h /\ Started(g) /\ Started(h) =>
    IfaceOf(g) # IfaceOf(h) /\ Trunc(if_name[g]) # Trunc(if_name[h])

\* A device started with TUNTAP_MODE_PERSIST has an interface that outlives
\* its descriptor, unless another device's tuntap_destroy came between the
\* SIOCIFCREATE and the open() of its start, which then makes a new one.
PersistHonoured ==
  ~stolen /\ ~undone => \A h \in Handles :
    Started(h) /\ Persist(arg[h]) => iface[IfaceOf(h)].persist = 1

\* The descriptor that tuntap_sys_start opens is lost only where an ioctl after
\* it fails, or if its number is 0, taken for a failure by a scan, or 256,
\* taken for the end of the scan; no other call, thread or theft loses it.
Lost(h, f) == /\ files[f].kind = "tun" /\ files[f].owner = h
              /\ f \notin {fd[h], tun_fd[h]}
LostToAnIoctlOrByNumber ==
  [][\A h \in Handles, f \in Fds : ~Lost(h, f) /\ Lost(h, f)' =>
       \/ pc[h] \in {"getname", "getflags", "setflags"}
       \/ /\ pc[h] = "open" /\ Scans(arg[h])
          /\ f = TUNTAP_ID_MAX \/ (f = 0 /\ WildCard(arg[h]))]_vars

\* FreeBSD's SIOCIFDESTROY never waits for the device's own descriptor, unless
\* an earlier start of the device failed and lost it (tuntap_sys_destroy).
DestroyNotBlockedByOwn ==
  ~stolen => \A h \in Handles, f \in Fds :
    /\ pc[h] = "ifdestroy" /\ Blocked(ctrl_sock[h], if_name[h])
    /\ files[f].ifc # None /\ files[f].owner = h /\ Named(files[f].ifc, Trunc(if_name[h]))
    => arg[h] = NoArg

\* Whatever the handles do, the four back-ends implement what DeviceLifecycle
\* promises by name, up to the first theft: a started device holds one
\* interface, alone, until it is released or destroyed, no destroy of another
\* device takes it or its persistence away, and persistence ends only inside a
\* destroy (tuntap_sys_destroy).
Stage(h) == CASE pc[h] = "null" -> "none"
              [] pc[h] \in {"ifdestroy", "release", "close_sock"} -> "closing"
              [] OTHER -> "idle"
Holds(h) == IF Started(h) THEN IfaceOf(h) ELSE None
Stages == [h \in Handles |-> Stage(h)]
Holdings == [h \in Handles |-> Holds(h)]
Kept == {i \in Ifs : iface[i].persist = 1}
Lifecycle == INSTANCE DeviceLifecycle WITH
  state <- Stages, holds <- Holdings, kept <- Kept, broken <- stolen
LivesByName == Lifecycle!SpecByName
=============================================================================
