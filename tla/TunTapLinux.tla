----------------------------- MODULE TunTapLinux ----------------------------
(***************************************************************************)
(* The life of a device handle on Linux: TunTapUnix completed with the     *)
(* back-end of src/tuntap-unix-linux.c, one action per system call.        *)
(***************************************************************************)
EXTENDS TunTapUnix

VARIABLES fd,    \* local `fd' of the tuntap_sys_start under way
          ifr    \* ifr.ifr_name of the tuntap_sys_start under way

vars == <<kernelVars, unixVars, fd, ifr>>

TypeOK == /\ KernelTypeOK /\ UnixTypeOK
          /\ fd \in [Handles -> Fds \cup {NoFd}]
          /\ ifr \in [Handles -> Names]

-----------------------------------------------------------------------------
(***************************************************************************)
(* tuntap_sys_start                                                        *)
(***************************************************************************)
\* `mode' without its persistence bit must be exactly one of the two modes.
Type(mode) == CASE mode \ {"PERSIST"} = {"ETHERNET"} -> "tap"
                [] mode \ {"PERSIST"} = {"TUNNEL"} -> "tun"
                [] OTHER -> "none"
any_number(a) == Type(a.mode) = "none"           \* mutant of BadArg
BadArg(a) == Type(a.mode) = "none" \/ a.tun < 0
Persist(a) == "PERSIST" \in a.mode

\* `return -1' anywhere in tuntap_sys_start: its fd is not closed.
SysStartFails(h) == /\ fd' = [fd EXCEPT ![h] = NoFd]
                    /\ ifr' = [ifr EXCEPT ![h] = NoName]
                    /\ Goto(h, "clean")
                    /\ UNCHANGED <<tun_fd, ctrl_sock, if_name, arg>>

unit_too(a, f) ==                                \* mutant of UnitRefused
  a.tun # TUNTAP_ID_ANY /\ (a.tun > TUNTAP_ID_MAX \/ f > TUNTAP_ID_MAX)
\* The test before the unit's name is formatted looks at fd, not at tun.
UnitRefused(a, f) == a.tun # TUNTAP_ID_ANY /\ f > TUNTAP_ID_MAX
UnitName(a) == IF a.tun = TUNTAP_ID_ANY THEN NoName ELSE <<Type(a.mode), a.tun>>

open_clone(h) ==
  /\ pc[h] = "sys_start"
  /\ \/ /\ BadArg(arg[h]) \/ TableFull \/ "open" \in Faults
        /\ SysStartFails(h) /\ UNCHANGED kernelVars
     \/ \E f \in Fds :
          /\ ~BadArg(arg[h])
          /\ LowestFree(f) /\ OpenAt(f, "tun", h) /\ UNCHANGED <<iface, stolen>>
          /\ IF UnitRefused(arg[h], f)
             THEN SysStartFails(h)
             ELSE /\ fd' = [fd EXCEPT ![h] = f]
                  /\ ifr' = [ifr EXCEPT ![h] = UnitName(arg[h])]
                  /\ Goto(h, "setiff")
                  /\ UNCHANGED <<tun_fd, ctrl_sock, if_name, arg>>

\* On success the kernel writes the interface's name back into ifr.
skip_setpersist(a) == "getflags"                 \* mutant of AfterSetIff
AfterSetIff(a) == IF Persist(a) THEN "setpersist" ELSE "getflags"

setiff_ok(h) ==
  LET type == Type(arg[h].mode) IN
  /\ pc[h] = "setiff"
  /\ \E i \in Ifs, name \in IfaceNames(type, ifr[h]) :
       /\ SetIff(fd[h], type, name, i)
       /\ ifr' = [ifr EXCEPT ![h] = name]
  /\ Goto(h, AfterSetIff(arg[h]))
  /\ UNCHANGED <<tun_fd, ctrl_sock, if_name, arg, fd>>

setiff_fails(h) ==
  /\ pc[h] = "setiff"
  /\ \/ AttachRefused(fd[h], Type(arg[h].mode), ifr[h])
     \/ "TUNSETIFF" \in Faults
  /\ SysStartFails(h) /\ UNCHANGED kernelVars

set_persist(h) ==
  /\ pc[h] = "setpersist"
  /\ \/ /\ SetPersist(fd[h], 1)
        /\ Goto(h, "getflags")
        /\ UNCHANGED <<tun_fd, ctrl_sock, if_name, arg, fd, ifr>>
     \/ /\ ~CanPersist(fd[h]) \/ "TUNSETPERSIST" \in Faults
        /\ SysStartFails(h) /\ UNCHANGED kernelVars

\* SIOCGIFFLAGS on the control socket; then the name is saved, and
\* tuntap_start keeps the fd.
name_as_asked(h) ==                              \* mutant of get_flags_ok
  /\ pc[h] = "getflags"
  /\ if_name' = [if_name EXCEPT ![h] = UnitName(arg[h])]
  /\ StartSucceeds(h, fd[h])
  /\ fd' = [fd EXCEPT ![h] = NoFd]
  /\ ifr' = [ifr EXCEPT ![h] = NoName]
  /\ UNCHANGED kernelVars

get_flags_ok(h) ==
  /\ pc[h] = "getflags"
  /\ \E i \in Ifs : Reaches(ctrl_sock[h], ifr[h], i)
  /\ if_name' = [if_name EXCEPT ![h] = ifr[h]]
  /\ StartSucceeds(h, fd[h])
  /\ fd' = [fd EXCEPT ![h] = NoFd]
  /\ ifr' = [ifr EXCEPT ![h] = NoName]
  /\ UNCHANGED kernelVars

undo_persist(h) ==                               \* mutant of get_flags_fails
  /\ pc[h] = "getflags"
  /\ \/ \A i \in Ifs : ~Reaches(ctrl_sock[h], ifr[h], i)
     \/ "SIOCGIFFLAGS" \in Faults
  /\ SetPersist(fd[h], 0)
  /\ SysStartFails(h)

get_flags_fails(h) ==
  /\ pc[h] = "getflags"
  /\ \/ \A i \in Ifs : ~Reaches(ctrl_sock[h], ifr[h], i)
     \/ "SIOCGIFFLAGS" \in Faults
  /\ SysStartFails(h) /\ UNCHANGED kernelVars

-----------------------------------------------------------------------------
destroy_by_release(h) ==                         \* mutant of tuntap_destroy
  /\ pc[h] = "idle"
  /\ Goto(h, "release")
  /\ UNCHANGED <<kernelVars, tun_fd, ctrl_sock, if_name, arg, fd, ifr>>

close_in_destroy(h) ==                           \* mutant of tuntap_destroy
  /\ pc[h] = "idle"
  /\ Close(h, tun_fd[h])
  /\ Goto(h, "release")
  /\ UNCHANGED <<tun_fd, ctrl_sock, if_name, arg, fd, ifr>>

\* tuntap_destroy: tuntap_sys_destroy's ioctl, whose failure is only
\* logged, then tuntap_release.
tuntap_destroy(h) ==
  /\ pc[h] = "idle"
  /\ \/ SetPersist(tun_fd[h], 0)
     \/ /\ ~CanPersist(tun_fd[h]) \/ "TUNSETPERSIST" \in Faults
        /\ UNCHANGED kernelVars
  /\ Goto(h, "release")
  /\ UNCHANGED <<tun_fd, ctrl_sock, if_name, arg, fd, ifr>>

\* tuntap_sys_set_ifname: ioctl(dev->ctrl_sock, SIOCSIFNAME).
SysSetIfname(h, i, ifname) ==
  /\ Reaches(ctrl_sock[h], if_name[h], i)
  /\ Trunc(ifname) # NoName
  /\ \A j \in Ifs \ {i} : ~Named(j, Trunc(ifname))
  /\ iface' = [iface EXCEPT ![i].name = Trunc(ifname)]
  /\ UNCHANGED <<files, stolen>>

cache_first(h, ifname) ==                        \* mutant of tuntap_set_ifname
  /\ pc[h] = "idle" /\ ~NameRefused(ifname)
  /\ CacheName(h, ifname)
  /\ \/ \E i \in Ifs : SysSetIfname(h, i, ifname)
     \/ /\ \E j \in Ifs : Named(j, Trunc(ifname))
        /\ UNCHANGED kernelVars
  /\ UNCHANGED <<tun_fd, ctrl_sock, pc, arg, fd, ifr>>

tuntap_set_ifname(h, ifname) ==
  /\ pc[h] = "idle"
  /\ \/ /\ ~NameRefused(ifname)
        /\ \E i \in Ifs : SysSetIfname(h, i, ifname)
        /\ CacheName(h, ifname)
     \/ /\ \/ NameRefused(ifname) \/ Trunc(ifname) = NoName
           \/ \A i \in Ifs : ~Reaches(ctrl_sock[h], if_name[h], i)
           \/ \E j \in Ifs : /\ Named(j, Trunc(ifname))
                              /\ ~Reaches(ctrl_sock[h], if_name[h], j)
           \/ "SIOCSIFNAME" \in Faults
        /\ UNCHANGED <<kernelVars, if_name>>
  /\ UNCHANGED <<tun_fd, ctrl_sock, pc, arg, fd, ifr>>

-----------------------------------------------------------------------------
exit == /\ KernelExit /\ UnixExit
        /\ fd' = [h \in Handles |-> NoFd]
        /\ ifr' = [h \in Handles |-> NoName]

Init == /\ KernelInit /\ UnixInit
        /\ fd = [h \in Handles |-> NoFd]
        /\ ifr = [h \in Handles |-> NoName]

Unix(h) == /\ \/ tuntap_init(h) \/ tuntap_init_fails(h)
              \/ \E mode \in Modes, tun \in Tuns : tuntap_start(h, mode, tun)
              \/ clean(h) \/ tuntap_release(h) \/ release_ctrl_sock(h)
           /\ UNCHANGED <<fd, ifr>>

Linux(h) == \/ open_clone(h) \/ setiff_ok(h) \/ setiff_fails(h)
            \/ set_persist(h) \/ get_flags_ok(h) \/ get_flags_fails(h) \/ tuntap_destroy(h)
            \/ \E ifname \in NewNames : tuntap_set_ifname(h, ifname)

Application == /\ \E f \in Fds : AppOpen(f) \/ AppClose(f)
               /\ UNCHANGED <<unixVars, fd, ifr>>

Next == \/ \E h \in Handles : Unix(h) \/ Linux(h)
        \/ Application
        \/ exit

Spec == Init /\ [][Next]_vars
-----------------------------------------------------------------------------
(***************************************************************************)
(* Properties.  A close() of a number the handle no longer owns can take   *)
(* any descriptor away from anybody, so what a handle is promised is       *)
(* stated up to the first such theft; FirstTheft says how it comes about.  *)
(***************************************************************************)

\* As long as no descriptor was stolen, a started device stays whole: its
\* tun_fd is the tun descriptor that this handle opened, attached to an
\* interface of the requested type whose kernel name is the cached if_name
\* (cut as the kernel cuts it), and its ctrl_sock is this handle's own open
\* socket, whatever other handles start, fail to start, rename, release or
\* destroy in between (tuntap_start, tuntap_sys_start, tuntap_set_ifname).
Intact ==
  ~stolen => \A h \in Handles : Holding(h) =>
    /\ files[tun_fd[h]].kind = "tun" /\ files[tun_fd[h]].owner = h
    /\ IfaceOf(h) \in Ifs
    /\ iface[IfaceOf(h)].type = Type(arg[h].mode)
    /\ Named(IfaceOf(h), Trunc(if_name[h]))
    /\ ctrl_sock[h] \in Fds
    /\ files[ctrl_sock[h]].kind = "sock" /\ files[ctrl_sock[h]].owner = h

\* As long as no descriptor was stolen, two started devices never share an
\* interface, and no two of them answer the same name to tuntap_get_ifname
\* (up to the kernel's cut): units asked twice, wild-card units and renames
\* included.
ExclusiveInterface ==
  ~stolen => \A g, h \in Handles : g # h /\ Holding(g) /\ Holding(h) =>
    IfaceOf(g) # IfaceOf(h) /\ Trunc(if_name[g]) # Trunc(if_name[h])

\* Whatever fails inside tuntap_start, the control sockets never leak, even
\* after a theft: an open control socket is the ctrl_sock of the handle that
\* opened it, and that handle is starting, started, or being released.
SocketsNeverLeak ==
  \A f \in Fds : files[f].kind = "sock" =>
    \E h \in Handles :
      /\ files[f].owner = h /\ ctrl_sock[h] = f
      /\ pc[h] # "null" /\ (pc[h] \in {"idle", "release"} => Holding(h))

\* As long as no descriptor was stolen, a device started with
\* TUNTAP_MODE_PERSIST has a persistent interface until tuntap_destroy, also
\* when it took over an interface that an earlier process left behind.
PersistHonoured ==
  ~stolen => \A h \in Handles :
    Holding(h) /\ pc[h] = "idle" /\ Persist(arg[h]) => iface[IfaceOf(h)].persist = 1

\* A persistent interface is only ever given up by tuntap_destroy on the
\* handle attached to it: not by tuntap_release, a failed start, a start
\* without the persistence bit that takes it over, a theft or a crash.
OnlyDestroyUnpersists ==
  [][\A i \in Ifs : iface[i].persist = 1 /\ iface'[i].persist = 0 =>
       \E h \in Handles : /\ pc[h] = "idle" /\ pc'[h] = "release"
                          /\ tun_fd[h] \in Fds /\ IfaceOf(h) = i]_vars

\* The first descriptor that is closed behind its owner's back is closed by
\* tuntap_release's close(dev->ctrl_sock) of a device that is not started
\* but whose ctrl_sock still holds the number of a failed tuntap_start; no
\* other close() of the library can be the first to hit a stranger.
FirstTheft ==
  [][~stolen /\ stolen' =>
       \E h \in Handles : /\ pc[h] = "close_sock" /\ pc'[h] = "null"
                          /\ tun_fd[h] = NoFd /\ ctrl_sock[h] # NoFd]_vars

\* When tuntap_destroy's ioctl cannot fail, the interface of a started
\* device is gone as soon as tuntap_destroy has closed tun_fd, persistent or
\* not, renamed or not: no other handle can slip in between the two calls.
DestroyRemoves ==
  [][\A h \in Handles :
       /\ ~stolen /\ "TUNSETPERSIST" \notin Faults
       /\ Holding(h) /\ pc[h] = "release" /\ pc'[h] = "close_sock"
       => iface'[IfaceOf(h)] = Absent]_vars

\* The descriptor that tuntap_sys_start opens is lost only where an ioctl after
\* it fails, or where a unit is asked for and the descriptor's own number is
\* above the greatest unit: the number of the unit asked for never costs a
\* descriptor, nor does any other call, thread or theft (the test of fd that
\* tuntap_sys_start makes in place of tun).
Lost(h, f) == /\ files[f].kind = "tun" /\ files[f].owner = h
              /\ f \notin {fd[h], tun_fd[h]}
LostToAnIoctlOrByNumber ==
  [][\A h \in Handles, f \in Fds : ~Lost(h, f) /\ Lost(h, f)' =>
       \/ pc[h] \in {"setiff", "setpersist", "getflags"}
       \/ pc[h] = "sys_start" /\ arg[h].tun # TUNTAP_ID_ANY /\ f > TUNTAP_ID_MAX]_vars

\* Whatever the handles and the application do, TunTapLinux implements what
\* DeviceLifecycle promises, up to the first theft: each system call is one
\* step of a device's life, or none.
Stage(h) == CASE pc[h] = "null" -> "none"
              [] pc[h] \in {"release", "close_sock"} -> "closing"
              [] OTHER -> "idle"
Holds(h) == IF pc[h] = "idle" /\ tun_fd[h] \in Fds THEN IfaceOf(h) ELSE None
Stages == [h \in Handles |-> Stage(h)]
Holdings == [h \in Handles |-> Holds(h)]
Kept == {i \in Ifs : iface[i].persist = 1}
Lifecycle == INSTANCE DeviceLifecycle WITH
  state <- Stages, holds <- Holdings, kept <- Kept, broken <- stolen
Lives == Lifecycle!Spec

-----------------------------------------------------------------------------
(***************************************************************************)
(* What the documentation says and the code does not do.                   *)
(***************************************************************************)

\* doc/api.md on tuntap_release and tuntap_destroy: they close the device's
\* file descriptors - and so never the descriptors of anybody else.
NothingStolen == ~stolen
=============================================================================
