----------------------------- MODULE TunTapUnix -----------------------------
(***************************************************************************)
(* The life of a device handle as src/tuntap.c and src/tuntap-unix.c drive *)
(* it on every Unix: tuntap_init, tuntap_start, tuntap_set_ifname,         *)
(* tuntap_release, tuntap_destroy.  The operating-system half of these     *)
(* calls (tuntap_sys_start, tuntap_sys_destroy, tuntap_sys_set_ifname) is  *)
(* in the back-end's module.                                               *)
(*                                                                         *)
(* Each handle is used by one thread of the application at a time; handles *)
(* of different threads interleave between any two system calls.           *)
(***************************************************************************)
EXTENDS Kernel

CONSTANTS TUNTAP_ID_MAX,  \* the greatest unit (256 in src/tuntap.h)
          Modes,          \* the `mode' arguments the clients pass
          Tuns,           \* the `tun' arguments the clients pass
          NewNames,       \* the names given to tuntap_set_ifname
          Faults          \* system calls that may fail for reasons of their own

Flags == {"ETHERNET", "TUNNEL", "PERSIST"}
SysCalls == {"malloc", "socket", "open", "TUNSETIFF", "TUNSETPERSIST",
             "SIOCGIFFLAGS", "SIOCSIFNAME",
             "SIOCIFCREATE", "GIFNAME", "SIOCSIFFLAGS", "SIOCIFDESTROY"}

ASSUME IdMaxAssumption == TUNTAP_ID_MAX \in Nat
ASSUME ModesAssumption == Modes \subseteq SUBSET Flags
ASSUME TunsAssumption == Tuns \subseteq Int
ASSUME NewNamesAssumption == NewNames \subseteq Names
ASSUME FaultsAssumption == Faults \subseteq SysCalls

TUNTAP_ID_ANY == TUNTAP_ID_MAX + 1

VARIABLES tun_fd, ctrl_sock, if_name, \* the fields of struct device
          pc,   \* the system call the handle's thread is about to make
          arg   \* arguments of the tuntap_start under way or last successful

unixVars == <<tun_fd, ctrl_sock, if_name, pc, arg>>

NoArg == [mode |-> {}, tun |-> 0]
Args == [mode : SUBSET Flags, tun : Int]
Steps == {"null", "idle", "sys_start", "setiff", "setpersist", "getflags",
          "clean", "release", "close_sock"}

UnixTypeOK == /\ tun_fd \in [Handles -> Fds \cup {NoFd}]
              /\ ctrl_sock \in [Handles -> Fds \cup {NoFd}]
              /\ if_name \in [Handles -> Names]
              /\ pc \in [Handles -> Steps]
              /\ arg \in [Handles -> Args]

Goto(h, step) == pc' = [pc EXCEPT ![h] = step]

-----------------------------------------------------------------------------
\* tuntap_init: every field is set, whatever malloc returned.
tuntap_init(h) ==
  /\ pc[h] = "null"
  /\ tun_fd' = [tun_fd EXCEPT ![h] = NoFd]
  /\ ctrl_sock' = [ctrl_sock EXCEPT ![h] = NoFd]
  /\ if_name' = [if_name EXCEPT ![h] = NoName]
  /\ Goto(h, "idle")
  /\ UNCHANGED <<kernelVars, arg>>

\* malloc failed: the client has no device.
tuntap_init_fails(h) ==
  /\ pc[h] = "null" /\ "malloc" \in Faults
  /\ UNCHANGED <<kernelVars, unixVars>>

AlreadyStarted(h) == tun_fd[h] # NoFd

\* The step after socket(): a persistent device must name its unit.
AfterSocket(mode, tun) ==
  IF "PERSIST" \in mode /\ tun = TUNTAP_ID_ANY THEN "clean" ELSE "sys_start"

\* tuntap_start up to and including socket().  A failed socket() leaves
\* nothing to clean, and the ctrl_sock of an earlier attempt in place.
tuntap_start(h, mode, tun) ==
  /\ pc[h] = "idle"
  /\ \/ /\ AlreadyStarted(h) \/ TableFull \/ "socket" \in Faults
        /\ UNCHANGED <<kernelVars, unixVars>>
     \/ \E f \in Fds :
          /\ ~AlreadyStarted(h)
          /\ LowestFree(f) /\ OpenAt(f, "sock", h)
          /\ ctrl_sock' = [ctrl_sock EXCEPT ![h] = f]
          /\ arg' = [arg EXCEPT ![h] = [mode |-> mode, tun |-> tun]]
          /\ Goto(h, AfterSocket(mode, tun))
          /\ UNCHANGED <<iface, stolen, tun_fd, if_name>>

forget_socket(h) ==                              \* mutant of clean
  /\ pc[h] = "clean"
  /\ arg' = [arg EXCEPT ![h] = NoArg]
  /\ Goto(h, "idle")
  /\ UNCHANGED <<kernelVars, tun_fd, ctrl_sock, if_name>>

\* Label `clean' of tuntap_start.  Its `fd' is always -1 here, so only the
\* socket is closed; dev->ctrl_sock keeps the number.
clean(h) ==
  /\ pc[h] = "clean"
  /\ Close(h, ctrl_sock[h])
  /\ arg' = [arg EXCEPT ![h] = NoArg]
  /\ Goto(h, "idle")
  /\ UNCHANGED <<tun_fd, ctrl_sock, if_name>>

\* dev->tun_fd = fd; return 0;
StartSucceeds(h, fd) ==
  /\ tun_fd' = [tun_fd EXCEPT ![h] = fd]
  /\ Goto(h, "idle")
  /\ UNCHANGED <<ctrl_sock, arg>>

\* tuntap_set_ifname: what it refuses by itself, and the cached name.
NameRefused(ifname) == NameTooLong(ifname)
forget_name(h, ifname) == UNCHANGED if_name      \* mutant of CacheName
CacheName(h, ifname) == if_name' = [if_name EXCEPT ![h] = ifname]

-----------------------------------------------------------------------------
\* tuntap_release, first system call: close(dev->tun_fd) if there is one.
\* It is called by the client ("idle") or by tuntap_destroy ("release").
tuntap_release(h) ==
  /\ pc[h] \in {"idle", "release"}
  /\ IF tun_fd[h] # NoFd THEN Close(h, tun_fd[h]) ELSE UNCHANGED kernelVars
  /\ Goto(h, "close_sock")
  /\ UNCHANGED <<tun_fd, ctrl_sock, if_name, arg>>

\* tuntap_release, second half: close(dev->ctrl_sock) whatever its value,
\* then free(dev).  The fields of a freed device are never read again.
release_ctrl_sock(h) ==
  /\ pc[h] = "close_sock"
  /\ Close(h, ctrl_sock[h])
  /\ tun_fd' = [tun_fd EXCEPT ![h] = NoFd]
  /\ ctrl_sock' = [ctrl_sock EXCEPT ![h] = NoFd]
  /\ if_name' = [if_name EXCEPT ![h] = NoName]
  /\ arg' = [arg EXCEPT ![h] = NoArg]
  /\ Goto(h, "null")

\* The process dies with whatever its threads were doing.
UnixExit == /\ tun_fd' = [h \in Handles |-> NoFd]
            /\ ctrl_sock' = [h \in Handles |-> NoFd]
            /\ if_name' = [h \in Handles |-> NoName]
            /\ pc' = [h \in Handles |-> "null"]
            /\ arg' = [h \in Handles |-> NoArg]

UnixInit == /\ tun_fd = [h \in Handles |-> NoFd]
            /\ ctrl_sock = [h \in Handles |-> NoFd]
            /\ if_name = [h \in Handles |-> NoName]
            /\ pc = [h \in Handles |-> "null"]
            /\ arg = [h \in Handles |-> NoArg]

-----------------------------------------------------------------------------
(***************************************************************************)
(* What a successful tuntap_start promises, in the terms of doc/api.md.    *)
(***************************************************************************)
Holding(h) == pc[h] \in {"idle", "release"} /\ tun_fd[h] # NoFd
IfaceOf(h) == files[tun_fd[h]].ifc
=============================================================================
