------------------------------- MODULE Kernel -------------------------------
(***************************************************************************)
(* The two kernel tables that libtuntap works on, modelled from the way    *)
(* src/tuntap-unix.c and src/tuntap-unix-linux.c use them: the descriptor  *)
(* table of the process and the tun/tap interfaces of the system.  This is *)
(* external code: nothing here is part of the library.                     *)
(*                                                                         *)
(* Every open file carries a ghost `owner': the device handle, or the rest *)
(* of the application (App), that opened it.  The kernel does not know it; *)
(* the ghost `stolen' records whether some close() ever hit a descriptor   *)
(* that the caller did not open.                                           *)
(***************************************************************************)
EXTENDS Integers

CONSTANTS Handles,   \* the devices (struct device) of the process
          Fds,       \* the descriptor numbers of the process (RLIMIT_NOFILE)
          Ifs,       \* identities (ifindex) of the tun/tap interfaces
          App,       \* the part of the application outside libtuntap
          None,      \* no interface
          MaxUnit    \* bound on the unit numbers the kernel hands out

ASSUME FdsAssumption == Fds \subseteq Nat
ASSUME AppAssumption == App \notin Handles
ASSUME NoneAssumption == None \notin Ifs
ASSUME MaxUnitAssumption == MaxUnit \in Nat

VARIABLES files,     \* the descriptor table
          iface,     \* the interfaces of the system
          stolen     \* ghost: a close() has hit somebody else's descriptor

kernelVars == <<files, iface, stolen>>

NoFd == -1           \* what a failed system call returns

(***************************************************************************)
(* Interface names.  Only their length and their equality matter:          *)
(* <<"tun", 3>> and <<"tap", 3>> are tun3 and tap3, <<"user", n>> stands   *)
(* for one name of n characters, and <<"user", 0>> for the empty string.   *)
(***************************************************************************)
IF_NAMESIZE == 16
Names == {"user", "tun", "tap"} \X Nat
NoName == <<"user", 0>>
NameTooLong(name) == name[1] = "user" /\ name[2] > IF_NAMESIZE

\* The kernel writes a NUL at index IFNAMSIZ - 1 of every name it is given.
Trunc(name) == IF name[1] = "user" /\ name[2] > IF_NAMESIZE - 1
               THEN <<"user", IF_NAMESIZE - 1>> ELSE name

Files == [kind : {"none", "app", "sock", "tun"},
          owner : Handles \cup {App}, ifc : Ifs \cup {None}]
Closed == [kind |-> "none", owner |-> App, ifc |-> None]
IfTypes == {"tun", "tap"}
Ifaces == [type : IfTypes \cup {"none"}, name : Names, persist : {0, 1}]
Absent == [type |-> "none", name |-> NoName, persist |-> 0]

KernelTypeOK == /\ files \in [Fds -> Files]
                /\ iface \in [Ifs -> Ifaces]
                /\ stolen \in BOOLEAN

Open(f) == f \in Fds /\ files[f].kind # "none"
Exists(i) == iface[i].type # "none"
Attached(i) == \E f \in Fds : files[f].ifc = i
Named(i, name) == Exists(i) /\ iface[i].name = name

\* POSIX: a new descriptor is the lowest number that is not in use.
LowestFree(f) == ~Open(f) /\ \A g \in Fds : ~Open(g) => f <= g
TableFull == \A f \in Fds : Open(f)

OpenAt(f, kind, owner) ==
  files' = [files EXCEPT ![f] = [kind |-> kind, owner |-> owner, ifc |-> None]]

(***************************************************************************)
(* close(f) called on behalf of h.  A number that is not open is EBADF and *)
(* changes nothing.  The last close of a tun descriptor detaches it, and   *)
(* an interface that is not persistent disappears with it.                 *)
(***************************************************************************)
Close(h, f) ==
  IF Open(f)
  THEN /\ files' = [files EXCEPT ![f] = Closed]
       /\ iface' = [i \in Ifs |->
                      IF i = files[f].ifc /\ iface[i].persist = 0
                      THEN Absent ELSE iface[i]]
       /\ IF files[f].owner = h THEN stolen' = stolen ELSE stolen' = TRUE
  ELSE UNCHANGED kernelVars

-----------------------------------------------------------------------------
(***************************************************************************)
(* ioctl(f, TUNSETIFF) on a freshly opened /dev/net/tun descriptor.  An    *)
(* existing interface of that name is attached if it has the right type    *)
(* and no other file holds it; otherwise an interface is created, with the *)
(* lowest free unit number when no name was given.                         *)
(***************************************************************************)
Tun(f) == Open(f) /\ files[f].kind = "tun"

Attach(f, i) == files' = [files EXCEPT ![f].ifc = i]

AttachExisting(f, type, name, i) ==
  /\ Tun(f) /\ files[f].ifc = None
  /\ Named(i, name) /\ iface[i].type = type /\ ~Attached(i)
  /\ Attach(f, i)
  /\ UNCHANGED <<iface, stolen>>

CreateIface(f, type, name, i) ==
  /\ Tun(f) /\ files[f].ifc = None
  /\ ~Exists(i) /\ \A j \in Ifs : ~Named(j, name)
  /\ Attach(f, i)
  /\ iface' = [iface EXCEPT ![i] = [type |-> type, name |-> name, persist |-> 0]]
  /\ UNCHANGED stolen

SetIff(f, type, name, i) ==
  AttachExisting(f, type, name, i) \/ CreateIface(f, type, name, i)

NextUnit(type, n) ==
  /\ \A j \in Ifs : ~Named(j, <<type, n>>)
  /\ \A m \in 0..MaxUnit : (\A j \in Ifs : ~Named(j, <<type, m>>)) => n <= m
IfaceNames(type, name) ==
  IF name # NoName THEN {name}
  ELSE {<<type, n>> : n \in {m \in 0..MaxUnit : NextUnit(type, m)}}

\* What TUNSETIFF refuses: EINVAL, EBUSY, EBADF, or no room for an interface.
AttachRefused(f, type, name) ==
  \/ ~Tun(f) \/ (Tun(f) /\ files[f].ifc # None)
  \/ /\ name # NoName
     /\ \E i \in Ifs : Named(i, name) /\ (iface[i].type # type \/ Attached(i))
  \/ /\ \A i \in Ifs : Exists(i)
     /\ name = NoName \/ \A i \in Ifs : ~Named(i, name)
  \/ name = NoName /\ \A n \in 0..MaxUnit : \E i \in Ifs : Named(i, <<type, n>>)

\* ioctl(f, TUNSETPERSIST, value): only the attached interface can be meant.
CanPersist(f) == Tun(f) /\ files[f].ifc # None
SetPersist(f, value) ==
  /\ CanPersist(f)
  /\ iface' = [iface EXCEPT ![files[f].ifc].persist = value]
  /\ UNCHANGED <<files, stolen>>

\* ioctl(s, SIOC...) on a control socket, about the interface called name.
Socket(s) == Open(s) /\ files[s].kind = "sock"
Reaches(s, name, i) == Socket(s) /\ Named(i, Trunc(name))

-----------------------------------------------------------------------------
KernelInit == /\ files = [f \in Fds |-> Closed]
              /\ iface = [i \in Ifs |-> Absent]
              /\ stolen = FALSE

\* The rest of the application opens and closes its own files.
AppOpen(f) == LowestFree(f) /\ OpenAt(f, "app", App) /\ UNCHANGED <<iface, stolen>>
AppClose(f) == Open(f) /\ files[f].kind = "app" /\ Close(App, f)

\* exit() or a crash: every file is closed, only persistent interfaces stay.
KernelExit == /\ files' = [f \in Fds |-> Closed]
              /\ iface' = [i \in Ifs |-> IF iface[i].persist = 1
                                         THEN iface[i] ELSE Absent]
              /\ stolen' = FALSE
=============================================================================
