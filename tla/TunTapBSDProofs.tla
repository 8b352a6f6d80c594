--------------------------- MODULE TunTapBSDProofs --------------------------
(***************************************************************************)
(* Proofs about TunTapBSD: the properties its run checks, for any number   *)
(* of handles, descriptors and nodes, any of the four systems and any set  *)
(* of faults.                                                              *)
(***************************************************************************)
EXTENDS TunTapBSD, TLAPS

(***************************************************************************)
(* The inductive invariant.                                                *)
(***************************************************************************)

\* The kernel's tables: what is attached exists and is attached once, names
\* are unique, cut and not empty, only FreeBSD's change, and an absent
\* interface is not persistent.
AttachedExists ==
  \A f \in Fds : files[f].ifc # None => files[f].kind = "tun" /\ Exists(files[f].ifc)
AttachedOnce ==
  \A f, g \in Fds : files[f].ifc # None /\ files[f].ifc = files[g].ifc => f = g
AbsentPlain == \A i \in Ifs : ~Exists(i) => iface[i].persist = 0
NamesCut == \A i \in Ifs : Exists(i) =>
              iface[i].name # NoName /\ Trunc(iface[i].name) = iface[i].name
NamesUnique ==
  \A i, j \in Ifs : Exists(i) /\ Exists(j) /\ iface[i].name = iface[j].name => i = j
NamesFixed == os # "FreeBSD" => \A i \in Ifs : Exists(i) => iface[i].name = i

\* Where the nodes are scanned, none above the last unit is ever open.
Scanned(type) == os \in {"OpenBSD", "Darwin"} \/ (os = "NetBSD" /\ type = "tun")
InRange == \A f \in Fds : files[f].ifc # None /\ Scanned(files[f].ifc[1]) =>
                            files[f].ifc[2] < TUNTAP_ID_MAX

KernelInv == /\ AttachedExists /\ AttachedOnce /\ AbsentPlain
             /\ NamesCut /\ NamesUnique /\ NamesFixed /\ InRange

Attaching == {"getname", "getflags", "setflags"}
Opening == {"create", "recreate", "open"}
Starting == Attaching \cup Opening \cup {"sys_start", "clean"}
Live(h) == pc[h] \in Starting \cup {"idle"}

\* The fields of a handle and the locals of its call, theft or no theft.
UnitInv(h) ==
  IF WildCard(arg[h])
  THEN /\ unit[h] \in 0..TUNTAP_ID_MAX
       /\ pc[h] = "create" \/ Scans(arg[h]) => unit[h] < TUNTAP_ID_MAX
  ELSE unit[h] = arg[h].tun

HandleInv(h) ==
  /\ pc[h] \in Starting \cup {"null", "ifdestroy"} => tun_fd[h] = NoFd
  /\ pc[h] = "ifdestroy" => os = "FreeBSD"
  /\ pc[h] \in Attaching <=> fd[h] # NoFd
  /\ pc[h] \in Starting \ {"clean"} =>
       arg[h].tun \in Tuns /\ ~(Persist(arg[h]) /\ WildCard(arg[h]))
  /\ pc[h] \in Attaching \cup {"recreate", "open"} => ~Invalid(arg[h])
  /\ pc[h] = "create" => CreatesFirst(arg[h])
  /\ pc[h] \in Opening => UnitInv(h)
  /\ pc[h] = "null" \/ (pc[h] = "idle" /\ tun_fd[h] = NoFd) => arg[h] = NoArg

\* What a handle owns as long as nothing was stolen.
NeedsSocket(h) == pc[h] \in Starting \/ (pc[h] = "idle" /\ tun_fd[h] # NoFd)

OwnsSocket(h) == /\ ctrl_sock[h] \in Fds
                 /\ files[ctrl_sock[h]].kind = "sock"
                 /\ files[ctrl_sock[h]].owner = h

OwnsNode(h, f) ==
  /\ f \in Fds /\ files[f].kind = "tun" /\ files[f].owner = h
  /\ files[f].ifc \in Ifs /\ files[f].ifc[1] = Type(arg[h])
  /\ WildCard(arg[h]) \/ files[f].ifc[2] = arg[h].tun
  /\ files[f].ifc[2] < TUNTAP_ID_MAX \/ (AsksName(arg[h]) /\ WildCard(arg[h]))
  /\ ~undone /\ Persist(arg[h]) => iface[files[f].ifc].persist = 1

NameFits(h, f) == \/ iface[files[f].ifc].name = Trunc(if_name[h])
                  \/ Scanning(h) /\ f = 0

\* The name of a handle, also of one whose start failed, is that of an
\* interface it has open, unless a scan ended above the last unit.
Held(h) == \E f \in Fds : /\ files[f].owner = h /\ files[f].ifc \in Ifs
                          /\ iface[files[f].ifc].name = Trunc(if_name[h])
EndName(h) == /\ if_name[h][1] \in IfTypes /\ Scanned(if_name[h][1])
              /\ if_name[h][2] = TUNTAP_ID_MAX

OwnInv(h) ==
  /\ NeedsSocket(h) => OwnsSocket(h)
  /\ pc[h] \in Attaching => OwnsNode(h, fd[h])
  /\ pc[h] \in {"getflags", "setflags"} => NameFits(h, fd[h])
  /\ Started(h) => OwnsNode(h, tun_fd[h]) /\ NameFits(h, tun_fd[h])
  /\ Live(h) /\ if_name[h] # NoName => Held(h) \/ EndName(h)
  /\ pc[h] = "ifdestroy" /\ arg[h] # NoArg =>
       \A f \in Fds : files[f].owner = h /\ files[f].ifc # None =>
                        iface[files[f].ifc].name # Trunc(if_name[h])

\* The interface that a persistent start created stays until it is opened.
CreatedInv(h) == pc[h] \in {"recreate", "open"} /\ Persist(arg[h]) =>
                   Node(h) \in Ifs /\ iface[Node(h)].persist = 1

Inv == /\ TypeOK
       /\ KernelInv
       /\ \A h \in Handles : HandleInv(h)
       /\ ~undone => \A h \in Handles : CreatedInv(h)
       /\ ~stolen => \A h \in Handles : OwnInv(h)

-----------------------------------------------------------------------------
(***************************************************************************)
(* Lemmas about the operators.                                             *)
(***************************************************************************)

\* The constants' assumptions, under the names the proofs cite.
LEMMA Constants == /\ Fds \subseteq Nat /\ NoFd \notin Fds /\ App \notin Handles
                   /\ None \notin Ifs /\ Ifs \subseteq IfTypes \X Nat
                   /\ TUNTAP_ID_MAX \in Nat /\ TUNTAP_ID_MAX > 0
                   /\ Modes \subseteq SUBSET Flags /\ Tuns \subseteq Int
                   /\ NewNames \subseteq Names
  BY FdsAssumption, AppAssumption, NoneAssumption, NodesAssumption, IdMaxAssumption,
     UnitsAssumption, ModesAssumption, TunsAssumption, NewNamesAssumption DEF NoFd

\* Cutting a name twice is cutting it once; the empty name is not cut.
LEMMA TruncLemma ==
  /\ NoName \in Names /\ Trunc(NoName) = NoName
  /\ \A name \in Names : /\ Trunc(name) \in Names
                         /\ Trunc(Trunc(name)) = Trunc(name)
  BY DEF Trunc, Names, NoName, IF_NAMESIZE

\* The name of a unit is a name, neither empty nor cut.
LEMMA UnitNameLemma ==
  \A i \in IfTypes \X Nat : /\ i \in Names /\ i # NoName /\ Trunc(i) = i
                            /\ i[1] # "none"
  BY DEF Trunc, Names, NoName, IfTypes

\* A node's unit name is a name of its own, neither empty nor cut.
LEMMA NodeLemma ==
  \A i \in Ifs : /\ i \in Names /\ i # NoName /\ Trunc(i) = i
                 /\ i[1] \in IfTypes /\ i[2] \in Nat
  BY UnitNameLemma, Constants

\* The absent interface and the closed file are of their types.
LEMMA RecordLemma == /\ Closed \in Files /\ Absent \in Ifaces /\ NoArg \in Args
                     /\ Closed.kind = "none" /\ Closed.ifc = None
                     /\ Absent.type = "none" /\ Absent.persist = 0
  BY TruncLemma DEF Closed, Absent, Files, Ifaces, NoArg, Args

\* The interface that a node gets has the node's type and name.
LEMMA NewIfaceLemma ==
  ASSUME NEW i \in Ifs, NEW persist \in {0, 1}
  PROVE  /\ NewIface(i, persist) \in Ifaces
         /\ NewIface(i, persist).type = i[1] /\ i[1] # "none"
         /\ NewIface(i, persist).name = i
         /\ NewIface(i, persist).persist = persist
<1>1. i \in Names /\ i[1] \in IfTypes
  BY NodeLemma
<1>2. QED  BY <1>1 DEF NewIface, Ifaces, IfTypes

\* Arguments that pass the checks of tuntap_sys_start name a type, and a unit
\* or the wild card.
LEMMA ArgLemma ==
  ASSUME NEW a \in Args, ~Invalid(a)
  PROVE  /\ Type(a) \in IfTypes /\ CreateType(a) = Type(a)
         /\ WildCard(a) \/ a.tun < TUNTAP_ID_MAX
         /\ ~(os = "Darwin" /\ Persist(a))
<1>1. Type(a) \in IfTypes
  BY DEF Invalid, Type, IfTypes
<1>2. QED  BY <1>1, IdMaxAssumption DEF Invalid, CreateType, BadUnit, Args, IfTypes

\* A system scans the nodes or asks for the name.
LEMMA ScanLemma ==
  ASSUME NEW a \in Args, os \in {"OpenBSD", "NetBSD", "FreeBSD", "Darwin"}
  PROVE  /\ Type(a) \in IfTypes => (AsksName(a) <=> ~Scans(a))
         /\ Scans(a) => Scanned(Type(a)) /\ os # "FreeBSD"
         /\ Type(a) \in IfTypes /\ Scanned(Type(a)) => Scans(a)
  BY DEF Scans, AsksName, Scanned, IfTypes

-----------------------------------------------------------------------------
(***************************************************************************)
(* What each operation on the kernel's tables changes, point by point.     *)
(***************************************************************************)
LEMMA CloseLemma ==
  ASSUME KernelTypeOK, NEW h, NEW f, Close(h, f)
  PROVE  /\ KernelTypeOK'
         /\ \A g \in Fds : g # f => files'[g] = files[g]
         /\ f \in Fds => files'[f].kind = "none"
         /\ f \in Fds /\ files[f].kind # "none" => files'[f] = Closed
         /\ \A i \in Ifs : iface'[i] = iface[i] \/ (f \in Fds /\ files[f].ifc = i
                           /\ iface[i].persist = 0 /\ iface'[i] = Absent)
         /\ ~stolen' => ~stolen
         /\ ~stolen' /\ Open(f) => files[f].owner = h
<1>1. CASE Open(f)
  BY <1>1, RecordLemma DEF Close, Open, KernelTypeOK
<1>2. CASE ~Open(f)
  BY <1>2 DEF Close, Open, KernelTypeOK, kernelVars
<1>3. QED  BY <1>1, <1>2

\* socket() takes a free descriptor for h and changes no other.
LEMMA SocketLemma ==
  ASSUME KernelTypeOK, NEW h \in Handles, NEW f \in Fds, LowestFree(f),
         OpenAt(f, "sock", h), UNCHANGED <<iface, stolen>>
  PROVE  /\ KernelTypeOK' /\ files[f].kind = "none"
         /\ \A g \in Fds : g # f => files'[g] = files[g]
         /\ files'[f].kind = "sock" /\ files'[f].owner = h /\ files'[f].ifc = None
<1>1. [kind |-> "sock", owner |-> h, ifc |-> None] \in Files
  BY DEF Files
<1>2. QED  BY <1>1 DEF OpenAt, KernelTypeOK, LowestFree, Open

\* A node that was not open is; its interface was there or is new.
Opens(h, f, i) ==
  /\ KernelTypeOK' /\ UNCHANGED stolen
  /\ f \in Fds /\ i \in Ifs /\ files[f].kind = "none" /\ ~Attached(i)
  /\ \A g \in Fds : g # f => files'[g] = files[g]
  /\ files'[f].kind = "tun" /\ files'[f].owner = h /\ files'[f].ifc = i
  /\ \A j \in Ifs : j # i => iface'[j] = iface[j]
  /\ \/ Exists(i) /\ iface'[i] = iface[i]
     \/ /\ NameFree(i) /\ iface'[i].type # "none" /\ iface'[i].name = i

\* open() makes f a file of h, attached to i, and changes no other.
LEMMA OpenFileLemma ==
  ASSUME KernelTypeOK, NEW h \in Handles, NEW f \in Fds, NEW i \in Ifs,
         OpenFile(h, f, i)
  PROVE  /\ files' \in [Fds -> Files]
         /\ \A g \in Fds : g # f => files'[g] = files[g]
         /\ files'[f].kind = "tun" /\ files'[f].owner = h /\ files'[f].ifc = i
<1>1. [kind |-> "tun", owner |-> h, ifc |-> i] \in Files
  BY DEF Files
<1>2. QED  BY <1>1 DEF OpenFile, KernelTypeOK

\* Opening a node attaches it; its interface was there or is new.
LEMMA OpenNodeLemma ==
  ASSUME KernelTypeOK, NEW h \in Handles, NEW f \in Fds, NEW i, OpenNode(h, f, i)
  PROVE  Opens(h, f, i)
<1>1. /\ i \in Ifs /\ ~Attached(i) /\ OpenFile(h, f, i) /\ UNCHANGED stolen
      /\ files[f].kind = "none"
  BY DEF OpenNode, LowestFree, Open
<1>2. CASE Exists(i) /\ iface' = iface
  BY <1>1, <1>2, OpenFileLemma DEF Opens, KernelTypeOK
<1>3. ASSUME NEW persist \in {0, 1}, NameFree(i),
             iface' = [iface EXCEPT ![i] = NewIface(i, persist)]
      PROVE  Opens(h, f, i)
  BY <1>1, <1>3, OpenFileLemma, NewIfaceLemma DEF Opens, KernelTypeOK
<1>4. QED  BY <1>2, <1>3 DEF OpenNode

\* NetBSD's autocloning node gives a new tap.
LEMMA OpenCloneLemma ==
  ASSUME KernelTypeOK, AttachedExists, NEW h \in Handles, NEW f \in Fds, NEW i \in Ifs,
         OpenClone(h, f, i)
  PROVE  Opens(h, f, i) /\ i[1] = "tap"
<1>1. /\ OpenFile(h, f, i) /\ UNCHANGED stolen /\ files[f].kind = "none"
      /\ NameFree(i) /\ iface' = [iface EXCEPT ![i] = NewIface(i, 0)] /\ i[1] = "tap"
  BY DEF OpenClone, LowestFree, Open
<1>2. ~Attached(i)
  BY <1>1, NoneAssumption DEF Attached, NameFree, AttachedExists
<1>3. QED  BY <1>1, <1>2, OpenFileLemma, NewIfaceLemma DEF Opens, KernelTypeOK

\* SIOCIFCREATE adds one persistent interface under its node's name.
LEMMA CreateLemma ==
  ASSUME KernelTypeOK, NEW s, NEW i, IfCreate(s, i)
  PROVE  /\ KernelTypeOK' /\ UNCHANGED <<files, stolen>>
         /\ i \in Ifs /\ NameFree(i)
         /\ \A j \in Ifs : j # i => iface'[j] = iface[j]
         /\ iface'[i].type # "none" /\ iface'[i].name = i /\ iface'[i].persist = 1
  BY NewIfaceLemma DEF IfCreate, CanCreate, KernelTypeOK

\* SIOCIFDESTROY changes nothing, or the interface of that name and the
\* descriptors attached to it, of which there is none on FreeBSD.
LEMMA DestroyLemma ==
  ASSUME KernelTypeOK, NEW s, NEW name, IfDestroy(s, name)
  PROVE  /\ KernelTypeOK' /\ UNCHANGED stolen
         /\ \/ UNCHANGED <<files, iface>>
            \/ \E i \in Ifs :
                 /\ Named(i, Trunc(name)) /\ (os = "FreeBSD" => ~Attached(i))
                 /\ iface'[i] = Absent /\ \A j \in Ifs : j # i => iface'[j] = iface[j]
                 /\ \A f \in Fds :
                      /\ files'[f].kind = files[f].kind
                      /\ files'[f].owner = files[f].owner
                      /\ files[f].ifc # i => files'[f] = files[f]
                      /\ files[f].ifc = i => files'[f].ifc = None
<1>1. CASE UNCHANGED kernelVars
  BY <1>1 DEF kernelVars, KernelTypeOK
<1>2. ASSUME NEW i \in Ifs, Reaches(s, name, i), ~Blocked(s, name),
             iface' = [iface EXCEPT ![i] = Absent], UNCHANGED stolen,
             files' = [f \in Fds |-> IF files[f].ifc = i THEN [files[f] EXCEPT !.ifc = None]
                                                        ELSE files[f]]
      PROVE  /\ KernelTypeOK' /\ UNCHANGED stolen
             /\ Named(i, Trunc(name)) /\ (os = "FreeBSD" => ~Attached(i))
             /\ iface'[i] = Absent /\ \A j \in Ifs : j # i => iface'[j] = iface[j]
             /\ \A f \in Fds :
                  /\ files'[f].kind = files[f].kind
                  /\ files'[f].owner = files[f].owner
                  /\ files[f].ifc # i => files'[f] = files[f]
                  /\ files[f].ifc = i => files'[f].ifc = None
  <2>1. Named(i, Trunc(name)) /\ (os = "FreeBSD" => ~Attached(i))
    BY <1>2 DEF Reaches, Blocked
  <2>2. \A f \in Fds : [files[f] EXCEPT !.ifc = None] \in Files
    BY DEF KernelTypeOK, Files
  <2>3. \A f \in Fds : /\ [files[f] EXCEPT !.ifc = None].kind = files[f].kind
                       /\ [files[f] EXCEPT !.ifc = None].owner = files[f].owner
                       /\ [files[f] EXCEPT !.ifc = None].ifc = None
    BY DEF KernelTypeOK, Files
  <2>4. iface'[i] = Absent /\ \A j \in Ifs : j # i => iface'[j] = iface[j]
    BY <1>2 DEF KernelTypeOK
  <2>5. KernelTypeOK'
    BY <1>2, <2>2, RecordLemma DEF KernelTypeOK
  <2>6. QED  BY <1>2, <2>1, <2>3, <2>4, <2>5
<1>3. QED  BY <1>1, <1>2 DEF IfDestroy

\* FreeBSD's SIOCSIFNAME changes the name of one interface.
LEMMA RenameLemma ==
  ASSUME KernelTypeOK, NEW h, NEW i \in Ifs, NEW name \in Names,
         SysSetIfname(h, i, name)
  PROVE  /\ KernelTypeOK' /\ UNCHANGED <<files, stolen>> /\ os = "FreeBSD"
         /\ Named(i, Trunc(if_name[h]))
         /\ Trunc(name) # NoName /\ \A j \in Ifs \ {i} : ~Named(j, Trunc(name))
         /\ \A j \in Ifs : j # i => iface'[j] = iface[j]
         /\ iface'[i].type = iface[i].type /\ iface'[i].persist = iface[i].persist
         /\ iface'[i].name = Trunc(name)
<1> DEFINE new == [iface[i] EXCEPT !.name = Trunc(name)]
<1>1. Trunc(name) \in Names
  BY TruncLemma
<1>2. /\ new \in Ifaces /\ new.type = iface[i].type
      /\ new.persist = iface[i].persist /\ new.name = Trunc(name)
  BY <1>1 DEF KernelTypeOK, Ifaces
<1>3. iface' = [iface EXCEPT ![i] = new] /\ UNCHANGED <<files, stolen>>
  BY DEF SysSetIfname
<1>4. /\ os = "FreeBSD" /\ Named(i, Trunc(if_name[h]))
      /\ Trunc(name) # NoName /\ \A j \in Ifs \ {i} : ~Named(j, Trunc(name))
  BY DEF SysSetIfname, Reaches
<1> HIDE DEF new
<1>5. QED  BY <1>2, <1>3, <1>4 DEF KernelTypeOK

-----------------------------------------------------------------------------
(***************************************************************************)
(* Every operation on the kernel's tables keeps them consistent.           *)
(***************************************************************************)

\* An attached interface is one.
LEMMA AttachedIf ==
  ASSUME KernelTypeOK, NEW f \in Fds, files[f].ifc # None
  PROVE  files[f].ifc \in Ifs
  BY DEF KernelTypeOK, Files

\* close() keeps the tables consistent.
LEMMA CloseKernel ==
  ASSUME KernelTypeOK, KernelInv, NEW h, NEW f, Close(h, f), UNCHANGED os
  PROVE  KernelInv'
<1> USE DEF KernelInv
<1>1. CASE Open(f)
  <2>1. f \in Fds /\ files'[f] = Closed /\ \A g \in Fds : g # f => files'[g] = files[g]
    BY <1>1, CloseLemma DEF Open
  <2>2. \A i \in Ifs : \/ iface'[i] = iface[i]
                       \/ files[f].ifc = i /\ iface'[i] = Absent
    BY CloseLemma
  <2>3. \A i \in Ifs : Exists(i)' => iface'[i] = iface[i]
    BY <2>2, RecordLemma DEF Exists
  <2>4. AttachedOnce' /\ InRange'
    BY <2>1, RecordLemma DEF AttachedOnce, InRange, Scanned
  <2>5. AttachedExists'
    <3>1. SUFFICES ASSUME NEW g \in Fds, files'[g].ifc # None
                   PROVE  files'[g].kind = "tun" /\ Exists(files[g].ifc)'
      BY DEF AttachedExists
    <3>2. g # f /\ files'[g] = files[g]
      BY <2>1, <3>1, RecordLemma
    <3>3. files[g].ifc \in Ifs /\ files[g].ifc # files[f].ifc
      BY <2>1, <3>1, <3>2, AttachedIf DEF AttachedOnce
    <3>4. QED  BY <2>2, <3>1, <3>2, <3>3 DEF AttachedExists, Exists
  <2>6. AbsentPlain'
    BY <2>2, RecordLemma DEF AbsentPlain, Exists
  <2>7. NamesCut' /\ NamesUnique' /\ NamesFixed'
    BY <2>3 DEF NamesCut, NamesUnique, NamesFixed, Exists
  <2>8. QED  BY <2>4, <2>5, <2>6, <2>7
<1>2. CASE ~Open(f)
  BY <1>2 DEF Close, kernelVars, AttachedExists, AttachedOnce, AbsentPlain, NamesCut,
              NamesUnique, NamesFixed, InRange, Scanned, Exists
<1>3. QED  BY <1>1, <1>2

\* So does socket(),
LEMMA SocketKernel ==
  ASSUME KernelTypeOK, KernelInv, NEW h \in Handles, NEW f \in Fds, LowestFree(f),
         OpenAt(f, "sock", h), UNCHANGED <<iface, stolen, os>>
  PROVE  KernelInv'
  BY SocketLemma DEF KernelInv, AttachedExists, AttachedOnce, AbsentPlain, NamesCut,
                     NamesUnique, NamesFixed, InRange, Scanned, Exists

\* A new interface has the name of its node, which was free.
LEMMA NewKernel ==
  ASSUME KernelTypeOK, KernelInv, NEW i \in Ifs, NameFree(i), UNCHANGED os,
         \A j \in Ifs : j # i => iface'[j] = iface[j],
         iface'[i].type # "none", iface'[i].name = i
  PROVE  /\ AbsentPlain' /\ NamesCut' /\ NamesUnique' /\ NamesFixed'
         /\ \A j \in Ifs : Exists(j) => Exists(j)'
<1> USE DEF KernelInv, Exists
<1>1. i # NoName /\ Trunc(i) = i
  BY NodeLemma
<1>2. ~Exists(i) /\ \A j \in Ifs : Exists(j) => iface[j].name # i
  BY DEF NameFree, Named
<1>3. AbsentPlain' /\ NamesCut'
  BY <1>1 DEF AbsentPlain, NamesCut
<1>4. NamesUnique'
  BY <1>2 DEF NamesUnique
<1>5. NamesFixed'
  BY DEF NamesFixed
<1>6. QED  BY <1>2, <1>3, <1>4, <1>5

\* and open() of a node within the range of the scans,
LEMMA OpensKernel ==
  ASSUME KernelTypeOK, KernelInv, NEW h \in Handles, NEW f, NEW i, Opens(h, f, i),
         UNCHANGED os, Scanned(i[1]) => i[2] < TUNTAP_ID_MAX
  PROVE  KernelInv'
<1> USE DEF KernelInv
<1>1. /\ f \in Fds /\ i \in Ifs /\ files'[f].kind = "tun" /\ files'[f].ifc = i
      /\ \A g \in Fds : g # f => files'[g] = files[g]
      /\ \A g \in Fds : files[g].ifc # i
      /\ \A j \in Ifs : j # i => iface'[j] = iface[j]
  BY DEF Opens, Attached
<1>2. AttachedOnce'
  BY <1>1, NoneAssumption DEF AttachedOnce
<1>3. InRange'
  BY <1>1 DEF InRange, Scanned
<1>4. CASE Exists(i) /\ iface'[i] = iface[i]
  <2>1. \A j \in Ifs : iface'[j] = iface[j]
    BY <1>1, <1>4
  <2>2. AttachedExists'
    BY <1>1, <1>4, <2>1, AttachedIf DEF AttachedExists, Exists
  <2>3. AbsentPlain' /\ NamesCut' /\ NamesUnique' /\ NamesFixed'
    BY <2>1 DEF AbsentPlain, NamesCut, NamesUnique, NamesFixed, Exists
  <2>4. QED  BY <1>2, <1>3, <2>2, <2>3
<1>5. CASE NameFree(i) /\ iface'[i].type # "none" /\ iface'[i].name = i
  <2>1. /\ AbsentPlain' /\ NamesCut' /\ NamesUnique' /\ NamesFixed'
        /\ \A j \in Ifs : Exists(j) => Exists(j)'
    BY <1>1, <1>5, NewKernel
  <2>2. AttachedExists'
    BY <1>1, <1>5, <2>1, AttachedIf DEF AttachedExists, Exists
  <2>3. QED  BY <1>2, <1>3, <2>1, <2>2
<1>6. QED  BY <1>4, <1>5 DEF Opens

\* and SIOCIFCREATE,
LEMMA CreateKernel ==
  ASSUME KernelTypeOK, KernelInv, NEW s, NEW i, IfCreate(s, i), UNCHANGED os
  PROVE  KernelInv'
<1>1. /\ UNCHANGED files /\ i \in Ifs /\ NameFree(i)
      /\ \A j \in Ifs : j # i => iface'[j] = iface[j]
      /\ iface'[i].type # "none" /\ iface'[i].name = i
  BY CreateLemma
<1>2. /\ AbsentPlain' /\ NamesCut' /\ NamesUnique' /\ NamesFixed'
      /\ \A j \in Ifs : Exists(j) => Exists(j)'
  BY <1>1, NewKernel
<1>3. AttachedOnce' /\ InRange'
  BY <1>1 DEF KernelInv, AttachedOnce, InRange, Scanned
<1>4. AttachedExists'
  BY <1>1, <1>2, AttachedIf DEF KernelInv, AttachedExists
<1>5. QED  BY <1>2, <1>3, <1>4 DEF KernelInv

\* and SIOCIFDESTROY,
LEMMA DestroyKernel ==
  ASSUME KernelTypeOK, KernelInv, NEW s, NEW name, IfDestroy(s, name), UNCHANGED os
  PROVE  KernelInv'
<1> USE DEF KernelInv
<1>1. CASE UNCHANGED <<files, iface>>
  BY <1>1 DEF AttachedExists, AttachedOnce, AbsentPlain, NamesCut, NamesUnique,
              NamesFixed, InRange, Scanned, Exists
<1>2. ASSUME NEW i \in Ifs, iface'[i] = Absent,
             \A j \in Ifs : j # i => iface'[j] = iface[j],
             \A f \in Fds : /\ files'[f].kind = files[f].kind
                            /\ files[f].ifc # i => files'[f] = files[f]
                            /\ files[f].ifc = i => files'[f].ifc = None
      PROVE  KernelInv'
  <2>1. \A j \in Ifs : Exists(j)' => j # i /\ iface'[j] = iface[j]
    BY <1>2, RecordLemma DEF Exists
  <2>2. AttachedOnce' /\ InRange'
    BY <1>2 DEF AttachedOnce, InRange, Scanned
  <2>3. AttachedExists'
    BY <1>2, AttachedIf DEF AttachedExists, Exists
  <2>4. AbsentPlain'
    BY <1>2, RecordLemma DEF AbsentPlain, Exists
  <2>5. NamesCut' /\ NamesUnique' /\ NamesFixed'
    BY <2>1 DEF NamesCut, NamesUnique, NamesFixed, Exists
  <2>6. QED  BY <2>2, <2>3, <2>4, <2>5
<1>3. QED  BY <1>1, <1>2, DestroyLemma

\* and SIOCSIFNAME.
LEMMA RenameKernel ==
  ASSUME KernelTypeOK, KernelInv, NEW h, NEW i \in Ifs, NEW name \in Names,
         SysSetIfname(h, i, name), UNCHANGED os
  PROVE  KernelInv'
<1> USE DEF KernelInv
<1>1. /\ UNCHANGED files /\ os = "FreeBSD" /\ Exists(i)
      /\ Trunc(name) # NoName /\ \A j \in Ifs \ {i} : ~Named(j, Trunc(name))
      /\ \A j \in Ifs : j # i => iface'[j] = iface[j]
      /\ iface'[i].type = iface[i].type /\ iface'[i].persist = iface[i].persist
      /\ iface'[i].name = Trunc(name)
  BY RenameLemma DEF Named
<1>2. Trunc(Trunc(name)) = Trunc(name)
  BY TruncLemma
<1>3. AttachedOnce' /\ InRange' /\ NamesFixed'
  BY <1>1 DEF AttachedOnce, InRange, Scanned, NamesFixed
<1>4. AttachedExists'
  BY <1>1, AttachedIf DEF AttachedExists, Exists
<1>5. AbsentPlain' /\ NamesCut'
  BY <1>1, <1>2 DEF AbsentPlain, NamesCut, Exists
<1>6. NamesUnique'
  BY <1>1 DEF NamesUnique, Exists, Named
<1>7. QED  BY <1>3, <1>4, <1>5, <1>6

-----------------------------------------------------------------------------
(***************************************************************************)
(* The steps of one handle: types, tables, fields.                         *)
(***************************************************************************)
BsdStep(h) == \/ (Unix(h) \/ BSD(h)) /\ UNCHANGED undone
              \/ sys_destroy(h)

\* The system is one of the four.
LEMMA OsLemma == TypeOK => os \in {"OpenBSD", "NetBSD", "FreeBSD", "Darwin"}
  BY SystemsAssumption DEF TypeOK

\* What the three ways to open a node come to.
GoesOn(h) == NextUnitOf(h) /\ Scanning(h) /\ unit[h] + 1 < TUNTAP_ID_MAX
RightNode(h, i) ==
  /\ i \in Ifs /\ i[1] = Type(arg[h])
  /\ WildCard(arg[h]) \/ (i = Node(h) /\ i[2] = arg[h].tun)
  /\ i[2] < TUNTAP_ID_MAX \/ (AsksName(arg[h]) /\ WildCard(arg[h]))
  /\ AsksName(arg[h]) \/ i[2] = unit[h]

\* The open() of tuntap_sys_start: it fails, goes on with the next unit, or
\* attaches a node of the right type and unit.
LEMMA OpenStep ==
  ASSUME TypeOK, KernelInv, NEW h \in Handles, HandleInv(h),
         open_unit(h) \/ open_scan(h) \/ open_clone(h)
  PROVE  /\ pc[h] = "open" /\ ~Invalid(arg[h]) /\ Type(arg[h]) \in IfTypes
         /\ \/ UNCHANGED kernelVars /\ (SysStartFails(h) \/ GoesOn(h))
            \/ \E f \in Fds, i \in Ifs :
                 /\ Opens(h, f, i) /\ RightNode(h, i)
                 /\ \/ Opened(h, f, unit[h])
                    \/ f = 0 /\ Scanning(h) /\ Opened(h, f, TUNTAP_ID_MAX)
                    \/ f = 0 /\ GoesOn(h)
<1>1. /\ pc[h] = "open" /\ ~Invalid(arg[h]) /\ UnitInv(h) /\ arg[h] \in Args
  BY DEF open_unit, open_scan, open_clone, HandleInv, Opening, TypeOK
<1>2. /\ Type(arg[h]) \in IfTypes /\ CreateType(arg[h]) = Type(arg[h])
      /\ WildCard(arg[h]) \/ arg[h].tun < TUNTAP_ID_MAX
  BY <1>1, ArgLemma
<1>3. KernelTypeOK /\ os \in {"OpenBSD", "NetBSD", "FreeBSD", "Darwin"}
  BY OsLemma DEF TypeOK
<1>4. CASE open_unit(h)
  <2>1. CASE SysStartFails(h) /\ UNCHANGED kernelVars
    BY <1>1, <1>2, <2>1
  <2>2. ASSUME NEW f \in Fds, OpenNode(h, f, Node(h)), Opened(h, f, unit[h])
        PROVE  Opens(h, f, Node(h)) /\ RightNode(h, Node(h))
    <3>1. Opens(h, f, Node(h)) /\ Node(h) \in Ifs
      BY <1>3, <2>2, OpenNodeLemma DEF OpenNode
    <3>2. Node(h)[1] = Type(arg[h]) /\ Node(h)[2] = unit[h]
      BY <1>2 DEF Node
    <3>3. WildCard(arg[h]) => AsksName(arg[h])
      BY <1>3, <1>4 DEF open_unit, Scanning, Scans, AsksName
    <3>4. QED  BY <1>1, <1>2, <3>1, <3>2, <3>3 DEF RightNode, UnitInv
  <2>3. QED  BY <1>1, <1>2, <1>4, <2>1, <2>2, <2>2 DEF open_unit, Opens
<1>5. CASE open_scan(h)
  <2>1. Scanning(h) /\ unit[h] \in 0..TUNTAP_ID_MAX /\ unit[h] < TUNTAP_ID_MAX
    BY <1>1, <1>5 DEF open_scan, Scanning, UnitInv
  <2>2. ~LastUnit(h) => unit[h] + 1 < TUNTAP_ID_MAX
    BY <2>1, Constants DEF LastUnit
  <2>3. ASSUME UNCHANGED kernelVars, SysStartFails(h) \/ (~LastUnit(h) /\ NextUnitOf(h))
        PROVE  SysStartFails(h) \/ GoesOn(h)
    BY <2>1, <2>2, <2>3 DEF GoesOn
  <2>4. ASSUME NEW f \in Fds, OpenNode(h, f, Node(h))
        PROVE  Opens(h, f, Node(h)) /\ RightNode(h, Node(h))
    <3>1. Opens(h, f, Node(h)) /\ Node(h) \in Ifs
      BY <1>3, <2>4, OpenNodeLemma DEF OpenNode
    <3>2. Node(h)[1] = Type(arg[h]) /\ Node(h)[2] = unit[h]
      BY <1>2 DEF Node
    <3>3. QED  BY <2>1, <3>1, <3>2 DEF RightNode, Scanning
  <2>5. ASSUME NEW f \in Fds, ~Found(f)
        PROVE  f = 0
    BY <2>5, Constants DEF Found
  <2>6. CASE /\ OpenFails(Node(h))
             /\ IF LastUnit(h) THEN SysStartFails(h) ELSE NextUnitOf(h)
             /\ UNCHANGED kernelVars
    BY <1>1, <1>2, <2>3, <2>6
  <2>7. ASSUME NEW f \in Fds, OpenNode(h, f, Node(h)),
               IF Found(f) THEN Opened(h, f, unit[h])
               ELSE IF LastUnit(h) THEN Opened(h, f, TUNTAP_ID_MAX)
               ELSE NextUnitOf(h)
        PROVE  \/ Opened(h, f, unit[h])
               \/ f = 0 /\ Scanning(h) /\ Opened(h, f, TUNTAP_ID_MAX)
               \/ f = 0 /\ GoesOn(h)
    BY <2>1, <2>2, <2>5, <2>7 DEF GoesOn
  <2>8. CASE \E f \in Fds :
               /\ OpenNode(h, f, Node(h))
               /\ IF Found(f) THEN Opened(h, f, unit[h])
                  ELSE IF LastUnit(h) THEN Opened(h, f, TUNTAP_ID_MAX)
                  ELSE NextUnitOf(h)
    BY <1>1, <1>2, <2>4, <2>7, <2>8 DEF RightNode
  <2>9. QED  BY <1>5, <2>6, <2>8 DEF open_scan
<1>6. CASE open_clone(h)
  <2>1. CASE SysStartFails(h) /\ UNCHANGED kernelVars
    BY <1>1, <1>2, <2>1
  <2>2. ASSUME NEW f \in Fds, NEW i \in Ifs, OpenClone(h, f, i)
        PROVE  Opens(h, f, i) /\ RightNode(h, i)
    <3>1. Opens(h, f, i) /\ i[1] = "tap"
      BY <1>3, <2>2, OpenCloneLemma DEF KernelInv
    <3>2. WildCard(arg[h]) /\ Type(arg[h]) = "tap" /\ AsksName(arg[h])
      BY <1>6 DEF open_clone, AsksName
    <3>3. QED  BY <3>1, <3>2 DEF RightNode
  <2>3. QED  BY <1>1, <1>2, <1>6, <2>1, <2>2 DEF open_clone
<1>7. QED  BY <1>4, <1>5, <1>6

\* A node that a scan attaches is within its range.
LEMMA RightRange ==
  ASSUME TypeOK, NEW h \in Handles, NEW i, RightNode(h, i), Type(arg[h]) \in IfTypes
  PROVE  Scanned(i[1]) => i[2] < TUNTAP_ID_MAX
<1>1. arg[h] \in Args
  BY DEF TypeOK
<1>2. QED  BY <1>1, ScanLemma, OsLemma DEF RightNode

\* A failing tuntap_sys_start keeps the types.
LEMMA SysStartFailsType ==
  ASSUME TypeOK, NEW h \in Handles, SysStartFails(h), KernelTypeOK', UNCHANGED undone
  PROVE  TypeOK'
  BY Constants DEF SysStartFails, TypeOK, Goto, BsdSteps

\* So does the end of its open().
LEMMA OpenedType ==
  ASSUME TypeOK, NEW h \in Handles, KernelTypeOK', UNCHANGED undone,
         Type(arg[h]) \in IfTypes,
         NEW f \in Fds, NEW tun \in 0..TUNTAP_ID_MAX \cup Tuns, Opened(h, f, tun),
         AsksName(arg[h]) \/ tun \in Nat
  PROVE  TypeOK'
<1>1. CASE SysStartFails(h)
  BY <1>1, SysStartFailsType
<1>2. CASE ~EndOfScan(arg[h], f)
  <2>1. AsksName(arg[h]) \/ <<Type(arg[h]), tun>> \in Names
    BY DEF Names, IfTypes
  <2>2. QED  BY <1>2, <2>1 DEF Opened, SavedName, TypeOK, Goto, BsdSteps
<1>3. QED  BY <1>1, <1>2 DEF Opened

\* Every step of a handle keeps the types.
LEMMA TypeStep ==
  ASSUME TypeOK, KernelInv, NEW h \in Handles, HandleInv(h), BsdStep(h)
  PROVE  TypeOK'
<1> USE Constants, TruncLemma, RecordLemma
<1>0. arg[h] \in Args /\ KernelTypeOK
  BY DEF TypeOK
<1>1. CASE \/ UNCHANGED <<os, locals, undone>> /\ tuntap_init(h)
           \/ UNCHANGED <<os, locals, undone>> /\ tuntap_init_fails(h)
  BY <1>1 DEF tuntap_init, tuntap_init_fails, TypeOK, Goto, BsdSteps, kernelVars,
              unixVars, locals, KernelTypeOK
<1>2. ASSUME NEW mode \in Modes, NEW tun \in Tuns,
             tuntap_start(h, mode, tun), UNCHANGED <<os, locals, undone>>
      PROVE  TypeOK'
  <2>1. CASE UNCHANGED <<kernelVars, unixVars>>
    BY <1>2, <2>1 DEF kernelVars, unixVars, locals, KernelTypeOK, TypeOK
  <2>2. ASSUME NEW f \in Fds, LowestFree(f), OpenAt(f, "sock", h),
               ctrl_sock' = [ctrl_sock EXCEPT ![h] = f],
               arg' = [arg EXCEPT ![h] = [mode |-> mode, tun |-> tun]],
               Goto(h, AfterSocket(mode, tun)),
               UNCHANGED <<iface, stolen, tun_fd, if_name>>
        PROVE  TypeOK'
    <3>1. KernelTypeOK'
      BY <1>0, <2>2, SocketLemma
    <3>2. [mode |-> mode, tun |-> tun] \in Args
      BY DEF Args
    <3>3. QED
      BY <1>2, <2>2, <3>1, <3>2 DEF AfterSocket, TypeOK, Goto, BsdSteps, locals
  <2>3. QED  BY <1>2, <2>1, <2>2 DEF tuntap_start
<1>3. CASE clean(h) /\ UNCHANGED <<os, locals, undone>>
  <2>1. KernelTypeOK'
    BY <1>0, <1>3, CloseLemma DEF clean
  <2>2. QED  BY <1>3, <2>1 DEF clean, TypeOK, Goto, BsdSteps, locals
<1>4. CASE tuntap_release(h) /\ UNCHANGED <<os, locals, undone>>
  <2>1. KernelTypeOK'
    BY <1>0, <1>4, CloseLemma DEF tuntap_release, KernelTypeOK, kernelVars
  <2>2. QED  BY <1>4, <2>1 DEF tuntap_release, TypeOK, Goto, BsdSteps, locals
<1>5. CASE release_ctrl_sock(h) /\ UNCHANGED <<os, locals, undone>>
  <2>1. KernelTypeOK'
    BY <1>0, <1>5, CloseLemma DEF release_ctrl_sock
  <2>2. QED  BY <1>5, <2>1 DEF release_ctrl_sock, TypeOK, Goto, BsdSteps, locals
<1>6. CASE sys_start(h) /\ UNCHANGED undone
  <2>1. KernelTypeOK' /\ arg[h].tun \in Tuns
    BY <1>6 DEF sys_start, kernelVars, KernelTypeOK, TypeOK, HandleInv, Starting
  <2>2. AfterChecks(arg[h]) \in BsdSteps
    BY DEF AfterChecks, BsdSteps
  <2>3. QED  BY <1>6, <2>1, <2>2 DEF sys_start, TypeOK, Goto, BsdSteps
<1>7. CASE create_dev(h) /\ UNCHANGED undone
  <2>1. CASE SysStartFails(h) /\ UNCHANGED kernelVars
    BY <1>0, <1>7, <2>1, SysStartFailsType DEF kernelVars, KernelTypeOK
  <2>2. CASE /\ IfCreate(ctrl_sock[h], Node(h)) /\ Goto(h, AfterChecks(arg[h]))
             /\ UNCHANGED <<tun_fd, ctrl_sock, if_name, arg, os, locals>>
    <3>1. KernelTypeOK'
      BY <1>0, <2>2, CreateLemma
    <3>2. AfterChecks(arg[h]) \in BsdSteps
      BY DEF AfterChecks, BsdSteps
    <3>3. QED  BY <1>7, <2>2, <3>1, <3>2 DEF TypeOK, Goto, locals
  <2>3. CASE /\ unit' = [unit EXCEPT ![h] = @ + 1] /\ WildCard(arg[h])
             /\ Goto(h, IF unit[h] + 1 < TUNTAP_ID_MAX THEN "create" ELSE "open")
             /\ UNCHANGED <<kernelVars, tun_fd, ctrl_sock, if_name, arg, os, fd>>
    <3>1. unit[h] + 1 \in 0..TUNTAP_ID_MAX
      BY <1>7, <2>3 DEF create_dev, HandleInv, Opening, UnitInv
    <3>2. QED
      BY <1>7, <2>3, <3>1 DEF TypeOK, Goto, BsdSteps, kernelVars, KernelTypeOK
  <2>4. QED  BY <1>7, <2>1, <2>2, <2>3 DEF create_dev
<1>8. CASE recreate_dev(h) /\ UNCHANGED undone
  <2>1. KernelTypeOK'
    BY <1>0, <1>8, CreateLemma DEF recreate_dev, kernelVars, KernelTypeOK
  <2>2. QED  BY <1>8, <2>1 DEF recreate_dev, TypeOK, Goto, BsdSteps, locals
<1>9. CASE (open_unit(h) \/ open_scan(h) \/ open_clone(h)) /\ UNCHANGED undone
  <2>1. unit[h] \in Tuns \cup 0..TUNTAP_ID_MAX /\ Type(arg[h]) \in IfTypes
    BY <1>9, OpenStep DEF TypeOK
  <2>2. ASSUME GoesOn(h), KernelTypeOK'
        PROVE  TypeOK'
    <3>1. unit[h] + 1 \in 0..TUNTAP_ID_MAX
      <4>1. unit[h] \in 0..TUNTAP_ID_MAX
        BY <1>9, <2>2, OpenStep DEF GoesOn, Scanning, HandleInv, Opening, UnitInv
      <4>2. QED  BY <2>2, <4>1 DEF GoesOn
    <3>2. QED  BY <1>9, <2>2, <3>1 DEF GoesOn, NextUnitOf, TypeOK
  <2>3. CASE UNCHANGED kernelVars /\ (SysStartFails(h) \/ GoesOn(h))
    BY <1>0, <1>9, <2>2, <2>3, SysStartFailsType DEF kernelVars, KernelTypeOK
  <2>4. ASSUME NEW f \in Fds, NEW i \in Ifs, Opens(h, f, i), RightNode(h, i),
               \/ Opened(h, f, unit[h]) \/ GoesOn(h)
               \/ Opened(h, f, TUNTAP_ID_MAX)
        PROVE  TypeOK'
    <3>1. KernelTypeOK' /\ (AsksName(arg[h]) \/ unit[h] \in Nat)
      BY <2>4, NodeLemma DEF Opens, RightNode
    <3>2. /\ unit[h] \in 0..TUNTAP_ID_MAX \cup Tuns
          /\ TUNTAP_ID_MAX \in 0..TUNTAP_ID_MAX \cup Tuns /\ TUNTAP_ID_MAX \in Nat
      BY <2>1
    <3>3. CASE Opened(h, f, unit[h])
      BY <1>9, <2>1, <3>1, <3>2, <3>3, OpenedType
    <3>4. CASE Opened(h, f, TUNTAP_ID_MAX)
      BY <1>9, <2>1, <3>1, <3>2, <3>4, OpenedType
    <3>5. QED  BY <2>2, <2>4, <3>1, <3>3, <3>4
  <2>5. QED  BY <1>9, <2>3, <2>4, OpenStep
<1>10. CASE get_name(h) /\ UNCHANGED undone
  <2>1. CASE SysStartFails(h) /\ UNCHANGED kernelVars
    BY <1>0, <1>10, <2>1, SysStartFailsType DEF kernelVars, KernelTypeOK
  <2>2. CASE /\ files[fd[h]].ifc # None /\ UNCHANGED kernelVars
             /\ if_name' = [if_name EXCEPT ![h] = iface[files[fd[h]].ifc].name]
             /\ Goto(h, "getflags")
             /\ UNCHANGED <<tun_fd, ctrl_sock, arg, os, locals>>
    <3>1. fd[h] \in Fds
      BY <1>10 DEF get_name, HandleInv, Attaching, TypeOK
    <3>2. iface[files[fd[h]].ifc].name \in Names
      BY <1>0, <2>2, <3>1, AttachedIf DEF KernelTypeOK, Ifaces
    <3>3. QED
      BY <1>10, <2>2, <3>2 DEF TypeOK, Goto, BsdSteps, locals, kernelVars, KernelTypeOK
  <2>3. QED  BY <1>10, <2>1, <2>2 DEF get_name
<1>11. CASE (get_flags(h) \/ set_flags(h)) /\ UNCHANGED undone
  <2>1. KernelTypeOK'
    BY <1>0, <1>11 DEF get_flags, set_flags, kernelVars, KernelTypeOK
  <2>2. CASE SysStartFails(h)
    BY <1>11, <2>1, <2>2, SysStartFailsType
  <2>3. CASE Returns(h)
    BY <1>11, <2>1, <2>3 DEF Returns, StartSucceeds, TypeOK, Goto, BsdSteps
  <2>4. CASE /\ Goto(h, "setflags")
             /\ UNCHANGED <<tun_fd, ctrl_sock, if_name, arg, os, locals>>
    BY <1>11, <2>1, <2>4 DEF TypeOK, Goto, BsdSteps, locals
  <2>5. QED  BY <1>11, <2>2, <2>3, <2>4 DEF get_flags, set_flags
<1>12. CASE close_early(h) /\ UNCHANGED undone
  <2>1. KernelTypeOK'
    BY <1>0, <1>12, CloseLemma DEF close_early
  <2>2. QED  BY <1>12, <2>1 DEF close_early, TypeOK, Goto, BsdSteps, locals
<1>13. CASE sys_destroy_nothing(h) /\ UNCHANGED undone
  BY <1>13 DEF sys_destroy_nothing, TypeOK, Goto, BsdSteps, locals, kernelVars, KernelTypeOK
<1>14. CASE sys_destroy(h)
  <2>1. KernelTypeOK'
    BY <1>0, <1>14, DestroyLemma DEF sys_destroy
  <2>2. undone' \in BOOLEAN
    BY <1>14 DEF sys_destroy
  <2>3. QED  BY <1>14, <2>1, <2>2 DEF sys_destroy, TypeOK, Goto, BsdSteps, locals
<1>15. ASSUME NEW ifname \in NewNames, tuntap_set_ifname(h, ifname), UNCHANGED undone
       PROVE  TypeOK'
  <2>1. ifname \in Names
    OBVIOUS
  <2>2. KernelTypeOK'
    BY <1>0, <1>15, <2>1, RenameLemma DEF tuntap_set_ifname
  <2>3. QED  BY <1>15, <2>1, <2>2 DEF tuntap_set_ifname, CacheName, TypeOK, locals
<1>16. QED
  BY <1>1, <1>2, <1>3, <1>4, <1>5, <1>6, <1>7, <1>8, <1>9, <1>10, <1>11, <1>12,
     <1>13, <1>14, <1>15 DEF BsdStep, Unix, BSD

-----------------------------------------------------------------------------
SameFields(g) ==
  /\ tun_fd'[g] = tun_fd[g] /\ ctrl_sock'[g] = ctrl_sock[g]
  /\ if_name'[g] = if_name[g] /\ pc'[g] = pc[g] /\ arg'[g] = arg[g]
  /\ fd'[g] = fd[g] /\ unit'[g] = unit[g]

\* A step of a handle leaves the fields of the others alone.
LEMMA OthersStay ==
  ASSUME TypeOK, KernelInv, NEW h \in Handles, HandleInv(h), BsdStep(h),
         NEW g \in Handles, g # h
  PROVE  SameFields(g)
<1> USE DEF TypeOK, SameFields, Goto
<1>1. CASE UNCHANGED locals /\ (tuntap_init(h) \/ tuntap_init_fails(h))
  BY <1>1 DEF tuntap_init, tuntap_init_fails, unixVars, locals
<1>2. CASE /\ UNCHANGED locals
           /\ \E mode \in Modes, tun \in Tuns : tuntap_start(h, mode, tun)
  BY <1>2 DEF tuntap_start, unixVars, locals
<1>3. CASE /\ UNCHANGED locals
           /\ clean(h) \/ tuntap_release(h) \/ release_ctrl_sock(h)
  BY <1>3 DEF clean, tuntap_release, release_ctrl_sock, locals
<1>4. CASE SysStartFails(h)
  BY <1>4 DEF SysStartFails
<1>5. CASE sys_start(h) \/ recreate_dev(h) \/ close_early(h) \/ sys_destroy_nothing(h)
  BY <1>5 DEF sys_start, recreate_dev, close_early, sys_destroy_nothing, locals
<1>6. CASE create_dev(h) /\ ~SysStartFails(h)
  BY <1>6 DEF create_dev, locals
<1>7. CASE open_unit(h) \/ open_scan(h) \/ open_clone(h)
  <2>1. ASSUME NEW f, NEW tun, Opened(h, f, tun)
        PROVE  SameFields(g)
    BY <1>4, <2>1 DEF Opened
  <2>2. CASE NextUnitOf(h)
    BY <2>2 DEF NextUnitOf
  <2>3. QED  BY <1>4, <1>7, <2>1, <2>2, OpenStep DEF GoesOn
<1>8. CASE (get_name(h) \/ get_flags(h) \/ set_flags(h)) /\ ~SysStartFails(h)
  BY <1>8 DEF get_name, get_flags, set_flags, Returns, StartSucceeds, locals
<1>9. CASE sys_destroy(h)
  BY <1>9 DEF sys_destroy, locals
<1>10. CASE \E ifname \in NewNames : tuntap_set_ifname(h, ifname)
  BY <1>10 DEF tuntap_set_ifname, CacheName, locals
<1>11. QED
  BY <1>1, <1>2, <1>3, <1>4, <1>5, <1>6, <1>7, <1>8, <1>9, <1>10 DEF BsdStep, Unix, BSD

\* Every step of a handle keeps the kernel's tables consistent.
LEMMA KernelStep ==
  ASSUME TypeOK, KernelInv, NEW h \in Handles, HandleInv(h), BsdStep(h)
  PROVE  KernelInv' /\ UNCHANGED os
<1>0. KernelTypeOK
  BY DEF TypeOK
<1>1. CASE UNCHANGED <<kernelVars, os>>
  BY <1>1 DEF kernelVars, KernelInv, AttachedExists, AttachedOnce, AbsentPlain,
              NamesCut, NamesUnique, NamesFixed, InRange, Scanned, Exists
<1>2. ASSUME NEW f, Close(h, f), UNCHANGED os
      PROVE  KernelInv'
  BY <1>0, <1>2, CloseKernel
<1>3. ASSUME NEW f \in Fds, LowestFree(f), OpenAt(f, "sock", h),
             UNCHANGED <<iface, stolen, os>>
      PROVE  KernelInv'
  BY <1>0, <1>3, SocketKernel
<1>4. ASSUME NEW s, NEW i, IfCreate(s, i), UNCHANGED os
      PROVE  KernelInv'
  BY <1>0, <1>4, CreateKernel
<1>5. CASE UNCHANGED os /\ (tuntap_init(h) \/ tuntap_init_fails(h))
  BY <1>1, <1>5 DEF tuntap_init, tuntap_init_fails
<1>6. CASE UNCHANGED os /\ \E mode \in Modes, tun \in Tuns : tuntap_start(h, mode, tun)
  BY <1>1, <1>3, <1>6 DEF tuntap_start
<1>7. CASE UNCHANGED os /\ (clean(h) \/ tuntap_release(h) \/ release_ctrl_sock(h))
  BY <1>1, <1>2, <1>7 DEF clean, tuntap_release, release_ctrl_sock
<1>8. CASE sys_start(h) \/ get_name(h) \/ get_flags(h) \/ set_flags(h)
           \/ sys_destroy_nothing(h)
  BY <1>1, <1>8 DEF sys_start, get_name, get_flags, set_flags, sys_destroy_nothing,
                    SysStartFails, Returns, locals
<1>9. CASE create_dev(h) \/ recreate_dev(h)
  BY <1>1, <1>4, <1>9 DEF create_dev, recreate_dev, SysStartFails
<1>10. CASE open_unit(h) \/ open_scan(h) \/ open_clone(h)
  <2>1. UNCHANGED os
    BY <1>10, OpenStep DEF SysStartFails, GoesOn, NextUnitOf, Opened
  <2>2. ASSUME NEW f \in Fds, NEW i \in Ifs, Opens(h, f, i), RightNode(h, i)
        PROVE  KernelInv'
    <3>1. Scanned(i[1]) => i[2] < TUNTAP_ID_MAX
      BY <1>10, <2>2, OpenStep, RightRange
    <3>2. QED  BY <1>0, <2>1, <2>2, <3>1, OpensKernel
  <2>3. CASE UNCHANGED kernelVars
    BY <1>1, <2>1, <2>3
  <2>4. QED  BY <1>10, <2>1, <2>2, <2>3, OpenStep
<1>11. CASE close_early(h)
  BY <1>2, <1>11 DEF close_early
<1>12. CASE sys_destroy(h)
  BY <1>0, <1>12, DestroyKernel DEF sys_destroy
<1>13. ASSUME NEW ifname \in NewNames, tuntap_set_ifname(h, ifname)
       PROVE  KernelInv' /\ UNCHANGED os
  <2>1. ifname \in Names /\ UNCHANGED os
    BY <1>13, Constants DEF tuntap_set_ifname
  <2>2. QED  BY <1>0, <1>13, <2>1, RenameKernel DEF tuntap_set_ifname
<1>14. UNCHANGED os
  BY <1>8, <1>9, <1>10, <1>11, <1>12, <1>13, <1>1, OpenStep
     DEF BsdStep, Unix, BSD, sys_start, get_name, get_flags, set_flags,
         sys_destroy_nothing, create_dev, recreate_dev, close_early, sys_destroy,
         SysStartFails, Returns, Opened, GoesOn, NextUnitOf
<1>15. QED
  BY <1>5, <1>6, <1>7, <1>8, <1>9, <1>10, <1>11, <1>12, <1>13, <1>14
     DEF BsdStep, Unix, BSD

\* The arguments that pass the checks, and what is next.
LEMMA AfterChecksLemma ==
  ASSUME NEW a
  PROVE  /\ AfterChecks(a) \in {"clean", "recreate", "open"}
         /\ AfterChecks(a) # "clean" => ~Invalid(a)
  BY DEF AfterChecks

\* Every step of a handle keeps its own fields consistent.
LEMMA HandleStep ==
  ASSUME TypeOK, KernelInv, NEW h \in Handles, HandleInv(h), BsdStep(h)
  PROVE  HandleInv(h)'
<1> USE Constants
<1> USE DEF Goto, Starting, Attaching, Opening
<1>0. /\ arg[h] \in Args /\ KernelTypeOK /\ UNCHANGED os
      /\ os \in {"OpenBSD", "NetBSD", "FreeBSD", "Darwin"}
  BY KernelStep, OsLemma DEF TypeOK
\* What the checks and the units depend on stays.
<1>1. ASSUME arg'[h] = arg[h]
      PROVE  /\ Invalid(arg[h])' <=> Invalid(arg[h])
             /\ CreatesFirst(arg[h])' <=> CreatesFirst(arg[h])
             /\ Persist(arg[h])' <=> Persist(arg[h])
             /\ WildCard(arg[h])' <=> WildCard(arg[h])
             /\ Scans(arg[h])' <=> Scans(arg[h])
  BY <1>0, <1>1 DEF Invalid, CreatesFirst, Persist, WildCard, Scans, Type, BadUnit
<1>2. CASE UNCHANGED <<os, locals, unixVars>>
  BY <1>1, <1>2 DEF unixVars, locals, HandleInv, UnitInv, WildCard
<1>3. CASE UNCHANGED locals /\ tuntap_init(h)
  BY <1>3 DEF tuntap_init, locals, HandleInv, TypeOK
<1>4. ASSUME NEW mode \in Modes, NEW tun \in Tuns, UNCHANGED locals,
             tuntap_start(h, mode, tun), ~UNCHANGED unixVars
      PROVE  HandleInv(h)'
  <2>1. /\ arg'[h] = [mode |-> mode, tun |-> tun] /\ pc'[h] = AfterSocket(mode, tun)
        /\ pc[h] = "idle" /\ tun_fd'[h] = NoFd /\ fd'[h] = fd[h]
    BY <1>4 DEF tuntap_start, AlreadyStarted, TypeOK, locals
  <2>2. pc'[h] # "clean" => ~(Persist(arg[h]) /\ WildCard(arg[h]))'
    BY <2>1 DEF AfterSocket, Persist, WildCard
  <2>3. QED  BY <2>1, <2>2 DEF HandleInv, AfterSocket
<1>5. CASE UNCHANGED locals /\ (clean(h) \/ tuntap_release(h) \/ release_ctrl_sock(h))
  BY <1>5 DEF clean, tuntap_release, release_ctrl_sock, locals, HandleInv, TypeOK
\* A tuntap_sys_start that fails goes to `clean'.
<1>6. CASE SysStartFails(h) /\ pc[h] \in Starting
  BY <1>6 DEF SysStartFails, HandleInv, TypeOK
<1>7. CASE sys_start(h)
  <2>1. /\ pc[h] = "sys_start" /\ arg'[h] = arg[h] /\ UNCHANGED <<tun_fd, fd>>
        /\ pc'[h] = IF CreatesFirst(arg[h]) THEN "create" ELSE AfterChecks(arg[h])
        /\ unit'[h] = IF WildCard(arg[h]) THEN 0 ELSE arg[h].tun
    BY <1>7 DEF sys_start, TypeOK
  <2>2. UnitInv(h)'
    BY <1>1, <2>1 DEF UnitInv
  <2>3. QED  BY <1>1, <2>1, <2>2, AfterChecksLemma DEF HandleInv
<1>8. CASE create_dev(h) /\ ~SysStartFails(h)
  <2>1. /\ pc[h] = "create" /\ arg'[h] = arg[h] /\ UNCHANGED <<tun_fd, fd>>
        /\ CreatesFirst(arg[h]) /\ UnitInv(h)
    BY <1>8 DEF create_dev, locals, HandleInv
  <2>2. CASE Goto(h, AfterChecks(arg[h])) /\ UNCHANGED unit
    <3>1. pc'[h] = AfterChecks(arg[h]) /\ UnitInv(h)'
      BY <1>1, <2>1, <2>2 DEF UnitInv, TypeOK, AfterChecks
    <3>2. QED  BY <1>1, <2>1, <3>1, AfterChecksLemma DEF HandleInv
  <2>3. CASE /\ os = "FreeBSD" /\ WildCard(arg[h])
             /\ unit' = [unit EXCEPT ![h] = @ + 1]
             /\ Goto(h, IF unit[h] + 1 < TUNTAP_ID_MAX THEN "create" ELSE "open")
    <3>1. /\ unit'[h] = unit[h] + 1 /\ ~Invalid(arg[h]) /\ ~Scans(arg[h])
          /\ pc'[h] = IF unit[h] + 1 < TUNTAP_ID_MAX THEN "create" ELSE "open"
      BY <2>1, <2>3 DEF TypeOK, CreatesFirst, Scans
    <3>2. UnitInv(h)'
      BY <1>1, <2>1, <2>3, <3>1 DEF UnitInv
    <3>3. QED  BY <1>1, <2>1, <3>1, <3>2 DEF HandleInv
  <2>4. QED  BY <1>8, <2>2, <2>3 DEF create_dev, locals
<1>9. CASE recreate_dev(h)
  <2>1. /\ pc[h] = "recreate" /\ pc'[h] = "open"
        /\ arg'[h] = arg[h] /\ UNCHANGED <<tun_fd, fd, unit>>
    BY <1>9 DEF recreate_dev, TypeOK, locals
  <2>2. UnitInv(h)'
    BY <1>1, <2>1 DEF UnitInv, HandleInv
  <2>3. QED  BY <1>1, <2>1, <2>2 DEF HandleInv
<1>10. CASE open_unit(h) \/ open_scan(h) \/ open_clone(h)
  <2>1. pc[h] = "open"
    BY <1>10, OpenStep
  <2>2. CASE GoesOn(h)
    <3>1. /\ unit'[h] = unit[h] + 1 /\ UNCHANGED <<tun_fd, fd, pc>> /\ arg'[h] = arg[h]
          /\ WildCard(arg[h]) /\ unit[h] + 1 < TUNTAP_ID_MAX
      BY <2>2 DEF GoesOn, NextUnitOf, Scanning, TypeOK
    <3>2. UnitInv(h)'
      BY <1>1, <2>1, <3>1 DEF UnitInv, HandleInv
    <3>3. QED  BY <1>1, <2>1, <3>1, <3>2 DEF HandleInv
  <2>3. ASSUME NEW f \in Fds, NEW tun, Opened(h, f, tun), ~SysStartFails(h)
        PROVE  HandleInv(h)'
    <3>1. /\ fd'[h] = f /\ arg'[h] = arg[h] /\ UNCHANGED tun_fd
          /\ pc'[h] \in {"getname", "getflags"}
      BY <2>3 DEF Opened, TypeOK
    <3>2. QED  BY <1>1, <2>1, <3>1 DEF HandleInv
  <2>4. CASE SysStartFails(h)
    BY <1>6, <2>1, <2>4
  <2>5. QED  BY <1>10, <2>2, <2>3, <2>4, OpenStep
<1>11. CASE get_name(h) /\ ~SysStartFails(h)
  <2>1. /\ pc[h] = "getname" /\ pc'[h] = "getflags"
        /\ arg'[h] = arg[h] /\ UNCHANGED <<tun_fd, fd>>
    BY <1>11 DEF get_name, TypeOK, locals
  <2>2. QED  BY <1>1, <2>1 DEF HandleInv
<1>12. CASE (get_flags(h) \/ set_flags(h)) /\ ~SysStartFails(h)
  <2>1. CASE Returns(h)
    <3>1. /\ pc[h] \in Attaching /\ pc'[h] = "idle" /\ fd'[h] = NoFd
          /\ tun_fd'[h] = fd[h]
      BY <1>12, <2>1 DEF get_flags, set_flags, Returns, StartSucceeds, TypeOK
    <3>2. QED  BY <3>1 DEF HandleInv
  <2>2. CASE ~Returns(h)
    <3>1. /\ pc[h] = "getflags" /\ pc'[h] = "setflags"
          /\ arg'[h] = arg[h] /\ UNCHANGED <<tun_fd, fd>>
      BY <1>12, <2>2 DEF get_flags, set_flags, TypeOK, locals
    <3>2. QED  BY <1>1, <3>1 DEF HandleInv
  <2>3. QED  BY <2>1, <2>2
<1>13. CASE close_early(h) \/ sys_destroy_nothing(h) \/ sys_destroy(h)
  <2>1. /\ pc[h] \in {"idle", "ifdestroy"} /\ fd'[h] = fd[h]
        /\ \/ pc'[h] = "ifdestroy" /\ os = "FreeBSD" /\ tun_fd'[h] = NoFd
           \/ pc'[h] = "release"
    BY <1>13 DEF close_early, sys_destroy_nothing, sys_destroy, TypeOK, locals
  <2>2. QED  BY <1>0, <2>1 DEF HandleInv
<1>14. CASE \E ifname \in NewNames : tuntap_set_ifname(h, ifname)
  <2>1. pc[h] = "idle" /\ UNCHANGED <<tun_fd, fd, pc, arg>>
    BY <1>14 DEF tuntap_set_ifname, locals
  <2>2. QED  BY <2>1 DEF HandleInv
<1>15. CASE UNCHANGED <<os, locals>> /\ Unix(h)
  BY <1>2, <1>3, <1>4, <1>5, <1>15 DEF Unix, tuntap_init_fails
<1>16. BSD(h) /\ SysStartFails(h) => pc[h] \in Starting
  BY OpenStep
     DEF BSD, sys_start, create_dev, recreate_dev, get_name, get_flags, set_flags,
         close_early, sys_destroy_nothing, tuntap_set_ifname, SysStartFails, HandleInv, TypeOK
<1>17. QED
  BY <1>6, <1>7, <1>8, <1>9, <1>10, <1>11, <1>12, <1>13, <1>14, <1>15, <1>16
     DEF BsdStep, Unix, BSD

-----------------------------------------------------------------------------
(***************************************************************************)
(* The interface of a persistent start.                                    *)
(***************************************************************************)

\* Only SIOCIFDESTROY ends a persistent interface.
LEMMA PersistKept ==
  ASSUME TypeOK, KernelInv, NEW h \in Handles, HandleInv(h),
         Unix(h) \/ BSD(h), NEW i \in Ifs, iface[i].persist = 1
  PROVE  iface'[i].persist = 1
<1>0. KernelTypeOK /\ Exists(i)
  BY DEF TypeOK, KernelInv, AbsentPlain
<1>1. CASE UNCHANGED iface
  BY <1>1
<1>2. ASSUME NEW g, NEW f, Close(g, f)
      PROVE  iface'[i].persist = 1
  BY <1>0, <1>2, CloseLemma
<1>3. ASSUME NEW s, NEW j, IfCreate(s, j)
      PROVE  iface'[i].persist = 1
  BY <1>0, <1>3, CreateLemma
<1>4. CASE open_unit(h) \/ open_scan(h) \/ open_clone(h)
  <2>1. ASSUME NEW f \in Fds, NEW j \in Ifs, Opens(h, f, j)
        PROVE  iface'[i].persist = 1
    BY <1>0, <2>1 DEF Opens, NameFree
  <2>2. QED  BY <1>1, <1>4, <2>1, OpenStep DEF kernelVars
<1>5. ASSUME NEW ifname \in NewNames, tuntap_set_ifname(h, ifname)
      PROVE  iface'[i].persist = 1
  BY <1>0, <1>5, RenameLemma, Constants DEF tuntap_set_ifname
<1>6. CASE Unix(h)
  BY <1>1, <1>2, <1>6
     DEF Unix, tuntap_init, tuntap_init_fails, tuntap_start, clean, tuntap_release,
         release_ctrl_sock, kernelVars
<1>7. CASE create_dev(h) \/ recreate_dev(h) \/ close_early(h)
  BY <1>1, <1>2, <1>3, <1>7 DEF create_dev, recreate_dev, close_early, kernelVars
<1>8. CASE sys_start(h) \/ get_name(h) \/ get_flags(h) \/ set_flags(h)
           \/ sys_destroy_nothing(h)
  BY <1>1, <1>8
     DEF sys_start, get_name, get_flags, set_flags, sys_destroy_nothing, kernelVars
<1>9. QED  BY <1>4, <1>5, <1>6, <1>7, <1>8 DEF BSD

\* A persistent start makes its interface before it opens it.
LEMMA CreatesLemma ==
  ASSUME NEW a \in Args, os \in {"OpenBSD", "NetBSD", "FreeBSD", "Darwin"},
         Persist(a), ~CreatesFirst(a)
  PROVE  AfterChecks(a) = "clean"
  BY DEF CreatesFirst, AfterChecks, Invalid, Type

\* What a persistent start created stays through every step but a destroy.
LEMMA CreatedStep ==
  ASSUME TypeOK, KernelInv, NEW h \in Handles, HandleInv(h), BsdStep(h), ~undone',
         NEW g \in Handles, ~undone => CreatedInv(g)
  PROVE  CreatedInv(g)'
<1>0. /\ KernelTypeOK /\ arg[h] \in Args /\ CreatedInv(g)
      /\ os \in {"OpenBSD", "NetBSD", "FreeBSD", "Darwin"}
  BY OsLemma DEF TypeOK, BsdStep, sys_destroy
<1>1. CASE sys_destroy(h)
  <2>1. pc'[g] \in {"recreate", "open"} => pc[g] \in {"recreate", "open"}
    BY <1>1 DEF sys_destroy, Goto, TypeOK
  <2>2. UNCHANGED <<arg, unit>> /\ (Created(g) => iface'[Node(g)] = iface[Node(g)])
    BY <1>1 DEF sys_destroy, locals
  <2>3. QED  BY <1>0, <2>1, <2>2 DEF CreatedInv, Created, Node, Persist
<1>2. CASE Unix(h) \/ BSD(h)
  <2>1. \A i \in Ifs : iface[i].persist = 1 => iface'[i].persist = 1
    BY <1>2, PersistKept
  <2>2. CASE arg'[g] = arg[g] /\ unit'[g] = unit[g] /\ pc[g] \in {"recreate", "open"}
    BY <1>0, <2>1, <2>2 DEF CreatedInv, Node, Persist
  <2>3. CASE g # h
    <3>1. SameFields(g)
      BY <2>3, OthersStay
    <3>2. QED  BY <2>2, <3>1 DEF SameFields, CreatedInv
  <2>4. CASE g = h
    <3>1. CASE pc'[h] \notin {"recreate", "open"}
      BY <2>4, <3>1 DEF CreatedInv
    <3>2. CASE sys_start(h)
      <4>1. /\ arg'[h] = arg[h]
            /\ pc'[h] = IF CreatesFirst(arg[h]) THEN "create" ELSE AfterChecks(arg[h])
        BY <3>2 DEF sys_start, Goto, TypeOK
      <4>2. Persist(arg[h]) => pc'[h] \in {"create", "clean"}
        BY <1>0, <4>1, CreatesLemma
      <4>3. QED  BY <2>4, <4>1, <4>2 DEF CreatedInv, Persist
    <3>3. CASE create_dev(h)
      <4>1. CASE IfCreate(ctrl_sock[h], Node(h)) /\ UNCHANGED <<arg, unit>>
        <5>1. Node(h) \in Ifs /\ iface'[Node(h)].persist = 1 /\ Node(h)' = Node(h)
          BY <1>0, <4>1, CreateLemma DEF Node
        <5>2. QED  BY <2>4, <5>1 DEF CreatedInv
      <4>2. CASE WildCard(arg[h]) /\ arg'[h] = arg[h]
        BY <2>4, <3>3, <4>2 DEF create_dev, HandleInv, Starting, Opening, CreatedInv, Persist
      <4>3. CASE SysStartFails(h)
        BY <3>1, <4>3 DEF SysStartFails, Goto, TypeOK
      <4>4. QED  BY <3>3, <4>1, <4>2, <4>3 DEF create_dev, locals
    <3>4. CASE recreate_dev(h)
      BY <2>2, <2>4, <3>4 DEF recreate_dev, locals
    <3>5. CASE open_unit(h) \/ open_scan(h) \/ open_clone(h)
      <4>1. CASE GoesOn(h)
        BY <2>4, <3>5, <4>1, OpenStep
           DEF GoesOn, NextUnitOf, Scanning, HandleInv, Starting, Opening, CreatedInv, Persist
      <4>2. ASSUME NEW f, NEW tun, Opened(h, f, tun)
            PROVE  pc'[h] \notin {"recreate", "open"}
        BY <4>2 DEF Opened, SysStartFails, Goto, TypeOK
      <4>3. CASE SysStartFails(h)
        BY <3>1, <4>3 DEF SysStartFails, Goto, TypeOK
      <4>4. QED  BY <3>1, <3>5, <4>1, <4>2, <4>3, OpenStep
    <3>6. CASE Unix(h)
      BY <3>1, <2>2, <2>4, <3>6
         DEF Unix, tuntap_init, tuntap_init_fails, tuntap_start, clean, tuntap_release,
             release_ctrl_sock, unixVars, locals, Goto, AfterSocket, TypeOK, CreatedInv
    <3>7. CASE get_name(h) \/ get_flags(h) \/ set_flags(h) \/ close_early(h)
               \/ sys_destroy_nothing(h)
               \/ \E ifname \in NewNames : tuntap_set_ifname(h, ifname)
      BY <3>1, <3>7
         DEF get_name, get_flags, set_flags, close_early, sys_destroy_nothing,
             tuntap_set_ifname, SysStartFails, Returns, StartSucceeds, Goto, TypeOK
    <3>8. QED  BY <1>2, <3>2, <3>3, <3>4, <3>5, <3>6, <3>7 DEF BSD
  <2>5. QED  BY <2>3, <2>4
<1>3. QED  BY <1>1, <1>2 DEF BsdStep

-----------------------------------------------------------------------------
(***************************************************************************)
(* What a handle owns: the steps of the others.                            *)
(***************************************************************************)

\* All a step does to the kernel's tables is one operation of the kernel.
KernelMoves(h) ==
  \/ UNCHANGED kernelVars
  \/ \E f : Close(h, f)
  \/ \E f \in Fds : LowestFree(f) /\ OpenAt(f, "sock", h) /\ UNCHANGED <<iface, stolen>>
  \/ \E s, i : IfCreate(s, i)
  \/ /\ open_unit(h) \/ open_scan(h) \/ open_clone(h)
     /\ \E f \in Fds, i \in Ifs : Opens(h, f, i)
  \/ /\ pc[h] = "idle" \/ (pc[h] = "ifdestroy" /\ os = "FreeBSD")
     /\ IfDestroy(ctrl_sock[h], if_name[h])
  \/ pc[h] = "idle" /\ \E i \in Ifs, name \in Names : SysSetIfname(h, i, name)

\* Every step of a handle is one of them.
LEMMA KernelMovesLemma ==
  ASSUME TypeOK, KernelInv, NEW h \in Handles, HandleInv(h), BsdStep(h)
  PROVE  KernelMoves(h)
<1> USE DEF KernelMoves
<1>1. CASE tuntap_init(h) \/ tuntap_init_fails(h)
           \/ \E mode \in Modes, tun \in Tuns : tuntap_start(h, mode, tun)
  BY <1>1 DEF tuntap_init, tuntap_init_fails, tuntap_start
<1>2. CASE clean(h) \/ tuntap_release(h) \/ release_ctrl_sock(h) \/ close_early(h)
  BY <1>2 DEF clean, tuntap_release, release_ctrl_sock, close_early
<1>3. CASE sys_start(h) \/ get_name(h) \/ get_flags(h) \/ set_flags(h)
           \/ sys_destroy_nothing(h)
  BY <1>3 DEF sys_start, get_name, get_flags, set_flags, sys_destroy_nothing
<1>4. CASE create_dev(h) \/ recreate_dev(h)
  BY <1>4 DEF create_dev, recreate_dev, kernelVars
<1>5. CASE open_unit(h) \/ open_scan(h) \/ open_clone(h)
  BY <1>5, OpenStep
<1>6. CASE sys_destroy(h)
  BY <1>6 DEF sys_destroy, HandleInv
<1>7. ASSUME NEW ifname \in NewNames, tuntap_set_ifname(h, ifname)
      PROVE  KernelMoves(h)
  BY <1>7, Constants DEF tuntap_set_ifname
<1>8. QED
  BY <1>1, <1>2, <1>3, <1>4, <1>5, <1>6, <1>7 DEF BsdStep, Unix, BSD

\* The open files of g stay as they are, and so do their interfaces; and no
\* file becomes one of g.
Undisturbed(g) ==
  \A f \in Fds : files[f].owner = g /\ files[f].kind # "none" =>
    /\ files'[f] = files[f]
    /\ files[f].ifc # None => iface'[files[f].ifc] = iface[files[f].ifc]
NoNew(g) ==
  \A f \in Fds : files'[f].owner = g /\ files'[f].kind # "none" => files'[f] = files[f]

\* A name that a live handle has cached is that of an interface that only the
\* handle itself has open.
LEMMA OwnName ==
  ASSUME TypeOK, KernelInv, NEW h \in Handles, OwnInv(h), Live(h),
         NEW i \in Ifs, Named(i, Trunc(if_name[h])), NEW f \in Fds, files[f].ifc = i
  PROVE  files[f].owner = h
<1> USE DEF KernelInv
<1>1. Exists(i) /\ iface[i].name = Trunc(if_name[h]) /\ iface[i].name # NoName
  BY DEF Named, NamesCut
<1>2. if_name[h] # NoName
  BY <1>1, TruncLemma
<1>3. CASE Held(h)
  <2>1. PICK g \in Fds : /\ files[g].owner = h /\ files[g].ifc \in Ifs
                         /\ iface[files[g].ifc].name = Trunc(if_name[h])
    BY <1>3 DEF Held
  <2>2. Exists(files[g].ifc)
    BY <2>1, NoneAssumption DEF AttachedExists
  <2>3. files[g].ifc = i
    BY <1>1, <2>1, <2>2 DEF NamesUnique
  <2>4. QED  BY <2>1, <2>3, NoneAssumption DEF AttachedOnce
<1>4. CASE EndName(h)
  <2>1. os # "FreeBSD"
    BY <1>4 DEF EndName, Scanned
  <2>2. Trunc(if_name[h]) = if_name[h]
    BY <1>4 DEF EndName, Trunc, IfTypes
  <2>3. i = if_name[h]
    BY <1>1, <2>1, <2>2 DEF NamesFixed
  <2>4. i[2] < TUNTAP_ID_MAX
    BY <1>4, <2>3, NoneAssumption DEF EndName, InRange
  <2>5. QED  BY <1>4, <2>3, <2>4, Constants DEF EndName
<1>5. QED  BY <1>2, <1>3, <1>4 DEF OwnInv

\* A close() that steals nothing disturbs nobody else.
LEMMA CloseFrame ==
  ASSUME KernelTypeOK, KernelInv, NEW h \in Handles, NEW f, Close(h, f), ~stolen',
         NEW g \in Handles, g # h
  PROVE  Undisturbed(g) /\ NoNew(g)
<1>1. Open(f) => f \in Fds /\ files[f].owner = h
  BY CloseLemma DEF Open
<1>2. ~Open(f) => UNCHANGED <<files, iface>>
  BY DEF Close, kernelVars
<1>3. NoNew(g)
  BY <1>2, CloseLemma DEF NoNew, Open
<1>4. Undisturbed(g)
  <2>1. SUFFICES ASSUME Open(f), NEW e \in Fds, files[e].owner = g, files[e].kind # "none"
                 PROVE  /\ files'[e] = files[e]
                        /\ files[e].ifc # None => iface'[files[e].ifc] = iface[files[e].ifc]
    BY <1>2 DEF Undisturbed
  <2>2. e # f /\ files'[e] = files[e]
    BY <1>1, <2>1, CloseLemma
  <2>3. files[e].ifc # None => files[e].ifc # files[f].ifc /\ files[e].ifc \in Ifs
    BY <1>1, <2>1, <2>2, AttachedIf DEF KernelInv, AttachedOnce
  <2>4. QED  BY <2>2, <2>3, CloseLemma
<1>5. QED  BY <1>3, <1>4

\* New descriptors and interfaces disturb nobody's.
LEMMA NewFrame ==
  ASSUME KernelTypeOK, KernelInv, NEW h \in Handles,
         \/ UNCHANGED kernelVars
         \/ \E f \in Fds : LowestFree(f) /\ OpenAt(f, "sock", h) /\ UNCHANGED <<iface, stolen>>
         \/ \E s, i : IfCreate(s, i)
         \/ \E f \in Fds, i \in Ifs : Opens(h, f, i),
         NEW g \in Handles
  PROVE  /\ UNCHANGED stolen
         /\ Undisturbed(g) /\ (g # h => NoNew(g))
<1> USE DEF Undisturbed, NoNew
<1>1. CASE UNCHANGED kernelVars
  BY <1>1 DEF kernelVars
<1>2. ASSUME NEW f \in Fds, LowestFree(f), OpenAt(f, "sock", h), UNCHANGED <<iface, stolen>>
      PROVE  /\ UNCHANGED stolen
             /\ Undisturbed(g) /\ (g # h => NoNew(g))
  BY <1>2, SocketLemma
<1>3. ASSUME NEW s, NEW i, IfCreate(s, i)
      PROVE  /\ UNCHANGED stolen
             /\ Undisturbed(g) /\ NoNew(g)
  <2>1. /\ UNCHANGED <<files, stolen>> /\ i \in Ifs /\ ~Exists(i)
        /\ \A j \in Ifs : j # i => iface'[j] = iface[j]
    BY <1>3, CreateLemma DEF NameFree
  <2>2. QED  BY <2>1, AttachedIf DEF KernelInv, AttachedExists
<1>4. ASSUME NEW f \in Fds, NEW i \in Ifs, Opens(h, f, i)
      PROVE  /\ UNCHANGED stolen
             /\ Undisturbed(g) /\ (g # h => NoNew(g))
  <2>1. /\ files[f].kind = "none" /\ files'[f].owner = h /\ UNCHANGED stolen
        /\ \A e \in Fds : e # f => files'[e] = files[e]
        /\ \A e \in Fds : files[e].ifc # i
        /\ \A j \in Ifs : j # i => iface'[j] = iface[j]
    BY <1>4 DEF Opens, Attached
  <2>2. QED  BY <2>1, AttachedIf
<1>5. QED  BY <1>1, <1>2, <1>3, <1>4

\* The kernel moves for h disturb nobody else, as long as nothing is stolen.
LEMMA StepFrame ==
  ASSUME TypeOK, KernelInv, NEW h \in Handles, HandleInv(h), OwnInv(h), BsdStep(h),
         ~stolen', NEW g \in Handles, g # h
  PROVE  Undisturbed(g) /\ NoNew(g)
<1>0. KernelTypeOK /\ KernelMoves(h)
  BY KernelMovesLemma DEF TypeOK
<1>1. CASE \E f : Close(h, f)
  BY <1>0, <1>1, CloseFrame
<1>2. CASE \/ UNCHANGED kernelVars
           \/ \E f \in Fds : /\ LowestFree(f) /\ OpenAt(f, "sock", h)
                             /\ UNCHANGED <<iface, stolen>>
           \/ \E s, i : IfCreate(s, i)
           \/ \E f \in Fds, i \in Ifs : Opens(h, f, i)
  BY <1>0, <1>2, NewFrame
<1>3. CASE /\ pc[h] = "idle" \/ (pc[h] = "ifdestroy" /\ os = "FreeBSD")
           /\ IfDestroy(ctrl_sock[h], if_name[h])
  <2>1. CASE UNCHANGED <<files, iface>>
    BY <2>1 DEF Undisturbed, NoNew
  <2>2. ASSUME NEW i \in Ifs, Named(i, Trunc(if_name[h])), os = "FreeBSD" => ~Attached(i),
               \A j \in Ifs : j # i => iface'[j] = iface[j],
               \A f \in Fds : /\ files'[f].owner = files[f].owner
                              /\ files'[f].kind = files[f].kind
                              /\ files[f].ifc # i => files'[f] = files[f]
        PROVE  Undisturbed(g) /\ NoNew(g)
    <3>1. \A f \in Fds : files[f].ifc = i => files[f].owner = h
      BY <1>3, <2>2, OwnName DEF Attached, Live
    <3>2. QED  BY <1>0, <2>2, <3>1, AttachedIf DEF Undisturbed, NoNew
  <2>3. QED  BY <1>0, <1>3, <2>1, <2>2, DestroyLemma
<1>4. ASSUME pc[h] = "idle", NEW i \in Ifs, NEW name \in Names, SysSetIfname(h, i, name)
      PROVE  Undisturbed(g) /\ NoNew(g)
  <2>1. /\ UNCHANGED files /\ Named(i, Trunc(if_name[h]))
        /\ \A j \in Ifs : j # i => iface'[j] = iface[j]
    BY <1>0, <1>4, RenameLemma
  <2>2. \A f \in Fds : files[f].ifc = i => files[f].owner = h
    BY <1>4, <2>1, OwnName DEF Live
  <2>3. QED  BY <1>0, <2>1, <2>2, AttachedIf DEF Undisturbed, NoNew
<1>5. QED  BY <1>0, <1>1, <1>2, <1>3, <1>4 DEF KernelMoves

\* A theft is never taken back.
LEMMA StolenStays ==
  ASSUME TypeOK, KernelInv, NEW h \in Handles, HandleInv(h), BsdStep(h), ~stolen'
  PROVE  ~stolen
<1>0. KernelTypeOK /\ KernelMoves(h)
  BY KernelMovesLemma DEF TypeOK
<1>1. ASSUME NEW f, Close(h, f)
      PROVE  ~stolen
  BY <1>0, <1>1, CloseLemma
<1>2. CASE \/ UNCHANGED kernelVars
           \/ \E f \in Fds : /\ LowestFree(f) /\ OpenAt(f, "sock", h)
                             /\ UNCHANGED <<iface, stolen>>
           \/ \E s, i : IfCreate(s, i)
           \/ \E f \in Fds, i \in Ifs : Opens(h, f, i)
  BY <1>0, <1>2, NewFrame
<1>3. CASE IfDestroy(ctrl_sock[h], if_name[h])
  BY <1>0, <1>3, DestroyLemma
<1>4. CASE \E i \in Ifs, name \in Names : SysSetIfname(h, i, name)
  BY <1>0, <1>4, RenameLemma
<1>5. QED  BY <1>0, <1>1, <1>2, <1>3, <1>4 DEF KernelMoves

\* A handle that keeps its fields and its files keeps what it owns.
LEMMA OwnFrame ==
  ASSUME KernelInv, KernelInv', NEW g \in Handles, SameFields(g), Undisturbed(g),
         NoNew(g), UNCHANGED os, undone => undone', tun_fd[g] \in Fds \cup {NoFd},
         OwnInv(g)
  PROVE  OwnInv(g)'
<1>1. /\ tun_fd'[g] = tun_fd[g] /\ ctrl_sock'[g] = ctrl_sock[g]
      /\ if_name'[g] = if_name[g] /\ pc'[g] = pc[g] /\ arg'[g] = arg[g]
      /\ fd'[g] = fd[g]
  BY DEF SameFields
<1>2. \A f \in Fds : /\ files[f].ifc \in Ifs => files[f].kind = "tun"
                     /\ files'[f].ifc # None => files'[f].kind = "tun"
  BY NoneAssumption DEF KernelInv, AttachedExists
<1>3. NeedsSocket(g)' => OwnsSocket(g)'
  BY <1>1 DEF NeedsSocket, OwnInv, OwnsSocket, Undisturbed
<1>4. ASSUME NEW f, OwnsNode(g, f)
      PROVE  OwnsNode(g, f)' /\ (NameFits(g, f) => NameFits(g, f)')
  <2>1. /\ f \in Fds /\ files'[f] = files[f] /\ files[f].ifc \in Ifs
        /\ iface'[files[f].ifc] = iface[files[f].ifc]
    BY <1>4, NoneAssumption DEF OwnsNode, Undisturbed
  <2>2. OwnsNode(g, f)'
    BY <1>1, <1>4, <2>1 DEF OwnsNode, Type, WildCard, AsksName, Persist
  <2>3. NameFits(g, f) => NameFits(g, f)'
    BY <1>1, <2>1 DEF NameFits, Scanning, WildCard, Scans, Type
  <2>4. QED  BY <2>2, <2>3
<1>5. Held(g) \/ EndName(g) => Held(g)' \/ EndName(g)'
  BY <1>1, <1>2, NoneAssumption DEF Held, EndName, Scanned, Undisturbed
<1>6. \A f \in Fds : files'[f].owner = g /\ files'[f].ifc # None =>
        files'[f] = files[f] /\ iface'[files[f].ifc] = iface[files[f].ifc]
  BY <1>2 DEF NoNew, Undisturbed
<1>7. (Started(g)' <=> Started(g)) /\ (Live(g)' <=> Live(g))
  BY <1>1 DEF Started, Live
<1>8. pc'[g] \in Attaching => OwnsNode(g, fd[g])'
  BY <1>1, <1>4 DEF OwnInv
<1>9. pc'[g] \in {"getflags", "setflags"} => NameFits(g, fd[g])'
  BY <1>1, <1>4 DEF OwnInv, Attaching
<1>10. Started(g)' => OwnsNode(g, tun_fd[g])' /\ NameFits(g, tun_fd[g])'
  BY <1>1, <1>4, <1>7 DEF OwnInv
<1>11. Live(g)' /\ if_name'[g] # NoName => Held(g)' \/ EndName(g)'
  BY <1>1, <1>5, <1>7 DEF OwnInv
<1>12. pc'[g] = "ifdestroy" /\ arg'[g] # NoArg =>
         \A f \in Fds : files'[f].owner = g /\ files'[f].ifc # None =>
                          iface'[files'[f].ifc].name # Trunc(if_name'[g])
  BY <1>1, <1>6 DEF OwnInv
<1>13. QED  BY <1>1, <1>3, <1>8, <1>9, <1>10, <1>11, <1>12 DEF OwnInv

-----------------------------------------------------------------------------
(***************************************************************************)
(* What a handle owns: its own steps.                                      *)
(***************************************************************************)
SameChoice(h) ==
  /\ Type(arg[h])' = Type(arg[h]) /\ (Persist(arg[h])' <=> Persist(arg[h]))
  /\ (WildCard(arg[h])' <=> WildCard(arg[h])) /\ (Scans(arg[h])' <=> Scans(arg[h]))
  /\ (AsksName(arg[h])' <=> AsksName(arg[h])) /\ (Scanning(h)' <=> Scanning(h))

\* What tuntap_sys_start decides depends on its arguments and the system.
LEMMA SameChoiceLemma ==
  ASSUME UNCHANGED os, NEW h \in Handles, arg'[h] = arg[h]
  PROVE  SameChoice(h)
  BY DEF SameChoice, Type, Persist, WildCard, Scans, AsksName, Scanning

\* The name stays, and what it names.
LEMMA NameKept ==
  ASSUME KernelInv, NEW h \in Handles, UNCHANGED os, if_name'[h] = if_name[h],
         Undisturbed(h)
  PROVE  (Held(h) => Held(h)') /\ (EndName(h) => EndName(h)')
<1>1. \A f \in Fds : files[f].ifc \in Ifs => files[f].kind = "tun"
  BY NoneAssumption DEF KernelInv, AttachedExists
<1>2. QED  BY <1>1, NoneAssumption DEF Held, EndName, Scanned, Undisturbed

\* A handle that holds nothing but its socket and its name.
LEMMA OnTheWay ==
  ASSUME KernelInv, NEW h \in Handles, OwnInv(h), Live(h), UNCHANGED os,
         Undisturbed(h), if_name'[h] = if_name[h],
         pc'[h] \in Opening \cup {"sys_start", "clean"}, OwnsSocket(h)'
  PROVE  OwnInv(h)'
<1>1. Live(h)' /\ if_name'[h] # NoName => Held(h)' \/ EndName(h)'
  BY NameKept DEF OwnInv
<1>2. pc'[h] \notin Attaching \cup {"ifdestroy", "close_sock", "idle"}
  BY DEF Opening, Attaching
<1>3. QED  BY <1>1, <1>2 DEF OwnInv, Started, Attaching

\* A handle that keeps its node, and knows its name.
LEMMA NodeKept ==
  ASSUME KernelInv, NEW h \in Handles, OwnInv(h), UNCHANGED os, arg'[h] = arg[h],
         Undisturbed(h), undone => undone', NEW f, OwnsNode(h, f)
  PROVE  /\ OwnsNode(h, f)'
         /\ NameFits(h, f) /\ if_name'[h] = if_name[h] => NameFits(h, f)'
<1>1. /\ f \in Fds /\ files'[f] = files[f] /\ files[f].ifc \in Ifs
      /\ iface'[files[f].ifc] = iface[files[f].ifc]
  BY NoneAssumption DEF OwnsNode, Undisturbed
<1>2. SameChoice(h)
  BY SameChoiceLemma
<1>3. QED  BY <1>1, <1>2 DEF OwnsNode, NameFits, SameChoice

\* A handle whose files are undisturbed keeps its socket.
LEMMA SocketKept ==
  ASSUME NEW h \in Handles, OwnsSocket(h), Undisturbed(h), ctrl_sock'[h] = ctrl_sock[h]
  PROVE  OwnsSocket(h)'
  BY DEF OwnsSocket, Undisturbed

\* `return -1' of tuntap_sys_start.
LEMMA FailsOwn ==
  ASSUME TypeOK, KernelInv, NEW h \in Handles, OwnInv(h), SysStartFails(h),
         Undisturbed(h), pc[h] \in Starting
  PROVE  OwnInv(h)'
<1>1. /\ UNCHANGED <<os, if_name, ctrl_sock>> /\ pc'[h] = "clean"
  BY DEF SysStartFails, Goto, TypeOK
<1>2. Live(h) /\ OwnsSocket(h)'
  BY <1>1, SocketKept DEF Live, OwnInv, NeedsSocket
<1>3. QED  BY <1>1, <1>2, OnTheWay

\* tuntap_start, and the steps of tuntap_sys_start before the open().
LEMMA EarlyOwn ==
  ASSUME TypeOK, KernelInv, NEW h \in Handles, HandleInv(h), OwnInv(h), BsdStep(h),
         \/ sys_start(h) \/ create_dev(h) \/ recreate_dev(h)
         \/ \E mode \in Modes, tun \in Tuns : tuntap_start(h, mode, tun) /\ ~UNCHANGED unixVars
  PROVE  OwnInv(h)'
<1>0. KernelTypeOK /\ UNCHANGED os
  BY KernelStep DEF TypeOK
<1>1. ASSUME NEW mode \in Modes, NEW tun \in Tuns, tuntap_start(h, mode, tun),
             ~UNCHANGED unixVars
      PROVE  OwnInv(h)'
  <2>1. PICK f \in Fds : /\ LowestFree(f) /\ OpenAt(f, "sock", h)
                         /\ ctrl_sock' = [ctrl_sock EXCEPT ![h] = f]
                         /\ Goto(h, AfterSocket(mode, tun))
                         /\ UNCHANGED <<iface, stolen, if_name>>
    BY <1>1 DEF tuntap_start
  <2>2. /\ Undisturbed(h) /\ pc[h] = "idle" /\ ctrl_sock'[h] = f
        /\ pc'[h] \in {"clean", "sys_start"}
    BY <1>0, <1>1, <2>1, NewFrame DEF tuntap_start, AfterSocket, Goto, TypeOK
  <2>3. OwnsSocket(h)'
    BY <1>0, <2>1, <2>2, SocketLemma DEF OwnsSocket
  <2>4. QED  BY <1>0, <2>1, <2>2, <2>3, OnTheWay DEF Live
<1>2. ASSUME Undisturbed(h), UNCHANGED <<ctrl_sock, if_name>>, pc[h] \in Starting,
             pc'[h] \in Opening \cup {"sys_start", "clean"}
      PROVE  OwnInv(h)'
  BY <1>0, <1>2, OnTheWay, SocketKept DEF Live, OwnInv, NeedsSocket
<1>3. CASE sys_start(h)
  <2>1. /\ UNCHANGED kernelVars /\ UNCHANGED <<ctrl_sock, if_name>> /\ pc[h] \in Starting
        /\ pc'[h] \in Opening \cup {"clean"}
    BY <1>3, AfterChecksLemma DEF sys_start, Goto, TypeOK, Starting, Opening
  <2>2. QED  BY <1>0, <1>2, <2>1, NewFrame
<1>4. CASE create_dev(h) \/ recreate_dev(h)
  <2>1. /\ UNCHANGED <<ctrl_sock, if_name>> /\ pc[h] \in Starting
        /\ pc'[h] \in Opening \cup {"clean"}
    BY <1>4, AfterChecksLemma
       DEF create_dev, recreate_dev, SysStartFails, Goto, TypeOK, Starting, Opening
  <2>2. UNCHANGED kernelVars \/ \E s, i : IfCreate(s, i)
    BY <1>4 DEF create_dev, recreate_dev, kernelVars
  <2>3. QED  BY <1>0, <1>2, <2>1, <2>2, NewFrame
<1>5. QED  BY <1>1, <1>3, <1>4

\* The open() of the node.
LEMMA OpenOwn ==
  ASSUME TypeOK, KernelInv, KernelInv', NEW h \in Handles, HandleInv(h), OwnInv(h),
         BsdStep(h), UNCHANGED undone, ~undone => CreatedInv(h),
         open_unit(h) \/ open_scan(h) \/ open_clone(h)
  PROVE  OwnInv(h)'
<1>0. /\ KernelTypeOK /\ UNCHANGED os /\ arg[h] \in Args /\ pc[h] = "open"
      /\ Type(arg[h]) \in IfTypes /\ pc[h] \in Starting /\ Live(h) /\ OwnsSocket(h)
      /\ os \in {"OpenBSD", "NetBSD", "FreeBSD", "Darwin"}
  BY KernelStep, OpenStep, OsLemma DEF TypeOK, Starting, Opening, Live, OwnInv, NeedsSocket
<1>1. ASSUME Undisturbed(h), SysStartFails(h) \/ GoesOn(h)
      PROVE  OwnInv(h)'
  <2>1. CASE SysStartFails(h)
    BY <1>0, <1>1, <2>1, FailsOwn
  <2>2. CASE GoesOn(h)
    <3>1. UNCHANGED <<ctrl_sock, if_name, pc>>
      BY <2>2 DEF GoesOn, NextUnitOf
    <3>2. QED  BY <1>0, <1>1, <3>1, OnTheWay, SocketKept DEF Opening
  <2>3. QED  BY <1>1, <2>1, <2>2
<1>2. CASE UNCHANGED kernelVars /\ (SysStartFails(h) \/ GoesOn(h))
  BY <1>0, <1>1, <1>2, NewFrame
<1>3. ASSUME NEW f \in Fds, NEW i \in Ifs, Opens(h, f, i), RightNode(h, i), NEW tun,
             Opened(h, f, tun), ~SysStartFails(h),
             tun = unit[h] \/ (f = 0 /\ Scanning(h) /\ tun = TUNTAP_ID_MAX)
      PROVE  OwnInv(h)'
  <2>1. /\ fd'[h] = f /\ arg'[h] = arg[h] /\ UNCHANGED ctrl_sock
        /\ pc'[h] = IF AsksName(arg[h]) THEN "getname" ELSE "getflags"
        /\ if_name'[h] = IF AsksName(arg[h]) THEN if_name[h] ELSE <<Type(arg[h]), tun>>
    BY <1>3 DEF Opened, SavedName, Goto, TypeOK
  <2>2. /\ files'[f].kind = "tun" /\ files'[f].owner = h /\ files'[f].ifc = i
        /\ i[1] \in IfTypes /\ i[2] \in Nat /\ i = <<i[1], i[2]>> /\ Trunc(i) = i
    BY <1>3, NodeLemma, Constants DEF Opens
  <2>3. SameChoice(h) /\ Undisturbed(h)
    BY <1>0, <1>3, <2>1, SameChoiceLemma, NewFrame
  <2>4. ASSUME ~undone', Persist(arg[h])
        PROVE  iface'[i].persist = 1
    <3>1. ~WildCard(arg[h]) /\ i = Node(h)
      BY <1>0, <1>3, <2>4 DEF HandleInv, Starting, Opening, RightNode
    <3>2. iface[i].persist = 1
      BY <1>0, <2>4, <3>1 DEF CreatedInv
    <3>3. QED  BY <3>2, PersistKept DEF BSD
  <2>5. OwnsNode(h, f)'
    BY <1>3, <2>1, <2>2, <2>3, <2>4 DEF OwnsNode, SameChoice, RightNode
  <2>6. ASSUME ~AsksName(arg[h])
        PROVE  NameFits(h, f)' /\ (Held(h)' \/ EndName(h)')
    <3>1. Scans(arg[h]) /\ os # "FreeBSD"
      BY <1>0, <2>6, ScanLemma
    <3>2. iface'[i].name = i
      BY <1>0, <2>2, <3>1, NoneAssumption
         DEF KernelInv, AttachedExists, NamesFixed
    <3>3. CASE tun = unit[h]
      <4>1. if_name'[h] = i
        BY <1>3, <2>1, <2>2, <2>6, <3>3 DEF RightNode
      <4>2. QED  BY <2>2, <3>2, <4>1 DEF NameFits, Held
    <3>4. CASE f = 0 /\ Scanning(h) /\ tun = TUNTAP_ID_MAX
      <4>1. Scanned(Type(arg[h])) /\ if_name'[h] = <<Type(arg[h]), TUNTAP_ID_MAX>>
        BY <1>0, <2>1, <2>6, <3>1, <3>4, ScanLemma
      <4>2. QED  BY <1>0, <2>3, <3>4, <4>1 DEF NameFits, EndName, Scanned, SameChoice
    <3>5. QED  BY <1>3, <3>3, <3>4
  <2>7. Live(h)' /\ if_name'[h] # NoName => Held(h)' \/ EndName(h)'
    BY <1>0, <2>1, <2>3, <2>6, NameKept DEF OwnInv
  <2>8. OwnsSocket(h)'
    BY <1>0, <2>1, <2>3, SocketKept
  <2>9. pc'[h] \in {"getflags", "setflags"} => NameFits(h, f)'
    BY <2>1, <2>6
  <2>10. pc'[h] \notin {"idle", "ifdestroy", "close_sock"}
    BY <2>1
  <2>11. QED  BY <2>1, <2>5, <2>7, <2>8, <2>9, <2>10 DEF OwnInv, Started
<1>4. ASSUME NEW f \in Fds, NEW i \in Ifs, Opens(h, f, i), RightNode(h, i),
             \/ Opened(h, f, unit[h])
             \/ f = 0 /\ Scanning(h) /\ Opened(h, f, TUNTAP_ID_MAX)
             \/ f = 0 /\ GoesOn(h)
      PROVE  OwnInv(h)'
  <2>1. Undisturbed(h)
    BY <1>0, <1>4, NewFrame
  <2>2. QED  BY <1>1, <1>3, <1>4, <2>1
<1>5. QED  BY <1>2, <1>4, OpenStep

\* The ioctls after the open(), and the end of the start.
LEMMA AttachOwn ==
  ASSUME TypeOK, KernelInv, NEW h \in Handles, HandleInv(h), OwnInv(h), BsdStep(h),
         UNCHANGED undone, get_name(h) \/ get_flags(h) \/ set_flags(h)
  PROVE  OwnInv(h)'
<1>0. /\ KernelTypeOK /\ UNCHANGED <<os, kernelVars, ctrl_sock>> /\ Undisturbed(h)
      /\ pc[h] \in Attaching /\ Live(h) /\ pc[h] \in Starting
      /\ fd[h] # NoFd /\ OwnsNode(h, fd[h]) /\ OwnsSocket(h)
  <2>1. pc[h] \in Attaching /\ UNCHANGED <<kernelVars, ctrl_sock>>
    BY DEF get_name, get_flags, set_flags, SysStartFails, Returns, StartSucceeds, Attaching
  <2>2. KernelTypeOK /\ UNCHANGED os
    BY KernelStep DEF TypeOK
  <2>3. QED
    BY <2>1, <2>2, NewFrame DEF HandleInv, OwnInv, NeedsSocket, Live, Starting
<1>1. CASE SysStartFails(h)
  BY <1>0, <1>1, FailsOwn
<1>2. PICK f : f = fd[h]
  OBVIOUS
<1>3. /\ f \in Fds /\ f # NoFd /\ OwnsNode(h, f) /\ files[f].ifc \in Ifs
      /\ Exists(files[f].ifc) /\ files[f].owner = h
  BY <1>0, <1>2, NoneAssumption DEF OwnsNode, KernelInv, AttachedExists
<1>4. ASSUME arg'[h] = arg[h]
      PROVE  /\ OwnsNode(h, f)' /\ OwnsSocket(h)'
             /\ NameFits(h, f) /\ if_name'[h] = if_name[h] => NameFits(h, f)'
  BY <1>0, <1>3, <1>4, NodeKept, SocketKept
<1>5. CASE get_name(h) /\ ~SysStartFails(h)
  <2>1. /\ if_name'[h] = iface[files[f].ifc].name /\ pc'[h] = "getflags"
        /\ fd'[h] = f /\ arg'[h] = arg[h] /\ UNCHANGED <<files, iface>>
    BY <1>0, <1>2, <1>5 DEF get_name, Goto, TypeOK, locals, kernelVars
  <2>2. Trunc(if_name'[h]) = iface[files[f].ifc].name
    BY <1>3, <2>1 DEF KernelInv, NamesCut
  <2>3. NameFits(h, f)' /\ Held(h)'
    BY <1>3, <2>1, <2>2 DEF NameFits, Held
  <2>4. QED  BY <1>4, <2>1, <2>3 DEF OwnInv, Started, Attaching
<1>6. CASE (get_flags(h) \/ set_flags(h)) /\ ~SysStartFails(h)
  <2>1. /\ UNCHANGED if_name /\ arg'[h] = arg[h]
        /\ \/ pc'[h] = "setflags" /\ fd'[h] = f
           \/ pc'[h] = "idle" /\ tun_fd'[h] = f
    BY <1>2, <1>6 DEF get_flags, set_flags, Returns, StartSucceeds, Goto, TypeOK, locals
  <2>2. NameFits(h, f)
    BY <1>2, <1>6 DEF get_flags, set_flags, OwnInv
  <2>3. if_name'[h] # NoName => Held(h)' \/ EndName(h)'
    BY <1>0, <2>1, NameKept DEF OwnInv
  <2>4. CASE pc'[h] = "setflags" /\ fd'[h] = f
    BY <1>4, <2>1, <2>2, <2>3, <2>4 DEF OwnInv, Started, Attaching
  <2>5. CASE pc'[h] = "idle" /\ tun_fd'[h] = f
    BY <1>4, <2>1, <2>2, <2>3, <2>5 DEF OwnInv, Started, Attaching
  <2>6. QED  BY <2>1, <2>4, <2>5
<1>7. QED  BY <1>1, <1>5, <1>6

\* clean, tuntap_release, and FreeBSD's close before SIOCIFDESTROY.
LEMMA CloseOwn ==
  ASSUME TypeOK, KernelInv, NEW h \in Handles, HandleInv(h), OwnInv(h), BsdStep(h),
         clean(h) \/ tuntap_release(h) \/ release_ctrl_sock(h) \/ close_early(h)
  PROVE  OwnInv(h)'
<1>0. KernelTypeOK /\ UNCHANGED os
  BY KernelStep DEF TypeOK
<1>1. CASE clean(h)
  <2>1. PICK s : s = ctrl_sock[h]
    OBVIOUS
  <2>2. /\ pc'[h] = "idle" /\ Close(h, s) /\ tun_fd'[h] = NoFd
        /\ if_name'[h] = if_name[h] /\ Live(h)
        /\ s \in Fds /\ files[s].kind = "sock"
    BY <1>1, <2>1
       DEF clean, Goto, TypeOK, HandleInv, OwnInv, OwnsSocket, NeedsSocket, Starting, Live
  <2>3. files[s].ifc = None
    BY <2>2 DEF KernelInv, AttachedExists
  <2>4. /\ \A g \in Fds : g # s => files'[g] = files[g]
        /\ \A i \in Ifs : iface'[i] = iface[i]
    BY <1>0, <2>2, <2>3, CloseLemma, NoneAssumption
  <2>5. Held(h) => Held(h)'
    BY <2>2, <2>3, <2>4, NoneAssumption DEF Held
  <2>6. EndName(h) => EndName(h)'
    BY <1>0, <2>2 DEF EndName, Scanned
  <2>7. QED
    BY <2>2, <2>5, <2>6 DEF OwnInv, Started, NeedsSocket, Attaching, Starting, Opening
<1>2. CASE tuntap_release(h)
  <2>1. pc'[h] = "close_sock" /\ tun_fd'[h] = tun_fd[h]
    BY <1>2 DEF tuntap_release, Goto, TypeOK
  <2>2. tun_fd[h] # NoFd => tun_fd[h] \in Fds /\ Close(h, tun_fd[h])
    BY <1>2 DEF tuntap_release, TypeOK
  <2>3. tun_fd[h] # NoFd => files'[tun_fd[h]].kind = "none"
    BY <1>0, <2>2, CloseLemma
  <2>4. QED
    BY <2>1, <2>3 DEF OwnInv, Started, Live, NeedsSocket, Attaching, Starting, Opening
<1>3. CASE release_ctrl_sock(h)
  <2>1. pc'[h] = "null"
    BY <1>3 DEF release_ctrl_sock, Goto, TypeOK
  <2>2. QED
    BY <2>1 DEF OwnInv, Started, Live, NeedsSocket, Attaching, Starting, Opening
<1>4. CASE close_early(h)
  <2>1. PICK f : f = tun_fd[h]
    OBVIOUS
  <2>2. /\ pc[h] = "idle" /\ pc'[h] = "ifdestroy" /\ Close(h, f) /\ tun_fd'[h] = NoFd
        /\ UNCHANGED <<arg, if_name>> /\ os = "FreeBSD"
    BY <1>4, <2>1 DEF close_early, Goto, TypeOK
  <2>3. ASSUME arg[h] # NoArg, NEW e \in Fds, files'[e].owner = h, files'[e].ifc # None
        PROVE  iface'[files'[e].ifc].name # Trunc(if_name[h])
    <3>1. OwnsNode(h, f) /\ NameFits(h, f)
      BY <2>1, <2>2, <2>3 DEF HandleInv, OwnInv, Started
    <3>2. /\ f \in Fds /\ files[f].ifc \in Ifs /\ files[f].kind = "tun"
          /\ iface[files[f].ifc].name = Trunc(if_name[h])
      BY <2>2, <3>1 DEF OwnsNode, NameFits, Scanning, Scans
    <3>3. e # f /\ files'[e] = files[e]
      BY <1>0, <2>2, <2>3, <3>2, CloseLemma, RecordLemma
    <3>4. files[e].ifc \in Ifs /\ files[e].ifc # files[f].ifc
      BY <1>0, <2>3, <3>2, <3>3, AttachedIf DEF KernelInv, AttachedOnce
    <3>5. iface'[files[e].ifc] = iface[files[e].ifc]
      BY <1>0, <2>2, <3>4, CloseLemma
    <3>6. Exists(files[e].ifc) /\ Exists(files[f].ifc)
      BY <3>2, <3>4, NoneAssumption DEF KernelInv, AttachedExists
    <3>7. iface[files[e].ifc].name # iface[files[f].ifc].name
      BY <3>2, <3>4, <3>6 DEF KernelInv, NamesUnique
    <3>8. QED  BY <3>2, <3>3, <3>5, <3>7
  <2>4. QED
    BY <2>2, <2>3 DEF OwnInv, Started, Live, NeedsSocket, Attaching, Starting, Opening
<1>5. QED  BY <1>1, <1>2, <1>3, <1>4

\* tuntap_set_ifname renames the interface of the handle.
LEMMA RenameOwn ==
  ASSUME TypeOK, KernelInv, NEW h \in Handles, HandleInv(h), OwnInv(h),
         NEW ifname \in NewNames, tuntap_set_ifname(h, ifname), UNCHANGED undone
  PROVE  OwnInv(h)'
<1>1. PICK i \in Ifs : SysSetIfname(h, i, ifname)
  BY DEF tuntap_set_ifname
<1>2. /\ pc[h] = "idle" /\ UNCHANGED <<files, os, tun_fd, ctrl_sock, pc, arg>>
      /\ os = "FreeBSD" /\ Exists(i) /\ iface[i].name = Trunc(if_name[h])
      /\ iface'[i].persist = iface[i].persist /\ iface'[i].name = Trunc(ifname)
      /\ if_name'[h] = ifname /\ \A j \in Ifs : j # i => iface'[j] = iface[j]
  <2>1. KernelTypeOK /\ ifname \in Names
    BY Constants DEF TypeOK
  <2>2. /\ UNCHANGED files /\ os = "FreeBSD" /\ Exists(i)
        /\ iface[i].name = Trunc(if_name[h])
        /\ iface'[i].persist = iface[i].persist /\ iface'[i].name = Trunc(ifname)
        /\ \A j \in Ifs : j # i => iface'[j] = iface[j]
    BY <1>1, <2>1, RenameLemma DEF Named
  <2>3. /\ pc[h] = "idle" /\ UNCHANGED <<os, tun_fd, ctrl_sock, pc, arg>>
        /\ if_name'[h] = ifname
    BY DEF tuntap_set_ifname, CacheName, TypeOK
  <2>4. QED  BY <2>2, <2>3
<1>3. if_name[h] # NoName /\ ~EndName(h)
  BY <1>2, TruncLemma DEF KernelInv, NamesCut, EndName, Scanned
<1>4. Held(h) /\ Live(h)
  BY <1>2, <1>3 DEF OwnInv, Live
<1>5. \A f \in Fds : files[f].ifc \in Ifs /\ iface[files[f].ifc].name = Trunc(if_name[h])
                       => files[f].ifc = i
  BY <1>2, NoneAssumption DEF KernelInv, AttachedExists, NamesUnique
<1>6. Held(h)'
  BY <1>2, <1>4, <1>5 DEF Held
<1>7. ASSUME Started(h)
      PROVE  OwnsNode(h, tun_fd[h])' /\ NameFits(h, tun_fd[h])'
  <2>1. OwnsNode(h, tun_fd[h]) /\ NameFits(h, tun_fd[h]) /\ SameChoice(h)
    BY <1>2, <1>7, SameChoiceLemma DEF OwnInv
  <2>2. files[tun_fd[h]].ifc = i /\ tun_fd[h] \in Fds
    BY <1>2, <1>5, <2>1 DEF OwnsNode, NameFits, Scanning, Scans
  <2>3. OwnsNode(h, tun_fd[h])'
    BY <1>2, <2>1, <2>2 DEF OwnsNode, SameChoice
  <2>4. QED  BY <1>2, <2>2, <2>3 DEF NameFits
<1>8. NeedsSocket(h)' => OwnsSocket(h)'
  BY <1>2 DEF NeedsSocket, OwnsSocket, OwnInv
<1>9. QED  BY <1>2, <1>6, <1>7, <1>8 DEF OwnInv, Started, Attaching

\* Every step of a handle keeps what it owns.
LEMMA OwnStep ==
  ASSUME TypeOK, KernelInv, KernelInv', NEW h \in Handles, HandleInv(h), OwnInv(h),
         BsdStep(h), ~undone => CreatedInv(h)
  PROVE  OwnInv(h)'
<1>1. CASE sys_destroy(h) \/ sys_destroy_nothing(h)
  <2>1. pc'[h] = "release"
    BY <1>1 DEF sys_destroy, sys_destroy_nothing, Goto, TypeOK
  <2>2. QED
    BY <2>1 DEF OwnInv, Started, Live, NeedsSocket, Attaching, Starting, Opening
<1>2. CASE tuntap_init(h) /\ ~UNCHANGED unixVars
  <2>1. pc'[h] = "idle" /\ tun_fd'[h] = NoFd /\ if_name'[h] = NoName
    BY <1>2 DEF tuntap_init, Goto, TypeOK
  <2>2. QED
    BY <2>1 DEF OwnInv, Started, Live, NeedsSocket, Attaching, Starting, Opening
<1>3. CASE UNCHANGED <<kernelVars, unixVars, os, locals, undone>>
  BY <1>3 DEF OwnInv, Started, Live, NeedsSocket, OwnsSocket, OwnsNode, NameFits, Held,
              EndName, Scanned, Scanning, Scans, AsksName, kernelVars, unixVars, locals
<1>4. CASE Unix(h) \/ BSD(h)
  <2>1. CASE UNCHANGED undone /\ Unix(h)
    <3>1. CASE tuntap_init(h) \/ tuntap_init_fails(h)
      BY <1>2, <1>3, <2>1, <3>1
         DEF Unix, tuntap_init, tuntap_init_fails, unixVars, kernelVars
    <3>2. ASSUME NEW mode \in Modes, NEW tun \in Tuns, tuntap_start(h, mode, tun)
          PROVE  OwnInv(h)'
      <4>1. CASE UNCHANGED unixVars
        BY <1>3, <2>1, <3>2, <4>1 DEF Unix, tuntap_start, AfterSocket, unixVars, TypeOK, Goto
      <4>2. QED  BY <3>2, <4>1, EarlyOwn
    <3>3. QED  BY <2>1, <3>1, <3>2, CloseOwn DEF Unix
  <2>2. CASE UNCHANGED undone /\ BSD(h)
    BY <1>1, <2>2, EarlyOwn, OpenOwn, AttachOwn, CloseOwn, RenameOwn DEF BsdStep, BSD
  <2>3. QED  BY <1>1, <1>4, <2>1, <2>2 DEF BsdStep
<1>5. QED  BY <1>1, <1>4 DEF BsdStep

-----------------------------------------------------------------------------
(***************************************************************************)
(* The invariant.                                                          *)
(***************************************************************************)
LEMMA InitInv == Init => Inv
<1> SUFFICES ASSUME Init  PROVE Inv
  OBVIOUS
<1> USE DEF Init, KernelInit, UnixInit
<1>1. TypeOK
  <2>1. KernelTypeOK
    BY RecordLemma DEF KernelTypeOK
  <2>2. /\ if_name \in [Handles -> Names] /\ arg \in [Handles -> Args]
        /\ unit \in [Handles -> Tuns \cup 0..TUNTAP_ID_MAX]
    BY RecordLemma, TruncLemma, Constants
  <2>3. QED  BY <2>1, <2>2 DEF TypeOK, BsdSteps
<1>2. KernelInv
  BY RecordLemma
     DEF KernelInv, AttachedExists, AttachedOnce, AbsentPlain, NamesCut, NamesUnique,
         NamesFixed, InRange, Exists
<1>3. ASSUME NEW h \in Handles
      PROVE  HandleInv(h) /\ CreatedInv(h) /\ OwnInv(h)
  BY <1>3 DEF HandleInv, CreatedInv, OwnInv, NeedsSocket, Started, Live, Starting,
              Attaching, Opening
<1>4. QED  BY <1>1, <1>2, <1>3 DEF Inv

\* Every step of a handle keeps the invariant.
LEMMA HandleStepInv ==
  ASSUME Inv, NEW h \in Handles, BsdStep(h)
  PROVE  Inv'
<1>1. TypeOK /\ KernelInv /\ HandleInv(h)
  BY DEF Inv
<1>2. TypeOK' /\ KernelInv' /\ UNCHANGED os
  BY <1>1, TypeStep, KernelStep
<1>3. undone => undone'
  BY DEF BsdStep, sys_destroy
<1>4. ASSUME NEW g \in Handles
      PROVE  HandleInv(g)'
  <2>1. CASE g = h
    BY <1>1, <2>1, HandleStep
  <2>2. CASE g # h
    <3>1. SameFields(g) /\ HandleInv(g)
      BY <1>1, <2>2, OthersStay DEF Inv
    <3>2. QED
      BY <1>2, <3>1 DEF SameFields, HandleInv, Invalid, BadUnit, CreatesFirst, Persist,
                        WildCard, Type, UnitInv, Scans
  <2>3. QED  BY <2>1, <2>2
<1>5. ASSUME ~undone', NEW g \in Handles
      PROVE  CreatedInv(g)'
  BY <1>1, <1>5, CreatedStep DEF Inv
<1>6. ASSUME ~stolen', NEW g \in Handles
      PROVE  OwnInv(g)'
  <2>1. ~stolen /\ OwnInv(g) /\ OwnInv(h) /\ (~undone => CreatedInv(h))
    BY <1>1, <1>6, StolenStays DEF Inv
  <2>2. CASE g = h
    BY <1>1, <1>2, <2>1, <2>2, OwnStep
  <2>3. CASE g # h
    <3>1. SameFields(g) /\ Undisturbed(g) /\ NoNew(g)
      BY <1>1, <1>6, <2>1, <2>3, OthersStay, StepFrame
    <3>2. tun_fd[g] \in Fds \cup {NoFd}
      BY <1>1 DEF TypeOK
    <3>3. QED  BY <1>1, <1>2, <1>3, <2>1, <3>1, <3>2, OwnFrame
  <2>4. QED  BY <2>2, <2>3
<1>7. QED  BY <1>2, <1>4, <1>5, <1>6 DEF Inv

\* When the process exits, only persistent interfaces stay.
LEMMA ExitInv ==
  ASSUME Inv, exit
  PROVE  Inv'
<1> USE DEF Inv, exit, KernelExit, UnixExit
<1>1. \A i \in Ifs : iface'[i] = iface[i] \/ iface'[i] = Absent
  BY DEF TypeOK, KernelTypeOK
<1>2. \A i \in Ifs : Exists(i)' => iface'[i] = iface[i]
  BY <1>1, RecordLemma DEF Exists
<1>3. TypeOK'
  <2>1. KernelTypeOK'
    BY <1>1, RecordLemma DEF TypeOK, KernelTypeOK
  <2>2. /\ if_name' \in [Handles -> Names] /\ arg' \in [Handles -> Args]
        /\ unit' \in [Handles -> Tuns \cup 0..TUNTAP_ID_MAX]
    BY RecordLemma, TruncLemma, Constants
  <2>3. QED  BY <2>1, <2>2 DEF TypeOK, BsdSteps
<1>4. AttachedExists' /\ AttachedOnce' /\ InRange'
  BY RecordLemma DEF AttachedExists, AttachedOnce, InRange
<1>5. AbsentPlain'
  BY <1>1, RecordLemma DEF KernelInv, AbsentPlain, Exists
<1>6. NamesCut' /\ NamesUnique' /\ NamesFixed'
  BY <1>2 DEF KernelInv, NamesCut, NamesUnique, NamesFixed, Exists
<1>7. ASSUME NEW h \in Handles
      PROVE  HandleInv(h)' /\ CreatedInv(h)' /\ OwnInv(h)'
  BY <1>7 DEF HandleInv, CreatedInv, OwnInv, NeedsSocket, Started, Live, Starting,
              Attaching, Opening
<1>8. QED  BY <1>3, <1>4, <1>5, <1>6, <1>7 DEF KernelInv

\* So does every step.
LEMMA NextInv == Inv /\ [Next]_vars => Inv'
<1> SUFFICES ASSUME Inv, [Next]_vars  PROVE Inv'
  OBVIOUS
<1>1. CASE UNCHANGED vars
  <2>1. TypeOK'
    BY <1>1 DEF vars, kernelVars, unixVars, locals, Inv, TypeOK, KernelTypeOK
  <2>2. KernelInv'
    BY <1>1 DEF vars, kernelVars, Inv, KernelInv, AttachedExists, AttachedOnce,
                AbsentPlain, NamesCut, NamesUnique, NamesFixed, InRange, Scanned, Exists
  <2>3. ASSUME NEW h \in Handles
        PROVE  (HandleInv(h) => HandleInv(h)') /\ (CreatedInv(h) => CreatedInv(h)')
    BY <1>1 DEF vars, kernelVars, unixVars, locals, HandleInv, Invalid, BadUnit,
                CreatesFirst, Persist, WildCard, Type, UnitInv, Scans, CreatedInv, Node,
                CreateType
  <2>4. ASSUME NEW h \in Handles, OwnInv(h)
        PROVE  OwnInv(h)'
    BY <1>1, <2>4, OwnFrame, <2>2
       DEF vars, kernelVars, unixVars, locals, Inv, SameFields, Undisturbed, NoNew, TypeOK
  <2>5. QED  BY <1>1, <2>1, <2>2, <2>3, <2>4 DEF vars, kernelVars, Inv
<1>2. CASE Next
  BY <1>2, HandleStepInv, ExitInv DEF Next, BsdStep
<1>3. QED  BY <1>1, <1>2

\* The tables of the kernel, the fields of the handles and what they own stay
\* as the invariant says, on every one of the four systems.
THEOREM Invariance == Spec => []Inv
BY InitInv, NextInv, PTL DEF Spec

-----------------------------------------------------------------------------
(***************************************************************************)
(* What the run checks.                                                    *)
(***************************************************************************)

\* Every variable stays of its type; the scans stay within the units.
THEOREM TypeCorrectness == Spec => []TypeOK
<1>1. Inv => TypeOK
  BY DEF Inv
<1>2. QED  BY <1>1, Invariance, PTL

\* A started device stays whole until a descriptor is stolen
\* (tuntap_sys_start, tuntap_sys_destroy and tuntap_sys_set_ifname).
THEOREM StartedIntact == Spec => []Intact
<1>1. Inv => Intact
  <2>1. SUFFICES ASSUME Inv, ~stolen, NEW h \in Handles, Started(h)
                 PROVE  /\ OwnsNode(h, tun_fd[h]) /\ NameFits(h, tun_fd[h])
                        /\ OwnsSocket(h) /\ Exists(IfaceOf(h))
    BY DEF Intact, OwnsNode, NameFits, OwnsSocket, Named, IfaceOf, ZeroAtTheEnd
  <2>2. OwnsNode(h, tun_fd[h]) /\ NameFits(h, tun_fd[h]) /\ OwnsSocket(h)
    BY <2>1 DEF Inv, OwnInv, NeedsSocket, Started
  <2>3. Exists(IfaceOf(h))
    BY <2>1, <2>2, NoneAssumption DEF Inv, KernelInv, AttachedExists, OwnsNode, IfaceOf
  <2>4. QED  BY <2>2, <2>3
<1>2. QED  BY <1>1, Invariance, PTL

\* Two started devices have two interfaces and two names, until a descriptor is
\* stolen (tuntap_sys_start, tuntap_sys_destroy and tuntap_sys_set_ifname).
THEOREM InterfacesExclusive == Spec => []ExclusiveInterface
<1>1. Inv => ExclusiveInterface
  <2>1. SUFFICES ASSUME Inv, ~stolen, NEW g \in Handles, NEW h \in Handles,
                        g # h, Started(g), Started(h)
                 PROVE  IfaceOf(g) # IfaceOf(h) /\ Trunc(if_name[g]) # Trunc(if_name[h])
    BY DEF ExclusiveInterface
  <2> DEFINE Whole(k) == OwnsNode(k, tun_fd[k]) /\ NameFits(k, tun_fd[k])
  <2>2. Whole(g) /\ Whole(h) /\ KernelInv /\ HandleInv(g) /\ HandleInv(h) /\ TypeOK
    BY <2>1 DEF Inv, OwnInv
  <2>3. tun_fd[g] # tun_fd[h] /\ IfaceOf(g) # IfaceOf(h)
    BY <2>1, <2>2, NoneAssumption DEF KernelInv, AttachedOnce, OwnsNode, IfaceOf
\* A device whose descriptor is not 0 bears the name of its interface, which
\* only that device answers to.
  <2>4. ASSUME NEW j \in Handles, NEW k \in Handles, j # k, Started(j), OwnInv(j),
               Whole(k), tun_fd[k] # 0
        PROVE  Trunc(if_name[j]) # Trunc(if_name[k])
    <3>1. SUFFICES ASSUME Trunc(if_name[j]) = Trunc(if_name[k])  PROVE FALSE
      OBVIOUS
    <3>2. /\ tun_fd[k] \in Fds /\ files[tun_fd[k]].owner = k
          /\ IfaceOf(k) \in Ifs /\ files[tun_fd[k]].ifc = IfaceOf(k)
      BY <2>4 DEF OwnsNode, IfaceOf
    <3>3. Named(IfaceOf(k), Trunc(if_name[j]))
      BY <2>2, <2>4, <3>1, <3>2, NoneAssumption
         DEF NameFits, KernelInv, AttachedExists, Named, IfaceOf
    <3>4. files[tun_fd[k]].owner = j
      BY <2>2, <2>4, <3>2, <3>3, OwnName DEF Started, Live
    <3>5. QED  BY <2>4, <3>2, <3>4
  <2>5. Trunc(if_name[g]) # Trunc(if_name[h])
    BY <2>1, <2>2, <2>3, <2>4 DEF Inv
  <2>6. QED  BY <2>3, <2>5
<1>2. QED  BY <1>1, Invariance, PTL

\* A device started with TUNTAP_MODE_PERSIST has a persistent interface
\* (tuntap_sys_create_dev before the open() of tuntap_sys_start).
THEOREM Persistence == Spec => []PersistHonoured
<1>1. Inv => PersistHonoured
  BY DEF Inv, PersistHonoured, OwnInv, OwnsNode, IfaceOf
<1>2. QED  BY <1>1, Invariance, PTL

\* FreeBSD's SIOCIFDESTROY does not wait for the device's own descriptor
\* (tuntap_sys_destroy closes tun_fd first).
THEOREM DestroyNotBlocked == Spec => []DestroyNotBlockedByOwn
<1>1. Inv => DestroyNotBlockedByOwn
  BY DEF Inv, DestroyNotBlockedByOwn, OwnInv, Named
<1>2. QED  BY <1>1, Invariance, PTL

\* A descriptor of h is one already, or the one that its open() returns.
LEMMA NewTun ==
  ASSUME TypeOK, KernelInv, NEW g \in Handles, HandleInv(g), BsdStep(g), NEW f \in Fds,
         files'[f].kind = "tun"
  PROVE  \/ files[f].kind = "tun" /\ files[f].owner = files'[f].owner
         \/ /\ open_unit(g) \/ open_scan(g) \/ open_clone(g)
            /\ files[f].kind = "none" /\ files'[f].owner = g
<1>0. KernelTypeOK /\ KernelMoves(g)
  BY KernelMovesLemma DEF TypeOK
<1>1. ASSUME NEW e, Close(g, e)
      PROVE  files'[f] = files[f]
  BY <1>0, <1>1, CloseLemma
<1>2. CASE UNCHANGED kernelVars \/ \E s, i : IfCreate(s, i)
  BY <1>0, <1>2, CreateLemma DEF kernelVars
<1>3. ASSUME NEW e \in Fds, LowestFree(e), OpenAt(e, "sock", g), UNCHANGED <<iface, stolen>>
      PROVE  files'[f] = files[f]
  BY <1>0, <1>3, SocketLemma
<1>4. ASSUME NEW e \in Fds, NEW i \in Ifs, Opens(g, e, i)
      PROVE  files'[f] = files[f] \/ (files[f].kind = "none" /\ files'[f].owner = g)
  BY <1>4 DEF Opens
<1>5. CASE IfDestroy(ctrl_sock[g], if_name[g])
  BY <1>0, <1>5, DestroyLemma
<1>6. CASE \E i \in Ifs, name \in Names : SysSetIfname(g, i, name)
  BY <1>0, <1>6, RenameLemma
<1>7. QED  BY <1>0, <1>1, <1>2, <1>3, <1>4, <1>5, <1>6 DEF KernelMoves

\* The tun descriptor of a device is closed before its control socket, theft
\* or no theft.
Mine(h, f) == files[f].kind = "tun" /\ files[f].owner = h
TunClosed(h) == pc[h] = "close_sock" /\ tun_fd[h] \in Fds => ~Mine(h, tun_fd[h])

\* Only the first half of tuntap_release leads to the second.
LEMMA OnlyReleased ==
  ASSUME TypeOK, KernelInv, NEW h \in Handles, HandleInv(h), BsdStep(h),
         pc[h] # "close_sock", pc'[h] = "close_sock"
  PROVE  tuntap_release(h)
<1>1. ~SysStartFails(h) /\ ~Returns(h)
  BY DEF SysStartFails, Returns, StartSucceeds, Goto, TypeOK
<1>2. CASE Unix(h)
  BY <1>2
     DEF Unix, tuntap_init, tuntap_init_fails, tuntap_start, AfterSocket, clean,
         release_ctrl_sock, Goto, TypeOK, unixVars
<1>3. CASE open_unit(h) \/ open_scan(h) \/ open_clone(h)
  <2>1. ~GoesOn(h)
    BY DEF GoesOn, NextUnitOf
  <2>2. ASSUME NEW f, NEW tun, Opened(h, f, tun)
        PROVE  FALSE
    BY <1>1, <2>2 DEF Opened, Goto, TypeOK
  <2>3. QED  BY <1>1, <1>3, <2>1, <2>2, OpenStep
<1>4. CASE sys_start(h) \/ create_dev(h) \/ recreate_dev(h)
  BY <1>1, <1>4 DEF sys_start, create_dev, recreate_dev, AfterChecks, Goto, TypeOK
<1>5. CASE get_name(h) \/ get_flags(h) \/ set_flags(h)
  BY <1>1, <1>5 DEF get_name, get_flags, set_flags, Goto, TypeOK
<1>6. CASE close_early(h) \/ sys_destroy_nothing(h) \/ sys_destroy(h)
  BY <1>6 DEF close_early, sys_destroy_nothing, sys_destroy, Goto, TypeOK
<1>7. CASE \E ifname \in NewNames : tuntap_set_ifname(h, ifname)
  BY <1>7 DEF tuntap_set_ifname
<1>8. QED  BY <1>2, <1>3, <1>4, <1>5, <1>6, <1>7 DEF BsdStep, BSD

\* Every step keeps TunClosed.
LEMMA TunStep ==
  ASSUME Inv, NEW g \in Handles, BsdStep(g), NEW h \in Handles, TunClosed(h)
  PROVE  TunClosed(h)'
<1>0. TypeOK /\ KernelTypeOK /\ KernelInv /\ HandleInv(g)
  BY DEF Inv, TypeOK
<1>1. CASE h # g
  <2>1. SameFields(h)
    BY <1>0, <1>1, OthersStay
  <2>2. ASSUME tun_fd[h] \in Fds, Mine(h, tun_fd[h])'
        PROVE  Mine(h, tun_fd[h])
    BY <1>0, <1>1, <2>1, <2>2, NewTun DEF Mine, SameFields
  <2>3. QED  BY <2>1, <2>2 DEF TunClosed, SameFields
<1>2. ASSUME h = g, pc'[h] = "close_sock", tun_fd'[h] \in Fds, pc[h] = "close_sock"
      PROVE  ~Mine(h, tun_fd[h])'
  <2>1. FALSE
    <3>1. ~sys_destroy(h)
      BY <1>0, <1>2 DEF sys_destroy
    <3>2. CASE Unix(h)
      BY <1>0, <1>2, <3>2
         DEF Unix, tuntap_init, tuntap_init_fails, tuntap_start, clean, tuntap_release,
             release_ctrl_sock, Goto, TypeOK
    <3>3. ~BSD(h)
      BY <1>2
         DEF BSD, sys_start, create_dev, recreate_dev, open_unit, open_scan, open_clone,
             get_name, get_flags, set_flags, close_early, sys_destroy_nothing,
             tuntap_set_ifname
    <3>4. QED  BY <1>2, <3>1, <3>2, <3>3 DEF BsdStep
  <2>2. QED  BY <2>1
<1>3. ASSUME h = g, pc'[h] = "close_sock", tun_fd'[h] \in Fds, pc[h] # "close_sock"
      PROVE  ~Mine(h, tun_fd[h])'
  <2>1. tuntap_release(h) /\ tun_fd'[h] = tun_fd[h]
    BY <1>0, <1>3, OnlyReleased DEF tuntap_release
  <2>2. Close(h, tun_fd[h])
    BY <1>3, <2>1, Constants DEF tuntap_release
  <2>3. QED  BY <1>0, <1>3, <2>1, <2>2, CloseLemma DEF Mine
<1>4. QED  BY <1>1, <1>2, <1>3 DEF TunClosed

\* TunClosed holds of every device in every reachable state.
LEMMA TunInvariance == Spec => [](\A h \in Handles : TunClosed(h))
<1> DEFINE All == \A h \in Handles : TunClosed(h)
<1>1. Init => All
  BY DEF Init, UnixInit, TunClosed
<1>2. Inv /\ All /\ [Next]_vars => All'
  <2> SUFFICES ASSUME Inv, All, [Next]_vars PROVE All'
    OBVIOUS
  <2>1. CASE UNCHANGED vars
    BY <2>1 DEF vars, kernelVars, unixVars, TunClosed, Mine
  <2>2. ASSUME NEW g \in Handles, BsdStep(g)
        PROVE  All'
    BY <2>2, TunStep
  <2>3. CASE exit
    BY <2>3 DEF exit, UnixExit, TunClosed
  <2>4. QED  BY <2>1, <2>2, <2>3 DEF Next, BsdStep
<1> HIDE DEF All
<1>3. Spec => []All
  BY <1>1, <1>2, Invariance, PTL DEF Spec
<1>4. QED  BY <1>3, PTL DEF All

\* The descriptor of a device is lost by a failed ioctl or by its number only
\* (`return -1' in tuntap_sys_start, open() > 0, case 256).
THEOREM LostOnlyThere == Spec => LostToAnIoctlOrByNumber
<1> DEFINE Excused(h, f) ==
      \/ pc[h] \in {"getname", "getflags", "setflags"}
      \/ /\ pc[h] = "open" /\ Scans(arg[h])
         /\ f = TUNTAP_ID_MAX \/ (f = 0 /\ WildCard(arg[h]))
<1>1. ASSUME Inv, \A h \in Handles : TunClosed(h), [Next]_vars,
             NEW h \in Handles, NEW f \in Fds, ~Lost(h, f), Lost(h, f)'
      PROVE  Excused(h, f)
  <2>1. /\ TypeOK /\ KernelInv /\ HandleInv(h) /\ TunClosed(h) /\ KernelTypeOK
        /\ files'[f].kind = "tun" /\ files'[f].owner = h /\ f # fd'[h] /\ f # tun_fd'[h]
        /\ f # NoFd
    BY <1>1, Constants DEF Inv, TypeOK, Lost
  <2>2. ~UNCHANGED vars /\ ~exit
    BY <1>1, <2>1, RecordLemma
       DEF vars, kernelVars, unixVars, locals, Lost, exit, KernelExit
  <2>3. PICK g \in Handles : BsdStep(g)
    BY <1>1, <2>2 DEF Next, BsdStep
  <2>4. HandleInv(g)
    BY <1>1 DEF Inv
  <2>5. CASE /\ open_unit(g) \/ open_scan(g) \/ open_clone(g)
             /\ files[f].kind = "none" /\ files'[f].owner = g
    <3>1. g = h
      BY <2>1, <2>5
    <3>2. PICK e \in Fds, i \in Ifs :
            /\ Opens(h, e, i)
            /\ \/ Opened(h, e, unit[h])
               \/ e = 0 /\ Scanning(h) /\ Opened(h, e, TUNTAP_ID_MAX)
               \/ e = 0 /\ GoesOn(h)
      BY <2>1, <2>5, <3>1, OpenStep DEF kernelVars
    <3>3. e = f /\ pc[h] = "open"
      BY <2>1, <2>5, <3>1, <3>2, OpenStep DEF Opens
    <3>4. ASSUME NEW tun, Opened(h, f, tun)
          PROVE  EndOfScan(arg[h], f)
      BY <2>1, <3>4 DEF Opened, TypeOK
    <3>5. QED  BY <3>2, <3>3, <3>4 DEF EndOfScan, GoesOn, Scanning
  <2>6. CASE files[f].kind = "tun" /\ files[f].owner = h
    <3>1. f = fd[h] \/ f = tun_fd[h]
      BY <1>1, <2>6 DEF Lost
    <3>2. g = h
      BY <2>1, <2>3, <2>4, <3>1, OthersStay DEF SameFields
    <3>3. CASE f = fd[h]
      BY <2>1, <3>3 DEF HandleInv, Attaching
    <3>4. CASE f = tun_fd[h]
      <4>1. ~UNCHANGED tun_fd
        BY <2>1, <3>4
      <4>2. tun_fd[h] # NoFd /\ pc[h] \notin Starting \cup {"null"}
        BY <2>1, <3>4 DEF HandleInv
      <4>3. ~close_early(h)
        BY <2>1, <3>4, CloseLemma DEF close_early
      <4>4. ~release_ctrl_sock(h)
        BY <2>1, <2>6, <3>4 DEF release_ctrl_sock, TunClosed, Mine
      <4>5. ~Unix(h)
        BY <4>1, <4>2, <4>4
           DEF Unix, tuntap_init, tuntap_init_fails, tuntap_start, clean, tuntap_release,
               unixVars
      <4>6. ~BSD(h)
        <5>1. ~(open_unit(h) \/ open_scan(h) \/ open_clone(h))
          BY <2>1, <2>4, <3>2, <4>2, OpenStep DEF Starting, Opening
        <5>2. QED
          BY <4>1, <4>2, <4>3, <5>1
             DEF BSD, sys_start, create_dev, recreate_dev, get_name, get_flags, set_flags,
                 sys_destroy_nothing, tuntap_set_ifname, Starting, Attaching, Opening
      <4>7. ~sys_destroy(h)
        BY <4>1 DEF sys_destroy
      <4>8. QED  BY <2>3, <3>2, <4>5, <4>6, <4>7 DEF BsdStep
    <3>5. QED  BY <3>1, <3>3, <3>4
  <2>7. QED  BY <2>1, <2>3, <2>4, <2>5, <2>6, NewTun
<1>2. Inv /\ (\A h \in Handles : TunClosed(h)) /\ [Next]_vars =>
        [\A h \in Handles, f \in Fds : ~Lost(h, f) /\ Lost(h, f)' => Excused(h, f)]_vars
  BY <1>1
<1>3. QED  BY <1>2, Invariance, TunInvariance, PTL DEF Spec, LostToAnIoctlOrByNumber

-----------------------------------------------------------------------------
(***************************************************************************)
(* The four back-ends implement DeviceLifecycle's promise by name: every   *)
(* system call is one step of a device's life or none.                     *)
(***************************************************************************)
Same(h) == Stage(h)' = Stage(h) /\ Holds(h)' = Holds(h)

\* When one handle moves, the abstract functions change at that handle.
LEMMA Moved ==
  ASSUME NEW h \in Handles, \A g \in Handles : g # h => Same(g)
  PROVE  /\ Stages' = [Stages EXCEPT ![h] = Stage(h)']
         /\ Holdings' = [Holdings EXCEPT ![h] = Holds(h)']
         /\ Stages[h] = Stage(h) /\ Holdings[h] = Holds(h)
         /\ Same(h) => UNCHANGED <<Stages, Holdings>>
  BY DEF Stages, Holdings, Same

\* What a started device holds is attached to its own descriptor.
LEMMA HoldsOwn ==
  ASSUME Inv, ~stolen, NEW h \in Handles, NEW i \in Ifs, Holds(h) = i
  PROVE  /\ pc[h] = "idle" /\ tun_fd[h] \in Fds /\ IfaceOf(h) = i
         /\ files[tun_fd[h]].kind = "tun" /\ files[tun_fd[h]].owner = h
<1>1. Started(h) /\ IfaceOf(h) = i
  BY NoneAssumption DEF Holds
<1>2. QED  BY <1>1 DEF Inv, OwnInv, OwnsNode, Started

\* What nobody has open nobody holds.
LEMMA UnattachedNotHeld ==
  ASSUME Inv, ~stolen, NEW i \in Ifs, ~Attached(i)
  PROVE  ~Lifecycle!Held(i)
<1>1. ASSUME NEW g \in Handles, Holds(g) = i  PROVE FALSE
  BY <1>1, HoldsOwn DEF Attached, IfaceOf
<1>2. QED  BY <1>1 DEF Lifecycle!Held, Holdings

\* The interface that a tuntap_sys_start has open, no started device holds.
LEMMA AttachingNotHeld ==
  ASSUME Inv, ~stolen, NEW h \in Handles, pc[h] \in Attaching
  PROVE  /\ fd[h] \in Fds /\ files[fd[h]].ifc \in Ifs
         /\ ~Lifecycle!Held(files[fd[h]].ifc)
<1>1. /\ fd[h] \in Fds /\ files[fd[h]].ifc \in Ifs
      /\ files[fd[h]].owner = h
  BY DEF Inv, OwnInv, OwnsNode
<1>2. ASSUME NEW g \in Handles, Holds(g) = files[fd[h]].ifc
      PROVE  FALSE
  <2>1. /\ pc[g] = "idle" /\ tun_fd[g] \in Fds /\ IfaceOf(g) = files[fd[h]].ifc
        /\ files[tun_fd[g]].owner = g
    BY <1>1, <1>2, HoldsOwn
  <2>2. tun_fd[g] = fd[h]
    BY <1>1, <2>1, NoneAssumption DEF IfaceOf, Inv, KernelInv, AttachedOnce
  <2>3. QED  BY <1>1, <2>1, <2>2 DEF Attaching
<1>3. QED  BY <1>1, <1>2 DEF Lifecycle!Held, Holdings

\* A handle that does not move and is not disturbed keeps stage and interface.
LEMMA UndisturbedSame ==
  ASSUME Inv, ~stolen, NEW g \in Handles, Undisturbed(g), SameFields(g)
  PROVE  Same(g)
<1>1. Stage(g)' = Stage(g) /\ (Started(g)' <=> Started(g)) /\ tun_fd'[g] = tun_fd[g]
  BY DEF Stage, Started, SameFields
<1>2. ASSUME Started(g)  PROVE files'[tun_fd[g]] = files[tun_fd[g]]
  BY <1>2 DEF Inv, OwnInv, OwnsNode, Undisturbed
<1>3. QED  BY <1>1, <1>2 DEF Same, Holds, IfaceOf

-----------------------------------------------------------------------------
(***************************************************************************)
(* Persistence on both sides of the kernel's operations: close() and a new *)
(* name leave it, SIOCIFCREATE and open() add to it what nobody has open,  *)
(* SIOCIFDESTROY takes from it the interface of that name.                 *)
(***************************************************************************)
KeptGrows == \E i \in Ifs : ~Attached(i) /\ Kept' = Kept \cup {i}

\* close()
LEMMA KeptClose ==
  ASSUME KernelTypeOK, NEW h, NEW f, Close(h, f)  PROVE Kept' = Kept
  BY CloseLemma, RecordLemma DEF Kept

\* SIOCIFCREATE
LEMMA KeptCreate ==
  ASSUME KernelTypeOK, KernelInv, NEW s, NEW i, IfCreate(s, i)  PROVE KeptGrows
<1>1. /\ i \in Ifs /\ ~Exists(i) /\ iface'[i].persist = 1
      /\ \A j \in Ifs : j # i => iface'[j] = iface[j]
  BY CreateLemma DEF NameFree
<1>2. Kept' = Kept \cup {i}
  BY <1>1 DEF Kept
<1>3. ~Attached(i)
  BY <1>1, NoneAssumption DEF Attached, KernelInv, AttachedExists
<1>4. QED  BY <1>1, <1>2, <1>3 DEF KeptGrows

\* open()
LEMMA KeptOpens ==
  ASSUME KernelTypeOK, KernelInv, NEW h, NEW f, NEW i, Opens(h, f, i)
  PROVE  Kept' = Kept \/ KeptGrows
<1>1. /\ i \in Ifs /\ ~Attached(i)
      /\ \A j \in Ifs : j # i => iface'[j] = iface[j]
  BY DEF Opens
<1>2. iface'[i].persist = 1 => Kept' = Kept \cup {i}
  BY <1>1 DEF Kept
<1>3. iface'[i].persist # 1 => iface[i].persist # 1
  BY DEF Opens, NameFree, KernelInv, AbsentPlain
<1>4. iface'[i].persist # 1 => Kept' = Kept
  BY <1>1, <1>3 DEF Kept
<1>5. QED  BY <1>1, <1>2, <1>4 DEF KeptGrows

\* SIOCSIFNAME
LEMMA KeptRename ==
  ASSUME KernelTypeOK, NEW h, NEW i \in Ifs, NEW name \in Names, SysSetIfname(h, i, name)
  PROVE  Kept' = Kept
<1>1. \A j \in Ifs : iface'[j].persist = iface[j].persist
  BY RenameLemma
<1>2. QED  BY <1>1 DEF Kept

\* SIOCIFDESTROY, by a device that is alive or has closed its descriptor:
\* what goes is held by no other device.
LEMMA KeptDestroy ==
  ASSUME Inv, ~stolen, NEW h \in Handles,
         pc[h] = "idle" \/ (pc[h] = "ifdestroy" /\ os = "FreeBSD"),
         IfDestroy(ctrl_sock[h], if_name[h])
  PROVE  Lifecycle!MayUnkeep(h)
<1>1. KernelTypeOK
  BY DEF Inv, TypeOK
<1>2. CASE UNCHANGED <<files, iface>>
  BY <1>2 DEF Kept, Lifecycle!MayUnkeep
<1>3. ASSUME NEW i \in Ifs, Named(i, Trunc(if_name[h])), os = "FreeBSD" => ~Attached(i),
             iface'[i] = Absent, \A j \in Ifs : j # i => iface'[j] = iface[j]
      PROVE  ~Lifecycle!HeldByOther(h, i) /\ Kept' = Kept \ {i}
  <2>1. Kept' = Kept \ {i}
    BY <1>3, RecordLemma DEF Kept
  <2>2. ASSUME NEW g \in Handles, g # h, Holds(g) = i  PROVE FALSE
    <3>1. /\ tun_fd[g] \in Fds /\ files[tun_fd[g]].ifc = i
          /\ files[tun_fd[g]].owner = g
      BY <2>2, HoldsOwn DEF IfaceOf
    <3>2. Attached(i)
      BY <3>1 DEF Attached
    <3>3. Live(h)
      BY <1>3, <3>2 DEF Live
    <3>4. files[tun_fd[g]].owner = h
      BY <1>3, <3>1, <3>3, OwnName DEF Inv
    <3>5. QED  BY <2>2, <3>1, <3>4
  <2>3. QED  BY <2>1, <2>2 DEF Lifecycle!HeldByOther, Holdings
<1>4. QED  BY <1>1, <1>2, <1>3, DestroyLemma DEF Lifecycle!MayUnkeep

-----------------------------------------------------------------------------
(***************************************************************************)
(* Each system call of a handle, as long as nothing is stolen.             *)
(***************************************************************************)
AStep == Lifecycle!CallByName \/ UNCHANGED <<Stages, Holdings, Kept>>

\* The calls that the abstract device does not see, or as persistence only:
\* neither the handle's stage nor its interface changes.
LEMMA Unseen ==
  ASSUME Inv, ~stolen, NEW h \in Handles, \A g \in Handles : g # h => Same(g),
         Same(h), Kept' = Kept \/ KeptGrows
  PROVE  AStep
<1>1. UNCHANGED <<Stages, Holdings>>
  BY Moved
<1>2. ASSUME NEW i \in Ifs, ~Attached(i), Kept' = Kept \cup {i}
      PROVE  Lifecycle!Keep(i)
  BY <1>1, <1>2, UnattachedNotHeld DEF Lifecycle!Keep
<1>3. QED  BY <1>1, <1>2 DEF AStep, KeptGrows, Lifecycle!CallByName

\* tuntap_init, tuntap_start up to socket(), and label `clean'.
LEMMA StartStep ==
  ASSUME Inv, ~stolen, NEW h \in Handles, \A g \in Handles : g # h => Same(g),
         \/ tuntap_init(h) \/ tuntap_init_fails(h) \/ clean(h)
         \/ \E mode \in Modes, tun \in Tuns : tuntap_start(h, mode, tun)
  PROVE  AStep
<1> USE DEF Inv, TypeOK
<1>1. CASE tuntap_init(h)
  <2>1. Stage(h) = "none" /\ Stage(h)' = "idle" /\ Holds(h) = None /\ Holds(h)' = None
    BY <1>1 DEF tuntap_init, Goto, Stage, Holds, Started
  <2>2. Kept' = Kept
    BY <1>1 DEF tuntap_init, kernelVars, Kept
  <2>3. UNCHANGED Holdings /\ Stages[h] = "none" /\ Stages' = [Stages EXCEPT ![h] = "idle"]
    BY <2>1, Moved DEF Holdings
  <2>4. QED  BY <2>2, <2>3 DEF AStep, Lifecycle!CallByName, Lifecycle!New
<1>2. CASE tuntap_init_fails(h)
  BY <1>2, Unseen DEF tuntap_init_fails, kernelVars, unixVars, Same, Stage, Holds, Started,
                      IfaceOf, Kept
<1>3. CASE clean(h)
  <2>1. Same(h)
    BY <1>3 DEF clean, Goto, Same, Stage, Holds, Started, HandleInv, Starting
  <2>2. Kept' = Kept
    BY <1>3, KeptClose DEF clean
  <2>3. QED  BY <2>1, <2>2, Unseen
<1>4. ASSUME NEW mode \in Modes, NEW tun \in Tuns, tuntap_start(h, mode, tun)
      PROVE  AStep
  <2>1. CASE UNCHANGED <<kernelVars, unixVars>>
    BY <2>1, Unseen DEF kernelVars, unixVars, Same, Stage, Holds, Started, IfaceOf, Kept
  <2>2. CASE ~UNCHANGED <<kernelVars, unixVars>>
    <3>1. /\ tun_fd[h] = NoFd /\ tun_fd' = tun_fd /\ pc[h] = "idle"
          /\ pc'[h] \in {"clean", "sys_start"} /\ iface' = iface
      BY <1>4, <2>2 DEF tuntap_start, AlreadyStarted, AfterSocket, Goto
    <3>2. Same(h) /\ Kept' = Kept
      BY <3>1 DEF Same, Stage, Holds, Started, Kept
    <3>3. QED  BY <3>2, Unseen
  <2>3. QED  BY <2>1, <2>2
<1>5. QED  BY <1>1, <1>2, <1>3, <1>4

\* tuntap_sys_start up to and including the open() of the node.
LEMMA MakeStep ==
  ASSUME Inv, ~stolen, NEW h \in Handles, \A g \in Handles : g # h => Same(g),
         \/ sys_start(h) \/ create_dev(h) \/ recreate_dev(h)
         \/ open_unit(h) \/ open_scan(h) \/ open_clone(h)
  PROVE  AStep
<1>1. TypeOK /\ KernelTypeOK /\ KernelInv /\ HandleInv(h)
  BY DEF Inv, TypeOK
<1>2. ASSUME pc[h] \in Starting, pc'[h] \in Starting, Kept' = Kept \/ KeptGrows
      PROVE  AStep
  <2>1. Same(h)
    BY <1>2 DEF Same, Stage, Holds, Started, Starting, Attaching, Opening
  <2>2. QED  BY <1>2, <2>1, Unseen
<1>3. CASE sys_start(h) \/ create_dev(h) \/ recreate_dev(h)
  <2>1. pc[h] \in Starting /\ pc'[h] \in Starting
    BY <1>1, <1>3, AfterChecksLemma
       DEF sys_start, create_dev, recreate_dev, SysStartFails, Goto, TypeOK, Starting,
           Opening
  <2>2. UNCHANGED kernelVars \/ \E s, i : IfCreate(s, i)
    BY <1>3 DEF sys_start, create_dev, recreate_dev, kernelVars
  <2>3. Kept' = Kept \/ KeptGrows
    BY <1>1, <2>2, KeptCreate DEF kernelVars, Kept
  <2>4. QED  BY <1>2, <2>1, <2>3
<1>4. CASE open_unit(h) \/ open_scan(h) \/ open_clone(h)
  <2>1. ASSUME SysStartFails(h) \/ GoesOn(h) \/ \E f, tun : Opened(h, f, tun)
        PROVE  pc[h] \in Starting /\ pc'[h] \in Starting
    <3>1. pc[h] = "open"
      BY <1>1, <1>4, OpenStep
    <3>2. CASE SysStartFails(h)
      BY <1>1, <3>1, <3>2 DEF SysStartFails, Goto, TypeOK, Starting, Opening
    <3>3. CASE GoesOn(h)
      BY <3>1, <3>3 DEF GoesOn, NextUnitOf, Starting, Opening
    <3>4. ASSUME NEW f, NEW tun, Opened(h, f, tun), ~SysStartFails(h)
          PROVE  pc'[h] \in Starting
      BY <1>1, <3>4 DEF Opened, Goto, TypeOK, Starting, Attaching
    <3>5. QED  BY <2>1, <3>1, <3>2, <3>3, <3>4 DEF Starting, Opening
  <2>2. /\ UNCHANGED kernelVars \/ \E f \in Fds, i \in Ifs : Opens(h, f, i)
        /\ SysStartFails(h) \/ GoesOn(h) \/ \E f, tun : Opened(h, f, tun)
    BY <1>1, <1>4, OpenStep
  <2>3. Kept' = Kept \/ KeptGrows
    BY <1>1, <2>2, KeptOpens DEF kernelVars, Kept
  <2>4. QED  BY <1>2, <2>1, <2>2, <2>3
<1>5. QED  BY <1>3, <1>4

\* The ioctls after the open(); the last one ends the start with success.
LEMMA SuccessStep ==
  ASSUME Inv, ~stolen, NEW h \in Handles, \A g \in Handles : g # h => Same(g),
         get_name(h) \/ get_flags(h) \/ set_flags(h)
  PROVE  AStep
<1> DEFINE i == files[fd[h]].ifc
<1>1. TypeOK /\ UNCHANGED kernelVars /\ pc[h] \in Attaching /\ Kept' = Kept
  BY DEF get_name, get_flags, set_flags, Attaching, kernelVars, Kept, Inv
<1>2. CASE Returns(h)
  <2>1. pc'[h] = "idle" /\ tun_fd'[h] = fd[h]
    BY <1>1, <1>2 DEF Returns, StartSucceeds, Goto, TypeOK
  <2>2. fd[h] \in Fds /\ i \in Ifs /\ ~Lifecycle!Held(i)
    BY <1>1, AttachingNotHeld
  <2>3. Stage(h) = "idle" /\ Stage(h)' = "idle" /\ Holds(h) = None /\ Holds(h)' = i
    BY <1>1, <2>1, <2>2, Constants DEF Stage, Holds, Started, IfaceOf, kernelVars, Attaching
  <2>4. /\ Stages[h] = "idle" /\ Holdings[h] = None
        /\ Stages' = [Stages EXCEPT ![h] = Stages[h]]
        /\ Holdings' = [Holdings EXCEPT ![h] = i]
    BY <2>3, Moved
  <2>5. Stages' = Stages
    BY <2>4 DEF Stages
  <2>6. Lifecycle!Start(h, i)
    BY <1>1, <2>2, <2>4, <2>5 DEF Lifecycle!Start
  <2>7. QED  BY <2>2, <2>6 DEF AStep, Lifecycle!CallByName
<1>3. CASE ~Returns(h)
  <2>1. pc'[h] \in Starting
    BY <1>1, <1>3 DEF get_name, get_flags, set_flags, SysStartFails, Goto, TypeOK, Starting,
                      Attaching
  <2>2. Same(h)
    BY <1>1, <2>1 DEF Same, Stage, Holds, Started, Starting, Attaching, Opening
  <2>3. QED  BY <1>1, <2>2, Unseen
<1>4. QED  BY <1>2, <1>3

\* tuntap_destroy and tuntap_release.
LEMMA LeaveStep ==
  ASSUME Inv, ~stolen, NEW h \in Handles, \A g \in Handles : g # h => Same(g),
         \/ close_early(h) \/ sys_destroy(h) \/ sys_destroy_nothing(h)
         \/ tuntap_release(h) \/ release_ctrl_sock(h)
  PROVE  AStep
<1>1. TypeOK /\ KernelTypeOK /\ HandleInv(h)
  BY DEF Inv, TypeOK
\* The first call of either leaves the interface to itself.
<1>2. ASSUME pc[h] = "idle", pc'[h] \in {"ifdestroy", "release", "close_sock"},
             Lifecycle!MayUnkeep(h)
      PROVE  AStep
  <2>1. Stage(h) = "idle" /\ Stage(h)' = "closing" /\ Holds(h)' = None
    BY <1>2 DEF Stage, Holds, Started
  <2>2. Lifecycle!Leave(h)
    BY <2>1, Moved DEF Lifecycle!Leave
  <2>3. QED  BY <1>2, <2>2 DEF Lifecycle!LeaveByName, Lifecycle!CallByName, AStep
\* The next ones, up to the last, change nothing but persistence.
<1>3. ASSUME pc[h] \in {"ifdestroy", "release"}, pc'[h] \in {"release", "close_sock"},
             Lifecycle!MayUnkeep(h)
      PROVE  AStep
  <2>1. Same(h) /\ Stage(h) = "closing"
    BY <1>3 DEF Same, Stage, Holds, Started
  <2>2. Lifecycle!Unkeep(h)
    BY <1>3, <2>1, Moved DEF Lifecycle!Unkeep
  <2>3. QED  BY <2>2 DEF Lifecycle!CallByName, AStep
<1>4. ASSUME Kept' = Kept  PROVE Lifecycle!MayUnkeep(h)
  BY <1>4 DEF Lifecycle!MayUnkeep
<1>5. CASE close_early(h)
  <2>1. pc[h] = "idle" /\ pc'[h] = "ifdestroy" /\ Kept' = Kept
    BY <1>1, <1>5, KeptClose DEF close_early, Goto, TypeOK
  <2>2. QED  BY <1>2, <1>4, <2>1
<1>6. CASE sys_destroy_nothing(h)
  <2>1. pc[h] = "idle" /\ pc'[h] = "release" /\ Kept' = Kept
    BY <1>1, <1>6 DEF sys_destroy_nothing, Goto, TypeOK, kernelVars, Kept
  <2>2. QED  BY <1>2, <1>4, <2>1
<1>7. CASE sys_destroy(h)
  <2>1. /\ pc[h] = "idle" \/ (pc[h] = "ifdestroy" /\ os = "FreeBSD")
        /\ pc'[h] = "release" /\ IfDestroy(ctrl_sock[h], if_name[h])
    BY <1>1, <1>7 DEF sys_destroy, Goto, TypeOK, HandleInv
  <2>2. Lifecycle!MayUnkeep(h)
    BY <2>1, KeptDestroy
  <2>3. QED  BY <1>2, <1>3, <2>1, <2>2
<1>8. CASE tuntap_release(h)
  <2>1. pc[h] \in {"idle", "release"} /\ pc'[h] = "close_sock"
    BY <1>1, <1>8 DEF tuntap_release, Goto, TypeOK
  <2>2. Kept' = Kept
    BY <1>1, <1>8, KeptClose DEF tuntap_release, kernelVars, Kept
  <2>3. QED  BY <1>2, <1>3, <1>4, <2>1, <2>2
<1>9. CASE release_ctrl_sock(h)
  <2>1. Kept' = Kept
    BY <1>1, <1>9, KeptClose DEF release_ctrl_sock
  <2>2. Stage(h) = "closing" /\ Stage(h)' = "none" /\ Holds(h) = None /\ Holds(h)' = None
    BY <1>1, <1>9 DEF release_ctrl_sock, Goto, TypeOK, Stage, Holds, Started
  <2>3. UNCHANGED Holdings /\ Stages[h] = "closing" /\ Stages' = [Stages EXCEPT ![h] = "none"]
    BY <2>2, Moved DEF Holdings
  <2>4. QED  BY <2>1, <2>3 DEF Lifecycle!Free, AStep, Lifecycle!CallByName
<1>10. QED  BY <1>5, <1>6, <1>7, <1>8, <1>9

\* tuntap_set_ifname
LEMMA SetIfnameStep ==
  ASSUME Inv, ~stolen, NEW h \in Handles, \A g \in Handles : g # h => Same(g),
         NEW ifname \in NewNames, tuntap_set_ifname(h, ifname)
  PROVE  AStep
<1>1. PICK i \in Ifs : SysSetIfname(h, i, ifname)
  BY DEF tuntap_set_ifname
<1>2. files' = files /\ pc' = pc /\ tun_fd' = tun_fd
  BY <1>1 DEF tuntap_set_ifname, SysSetIfname
<1>3. Same(h)
  BY <1>2 DEF Same, Stage, Holds, Started, IfaceOf
<1>4. Kept' = Kept
  BY <1>1, KeptRename, Constants DEF Inv, TypeOK
<1>5. QED  BY <1>3, <1>4, Unseen

\* Any step of a handle: the other handles are not disturbed.
LEMMA HandleMoves ==
  ASSUME Inv, ~stolen, ~stolen', NEW h \in Handles, BsdStep(h)
  PROVE  AStep
<1>1. ASSUME NEW g \in Handles, g # h  PROVE Same(g)
  BY <1>1, StepFrame, OthersStay, UndisturbedSame DEF Inv
<1>2. QED
  BY <1>1, StartStep, MakeStep, SuccessStep, LeaveStep, SetIfnameStep
     DEF BsdStep, Unix, BSD

-----------------------------------------------------------------------------
\* The initial states correspond.
LEMMA InitMaps == Init => Lifecycle!Init
<1> SUFFICES ASSUME Init  PROVE Lifecycle!Init
  OBVIOUS
<1>1. \A h \in Handles : Stage(h) = "none" /\ Holds(h) = None
  BY DEF Init, UnixInit, Stage, Holds, Started
<1>2. Kept = {}
  BY RecordLemma DEF Init, KernelInit, Kept
<1>3. QED  BY <1>1, <1>2 DEF Lifecycle!Init, Stages, Holdings, Init, KernelInit

\* The death of the process ends every device and keeps what persists.
LEMMA ExitMaps == ASSUME exit  PROVE Lifecycle!Exit /\ ~stolen'
<1>1. \A h \in Handles : Stage(h)' = "none" /\ Holds(h)' = None
  BY DEF exit, UnixExit, Stage, Holds, Started
<1>2. Kept' = Kept
  BY RecordLemma DEF exit, KernelExit, Kept
<1>3. QED  BY <1>1, <1>2 DEF Lifecycle!Exit, Stages, Holdings, exit, KernelExit

\* Every step of TunTapBSD is a step of DeviceLifecycle or none.
LEMMA StepMaps ==
  ASSUME Inv, [Next]_vars
  PROVE  [Lifecycle!NextByName]_(Lifecycle!vars)
<1>1. CASE stolen'
  BY <1>1 DEF Lifecycle!NextByName
<1>2. CASE exit
  BY <1>2, ExitMaps DEF Lifecycle!NextByName
<1>3. CASE UNCHANGED vars
  BY <1>3 DEF vars, kernelVars, unixVars, Lifecycle!vars, Stages, Holdings, Kept, Stage,
              Holds, Started, IfaceOf
<1>4. ASSUME NEW h \in Handles, BsdStep(h), ~stolen'
      PROVE  [Lifecycle!NextByName]_(Lifecycle!vars)
  <2>1. ~stolen
    BY <1>4, StolenStays DEF Inv
  <2>2. AStep
    BY <1>4, <2>1, HandleMoves
  <2>3. stolen' = stolen
    BY <1>4, <2>1, TypeStep DEF Inv, TypeOK, KernelTypeOK
  <2>4. QED  BY <1>4, <2>1, <2>2, <2>3 DEF AStep, Lifecycle!NextByName, Lifecycle!vars
<1>5. QED  BY <1>1, <1>2, <1>3, <1>4 DEF Next, BsdStep

\* On OpenBSD, NetBSD, FreeBSD and Darwin a started device holds an interface
\* alone until it is given back, and no destroy takes another device's: what
\* DeviceLifecycle promises by name, the system calls of the back-ends keep.
THEOREM Implementation == Spec => LivesByName
<1>1. Inv /\ [Next]_vars => [Lifecycle!NextByName]_(Lifecycle!vars)
  BY StepMaps
<1>2. QED  BY InitMaps, <1>1, Invariance, PTL DEF Spec, LivesByName, Lifecycle!SpecByName
=============================================================================
