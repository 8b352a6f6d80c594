-------------------------- MODULE TunTapLinuxProofs -------------------------
(***************************************************************************)
(* Proofs about TunTapLinux: the properties its runs check, for any number *)
(* of handles, descriptors and interfaces and any set of faults.           *)
(***************************************************************************)
EXTENDS TunTapLinux, TLAPS

(***************************************************************************)
(* The inductive invariant, in four parts.                                 *)
(***************************************************************************)

\* The kernel's tables: what is attached exists and is attached once, names
\* are unique, cut and not empty, and an absent interface is not persistent.
AppFiles == \A f \in Fds : files[f].kind = "app" => files[f].owner = App
AttachedExists ==
  \A f \in Fds : files[f].ifc # None => files[f].kind = "tun" /\ Exists(files[f].ifc)
AttachedOnce ==
  \A f, g \in Fds : files[f].ifc # None /\ files[f].ifc = files[g].ifc => f = g
AbsentPlain == \A i \in Ifs : ~Exists(i) => iface[i].persist = 0
NamesCut == \A i \in Ifs : Exists(i) =>
              iface[i].name # NoName /\ Trunc(iface[i].name) = iface[i].name
NamesUnique ==
  \A i, j \in Ifs : Exists(i) /\ Exists(j) /\ iface[i].name = iface[j].name => i = j
KernelInv == /\ AppFiles /\ AttachedExists /\ AttachedOnce
             /\ AbsentPlain /\ NamesCut /\ NamesUnique

Attaching == {"setiff", "setpersist", "getflags"}
Starting == Attaching \cup {"sys_start", "clean"}

\* The fields of a handle and the locals of its call, theft or no theft.
HandleInv(h) ==
  /\ pc[h] \in Starting \cup {"null"} => tun_fd[h] = NoFd
  /\ tun_fd[h] = NoFd => if_name[h] = NoName
  /\ pc[h] \in Attaching => fd[h] # NoFd /\ ~BadArg(arg[h])
  /\ Trunc(ifr[h]) = ifr[h]

\* What a handle owns as long as nothing was stolen.
NeedsSocket(h) ==
  \/ pc[h] \in Starting
  \/ pc[h] \in {"idle", "release", "close_sock"} /\ tun_fd[h] # NoFd

OwnsSocket(h) ==
  /\ ctrl_sock[h] \in Fds
  /\ files[ctrl_sock[h]].kind = "sock"
  /\ files[ctrl_sock[h]].owner = h

OwnsTun(h, f, name) ==
  /\ files[f].kind = "tun"
  /\ files[f].owner = h
  /\ files[f].ifc \in Ifs
  /\ iface[files[f].ifc].type = Type(arg[h].mode)
  /\ iface[files[f].ifc].name = name

OwnInv(h) ==
  /\ NeedsSocket(h) => OwnsSocket(h)
  /\ pc[h] = "setiff" =>
       files[fd[h]].kind = "tun" /\ files[fd[h]].owner = h /\ files[fd[h]].ifc = None
  /\ pc[h] \in {"setpersist", "getflags"} => OwnsTun(h, fd[h], ifr[h])
  /\ pc[h] = "getflags" /\ Persist(arg[h]) => iface[files[fd[h]].ifc].persist = 1
  /\ Holding(h) => OwnsTun(h, tun_fd[h], Trunc(if_name[h]))
  /\ Holding(h) /\ pc[h] = "idle" /\ Persist(arg[h]) => iface[IfaceOf(h)].persist = 1
  /\ Holding(h) /\ pc[h] = "release" /\ "TUNSETPERSIST" \notin Faults =>
       iface[IfaceOf(h)].persist = 0

Inv == /\ TypeOK
       /\ KernelInv
       /\ \A h \in Handles : HandleInv(h)
       /\ SocketsNeverLeak
       /\ ~stolen => \A h \in Handles : OwnInv(h)

-----------------------------------------------------------------------------
(***************************************************************************)
(* Lemmas about the operators.                                             *)
(***************************************************************************)

\* The constants' assumptions, under the names the proofs cite.
LEMMA Constants == /\ Fds \subseteq Nat /\ NoFd \notin Fds
                   /\ App \notin Handles /\ None \notin Ifs
                   /\ Modes \subseteq SUBSET Flags /\ Tuns \subseteq Int
                   /\ NewNames \subseteq Names /\ MaxUnit \in Nat
  BY FdsAssumption, AppAssumption, NoneAssumption, ModesAssumption,
     TunsAssumption, NewNamesAssumption, MaxUnitAssumption DEF NoFd

\* Cutting a name twice is cutting it once; the empty name is not cut, and a
\* name never becomes empty.
LEMMA TruncLemma ==
  /\ NoName \in Names /\ Trunc(NoName) = NoName
  /\ \A name \in Names : /\ Trunc(name) \in Names
                         /\ Trunc(Trunc(name)) = Trunc(name)
                         /\ name[1] # "user" => Trunc(name) = name /\ name # NoName
  BY DEF Trunc, Names, NoName, IF_NAMESIZE

\* The name of a unit is a name, neither empty nor cut.
LEMMA UnitNameLemma ==
  ASSUME NEW t \in IfTypes, NEW n \in Nat
  PROVE  /\ <<t, n>> \in Names /\ <<t, n>> # NoName
         /\ Trunc(<<t, n>>) = <<t, n>>
  BY DEF Trunc, Names, NoName, IfTypes

\* A mode has one of three types; a name the kernel attaches or creates is a
\* name, not empty, and not cut further.
LEMMA TypeRange == \A mode : Type(mode) \in IfTypes \cup {"none"}
  BY DEF Type, IfTypes

\* The names TUNSETIFF chooses from are names, not empty and not cut.
LEMMA IfaceNamesLemma ==
  ASSUME NEW t \in IfTypes, NEW given \in Names, Trunc(given) = given,
         NEW name \in IfaceNames(t, given)
  PROVE  name \in Names /\ name # NoName /\ Trunc(name) = name
  BY UnitNameLemma, MaxUnitAssumption DEF IfaceNames

\* Arguments that pass the checks of tuntap_sys_start name a type and a unit.
LEMMA ArgLemma ==
  ASSUME NEW a \in Args, ~BadArg(a)
  PROVE  /\ Type(a.mode) \in IfTypes /\ a.tun \in Nat
         /\ UnitName(a) \in Names /\ Trunc(UnitName(a)) = UnitName(a)
<1>1. Type(a.mode) \in IfTypes /\ a.tun \in Nat
  BY DEF BadArg, Type, Args, IfTypes
<1>2. QED  BY <1>1, UnitNameLemma, TruncLemma DEF UnitName

\* The absent interface and the closed file are of their types.
LEMMA RecordLemma == /\ Closed \in Files /\ Absent \in Ifaces /\ NoArg \in Args
                     /\ Closed.kind = "none" /\ Closed.ifc = None
                     /\ Absent.type = "none" /\ Absent.persist = 0
  BY TruncLemma DEF Closed, Absent, Files, Ifaces, NoArg, Args

-----------------------------------------------------------------------------
(***************************************************************************)
(* What each operation on the kernel's tables changes, point by point.     *)
(***************************************************************************)
LEMMA CloseLemma ==
  ASSUME KernelTypeOK, NEW h, NEW f, Close(h, f)
  PROVE  /\ KernelTypeOK'
         /\ \A g \in Fds : g # f => files'[g] = files[g]
         /\ f \in Fds => files'[f].kind = "none"
         /\ f \in Fds /\ files[f].kind # "none" => files'[f] = Closed
         /\ \A i \in Ifs : iface'[i] = iface[i] \/ (f \in Fds /\ files[f].ifc = i
                           /\ iface[i].persist = 0 /\ iface'[i] = Absent)
         /\ ~stolen' => ~stolen
         /\ ~stolen /\ ~stolen' /\ Open(f) => files[f].owner = h
         /\ ~stolen /\ stolen' => Open(f) /\ files[f].owner # h
<1>1. CASE Open(f)
  BY <1>1, RecordLemma DEF Close, Open, KernelTypeOK
<1>2. CASE ~Open(f)
  BY <1>2 DEF Close, Open, KernelTypeOK, kernelVars
<1>3. QED  BY <1>1, <1>2

\* open() and socket() fill one entry, with a file that is attached to nothing.
LEMMA OpenLemma ==
  ASSUME KernelTypeOK, NEW f \in Fds, NEW o \in Handles \cup {App},
         NEW kind \in {"app", "sock", "tun"},
         OpenAt(f, kind, o), UNCHANGED <<iface, stolen>>
  PROVE  /\ KernelTypeOK'
         /\ \A g \in Fds : g # f => files'[g] = files[g]
         /\ files'[f].kind = kind /\ files'[f].owner = o /\ files'[f].ifc = None
<1>1. [kind |-> kind, owner |-> o, ifc |-> None] \in Files
  BY DEF Files
<1>2. QED  BY <1>1 DEF OpenAt, KernelTypeOK

\* Attaching a descriptor leaves its kind and owner.
LEMMA AttachLemma ==
  ASSUME KernelTypeOK, NEW f \in Fds, NEW i \in Ifs, Attach(f, i)
  PROVE  /\ files' \in [Fds -> Files]
         /\ \A g \in Fds : g # f => files'[g] = files[g]
         /\ files'[f].kind = files[f].kind /\ files'[f].owner = files[f].owner
         /\ files'[f].ifc = i
<1> DEFINE new == [files[f] EXCEPT !.ifc = i]
<1>1. /\ new \in Files /\ new.kind = files[f].kind
      /\ new.owner = files[f].owner /\ new.ifc = i
  BY DEF KernelTypeOK, Files
<1>2. files' = [files EXCEPT ![f] = new]
  BY DEF Attach
<1> HIDE DEF new
<1>3. QED  BY <1>1, <1>2 DEF KernelTypeOK

\* TUNSETPERSIST changes the persistence of the interface of the descriptor.
LEMMA SetPersistLemma ==
  ASSUME KernelTypeOK, NEW f, NEW v \in {0, 1}, SetPersist(f, v)
  PROVE  /\ KernelTypeOK' /\ UNCHANGED <<files, stolen>>
         /\ f \in Fds /\ files[f].kind = "tun" /\ files[f].ifc \in Ifs
         /\ \A i \in Ifs : i # files[f].ifc => iface'[i] = iface[i]
         /\ \A i \in Ifs : /\ iface'[i].name = iface[i].name
                           /\ iface'[i].type = iface[i].type
         /\ iface'[files[f].ifc].persist = v
<1>1. /\ f \in Fds /\ files[f].kind = "tun" /\ files[f].ifc \in Ifs
      /\ UNCHANGED <<files, stolen>>
  BY DEF SetPersist, CanPersist, Tun, Open, KernelTypeOK, Files
<1> DEFINE i == files[f].ifc
           new == [iface[i] EXCEPT !.persist = v]
<1>2. /\ new \in Ifaces /\ new.type = iface[i].type
      /\ new.name = iface[i].name /\ new.persist = v
  BY <1>1 DEF KernelTypeOK, Ifaces
<1>3. iface' = [iface EXCEPT ![i] = new]
  BY DEF SetPersist
<1> HIDE DEF new
<1>4. QED  BY <1>1, <1>2, <1>3 DEF KernelTypeOK

\* SIOCSIFNAME changes the name of one interface.
LEMMA RenameLemma ==
  ASSUME KernelTypeOK, NEW h, NEW i \in Ifs, NEW name \in Names,
         SysSetIfname(h, i, name)
  PROVE  /\ KernelTypeOK' /\ UNCHANGED <<files, stolen>>
         /\ \A j \in Ifs : j # i => iface'[j] = iface[j]
         /\ iface'[i].type = iface[i].type /\ iface'[i].persist = iface[i].persist
         /\ iface'[i].name = Trunc(name)
<1> DEFINE new == [iface[i] EXCEPT !.name = Trunc(name)]
<1>1. Trunc(name) \in Names
  BY TruncLemma
<1>2. /\ new \in Ifaces /\ new.type = iface[i].type
      /\ new.persist = iface[i].persist /\ new.name = Trunc(name)
  BY <1>1 DEF KernelTypeOK, Ifaces
<1>3. iface' = [iface EXCEPT ![i] = new] /\ UNCHANGED <<files, stolen>>
  BY DEF SysSetIfname
<1> HIDE DEF new
<1>4. QED  BY <1>2, <1>3 DEF KernelTypeOK

\* TUNSETIFF attaches the descriptor to one interface, which existed with the
\* type and the name asked for and was attached to nothing, or is created.
LEMMA SetIffLemma ==
  ASSUME KernelTypeOK, NEW f, NEW i, NEW t, NEW name,
         i \in Ifs, t \in IfTypes, name \in Names, SetIff(f, t, name, i)
  PROVE  /\ KernelTypeOK' /\ UNCHANGED stolen
         /\ f \in Fds /\ files[f].kind = "tun" /\ files[f].ifc = None
         /\ \A g \in Fds : g # f => files'[g] = files[g]
         /\ files'[f].kind = "tun" /\ files'[f].owner = files[f].owner
         /\ files'[f].ifc = i
<1>1. CASE AttachExisting(f, t, name, i)
  BY <1>1, AttachLemma DEF AttachExisting, Tun, Open, KernelTypeOK
<1>2. CASE CreateIface(f, t, name, i)
  <2>1. [type |-> t, name |-> name, persist |-> 0] \in Ifaces
    BY DEF Ifaces
  <2>2. QED  BY <1>2, <2>1, AttachLemma DEF CreateIface, Tun, Open, KernelTypeOK
<1>3. QED  BY <1>1, <1>2 DEF SetIff

\* ... and what becomes of the interfaces.
LEMMA SetIffIface ==
  ASSUME KernelTypeOK, NEW f, NEW i, NEW t, NEW name,
         i \in Ifs, t \in IfTypes, name \in Names, SetIff(f, t, name, i)
  PROVE  /\ iface'[i].type = t /\ iface'[i].name = name
         /\ \A j \in Ifs : j # i => iface'[j] = iface[j]
         /\ \/ iface' = iface /\ Exists(i) /\ \A g \in Fds : files[g].ifc # i
            \/ ~Exists(i) /\ iface'[i].persist = 0 /\ \A j \in Ifs : ~Named(j, name)
<1>1. CASE AttachExisting(f, t, name, i)
  BY <1>1 DEF AttachExisting, Named, Attached
<1>2. CASE CreateIface(f, t, name, i)
  BY <1>2 DEF CreateIface, KernelTypeOK
<1>3. QED  BY <1>1, <1>2 DEF SetIff

-----------------------------------------------------------------------------
(***************************************************************************)
(* Type correctness.                                                       *)
(***************************************************************************)
LEMMA SysStartFailsType ==
  ASSUME UnixTypeOK, fd \in [Handles -> Fds \cup {NoFd}], ifr \in [Handles -> Names],
         NEW h \in Handles, SysStartFails(h)
  PROVE  /\ UnixTypeOK' /\ fd' \in [Handles -> Fds \cup {NoFd}]
         /\ ifr' \in [Handles -> Names]
  BY TruncLemma DEF SysStartFails, UnixTypeOK, Goto, Steps

\* Every step of one handle preserves the types; that setiff names a unit of
\* one of the two types needs the handle's own invariant.
LEMMA TypeStep ==
  ASSUME TypeOK, NEW h \in Handles, HandleInv(h), Unix(h) \/ Linux(h)
  PROVE  TypeOK'
<1> USE Constants, TruncLemma, RecordLemma
<1> USE DEF TypeOK, UnixTypeOK, Goto, Steps
<1>1. CASE tuntap_init(h) /\ UNCHANGED <<fd, ifr>>
  BY <1>1 DEF tuntap_init, kernelVars, KernelTypeOK
<1>2. CASE tuntap_init_fails(h) /\ UNCHANGED <<fd, ifr>>
  BY <1>2 DEF tuntap_init_fails, kernelVars, unixVars, KernelTypeOK
<1>3. ASSUME NEW mode \in Modes, NEW tun \in Tuns,
             tuntap_start(h, mode, tun), UNCHANGED <<fd, ifr>>
      PROVE  TypeOK'
  <2>1. CASE UNCHANGED <<kernelVars, unixVars>>
    BY <1>3, <2>1 DEF kernelVars, unixVars, KernelTypeOK
  <2>2. ASSUME NEW f \in Fds,
               OpenAt(f, "sock", h),
               ctrl_sock' = [ctrl_sock EXCEPT ![h] = f],
               arg' = [arg EXCEPT ![h] = [mode |-> mode, tun |-> tun]],
               Goto(h, AfterSocket(mode, tun)),
               UNCHANGED <<iface, stolen, tun_fd, if_name>>
        PROVE  TypeOK'
    <3>1. KernelTypeOK'
      BY <2>2, OpenLemma
    <3>2. [mode |-> mode, tun |-> tun] \in Args
      BY DEF Args
    <3>3. QED  BY <1>3, <2>2, <3>1, <3>2 DEF AfterSocket
  <2>3. QED  BY <1>3, <2>1, <2>2 DEF tuntap_start
<1>4. CASE clean(h) /\ UNCHANGED <<fd, ifr>>
  <2>1. KernelTypeOK'
    BY <1>4, CloseLemma DEF clean
  <2>2. QED  BY <1>4, <2>1 DEF clean
<1>5. CASE tuntap_release(h) /\ UNCHANGED <<fd, ifr>>
  <2>1. KernelTypeOK'
    BY <1>5, CloseLemma DEF tuntap_release, KernelTypeOK, kernelVars
  <2>2. QED  BY <1>5, <2>1 DEF tuntap_release
<1>6. CASE release_ctrl_sock(h) /\ UNCHANGED <<fd, ifr>>
  <2>1. KernelTypeOK'
    BY <1>6, CloseLemma DEF release_ctrl_sock
  <2>2. QED  BY <1>6, <2>1 DEF release_ctrl_sock
<1>7. CASE open_clone(h)
  <2>1. CASE SysStartFails(h) /\ UNCHANGED kernelVars
    BY <2>1, SysStartFailsType DEF kernelVars, KernelTypeOK
  <2>2. ASSUME NEW f \in Fds, ~BadArg(arg[h]),
               OpenAt(f, "tun", h), UNCHANGED <<iface, stolen>>,
               SysStartFails(h)
        PROVE  TypeOK'
    BY <2>2, OpenLemma, SysStartFailsType
  <2>3. ASSUME NEW f \in Fds, ~BadArg(arg[h]),
               OpenAt(f, "tun", h), UNCHANGED <<iface, stolen>>,
               fd' = [fd EXCEPT ![h] = f],
               ifr' = [ifr EXCEPT ![h] = UnitName(arg[h])],
               Goto(h, "setiff"),
               UNCHANGED <<tun_fd, ctrl_sock, if_name, arg>>
        PROVE  TypeOK'
    <3>1. KernelTypeOK'
      BY <2>3, OpenLemma
    <3>2. UnitName(arg[h]) \in Names
      BY <2>3, ArgLemma
    <3>3. QED  BY <2>3, <3>1, <3>2
  <2>4. QED  BY <1>7, <2>1, <2>2, <2>3 DEF open_clone
<1>8. CASE setiff_ok(h)
  <2>1. PICK i \in Ifs, name \in IfaceNames(Type(arg[h].mode), ifr[h]) :
          /\ SetIff(fd[h], Type(arg[h].mode), name, i)
          /\ ifr' = [ifr EXCEPT ![h] = name]
    BY <1>8 DEF setiff_ok
  <2>2. Type(arg[h].mode) \in IfTypes
    BY <1>8, ArgLemma DEF setiff_ok, HandleInv, Attaching
  <2>3. name \in Names
    BY <2>2, IfaceNamesLemma DEF HandleInv
  <2>4. KernelTypeOK'
    BY <2>1, <2>2, <2>3, SetIffLemma
  <2>5. QED  BY <1>8, <2>1, <2>3, <2>4 DEF setiff_ok, AfterSetIff
<1>9. CASE setiff_fails(h)
  BY <1>9, SysStartFailsType DEF setiff_fails, kernelVars, KernelTypeOK
<1>10. CASE set_persist(h)
  <2>1. CASE SysStartFails(h) /\ UNCHANGED kernelVars
    BY <2>1, SysStartFailsType DEF kernelVars, KernelTypeOK
  <2>2. CASE /\ SetPersist(fd[h], 1) /\ Goto(h, "getflags")
             /\ UNCHANGED <<tun_fd, ctrl_sock, if_name, arg, fd, ifr>>
    BY <2>2, SetPersistLemma
  <2>3. QED  BY <1>10, <2>1, <2>2 DEF set_persist
<1>11. CASE get_flags_ok(h) \/ get_flags_fails(h)
  <2>1. KernelTypeOK'
    BY <1>11 DEF get_flags_ok, get_flags_fails, kernelVars, KernelTypeOK
  <2>2. CASE SysStartFails(h)
    BY <2>1, <2>2, SysStartFailsType
  <2>3. CASE /\ if_name' = [if_name EXCEPT ![h] = ifr[h]]
             /\ StartSucceeds(h, fd[h])
             /\ fd' = [fd EXCEPT ![h] = NoFd]
             /\ ifr' = [ifr EXCEPT ![h] = NoName]
    BY <2>1, <2>3 DEF StartSucceeds
  <2>4. QED  BY <1>11, <2>2, <2>3 DEF get_flags_ok, get_flags_fails
<1>12. CASE tuntap_destroy(h)
  <2>1. KernelTypeOK'
    BY <1>12, SetPersistLemma DEF tuntap_destroy, kernelVars, KernelTypeOK
  <2>2. QED  BY <1>12, <2>1 DEF tuntap_destroy
<1>13. ASSUME NEW ifname \in NewNames, tuntap_set_ifname(h, ifname)
       PROVE  TypeOK'
  <2>1. ifname \in Names /\ Trunc(ifname) \in Names
    OBVIOUS
  <2>2. CASE UNCHANGED <<kernelVars, if_name>>
    BY <1>13, <2>2 DEF tuntap_set_ifname, kernelVars, KernelTypeOK
  <2>3. CASE (\E i \in Ifs : SysSetIfname(h, i, ifname)) /\ CacheName(h, ifname)
    BY <1>13, <2>1, <2>3, RenameLemma DEF tuntap_set_ifname, CacheName
  <2>4. QED  BY <1>13, <2>2, <2>3 DEF tuntap_set_ifname
<1>14. QED
  BY <1>1, <1>2, <1>3, <1>4, <1>5, <1>6, <1>7, <1>8, <1>9, <1>10, <1>11, <1>12,
     <1>13 DEF Unix, Linux

-----------------------------------------------------------------------------
(***************************************************************************)
(* Every operation on the kernel's tables keeps them consistent.           *)
(***************************************************************************)
LEMMA CloseKernel ==
  ASSUME KernelTypeOK, KernelInv, NEW h, NEW f, Close(h, f)
  PROVE  KernelInv'
<1> USE DEF KernelInv
<1>1. CASE Open(f)
  <2>1. f \in Fds /\ files'[f] = Closed /\ \A g \in Fds : g # f => files'[g] = files[g]
    BY <1>1, CloseLemma DEF Open
  <2>2. \A i \in Ifs : \/ iface'[i] = iface[i]
                       \/ files[f].ifc = i /\ iface'[i] = Absent
    BY CloseLemma
  <2>3. \A i \in Ifs : Exists(i)' => iface'[i] = iface[i]
    BY <2>2, RecordLemma DEF Exists
  <2>4. AppFiles' /\ AttachedOnce'
    BY <2>1, RecordLemma DEF AppFiles, AttachedOnce
  <2>5. AttachedExists'
    <3>1. SUFFICES ASSUME NEW g \in Fds, files'[g].ifc # None
                   PROVE  files'[g].kind = "tun" /\ Exists(files[g].ifc)'
      BY DEF AttachedExists
    <3>2. g # f /\ files'[g] = files[g]
      BY <2>1, <3>1, RecordLemma
    <3>3. files[g].ifc \in Ifs /\ files[g].ifc # files[f].ifc
      BY <2>1, <3>1, <3>2 DEF AttachedOnce, KernelTypeOK, Files
    <3>4. QED  BY <2>2, <3>1, <3>2, <3>3 DEF AttachedExists, Exists
  <2>6. AbsentPlain'
    BY <2>2, RecordLemma DEF AbsentPlain, Exists
  <2>7. NamesCut' /\ NamesUnique'
    BY <2>3 DEF NamesCut, NamesUnique, Exists
  <2>8. QED  BY <2>4, <2>5, <2>6, <2>7
<1>2. CASE ~Open(f)
  BY <1>2 DEF Close, kernelVars, AppFiles, AttachedExists, AttachedOnce,
              AbsentPlain, NamesCut, NamesUnique, Exists
<1>3. QED  BY <1>1, <1>2

\* open() and socket() keep the tables consistent.
LEMMA OpenKernel ==
  ASSUME KernelTypeOK, KernelInv, NEW f \in Fds, NEW o \in Handles \cup {App},
         NEW kind \in {"app", "sock", "tun"}, kind = "app" => o = App,
         OpenAt(f, kind, o), UNCHANGED <<iface, stolen>>
  PROVE  KernelInv'
  BY OpenLemma DEF KernelInv, AppFiles, AttachedExists, AttachedOnce,
                   AbsentPlain, NamesCut, NamesUnique, Exists

\* So does TUNSETIFF: the descriptor it attaches is the only one of its interface.
LEMMA SetIffKernel ==
  ASSUME KernelTypeOK, KernelInv, NEW f, NEW i, NEW t, NEW name,
         i \in Ifs, t \in IfTypes, name \in Names, name # NoName, Trunc(name) = name,
         SetIff(f, t, name, i)
  PROVE  KernelInv'
<1>1. /\ f \in Fds /\ files'[f].kind = "tun" /\ files'[f].ifc = i
      /\ \A g \in Fds : g # f => files'[g] = files[g]
  BY SetIffLemma
<1>2. /\ iface'[i].type = t /\ iface'[i].name = name
      /\ \A j \in Ifs : j # i => iface'[j] = iface[j]
  BY SetIffIface
<1>3. \/ iface' = iface /\ Exists(i) /\ \A g \in Fds : files[g].ifc # i
      \/ ~Exists(i) /\ iface'[i].persist = 0 /\ \A j \in Ifs : ~Named(j, name)
  BY SetIffIface
<1>4. \A g \in Fds : files[g].ifc # i
  BY <1>3, NoneAssumption DEF KernelInv, AttachedExists
<1>5. AppFiles' /\ AttachedOnce'
  BY <1>1, <1>4, NoneAssumption DEF KernelInv, AppFiles, AttachedOnce
<1>6. AttachedExists'
  <2>1. ASSUME NEW g \in Fds, g # f, files[g].ifc # None
        PROVE  files[g].ifc \in Ifs /\ files[g].ifc # i
    BY <1>4, <2>1 DEF KernelTypeOK, Files
  <2>2. t # "none"
    BY DEF IfTypes
  <2>3. QED
    BY <1>1, <1>2, <2>1, <2>2 DEF KernelInv, AttachedExists, Exists
<1>7. AbsentPlain' /\ NamesCut'
  BY <1>2, <1>3 DEF KernelInv, AbsentPlain, NamesCut, Exists
<1>8. NamesUnique'
  BY <1>2, <1>3 DEF KernelInv, NamesUnique, Exists, Named
<1>9. QED  BY <1>5, <1>6, <1>7, <1>8 DEF KernelInv

\* So does TUNSETPERSIST, of an interface that exists.
LEMMA SetPersistKernel ==
  ASSUME KernelTypeOK, KernelInv, NEW f, NEW v \in {0, 1}, SetPersist(f, v)
  PROVE  KernelInv'
  BY SetPersistLemma, NoneAssumption
     DEF KernelInv, KernelTypeOK, Files, Exists, AppFiles, AttachedExists,
         AttachedOnce, AbsentPlain, NamesCut, NamesUnique

\* So does SIOCSIFNAME: the name was free.
LEMMA RenameKernel ==
  ASSUME KernelTypeOK, KernelInv, NEW h, NEW i \in Ifs, NEW name \in Names,
         SysSetIfname(h, i, name)
  PROVE  KernelInv'
<1>1. Exists(i) /\ Trunc(name) # NoName /\ \A j \in Ifs \ {i} : ~Named(j, Trunc(name))
  BY DEF SysSetIfname, Reaches, Named
<1>2. Trunc(Trunc(name)) = Trunc(name)
  BY TruncLemma
<1>3. AppFiles' /\ AttachedOnce' /\ AttachedExists'
  BY RenameLemma, NoneAssumption
     DEF KernelInv, AppFiles, AttachedOnce, AttachedExists, Exists, KernelTypeOK, Files
<1>4. AbsentPlain' /\ NamesCut'
  BY <1>1, <1>2, RenameLemma DEF KernelInv, AbsentPlain, NamesCut, Exists
<1>5. NamesUnique'
  BY <1>1, RenameLemma DEF KernelInv, NamesUnique, Exists, Named
<1>6. QED  BY <1>3, <1>4, <1>5 DEF KernelInv

-----------------------------------------------------------------------------
(***************************************************************************)
(* ... and leaves alone what another handle owns, unless it steals.        *)
(***************************************************************************)
Undisturbed(g) ==
  \A f \in Fds : files[f].kind # "none" /\ files[f].owner = g =>
    /\ files'[f] = files[f]
    /\ files[f].ifc \in Ifs => iface'[files[f].ifc] = iface[files[f].ifc]

\* A close() that steals nothing leaves alone what others own.
LEMMA CloseFrame ==
  ASSUME KernelTypeOK, KernelInv, NEW h, NEW g, g # h, NEW f,
         Close(h, f), ~stolen, ~stolen'
  PROVE  Undisturbed(g)
<1>1. CASE Open(f)
  BY <1>1, CloseLemma, NoneAssumption DEF KernelInv, AttachedOnce, Undisturbed
<1>2. CASE ~Open(f)
  BY <1>2 DEF Close, kernelVars, Undisturbed
<1>3. QED  BY <1>1, <1>2

\* An open() fills an entry that was free.
LEMMA OpenFrame ==
  ASSUME KernelTypeOK, NEW f \in Fds, NEW o \in Handles \cup {App},
         NEW kind \in {"app", "sock", "tun"}, LowestFree(f),
         OpenAt(f, kind, o), UNCHANGED <<iface, stolen>>, NEW g
  PROVE  Undisturbed(g)
  BY OpenLemma DEF Undisturbed, LowestFree, Open

\* TUNSETIFF attaches the own descriptor to an interface attached to none.
LEMMA SetIffFrame ==
  ASSUME KernelTypeOK, KernelInv, NEW f, NEW i \in Ifs, NEW t \in IfTypes,
         NEW name \in Names,
         SetIff(f, t, name, i),
         NEW g, files[f].owner # g
  PROVE  Undisturbed(g)
  BY SetIffLemma, SetIffIface, NoneAssumption DEF Undisturbed, KernelInv, AttachedExists, Exists

\* TUNSETPERSIST reaches the interface of the own descriptor.
LEMMA SetPersistFrame ==
  ASSUME KernelTypeOK, KernelInv, NEW f, NEW v \in {0, 1}, SetPersist(f, v),
         NEW g, files[f].owner # g
  PROVE  Undisturbed(g)
  BY SetPersistLemma, NoneAssumption DEF Undisturbed, KernelInv, AttachedOnce

\* SIOCSIFNAME by the name of the own interface renames no other.
LEMMA RenameFrame ==
  ASSUME KernelTypeOK, KernelInv, NEW h, NEW i \in Ifs, NEW name \in Names,
         SysSetIfname(h, i, name), NEW g,
         \A f \in Fds : files[f].ifc = i => files[f].owner # g
  PROVE  Undisturbed(g)
  BY RenameLemma DEF Undisturbed

\* A handle that does not move and is not disturbed keeps what it owns.
LEMMA OwnFrame ==
  ASSUME TypeOK, NEW g \in Handles, HandleInv(g), OwnInv(g), Undisturbed(g),
         tun_fd'[g] = tun_fd[g], ctrl_sock'[g] = ctrl_sock[g],
         if_name'[g] = if_name[g], pc'[g] = pc[g], arg'[g] = arg[g],
         fd'[g] = fd[g], ifr'[g] = ifr[g]
  PROVE  OwnInv(g)'
<1> USE DEF OwnInv, Undisturbed
<1>1. fd[g] \in Fds \cup {NoFd} /\ tun_fd[g] \in Fds \cup {NoFd}
  BY DEF TypeOK, UnixTypeOK
<1>2. (NeedsSocket(g) => OwnsSocket(g))'
  BY DEF NeedsSocket, OwnsSocket
<1>3. (pc[g] = "setiff" => /\ files[fd[g]].kind = "tun" /\ files[fd[g]].owner = g
                           /\ files[fd[g]].ifc = None)'
  BY <1>1 DEF HandleInv, Attaching
<1>4. (pc[g] \in {"setpersist", "getflags"} => OwnsTun(g, fd[g], ifr[g]))'
  BY <1>1 DEF HandleInv, Attaching, OwnsTun
<1>5. (pc[g] = "getflags" /\ Persist(arg[g]) => iface[files[fd[g]].ifc].persist = 1)'
  BY <1>1 DEF HandleInv, Attaching, OwnsTun, Persist
<1>6. (Holding(g) => OwnsTun(g, tun_fd[g], Trunc(if_name[g])))'
  BY <1>1 DEF Holding, OwnsTun
<1>7. (Holding(g) /\ pc[g] = "idle" /\ Persist(arg[g]) => iface[IfaceOf(g)].persist = 1)'
  BY <1>1 DEF Holding, OwnsTun, IfaceOf, Persist
<1>8. (Holding(g) /\ pc[g] = "release" /\ "TUNSETPERSIST" \notin Faults =>
         iface[IfaceOf(g)].persist = 0)'
  BY <1>1 DEF Holding, OwnsTun, IfaceOf
<1>9. QED  BY <1>2, <1>3, <1>4, <1>5, <1>6, <1>7, <1>8

-----------------------------------------------------------------------------
(***************************************************************************)
(* A step of handle h: the other handles' fields, the kernel's tables, and *)
(* the fields of h itself.                                                 *)
(***************************************************************************)
SameFields(g) ==
  /\ tun_fd'[g] = tun_fd[g] /\ ctrl_sock'[g] = ctrl_sock[g]
  /\ if_name'[g] = if_name[g] /\ pc'[g] = pc[g] /\ arg'[g] = arg[g]
  /\ fd'[g] = fd[g] /\ ifr'[g] = ifr[g]

\* A step of one handle changes the fields and locals of no other.
LEMMA OthersStay ==
  ASSUME TypeOK, NEW h \in Handles, Unix(h) \/ Linux(h),
         NEW g \in Handles, g # h
  PROVE  SameFields(g)
<1> USE DEF TypeOK, UnixTypeOK, SameFields, Goto, unixVars
<1>1. CASE UNCHANGED <<fd, ifr>> /\ (tuntap_init(h) \/ tuntap_init_fails(h))
  BY <1>1 DEF tuntap_init, tuntap_init_fails
<1>2. CASE /\ UNCHANGED <<fd, ifr>>
           /\ \E mode \in Modes, tun \in Tuns : tuntap_start(h, mode, tun)
  BY <1>2 DEF tuntap_start
<1>3. CASE /\ UNCHANGED <<fd, ifr>>
           /\ clean(h) \/ tuntap_release(h) \/ release_ctrl_sock(h)
  BY <1>3 DEF clean, tuntap_release, release_ctrl_sock
<1>4. CASE open_clone(h)
  BY <1>4 DEF open_clone, SysStartFails
<1>5. CASE setiff_ok(h) \/ setiff_fails(h)
  BY <1>5 DEF setiff_ok, setiff_fails, SysStartFails
<1>6. CASE set_persist(h) \/ get_flags_ok(h) \/ get_flags_fails(h)
  BY <1>6 DEF set_persist, get_flags_ok, get_flags_fails, SysStartFails, StartSucceeds
<1>7. CASE tuntap_destroy(h)
  BY <1>7 DEF tuntap_destroy
<1>8. CASE \E ifname \in NewNames : tuntap_set_ifname(h, ifname)
  BY <1>8 DEF tuntap_set_ifname, CacheName
<1>9. QED  BY <1>1, <1>2, <1>3, <1>4, <1>5, <1>6, <1>7, <1>8 DEF Unix, Linux

\* setiff_ok, with everything its lemmas need.
LEMMA SetIffStep ==
  ASSUME TypeOK, NEW h \in Handles, HandleInv(h), setiff_ok(h)
  PROVE  \E i \in Ifs, name \in Names :
           /\ SetIff(fd[h], Type(arg[h].mode), name, i)
           /\ Type(arg[h].mode) \in IfTypes
           /\ name # NoName /\ Trunc(name) = name /\ ifr'[h] = name
<1>1. PICK i \in Ifs, name \in IfaceNames(Type(arg[h].mode), ifr[h]) :
        /\ SetIff(fd[h], Type(arg[h].mode), name, i)
        /\ ifr' = [ifr EXCEPT ![h] = name]
  BY DEF setiff_ok
<1>2. Type(arg[h].mode) \in IfTypes
  BY ArgLemma DEF setiff_ok, HandleInv, Attaching, TypeOK, UnixTypeOK
<1>3. name \in Names /\ name # NoName /\ Trunc(name) = name
  BY <1>2, IfaceNamesLemma DEF HandleInv, TypeOK
<1>4. QED  BY <1>1, <1>2, <1>3 DEF TypeOK

\* A device without an interface has no name, so it cannot rename one.
LEMMA RenameStep ==
  ASSUME TypeOK, KernelInv, NEW h \in Handles, HandleInv(h),
         NEW i \in Ifs, NEW ifname \in Names, SysSetIfname(h, i, ifname)
  PROVE  tun_fd[h] # NoFd /\ Named(i, Trunc(if_name[h]))
  BY TruncLemma
     DEF SysSetIfname, Reaches, Named, HandleInv, KernelInv, NamesCut

\* Every step of a handle keeps the tables consistent.
LEMMA KernelStep ==
  ASSUME TypeOK, KernelInv, NEW h \in Handles, HandleInv(h), Unix(h) \/ Linux(h)
  PROVE  KernelInv'
<1> USE DEF TypeOK
<1>1. CASE UNCHANGED kernelVars
  BY <1>1 DEF kernelVars, KernelInv, AppFiles, AttachedExists, AttachedOnce,
              AbsentPlain, NamesCut, NamesUnique, Exists
<1>2. ASSUME NEW f, Close(h, f)
      PROVE  KernelInv'
  BY <1>2, CloseKernel
<1>3. ASSUME NEW f \in Fds, NEW kind \in {"sock", "tun"},
             OpenAt(f, kind, h), UNCHANGED <<iface, stolen>>
      PROVE  KernelInv'
  BY <1>3, OpenKernel
<1>4. CASE setiff_ok(h)
  BY <1>4, SetIffStep, SetIffKernel
<1>5. ASSUME NEW f, NEW v \in {0, 1}, SetPersist(f, v)
      PROVE  KernelInv'
  BY <1>5, SetPersistKernel
<1>6. ASSUME NEW i \in Ifs, NEW ifname \in NewNames, SysSetIfname(h, i, ifname)
      PROVE  KernelInv'
  BY <1>6, RenameKernel, NewNamesAssumption
<1>7. CASE tuntap_init(h) \/ tuntap_init_fails(h)
  BY <1>1, <1>7 DEF tuntap_init, tuntap_init_fails
<1>8. CASE \E mode \in Modes, tun \in Tuns : tuntap_start(h, mode, tun)
  BY <1>1, <1>3, <1>8 DEF tuntap_start
<1>9. CASE clean(h) \/ tuntap_release(h) \/ release_ctrl_sock(h)
  BY <1>1, <1>2, <1>9 DEF clean, tuntap_release, release_ctrl_sock
<1>10. CASE open_clone(h)
  BY <1>1, <1>3, <1>10 DEF open_clone
<1>11. CASE setiff_fails(h) \/ get_flags_ok(h) \/ get_flags_fails(h)
  BY <1>1, <1>11 DEF setiff_fails, get_flags_ok, get_flags_fails
<1>12. CASE set_persist(h) \/ tuntap_destroy(h)
  BY <1>1, <1>5, <1>12 DEF set_persist, tuntap_destroy
<1>13. CASE \E ifname \in NewNames : tuntap_set_ifname(h, ifname)
  BY <1>1, <1>6, <1>13 DEF tuntap_set_ifname
<1>14. QED  BY <1>4, <1>7, <1>8, <1>9, <1>10, <1>11, <1>12, <1>13 DEF Unix, Linux

\* Every step of a handle keeps its HandleInv.
LEMMA HandleStep ==
  ASSUME TypeOK, KernelInv, NEW h \in Handles, HandleInv(h), Unix(h) \/ Linux(h)
  PROVE  HandleInv(h)'
<1> USE TruncLemma
<1> USE DEF TypeOK, UnixTypeOK, HandleInv, Goto, Attaching, Starting, unixVars
<1>1. CASE UNCHANGED <<fd, ifr>> /\ (tuntap_init(h) \/ tuntap_init_fails(h))
  BY <1>1 DEF tuntap_init, tuntap_init_fails
<1>2. CASE /\ UNCHANGED <<fd, ifr>>
           /\ \E mode \in Modes, tun \in Tuns : tuntap_start(h, mode, tun)
  BY <1>2 DEF tuntap_start, AlreadyStarted, AfterSocket
<1>3. CASE UNCHANGED <<fd, ifr>> /\ clean(h)
  BY <1>3 DEF clean
<1>4. CASE UNCHANGED <<fd, ifr>> /\ tuntap_release(h)
  BY <1>4 DEF tuntap_release
<1>5. CASE UNCHANGED <<fd, ifr>> /\ release_ctrl_sock(h)
  BY <1>5 DEF release_ctrl_sock
<1>6. CASE SysStartFails(h) /\ pc[h] \in Starting
  BY <1>6 DEF SysStartFails
<1>7. CASE open_clone(h) /\ ~SysStartFails(h)
  BY <1>7, ArgLemma, Constants DEF open_clone
<1>8. CASE setiff_ok(h)
  BY <1>8, SetIffStep DEF setiff_ok, AfterSetIff
<1>9. CASE set_persist(h) /\ ~SysStartFails(h)
  BY <1>9 DEF set_persist
<1>10. CASE get_flags_ok(h)
  BY <1>10 DEF get_flags_ok, get_flags_fails, StartSucceeds
<1>11. CASE tuntap_destroy(h)
  BY <1>11 DEF tuntap_destroy
<1>12. CASE \E ifname \in NewNames : tuntap_set_ifname(h, ifname)
  BY <1>12, RenameStep, NewNamesAssumption DEF tuntap_set_ifname, CacheName
<1>13. QED
  BY <1>1, <1>2, <1>3, <1>4, <1>5, <1>6, <1>7, <1>8, <1>9, <1>10, <1>11, <1>12
     DEF Unix, Linux, setiff_fails, open_clone, set_persist, get_flags_ok, get_flags_fails

-----------------------------------------------------------------------------
(***************************************************************************)
(* Control sockets never leak.                                             *)
(***************************************************************************)
MayHoldSocket(g) ==
  pc[g] # "null" /\ (pc[g] \in {"idle", "release"} => tun_fd[g] # NoFd)

\* A step that opens no socket and leaves every handle where it may hold one.
LEMMA SocketFrame ==
  ASSUME SocketsNeverLeak,
         \A f \in Fds : files'[f].kind = "sock" => files'[f] = files[f],
         \A g \in Handles : MayHoldSocket(g) =>
           MayHoldSocket(g)' /\ ctrl_sock'[g] = ctrl_sock[g]
  PROVE  SocketsNeverLeak'
  BY DEF SocketsNeverLeak, MayHoldSocket, Holding

\* A step of h that closes ctrl_sock[h]: nobody else's socket moves, and if h
\* had a socket it was this one.
LEMMA SocketClosed ==
  ASSUME KernelTypeOK, SocketsNeverLeak, NEW h \in Handles, Close(h, ctrl_sock[h]),
         \A g \in Handles : g # h => SameFields(g)
  PROVE  SocketsNeverLeak'
<1>1. SUFFICES ASSUME NEW f \in Fds, files'[f].kind = "sock"
               PROVE  \E g \in Handles :
                        /\ files'[f].owner = g /\ ctrl_sock'[g] = f
                        /\ MayHoldSocket(g)'
  BY DEF SocketsNeverLeak, MayHoldSocket, Holding
<1>2. f # ctrl_sock[h] /\ files'[f] = files[f]
  BY <1>1, CloseLemma
<1>3. PICK g \in Handles : files[f].owner = g /\ ctrl_sock[g] = f /\ MayHoldSocket(g)
  BY <1>1, <1>2 DEF SocketsNeverLeak, MayHoldSocket, Holding
<1>4. g # h
  BY <1>2, <1>3
<1>5. QED  BY <1>2, <1>3, <1>4 DEF SameFields, MayHoldSocket

\* Every step of a handle keeps SocketsNeverLeak.
LEMMA SocketStep ==
  ASSUME TypeOK, KernelInv, SocketsNeverLeak, NEW h \in Handles, HandleInv(h),
         Unix(h) \/ Linux(h)
  PROVE  SocketsNeverLeak'
<1> USE DEF TypeOK, UnixTypeOK
<1>1. \A g \in Handles : g # h => SameFields(g)
  BY OthersStay
<1>2. ASSUME \A f \in Fds : files'[f].kind = "sock" => files'[f] = files[f],
             MayHoldSocket(h) => MayHoldSocket(h)' /\ ctrl_sock'[h] = ctrl_sock[h]
      PROVE  SocketsNeverLeak'
  <2>1. \A g \in Handles : MayHoldSocket(g) =>
          MayHoldSocket(g)' /\ ctrl_sock'[g] = ctrl_sock[g]
    BY <1>1, <1>2 DEF SameFields, MayHoldSocket
  <2>2. QED  BY <1>2, <2>1, SocketFrame
<1>3. ASSUME UNCHANGED kernelVars
      PROVE  \A f \in Fds : files'[f].kind = "sock" => files'[f] = files[f]
  BY <1>3 DEF kernelVars
<1>4. ASSUME NEW f, Close(h, f)
      PROVE  \A g \in Fds : files'[g].kind = "sock" => files'[g] = files[g]
  BY <1>4, CloseLemma
<1>5. ASSUME NEW f \in Fds, OpenAt(f, "tun", h), UNCHANGED <<iface, stolen>>
      PROVE  \A g \in Fds : files'[g].kind = "sock" => files'[g] = files[g]
  BY <1>5, OpenLemma
<1>6. ASSUME SysStartFails(h)
      PROVE  MayHoldSocket(h)' /\ ctrl_sock'[h] = ctrl_sock[h]
  BY <1>6 DEF SysStartFails, Goto, MayHoldSocket
<1>7. CASE tuntap_init(h) \/ tuntap_init_fails(h)
  BY <1>2, <1>3, <1>7
     DEF tuntap_init, tuntap_init_fails, MayHoldSocket, unixVars
<1>8. CASE \E mode \in Modes, tun \in Tuns : tuntap_start(h, mode, tun)
  <2>1. CASE UNCHANGED <<kernelVars, unixVars>>
    BY <1>2, <1>3, <2>1 DEF unixVars, MayHoldSocket
  <2>2. ASSUME NEW mode \in Modes, NEW tun \in Tuns, NEW f \in Fds, pc[h] = "idle",
               ~AlreadyStarted(h), OpenAt(f, "sock", h), UNCHANGED <<iface, stolen>>,
               ctrl_sock' = [ctrl_sock EXCEPT ![h] = f],
               Goto(h, AfterSocket(mode, tun))
        PROVE  SocketsNeverLeak'
    <3>1. /\ \A g \in Fds : g # f => files'[g] = files[g]
          /\ files'[f].owner = h
      BY <2>2, OpenLemma
    <3>2. MayHoldSocket(h)' /\ ctrl_sock'[h] = f
      BY <2>2 DEF Goto, AfterSocket, MayHoldSocket
    <3>3. ~MayHoldSocket(h)
      BY <2>2 DEF AlreadyStarted, MayHoldSocket
    <3>4. QED
      BY <1>1, <3>1, <3>2, <3>3
         DEF SocketsNeverLeak, SameFields, MayHoldSocket, Holding
  <2>3. QED  BY <1>8, <2>1, <2>2 DEF tuntap_start
<1>9. CASE clean(h) \/ release_ctrl_sock(h)
  BY <1>1, <1>9, SocketClosed DEF clean, release_ctrl_sock
<1>10. CASE tuntap_release(h)
  BY <1>2, <1>3, <1>4, <1>10 DEF tuntap_release, Goto, MayHoldSocket
<1>11. CASE open_clone(h)
  <2>1. MayHoldSocket(h)' /\ ctrl_sock'[h] = ctrl_sock[h]
    BY <1>6, <1>11 DEF open_clone, Goto, MayHoldSocket
  <2>2. QED  BY <1>2, <1>3, <1>5, <1>11, <2>1 DEF open_clone
<1>12. CASE setiff_ok(h)
  <2>1. MayHoldSocket(h)' /\ ctrl_sock'[h] = ctrl_sock[h]
    BY <1>12 DEF setiff_ok, AfterSetIff, Goto, MayHoldSocket
  <2>2. \A f \in Fds : files'[f].kind = "sock" => files'[f] = files[f]
    BY <1>12, SetIffStep, SetIffLemma
  <2>3. QED  BY <1>2, <2>1, <2>2
<1>13. CASE setiff_fails(h)
  BY <1>2, <1>3, <1>6, <1>13 DEF setiff_fails
<1>14. ASSUME NEW f, NEW v \in {0, 1}, SetPersist(f, v)
       PROVE  \A g \in Fds : files'[g].kind = "sock" => files'[g] = files[g]
  BY <1>14, SetPersistLemma
<1>15. CASE set_persist(h)
  <2>1. MayHoldSocket(h)' /\ ctrl_sock'[h] = ctrl_sock[h]
    BY <1>6, <1>15 DEF set_persist, Goto, MayHoldSocket
  <2>2. QED  BY <1>2, <1>3, <1>14, <1>15, <2>1 DEF set_persist
<1>16. CASE get_flags_ok(h) \/ get_flags_fails(h)
  <2>1. MayHoldSocket(h)' /\ ctrl_sock'[h] = ctrl_sock[h]
    BY <1>6, <1>16
       DEF get_flags_ok, get_flags_fails, StartSucceeds, HandleInv, Attaching, Goto, MayHoldSocket
  <2>2. QED  BY <1>2, <1>3, <1>16, <2>1 DEF get_flags_ok, get_flags_fails
<1>17. CASE tuntap_destroy(h)
  BY <1>2, <1>3, <1>14, <1>17 DEF tuntap_destroy, Goto, MayHoldSocket
<1>18. CASE \E ifname \in NewNames : tuntap_set_ifname(h, ifname)
  <2>1. \A f \in Fds : files'[f].kind = "sock" => files'[f] = files[f]
    BY <1>3, <1>18 DEF tuntap_set_ifname, SysSetIfname
  <2>2. QED  BY <1>2, <1>18, <2>1 DEF tuntap_set_ifname, MayHoldSocket
<1>19. QED
  BY <1>7, <1>8, <1>9, <1>10, <1>11, <1>12, <1>13, <1>15, <1>16, <1>17, <1>18
     DEF Unix, Linux

-----------------------------------------------------------------------------
(***************************************************************************)
(* What the handles own, as long as nothing is stolen.                     *)
(***************************************************************************)

\* Within one process, a theft is never undone.
LEMMA StolenStays ==
  ASSUME TypeOK, KernelInv, NEW h \in Handles, HandleInv(h), Unix(h) \/ Linux(h), ~stolen'
  PROVE  ~stolen
<1> USE DEF TypeOK
<1>1. CASE UNCHANGED stolen
  BY <1>1
<1>2. ASSUME NEW f, Close(h, f)
      PROVE  ~stolen
  BY <1>2, CloseLemma
<1>3. CASE clean(h) \/ tuntap_release(h) \/ release_ctrl_sock(h)
  BY <1>1, <1>2, <1>3 DEF clean, tuntap_release, release_ctrl_sock, kernelVars
<1>4. CASE \/ tuntap_init(h) \/ tuntap_init_fails(h)
           \/ \E mode \in Modes, tun \in Tuns : tuntap_start(h, mode, tun)
  BY <1>1, <1>4 DEF tuntap_init, tuntap_init_fails, tuntap_start, kernelVars
<1>5. CASE open_clone(h) \/ setiff_fails(h) \/ get_flags_ok(h) \/ get_flags_fails(h)
  BY <1>1, <1>5 DEF open_clone, setiff_fails, get_flags_ok, get_flags_fails, kernelVars
<1>6. CASE setiff_ok(h)
  BY <1>1, <1>6, SetIffStep, SetIffLemma
<1>7. CASE set_persist(h) \/ tuntap_destroy(h)
  BY <1>1, <1>7 DEF set_persist, tuntap_destroy, SetPersist, kernelVars
<1>8. CASE \E ifname \in NewNames : tuntap_set_ifname(h, ifname)
  BY <1>1, <1>8 DEF tuntap_set_ifname, SysSetIfname, kernelVars
<1>9. QED  BY <1>3, <1>4, <1>5, <1>6, <1>7, <1>8 DEF Unix, Linux

\* The interface a started device can rename is its own.
LEMMA OwnName ==
  ASSUME TypeOK, KernelInv, NEW h \in Handles, HandleInv(h), OwnInv(h), pc[h] = "idle",
         NEW i \in Ifs, NEW ifname \in Names, SysSetIfname(h, i, ifname)
  PROVE  Holding(h) /\ tun_fd[h] \in Fds /\ IfaceOf(h) = i
<1>1. Holding(h) /\ Named(i, Trunc(if_name[h]))
  BY RenameStep DEF Holding
<1>2. tun_fd[h] \in Fds
  BY <1>1 DEF Holding, TypeOK, UnixTypeOK
<1>3. IfaceOf(h) \in Ifs /\ Named(IfaceOf(h), Trunc(if_name[h]))
  BY <1>1, <1>2, NoneAssumption
     DEF OwnInv, OwnsTun, IfaceOf, Named, KernelInv, AttachedExists
<1>4. QED  BY <1>1, <1>2, <1>3 DEF KernelInv, NamesUnique, Named

\* A step of one handle that steals nothing leaves alone what another owns.
LEMMA UndisturbedStep ==
  ASSUME TypeOK, KernelInv, ~stolen, ~stolen', NEW h \in Handles, HandleInv(h),
         OwnInv(h), Unix(h) \/ Linux(h), NEW g \in Handles, g # h
  PROVE  Undisturbed(g)
<1> USE DEF TypeOK
<1>1. CASE UNCHANGED kernelVars
  BY <1>1 DEF kernelVars, Undisturbed
<1>2. ASSUME NEW f, Close(h, f)
      PROVE  Undisturbed(g)
  BY <1>2, CloseFrame
<1>3. ASSUME NEW f \in Fds, NEW kind \in {"sock", "tun"}, LowestFree(f),
             OpenAt(f, kind, h), UNCHANGED <<iface, stolen>>
      PROVE  Undisturbed(g)
  BY <1>3, OpenFrame
<1>4. CASE tuntap_init(h) \/ tuntap_init_fails(h)
  BY <1>1, <1>4 DEF tuntap_init, tuntap_init_fails
<1>5. CASE \E mode \in Modes, tun \in Tuns : tuntap_start(h, mode, tun)
  BY <1>1, <1>3, <1>5 DEF tuntap_start
<1>6. CASE clean(h) \/ tuntap_release(h) \/ release_ctrl_sock(h)
  BY <1>1, <1>2, <1>6 DEF clean, tuntap_release, release_ctrl_sock
<1>7. CASE open_clone(h)
  BY <1>1, <1>3, <1>7 DEF open_clone
<1>8. CASE setiff_ok(h)
  <2>1. files[fd[h]].owner # g
    BY <1>8 DEF setiff_ok, OwnInv
  <2>2. QED  BY <1>8, <2>1, SetIffStep, SetIffFrame
<1>9. CASE setiff_fails(h) \/ get_flags_ok(h) \/ get_flags_fails(h)
  BY <1>1, <1>9 DEF setiff_fails, get_flags_ok, get_flags_fails
<1>10. CASE set_persist(h)
  <2>1. files[fd[h]].owner # g
    BY <1>10 DEF set_persist, OwnInv, OwnsTun
  <2>2. QED  BY <1>1, <1>10, <2>1, SetPersistFrame DEF set_persist
<1>11. CASE tuntap_destroy(h)
  <2>1. CASE SetPersist(tun_fd[h], 0)
    <3>1. tun_fd[h] # NoFd
      BY <2>1, SetPersistLemma, Constants
    <3>2. files[tun_fd[h]].owner # g
      BY <1>11, <3>1 DEF tuntap_destroy, OwnInv, OwnsTun, Holding
    <3>3. QED  BY <2>1, <3>2, SetPersistFrame
  <2>2. QED  BY <1>1, <1>11, <2>1 DEF tuntap_destroy
<1>12. ASSUME NEW ifname \in NewNames, tuntap_set_ifname(h, ifname)
       PROVE  Undisturbed(g)
  <2>1. ASSUME NEW i \in Ifs, SysSetIfname(h, i, ifname)
        PROVE  Undisturbed(g)
    <3>1. ifname \in Names /\ pc[h] = "idle"
      BY <1>12, NewNamesAssumption DEF tuntap_set_ifname
    <3>2. Holding(h) /\ tun_fd[h] \in Fds /\ IfaceOf(h) = i
      BY <2>1, <3>1, OwnName
    <3>3. \A f \in Fds : files[f].ifc = i => files[f].owner # g
      BY <3>2, NoneAssumption
         DEF KernelInv, AttachedOnce, OwnInv, OwnsTun, IfaceOf
    <3>4. QED  BY <2>1, <3>1, <3>3, RenameFrame
  <2>2. QED  BY <1>1, <1>12, <2>1 DEF tuntap_set_ifname
<1>13. QED
  BY <1>4, <1>5, <1>6, <1>7, <1>8, <1>9, <1>10, <1>11, <1>12 DEF Unix, Linux

\* The handle that moves: its own socket and tun descriptor, step by step.
LEMMA OwnStep ==
  ASSUME TypeOK, TypeOK', KernelInv, ~stolen, ~stolen', NEW h \in Handles,
         HandleInv(h), HandleInv(h)', OwnInv(h), Unix(h) \/ Linux(h)
  PROVE  OwnInv(h)'
<1> USE Constants
<1> USE DEF TypeOK, UnixTypeOK, Goto
<1>1. CASE UNCHANGED <<kernelVars, unixVars, fd, ifr>>
  BY <1>1, OwnFrame DEF kernelVars, unixVars, Undisturbed
<1>2. CASE tuntap_init(h)
  BY <1>2 DEF tuntap_init, OwnInv, NeedsSocket, Starting, Attaching, Holding
<1>3. ASSUME NEW mode \in Modes, NEW tun \in Tuns, NEW f \in Fds, pc[h] = "idle",
             ~AlreadyStarted(h), OpenAt(f, "sock", h), UNCHANGED <<iface, stolen>>,
             ctrl_sock' = [ctrl_sock EXCEPT ![h] = f],
             Goto(h, AfterSocket(mode, tun)), UNCHANGED <<tun_fd, if_name>>
      PROVE  OwnInv(h)'
  <2>1. OwnsSocket(h)'
    BY <1>3, OpenLemma DEF OwnsSocket
  <2>2. QED
    BY <1>3, <2>1 DEF AfterSocket, OwnInv, Holding, AlreadyStarted
<1>4. CASE clean(h)
  BY <1>4 DEF clean, OwnInv, NeedsSocket, Starting, Attaching, Holding, HandleInv
<1>5. CASE tuntap_release(h)
  <2>1. tun_fd'[h] # NoFd => OwnsSocket(h)'
    <3>1. ASSUME tun_fd[h] # NoFd
          PROVE  /\ OwnsSocket(h) /\ files[tun_fd[h]].kind = "tun"
                 /\ Close(h, tun_fd[h])
      BY <1>5, <3>1 DEF tuntap_release, OwnInv, NeedsSocket, OwnsTun, Holding
    <3>2. ASSUME tun_fd[h] # NoFd
          PROVE  files'[ctrl_sock[h]] = files[ctrl_sock[h]]
      <4>1. ctrl_sock[h] \in Fds /\ ctrl_sock[h] # tun_fd[h]
        BY <3>1, <3>2 DEF OwnsSocket
      <4>2. \A g \in Fds : g # tun_fd[h] => files'[g] = files[g]
        BY <3>1, <3>2, CloseLemma
      <4>3. QED  BY <4>1, <4>2
    <3>3. QED  BY <1>5, <3>1, <3>2 DEF tuntap_release, OwnsSocket
  <2>2. QED
    BY <1>5, <2>1
       DEF tuntap_release, OwnInv, NeedsSocket, Starting, Attaching, Holding
<1>6. CASE release_ctrl_sock(h)
  BY <1>6 DEF release_ctrl_sock, OwnInv, NeedsSocket, Starting, Attaching, Holding
\* A failed tuntap_sys_start changes no file but the one it just opened.
<1>7. ASSUME SysStartFails(h), pc[h] \in Starting,
             \A f \in Fds : files[f].kind # "none" => files'[f] = files[f]
      PROVE  OwnInv(h)'
  <2>1. OwnsSocket(h)'
    BY <1>7 DEF OwnInv, NeedsSocket, OwnsSocket, SysStartFails
  <2>2. QED
    BY <1>7, <2>1 DEF SysStartFails, OwnInv, Holding, HandleInv
<1>8. CASE open_clone(h)
  <2>1. CASE UNCHANGED kernelVars /\ SysStartFails(h)
    BY <1>7, <1>8, <2>1 DEF open_clone, kernelVars, Starting
  <2>2. ASSUME NEW f \in Fds, LowestFree(f), OpenAt(f, "tun", h),
               UNCHANGED <<iface, stolen>>
        PROVE  /\ files'[f].kind = "tun" /\ files'[f].owner = h
               /\ files'[f].ifc = None
               /\ \A g \in Fds : files[g].kind # "none" => files'[g] = files[g]
    BY <2>2, OpenLemma DEF LowestFree, Open
  <2>3. ASSUME NEW f \in Fds, LowestFree(f), OpenAt(f, "tun", h),
               UNCHANGED <<iface, stolen>>, SysStartFails(h)
        PROVE  OwnInv(h)'
    BY <1>7, <1>8, <2>2, <2>3 DEF open_clone, Starting
  <2>4. ASSUME NEW f \in Fds, LowestFree(f), OpenAt(f, "tun", h),
               UNCHANGED <<iface, stolen>>, fd' = [fd EXCEPT ![h] = f],
               Goto(h, "setiff"), UNCHANGED <<tun_fd, ctrl_sock, if_name, arg>>
        PROVE  OwnInv(h)'
    <3>1. OwnsSocket(h)'
      BY <1>8, <2>2, <2>4 DEF open_clone, OwnInv, NeedsSocket, Starting, OwnsSocket
    <3>2. QED  BY <2>2, <2>4, <3>1 DEF OwnInv, Holding
  <2>5. QED  BY <1>8, <2>1, <2>3, <2>4 DEF open_clone
<1>9. CASE setiff_ok(h)
  <2>1. PICK i \in Ifs, name \in Names :
          /\ SetIff(fd[h], Type(arg[h].mode), name, i)
          /\ Type(arg[h].mode) \in IfTypes /\ ifr'[h] = name
    BY <1>9, SetIffStep
  <2>2. /\ fd[h] \in Fds /\ files[fd[h]].kind = "tun"
        /\ \A g \in Fds : g # fd[h] => files'[g] = files[g]
        /\ files'[fd[h]].kind = "tun" /\ files'[fd[h]].owner = files[fd[h]].owner
        /\ files'[fd[h]].ifc = i
    BY <2>1, SetIffLemma
  <2>3. iface'[i].type = Type(arg[h].mode) /\ iface'[i].name = name
    BY <2>1, SetIffIface
  <2>4. OwnsSocket(h)'
    BY <1>9, <2>2
       DEF setiff_ok, OwnInv, NeedsSocket, Starting, Attaching, OwnsSocket
  <2>5. OwnsTun(h, fd[h], ifr[h])'
    BY <1>9, <2>1, <2>2, <2>3 DEF setiff_ok, OwnInv, OwnsTun
  <2>6. QED
    BY <1>9, <2>4, <2>5 DEF setiff_ok, AfterSetIff, Persist, OwnInv, Holding
<1>10. CASE setiff_fails(h)
  BY <1>7, <1>10 DEF setiff_fails, kernelVars, Starting, Attaching
<1>11. CASE set_persist(h)
  <2>1. CASE SysStartFails(h) /\ UNCHANGED kernelVars
    BY <1>7, <1>11, <2>1 DEF set_persist, kernelVars, Starting, Attaching
  <2>2. CASE /\ SetPersist(fd[h], 1) /\ Goto(h, "getflags")
             /\ UNCHANGED <<tun_fd, ctrl_sock, if_name, arg, fd, ifr>>
    <3>1. OwnsSocket(h)' /\ OwnsTun(h, fd[h], ifr[h])'
      BY <1>11, <2>2, SetPersistLemma
         DEF set_persist, OwnInv, NeedsSocket, Starting, Attaching, OwnsSocket, OwnsTun
    <3>2. iface'[files'[fd'[h]].ifc].persist = 1
      BY <2>2, SetPersistLemma
    <3>3. QED  BY <2>2, <3>1, <3>2 DEF OwnInv, Holding
  <2>3. QED  BY <1>11, <2>1, <2>2 DEF set_persist
<1>12. CASE get_flags_ok(h) \/ get_flags_fails(h)
  <2>1. CASE SysStartFails(h)
    BY <1>7, <1>12, <2>1 DEF get_flags_ok, get_flags_fails, kernelVars, Starting, Attaching
  <2>2. CASE /\ if_name' = [if_name EXCEPT ![h] = ifr[h]]
             /\ StartSucceeds(h, fd[h])
    <3>1. /\ UNCHANGED <<files, iface>> /\ pc'[h] = "idle"
          /\ tun_fd'[h] = fd[h] /\ if_name'[h] = ifr[h]
          /\ UNCHANGED <<ctrl_sock, arg>> /\ pc[h] = "getflags"
      BY <1>12, <2>2 DEF get_flags_ok, get_flags_fails, StartSucceeds, kernelVars
    <3>2. OwnsSocket(h)'
      BY <3>1 DEF OwnInv, NeedsSocket, Starting, Attaching, OwnsSocket
    <3>3. OwnsTun(h, tun_fd[h], Trunc(if_name[h]))'
      BY <3>1 DEF OwnInv, OwnsTun, HandleInv
    <3>4. (Persist(arg[h]) => iface[IfaceOf(h)].persist = 1)'
      BY <3>1 DEF OwnInv, Persist, IfaceOf
    <3>5. QED  BY <3>1, <3>2, <3>3, <3>4 DEF OwnInv
  <2>3. QED  BY <1>12, <2>1, <2>2 DEF get_flags_ok, get_flags_fails
<1>13. CASE tuntap_destroy(h)
  <2>1. /\ pc[h] = "idle" /\ pc'[h] = "release" /\ UNCHANGED files
        /\ UNCHANGED <<tun_fd, ctrl_sock, if_name, arg>>
        /\ Holding(h)' => Holding(h)
    BY <1>13, SetPersistLemma DEF tuntap_destroy, kernelVars, Holding
  <2>2. (NeedsSocket(h) => OwnsSocket(h))'
    BY <2>1 DEF OwnInv, NeedsSocket, Starting, Attaching, OwnsSocket
  <2>3. (Holding(h) => OwnsTun(h, tun_fd[h], Trunc(if_name[h])))'
    BY <1>13, <2>1, SetPersistLemma DEF tuntap_destroy, kernelVars, OwnInv, OwnsTun
  <2>4. (Holding(h) /\ "TUNSETPERSIST" \notin Faults => iface[IfaceOf(h)].persist = 0)'
    <3>1. ASSUME Holding(h), "TUNSETPERSIST" \notin Faults
          PROVE  SetPersist(tun_fd[h], 0)
      BY <1>13, <3>1
         DEF tuntap_destroy, CanPersist, Tun, Open, OwnInv, OwnsTun, Holding
    <3>2. QED  BY <2>1, <3>1, SetPersistLemma DEF IfaceOf
  <2>5. QED  BY <2>1, <2>2, <2>3, <2>4 DEF OwnInv
<1>14. ASSUME NEW ifname \in NewNames, tuntap_set_ifname(h, ifname)
       PROVE  OwnInv(h)'
  <2>1. ASSUME NEW i \in Ifs, SysSetIfname(h, i, ifname), CacheName(h, ifname)
        PROVE  OwnInv(h)'
    <3>1. /\ pc[h] = "idle" /\ ifname \in Names /\ if_name'[h] = ifname
          /\ UNCHANGED <<tun_fd, ctrl_sock, pc, arg>>
      BY <1>14, <2>1 DEF tuntap_set_ifname, CacheName
    <3>2. Holding(h) /\ tun_fd[h] \in Fds /\ IfaceOf(h) = i
      BY <2>1, <3>1, OwnName
    <3>3. /\ UNCHANGED files /\ iface'[i].type = iface[i].type
          /\ iface'[i].persist = iface[i].persist /\ iface'[i].name = Trunc(ifname)
      BY <2>1, <3>1, RenameLemma
    <3>4. QED
      BY <3>1, <3>2, <3>3
         DEF OwnInv, NeedsSocket, Starting, Attaching, OwnsSocket, OwnsTun, Holding,
             IfaceOf, Persist
  <2>2. CASE UNCHANGED <<kernelVars, if_name>>
    BY <1>1, <1>14, <2>2 DEF tuntap_set_ifname, unixVars
  <2>3. QED  BY <1>14, <2>1, <2>2 DEF tuntap_set_ifname
<1>15. CASE tuntap_init_fails(h) /\ UNCHANGED <<fd, ifr>>
  BY <1>1, <1>15 DEF tuntap_init_fails
<1>16. CASE /\ \E mode \in Modes, tun \in Tuns : tuntap_start(h, mode, tun)
            /\ UNCHANGED <<fd, ifr>>
  BY <1>1, <1>3, <1>16 DEF tuntap_start
<1>17. QED
  BY <1>2, <1>4, <1>5, <1>6, <1>8, <1>9, <1>10, <1>11, <1>12, <1>13, <1>14, <1>15,
     <1>16 DEF Unix, Linux

-----------------------------------------------------------------------------
(***************************************************************************)
(* The inductive invariant.                                                *)
(***************************************************************************)
LEMMA InitInv == Init => Inv
<1> SUFFICES ASSUME Init PROVE Inv
  OBVIOUS
<1> USE DEF Init, KernelInit, UnixInit
<1>1. TypeOK
  BY Constants, TruncLemma, RecordLemma
     DEF TypeOK, KernelTypeOK, UnixTypeOK, Steps
<1>2. KernelInv
  BY RecordLemma
     DEF KernelInv, AppFiles, AttachedExists, AttachedOnce, AbsentPlain, NamesCut,
         NamesUnique, Exists
<1>3. \A h \in Handles : HandleInv(h) /\ OwnInv(h)
  BY TruncLemma DEF HandleInv, OwnInv, NeedsSocket, Starting, Attaching, Holding
<1>4. SocketsNeverLeak
  BY RecordLemma DEF SocketsNeverLeak
<1>5. QED  BY <1>1, <1>2, <1>3, <1>4 DEF Inv

\* A step of one handle.
LEMMA HandleStepInv ==
  ASSUME Inv, NEW h \in Handles, Unix(h) \/ Linux(h)
  PROVE  Inv'
<1> USE DEF Inv
<1>1. TypeOK'
  BY TypeStep
<1>2. KernelInv'
  BY KernelStep
<1>3. \A g \in Handles : g # h => SameFields(g)
  BY OthersStay
<1>4. ASSUME NEW g \in Handles
      PROVE  HandleInv(g)'
  <2>1. CASE g = h
    BY <2>1, HandleStep
  <2>2. CASE g # h
    BY <1>3, <2>2 DEF SameFields, HandleInv
  <2>3. QED  BY <2>1, <2>2
<1>5. SocketsNeverLeak'
  BY SocketStep
<1>6. ASSUME ~stolen', NEW g \in Handles
      PROVE  OwnInv(g)'
  <2>1. ~stolen
    BY <1>6, StolenStays
  <2>2. CASE g = h
    BY <1>1, <1>4, <1>6, <2>1, <2>2, OwnStep
  <2>3. CASE g # h
    <3>1. Undisturbed(g)
      BY <1>6, <2>1, <2>3, UndisturbedStep
    <3>2. QED  BY <1>3, <2>1, <2>3, <3>1, OwnFrame DEF SameFields
  <2>4. QED  BY <2>2, <2>3
<1>7. QED  BY <1>1, <1>2, <1>4, <1>5, <1>6

\* A step of the rest of the application.
LEMMA AppStepInv ==
  ASSUME Inv, Application
  PROVE  Inv'
<1> USE DEF Inv
<1> DEFINE Same == UNCHANGED <<unixVars, fd, ifr>>
<1>1. Same
  BY DEF Application
<1>2. ASSUME KernelTypeOK', KernelInv',
             \A f \in Fds : files'[f].kind = "sock" => files'[f] = files[f],
             ~stolen' => ~stolen /\ \A g \in Handles : Undisturbed(g)
      PROVE  Inv'
  <2>1. TypeOK' /\ \A g \in Handles : HandleInv(g)' /\ SameFields(g)
    BY <1>1, <1>2 DEF TypeOK, UnixTypeOK, HandleInv, unixVars, SameFields
  <2>2. SocketsNeverLeak'
    BY <1>1, <1>2 DEF SocketsNeverLeak, Holding, unixVars
  <2>3. ~stolen' => \A g \in Handles : OwnInv(g)'
    BY <1>2, <2>1, OwnFrame DEF SameFields
  <2>4. QED  BY <1>2, <2>1, <2>2, <2>3
<1>3. ASSUME NEW f \in Fds, AppOpen(f)
      PROVE  Inv'
  <2>1. LowestFree(f) /\ OpenAt(f, "app", App) /\ UNCHANGED <<iface, stolen>>
    BY <1>3 DEF AppOpen
  <2>2. KernelTypeOK' /\ KernelInv'
    BY <2>1, OpenLemma, OpenKernel DEF TypeOK
  <2>3. \A g \in Fds : files'[g].kind = "sock" => files'[g] = files[g]
    BY <2>1, OpenLemma DEF TypeOK
  <2>4. \A g \in Handles : Undisturbed(g)
    BY <2>1, OpenFrame DEF TypeOK
  <2>5. QED  BY <1>2, <2>1, <2>2, <2>3, <2>4
<1>4. ASSUME NEW f \in Fds, AppClose(f)
      PROVE  Inv'
  <2>1. Close(App, f)
    BY <1>4 DEF AppClose
  <2>2. KernelTypeOK' /\ KernelInv'
    BY <2>1, CloseLemma, CloseKernel DEF TypeOK
  <2>3. \A g \in Fds : files'[g].kind = "sock" => files'[g] = files[g]
    BY <2>1, CloseLemma DEF TypeOK
  <2>4. ~stolen' => ~stolen
    BY <2>1, CloseLemma DEF TypeOK
  <2>5. ~stolen' => \A g \in Handles : Undisturbed(g)
    BY <2>1, <2>4, CloseFrame, AppAssumption DEF TypeOK
  <2>6. QED  BY <1>2, <2>2, <2>3, <2>4, <2>5
<1>5. QED  BY <1>3, <1>4 DEF Application

\* The end of the process, and the next one with what it left behind.
LEMMA ExitInv ==
  ASSUME Inv, exit
  PROVE  Inv'
<1> USE DEF Inv, exit, KernelExit, UnixExit
<1>1. TypeOK'
  BY Constants, TruncLemma, RecordLemma
     DEF TypeOK, KernelTypeOK, UnixTypeOK, Steps
<1>2. KernelInv'
  <2>1. \A i \in Ifs : Exists(i)' => iface'[i] = iface[i] /\ Exists(i)
    BY RecordLemma DEF Exists
  <2>2. AppFiles' /\ AttachedExists' /\ AttachedOnce'
    BY RecordLemma DEF AppFiles, AttachedExists, AttachedOnce
  <2>3. AbsentPlain'
    BY RecordLemma DEF KernelInv, AbsentPlain, Exists
  <2>4. NamesCut' /\ NamesUnique'
    BY <2>1 DEF KernelInv, NamesCut, NamesUnique, Exists
  <2>5. QED  BY <2>2, <2>3, <2>4 DEF KernelInv
<1>3. \A h \in Handles : HandleInv(h)' /\ OwnInv(h)'
  BY TruncLemma DEF HandleInv, OwnInv, NeedsSocket, Starting, Attaching, Holding
<1>4. SocketsNeverLeak'
  BY RecordLemma DEF SocketsNeverLeak
<1>5. QED  BY <1>1, <1>2, <1>3, <1>4

\* Every step keeps the invariant.
LEMMA NextInv == Inv /\ [Next]_vars => Inv'
<1> SUFFICES ASSUME Inv, [Next]_vars PROVE Inv'
  OBVIOUS
<1>1. CASE UNCHANGED vars
  BY <1>1
     DEF vars, kernelVars, unixVars, Inv, TypeOK, KernelTypeOK, UnixTypeOK,
         KernelInv, AppFiles, AttachedExists, AttachedOnce, AbsentPlain, NamesCut,
         NamesUnique, Exists, HandleInv, SocketsNeverLeak, OwnInv, NeedsSocket,
         OwnsSocket, OwnsTun, Holding, IfaceOf
<1>2. CASE Next
  BY <1>2, HandleStepInv, AppStepInv, ExitInv DEF Next
<1>3. QED  BY <1>1, <1>2

\* The inductive invariant holds in every reachable state.
THEOREM Invariance == Spec => []Inv
  BY InitInv, NextInv, PTL DEF Spec

-----------------------------------------------------------------------------
(***************************************************************************)
(* The properties.                                                         *)
(***************************************************************************)

\* The tables and the fields of every device keep their types.
THEOREM TypeCorrectness == Spec => []TypeOK
<1>1. Inv => TypeOK
  BY DEF Inv
<1>2. QED  BY <1>1, Invariance, PTL

\* A started device stays whole until a descriptor is stolen.
THEOREM StartedIntact == Spec => []Intact
<1>1. Inv => Intact
  <2>1. SUFFICES ASSUME Inv, ~stolen, NEW h \in Handles, Holding(h)
                 PROVE  OwnsSocket(h) /\ OwnsTun(h, tun_fd[h], Trunc(if_name[h]))
                        /\ Exists(IfaceOf(h))
    BY DEF Intact, OwnsSocket, OwnsTun, Named, IfaceOf
  <2>2. OwnsSocket(h) /\ OwnsTun(h, tun_fd[h], Trunc(if_name[h]))
    BY <2>1 DEF Inv, OwnInv, NeedsSocket, Holding
  <2>3. tun_fd[h] \in Fds
    BY <2>1 DEF Inv, TypeOK, UnixTypeOK, Holding
  <2>4. Exists(IfaceOf(h))
    BY <2>1, <2>2, <2>3, NoneAssumption
       DEF Inv, KernelInv, AttachedExists, OwnsTun, IfaceOf
  <2>5. QED  BY <2>2, <2>4
<1>2. QED  BY <1>1, Invariance, PTL

\* Two started devices have two interfaces and two names, until a descriptor
\* is stolen.
THEOREM InterfacesExclusive == Spec => []ExclusiveInterface
<1>1. Inv => ExclusiveInterface
  <2>1. SUFFICES ASSUME Inv, ~stolen, NEW g \in Handles, NEW h \in Handles,
                        g # h, Holding(g), Holding(h)
                 PROVE  IfaceOf(g) # IfaceOf(h) /\ Trunc(if_name[g]) # Trunc(if_name[h])
    BY DEF ExclusiveInterface
  <2>2. /\ tun_fd[g] \in Fds /\ tun_fd[h] \in Fds
        /\ OwnsTun(g, tun_fd[g], Trunc(if_name[g]))
        /\ OwnsTun(h, tun_fd[h], Trunc(if_name[h]))
    BY <2>1 DEF Inv, OwnInv, TypeOK, UnixTypeOK, Holding
  <2>3. IfaceOf(g) # IfaceOf(h)
    BY <2>1, <2>2, NoneAssumption DEF Inv, KernelInv, AttachedOnce, OwnsTun, IfaceOf
  <2>4. Exists(IfaceOf(g)) /\ Exists(IfaceOf(h))
    BY <2>1, <2>2, NoneAssumption DEF Inv, KernelInv, AttachedExists, OwnsTun, IfaceOf
  <2>5. Trunc(if_name[g]) # Trunc(if_name[h])
    BY <2>1, <2>2, <2>3, <2>4 DEF Inv, KernelInv, NamesUnique, OwnsTun, IfaceOf
  <2>6. QED  BY <2>3, <2>5
<1>2. QED  BY <1>1, Invariance, PTL

\* Control sockets never leak, whatever fails and whatever was stolen.
THEOREM NoSocketLeak == Spec => []SocketsNeverLeak
<1>1. Inv => SocketsNeverLeak
  BY DEF Inv
<1>2. QED  BY <1>1, Invariance, PTL

\* A device started with TUNTAP_MODE_PERSIST has a persistent interface.
THEOREM Persistence == Spec => []PersistHonoured
<1>1. Inv => PersistHonoured
  BY DEF Inv, PersistHonoured, OwnInv
<1>2. QED  BY <1>1, Invariance, PTL

\* The first theft is tuntap_release's close of a stale ctrl_sock.
THEOREM TheftIsStaleSocket == Spec => FirstTheft
<1> DEFINE Stale(h) == /\ pc[h] = "close_sock" /\ pc'[h] = "null"
                       /\ tun_fd[h] = NoFd /\ ctrl_sock[h] # NoFd
<1>1. ASSUME Inv, [Next]_vars, ~stolen, stolen'
      PROVE  \E h \in Handles : Stale(h)
  <2> USE DEF Inv
  <2>1. ~UNCHANGED stolen
    BY <1>1
  <2>2. ASSUME NEW h \in Handles, NEW f, Close(h, f), f \in Fds, files[f].owner = h
        PROVE  FALSE
    BY <1>1, <2>2, CloseLemma DEF TypeOK
  <2>3. ASSUME NEW f \in Fds, AppClose(f)
        PROVE  FALSE
    BY <1>1, <2>3, CloseLemma DEF AppClose, TypeOK, KernelInv, AppFiles
  <2>4. ASSUME NEW h \in Handles, Unix(h) \/ Linux(h)
        PROVE  clean(h) \/ tuntap_release(h) \/ release_ctrl_sock(h)
    <3>1. ~(tuntap_init(h) \/ tuntap_init_fails(h)
            \/ \E mode \in Modes, tun \in Tuns : tuntap_start(h, mode, tun))
      BY <2>1 DEF tuntap_init, tuntap_init_fails, tuntap_start, kernelVars
    <3>2. ~(open_clone(h) \/ setiff_fails(h) \/ get_flags_ok(h) \/ get_flags_fails(h))
      BY <2>1 DEF open_clone, setiff_fails, get_flags_ok, get_flags_fails, kernelVars
    <3>3. ~setiff_ok(h)
      BY <1>1, <2>1, SetIffStep, SetIffLemma DEF TypeOK
    <3>4. ~(set_persist(h) \/ tuntap_destroy(h))
      BY <2>1 DEF set_persist, tuntap_destroy, SetPersist, kernelVars
    <3>5. ~\E ifname \in NewNames : tuntap_set_ifname(h, ifname)
      BY <2>1 DEF tuntap_set_ifname, SysSetIfname, kernelVars
    <3>6. QED  BY <2>4, <3>1, <3>2, <3>3, <3>4, <3>5 DEF Unix, Linux
  <2>5. ASSUME NEW h \in Handles, clean(h)
        PROVE  FALSE
    BY <1>1, <2>2, <2>5 DEF clean, OwnInv, NeedsSocket, Starting, OwnsSocket
  <2>6. ASSUME NEW h \in Handles, tuntap_release(h)
        PROVE  FALSE
    <3>1. tun_fd[h] # NoFd /\ Close(h, tun_fd[h])
      BY <2>1, <2>6 DEF tuntap_release, kernelVars
    <3>2. tun_fd[h] \in Fds /\ files[tun_fd[h]].owner = h
      BY <1>1, <2>6, <3>1
         DEF tuntap_release, TypeOK, UnixTypeOK, OwnInv, OwnsTun, Holding
    <3>3. QED  BY <2>2, <3>1, <3>2
  <2>7. ASSUME NEW h \in Handles, release_ctrl_sock(h)
        PROVE  Stale(h)
    <3>1. Close(h, ctrl_sock[h]) /\ pc[h] = "close_sock" /\ pc'[h] = "null"
      BY <1>1, <2>7 DEF release_ctrl_sock, Goto, TypeOK, UnixTypeOK
    <3>2. ctrl_sock[h] \in Fds
      BY <1>1, <3>1, CloseLemma DEF TypeOK, Open
    <3>3. tun_fd[h] = NoFd
      BY <1>1, <2>2, <3>1, <3>2 DEF OwnInv, NeedsSocket, OwnsSocket
    <3>4. QED  BY <3>1, <3>2, <3>3, Constants
  <2>8. ~exit /\ ~UNCHANGED vars
    BY <1>1, <2>1 DEF exit, KernelExit, vars, kernelVars
  <2>9. ~Application
    BY <2>1, <2>3 DEF Application, AppOpen
  <2>10. QED
    BY <1>1, <2>4, <2>5, <2>6, <2>7, <2>8, <2>9 DEF Next
<1>2. Inv /\ [Next]_vars => [~stolen /\ stolen' => \E h \in Handles : Stale(h)]_vars
  BY <1>1
<1>3. QED  BY <1>2, Invariance, PTL DEF Spec, FirstTheft

\* A persistent interface is given up by tuntap_destroy and nothing else.
THEOREM UnpersistOnlyByDestroy == Spec => OnlyDestroyUnpersists
<1> DEFINE Destroys(i) ==
      \E h \in Handles : /\ pc[h] = "idle" /\ pc'[h] = "release"
                         /\ tun_fd[h] \in Fds /\ IfaceOf(h) = i
           Ends(i) == iface[i].persist = 1 /\ iface'[i].persist = 0
<1>1. ASSUME Inv, [Next]_vars, NEW i \in Ifs, Ends(i)
      PROVE  Destroys(i)
  <2> USE DEF Inv
  <2>1. ~UNCHANGED iface
    BY <1>1
  <2>2. ASSUME NEW h, NEW f, Close(h, f)
        PROVE  FALSE
    BY <1>1, <2>2, CloseLemma DEF TypeOK
  <2>3. ASSUME NEW h \in Handles, setiff_ok(h)
        PROVE  FALSE
    <3>1. PICK j \in Ifs, name \in Names :
            SetIff(fd[h], Type(arg[h].mode), name, j) /\ Type(arg[h].mode) \in IfTypes
      BY <1>1, <2>3, SetIffStep
    <3>2. i = j
      BY <1>1, <3>1, SetIffIface DEF TypeOK
    <3>3. ~Exists(i)
      BY <1>1, <2>1, <3>1, <3>2, SetIffIface DEF TypeOK
    <3>4. QED  BY <1>1, <3>3 DEF KernelInv, AbsentPlain
  <2>4. ASSUME NEW f, SetPersist(f, 1)
        PROVE  FALSE
    BY <1>1, <2>4, SetPersistLemma DEF TypeOK
  <2>5. ASSUME NEW h \in Handles, tuntap_destroy(h)
        PROVE  Destroys(i)
    <3>1. /\ SetPersist(tun_fd[h], 0) /\ pc[h] = "idle" /\ pc'[h] = "release"
      BY <1>1, <2>1, <2>5
         DEF tuntap_destroy, kernelVars, Goto, TypeOK, UnixTypeOK
    <3>2. tun_fd[h] \in Fds /\ IfaceOf(h) = i
      BY <1>1, <3>1, SetPersistLemma DEF TypeOK, IfaceOf
    <3>3. QED  BY <3>1, <3>2
  <2>6. ASSUME NEW h \in Handles, NEW ifname \in NewNames, tuntap_set_ifname(h, ifname)
        PROVE  FALSE
    <3>1. PICK j \in Ifs : SysSetIfname(h, j, ifname)
      BY <2>1, <2>6 DEF tuntap_set_ifname, kernelVars
    <3>2. ifname \in Names
      BY NewNamesAssumption
    <3>3. /\ \A k \in Ifs : k # j => iface'[k] = iface[k]
          /\ iface'[j].persist = iface[j].persist
      <4>1. KernelTypeOK
        BY <1>1 DEF TypeOK
      <4> HIDE DEF Inv
      <4>2. QED  BY <3>1, <3>2, <4>1, RenameLemma
    <3>4. QED  BY <1>1, <3>3
  <2>7. ASSUME NEW h \in Handles, Unix(h)
        PROVE  FALSE
    BY <2>1, <2>2, <2>7
       DEF Unix, tuntap_init, tuntap_init_fails, tuntap_start, clean, tuntap_release,
           release_ctrl_sock, kernelVars
  <2>8. ASSUME NEW h \in Handles, Linux(h)
        PROVE  Destroys(i)
    <3>1. ~(open_clone(h) \/ setiff_fails(h) \/ get_flags_ok(h) \/ get_flags_fails(h))
      BY <2>1 DEF open_clone, setiff_fails, get_flags_ok, get_flags_fails, kernelVars
    <3>2. ~set_persist(h)
      BY <2>1, <2>4 DEF set_persist, kernelVars
    <3>3. QED  BY <2>3, <2>5, <2>6, <2>8, <3>1, <3>2 DEF Linux
  <2>9. ~Application
    BY <2>1, <2>2 DEF Application, AppOpen, AppClose
  <2>10. ~exit /\ ~UNCHANGED vars
    BY <1>1, <2>1 DEF exit, KernelExit, vars, kernelVars
  <2>11. QED  BY <1>1, <2>7, <2>8, <2>9, <2>10 DEF Next
<1>2. Inv /\ [Next]_vars => [\A i \in Ifs : Ends(i) => Destroys(i)]_vars
  BY <1>1
<1>3. QED  BY <1>2, Invariance, PTL DEF Spec, OnlyDestroyUnpersists

\* tuntap_destroy leaves no interface behind when its ioctl cannot fail.
THEOREM DestroyLeavesNothing == Spec => DestroyRemoves
<1> DEFINE Closing(h) ==
      /\ ~stolen /\ "TUNSETPERSIST" \notin Faults
      /\ Holding(h) /\ pc[h] = "release" /\ pc'[h] = "close_sock"
<1>1. ASSUME Inv, [Next]_vars, NEW h \in Handles, Closing(h)
      PROVE  iface'[IfaceOf(h)] = Absent
  <2>0. TypeOK /\ OwnInv(h)
    BY <1>1 DEF Inv
  <2>1. pc[h] = "release" /\ pc'[h] = "close_sock" /\ tun_fd[h] # NoFd
    BY <1>1 DEF Holding
  <2>2. ~UNCHANGED pc
    BY <2>1
  <2>3. PICK g \in Handles : Unix(g) \/ Linux(g)
    BY <1>1, <2>1, <2>2
       DEF Next, Application, exit, UnixExit, unixVars, vars
  <2>4. g = h
    <3>1. ASSUME g # h
          PROVE  SameFields(h)
      BY <2>0, <2>3, <3>1, OthersStay
    <3>2. QED  BY <2>1, <3>1 DEF SameFields
  <2>5. tuntap_release(h)
    BY <2>1, <2>2, <2>3, <2>4
       DEF Unix, Linux, tuntap_init, tuntap_init_fails, tuntap_start, clean,
           release_ctrl_sock, open_clone, setiff_ok, setiff_fails, set_persist,
           get_flags_ok, get_flags_fails, tuntap_destroy, tuntap_set_ifname, unixVars
  <2>6. Close(h, tun_fd[h])
    BY <2>1, <2>5 DEF tuntap_release
  <2>7. /\ tun_fd[h] \in Fds /\ files[tun_fd[h]].kind = "tun"
        /\ IfaceOf(h) \in Ifs /\ iface[IfaceOf(h)].persist = 0
    BY <1>1, <2>0, <2>1
       DEF TypeOK, UnixTypeOK, OwnInv, OwnsTun, IfaceOf
  <2>8. QED  BY <2>0, <2>6, <2>7 DEF Close, Open, IfaceOf
<1>2. Inv /\ [Next]_vars =>
        [\A h \in Handles : Closing(h) => iface'[IfaceOf(h)] = Absent]_vars
  BY <1>1
<1>3. QED  BY <1>2, Invariance, PTL DEF Spec, DestroyRemoves

-----------------------------------------------------------------------------
(***************************************************************************)
(* Which tun descriptors are lost.                                         *)
(***************************************************************************)
Mine(h, f) == files[f].kind = "tun" /\ files[f].owner = h

\* A local fd is in use only between open() and the end of tuntap_sys_start,
\* and the tun descriptor of a device is closed before its control socket.
TunInv(h) ==
  /\ fd[h] # NoFd => pc[h] \in Attaching
  /\ pc[h] = "close_sock" /\ tun_fd[h] \in Fds => ~Mine(h, tun_fd[h])

\* A step of a handle makes no tun descriptor but the one its open() returns,
\* which becomes its local fd unless the unit is refused, and gives none to
\* somebody else.
LEMMA NewTun ==
  ASSUME TypeOK, KernelInv, NEW g \in Handles, HandleInv(g), Unix(g) \/ Linux(g),
         NEW f \in Fds, files'[f].kind = "tun"
  PROVE  \/ files[f].kind = "tun" /\ files'[f].owner = files[f].owner
         \/ /\ pc[g] = "sys_start" /\ files'[f].owner = g
            /\ fd'[g] = f \/ UnitRefused(arg[g], f)
<1> DEFINE Old == files[f].kind = "tun" /\ files'[f].owner = files[f].owner
<1>0. KernelTypeOK
  BY DEF TypeOK
<1>1. ASSUME UNCHANGED files
      PROVE  Old
  BY <1>1
<1>2. ASSUME NEW h, NEW e, Close(h, e)
      PROVE  Old
  <2>1. f # e
    BY <1>0, <1>2, CloseLemma
  <2>2. files'[f] = files[f]
    BY <1>0, <1>2, <2>1, CloseLemma
  <2>3. QED  BY <2>2
<1>3. ASSUME NEW e \in Fds, OpenAt(e, "sock", g), UNCHANGED <<iface, stolen>>
      PROVE  Old
  <2>1. f # e
    BY <1>0, <1>3, OpenLemma
  <2>2. files'[f] = files[f]
    BY <1>0, <1>3, <2>1, OpenLemma
  <2>3. QED  BY <2>2
<1>4. CASE open_clone(g)
  <2>1. CASE UNCHANGED kernelVars
    BY <1>1, <2>1 DEF kernelVars
  <2>2. ASSUME NEW e \in Fds, OpenAt(e, "tun", g), UNCHANGED <<iface, stolen>>,
               UnitRefused(arg[g], e) \/ fd' = [fd EXCEPT ![g] = e]
        PROVE  \/ Old
               \/ files'[f].owner = g /\ (fd'[g] = f \/ UnitRefused(arg[g], f))
    <3>1. CASE f # e
      <4>1. files'[f] = files[f]
        BY <1>0, <2>2, <3>1, OpenLemma
      <4>2. QED  BY <4>1
    <3>2. CASE f = e
      <4>1. files'[f].owner = g
        BY <1>0, <2>2, <3>2, OpenLemma
      <4>2. QED  BY <2>2, <3>2, <4>1 DEF TypeOK
    <3>3. QED  BY <3>1, <3>2
  <2>3. pc[g] = "sys_start"
    BY <1>4 DEF open_clone
  <2>4. QED  BY <1>4, <2>1, <2>2, <2>3 DEF open_clone
<1>5. CASE setiff_ok(g)
  <2>1. PICK i \in Ifs, name \in Names :
          SetIff(fd[g], Type(arg[g].mode), name, i) /\ Type(arg[g].mode) \in IfTypes
    BY <1>5, SetIffStep
  <2>2. QED  BY <1>0, <2>1, SetIffLemma
<1>6. ASSUME NEW e, NEW v \in {0, 1}, SetPersist(e, v)
      PROVE  Old
  BY <1>1, <1>6 DEF SetPersist
<1>7. CASE Unix(g)
  BY <1>1, <1>2, <1>3, <1>7
     DEF Unix, tuntap_init, tuntap_init_fails, tuntap_start, clean, tuntap_release,
         release_ctrl_sock, kernelVars
<1>8. CASE Linux(g)
  <2>1. CASE setiff_fails(g) \/ get_flags_ok(g) \/ get_flags_fails(g)
    BY <1>1, <2>1 DEF setiff_fails, get_flags_ok, get_flags_fails, kernelVars
  <2>2. CASE set_persist(g) \/ tuntap_destroy(g)
    BY <1>1, <1>6, <2>2 DEF set_persist, tuntap_destroy, kernelVars
  <2>3. CASE \E ifname \in NewNames : tuntap_set_ifname(g, ifname)
    BY <1>1, <2>3 DEF tuntap_set_ifname, SysSetIfname, kernelVars
  <2>4. QED  BY <1>4, <1>5, <1>8, <2>1, <2>2, <2>3 DEF Linux
<1>9. QED  BY <1>7, <1>8

\* The rest of the application and the end of the process make none.
LEMMA NoNewTun ==
  ASSUME TypeOK, Application \/ exit, NEW f \in Fds, files'[f].kind = "tun"
  PROVE  files'[f] = files[f]
<1>0. KernelTypeOK
  BY DEF TypeOK
<1>1. ASSUME NEW e \in Fds, AppOpen(e)
      PROVE  files'[f] = files[f]
  <2>1. OpenAt(e, "app", App) /\ UNCHANGED <<iface, stolen>>
    BY <1>1 DEF AppOpen
  <2>2. QED  BY <1>0, <2>1, OpenLemma
<1>2. ASSUME NEW e \in Fds, AppClose(e)
      PROVE  files'[f] = files[f]
  <2>1. Close(App, e)
    BY <1>2 DEF AppClose
  <2>2. QED  BY <1>0, <2>1, CloseLemma
<1>3. ~exit
  BY RecordLemma DEF exit, KernelExit
<1>4. QED  BY <1>1, <1>2, <1>3 DEF Application

\* A step of a handle keeps every handle's TunInv.
LEMMA TunStep ==
  ASSUME Inv, \A h \in Handles : TunInv(h), NEW g \in Handles, Unix(g) \/ Linux(g),
         NEW h \in Handles
  PROVE  TunInv(h)'
<1>0. TypeOK /\ KernelInv /\ HandleInv(g) /\ TypeOK' /\ HandleInv(h)' /\ TunInv(h)
  BY HandleStepInv DEF Inv
<1>1. CASE h # g
  <2>1. SameFields(h)
    BY <1>0, <1>1, OthersStay
  <2>2. ASSUME tun_fd[h] \in Fds, Mine(h, tun_fd[h])'
        PROVE  Mine(h, tun_fd[h])
    BY <1>0, <1>1, <2>1, <2>2, NewTun DEF Mine, SameFields
  <2>3. QED  BY <1>0, <2>1, <2>2 DEF TunInv, SameFields
<1>2. CASE h = g
  <2> USE DEF TypeOK, UnixTypeOK
  <2>1. ASSUME fd'[h] # NoFd
        PROVE  pc'[h] \in Attaching
    <3>1. CASE SysStartFails(h)
      BY <1>0, <2>1, <3>1 DEF SysStartFails
    <3>2. CASE Unix(h)
      BY <1>0, <2>1, <3>2
         DEF TunInv, Unix, tuntap_init, tuntap_init_fails, tuntap_start, clean,
             tuntap_release, release_ctrl_sock, Attaching, unixVars
    <3>3. CASE open_clone(h) \/ setiff_ok(h) \/ set_persist(h)
      BY <1>0, <2>1, <3>1, <3>3
         DEF open_clone, setiff_ok, set_persist, Goto, AfterSetIff, Attaching
    <3>4. CASE setiff_fails(h) \/ get_flags_ok(h) \/ get_flags_fails(h)
      BY <1>0, <2>1, <3>1, <3>4 DEF setiff_fails, get_flags_ok, get_flags_fails
    <3>5. CASE tuntap_destroy(h) \/ \E ifname \in NewNames : tuntap_set_ifname(h, ifname)
      BY <1>0, <2>1, <3>5 DEF TunInv, tuntap_destroy, tuntap_set_ifname, Attaching
    <3>6. QED  BY <1>2, <3>2, <3>3, <3>4, <3>5 DEF Linux
  <2>2. ASSUME pc'[h] = "close_sock", tun_fd'[h] \in Fds
        PROVE  ~Mine(h, tun_fd[h])'
    <3>1. tuntap_release(h)
      <4>1. CASE Unix(h)
        BY <1>0, <2>2, <4>1
           DEF Unix, tuntap_init, tuntap_init_fails, tuntap_start, AfterSocket, clean,
               release_ctrl_sock, Goto, unixVars
      <4>2. ~SysStartFails(h)
        BY <1>0, <2>2 DEF SysStartFails, Goto
      <4>3. ~(open_clone(h) \/ setiff_ok(h) \/ setiff_fails(h) \/ set_persist(h))
        BY <1>0, <2>2, <4>2
           DEF open_clone, setiff_ok, setiff_fails, set_persist, AfterSetIff, Goto
      <4>4. ~(get_flags_ok(h) \/ get_flags_fails(h) \/ tuntap_destroy(h))
        BY <1>0, <2>2, <4>2
           DEF get_flags_ok, get_flags_fails, tuntap_destroy, StartSucceeds, Goto
      <4>5. ~\E ifname \in NewNames : tuntap_set_ifname(h, ifname)
        BY <2>2 DEF tuntap_set_ifname
      <4>6. QED  BY <1>2, <4>1, <4>3, <4>4, <4>5 DEF Linux
    <3>2. tuntap_release(h) /\ tun_fd'[h] = tun_fd[h]
      BY <3>1 DEF tuntap_release
    <3>3. Close(h, tun_fd[h])
      BY <2>2, <3>2, Constants DEF tuntap_release
    <3>4. QED  BY <1>0, <2>2, <3>2, <3>3, CloseLemma DEF Mine, TypeOK
  <2>3. QED  BY <2>1, <2>2 DEF TunInv
<1>3. QED  BY <1>1, <1>2

\* TunInv holds of every handle in every reachable state.
LEMMA TunInvariance == Spec => [](Inv /\ \A h \in Handles : TunInv(h))
<1> DEFINE All == \A h \in Handles : TunInv(h)
<1>1. Init => All
  BY DEF Init, UnixInit, TunInv, NoFd
<1>2. Inv /\ All /\ [Next]_vars => All'
  <2> SUFFICES ASSUME Inv, All, [Next]_vars PROVE All'
    OBVIOUS
  <2>1. TypeOK
    BY DEF Inv
  <2>2. CASE UNCHANGED vars
    BY <2>2 DEF vars, kernelVars, unixVars, TunInv, Mine
  <2>3. ASSUME NEW g \in Handles, Unix(g) \/ Linux(g)
        PROVE  All'
    BY <2>3, TunStep
  <2>4. CASE Application
    BY <2>1, <2>4, NoNewTun DEF Application, unixVars, TunInv, Mine
  <2>5. CASE exit
    BY <2>5 DEF exit, UnixExit, TunInv
  <2>6. QED  BY <2>2, <2>3, <2>4, <2>5 DEF Next
<1> HIDE DEF All
<1>3. Spec => []All
  BY <1>1, <1>2, Invariance, PTL DEF Spec
<1>4. QED  BY <1>3, Invariance, PTL DEF All

\* A tun descriptor is lost only to an ioctl that fails, or to its own number.
THEOREM LostOnlyThere == Spec => LostToAnIoctlOrByNumber
<1> DEFINE Excused(h, f) ==
      \/ pc[h] \in {"setiff", "setpersist", "getflags"}
      \/ pc[h] = "sys_start" /\ arg[h].tun # TUNTAP_ID_ANY /\ f > TUNTAP_ID_MAX
<1>1. ASSUME Inv, \A h \in Handles : TunInv(h), [Next]_vars,
             NEW h \in Handles, NEW f \in Fds, ~Lost(h, f), Lost(h, f)'
      PROVE  Excused(h, f)
  <2>1. /\ TypeOK /\ KernelInv /\ HandleInv(h) /\ TunInv(h)
        /\ files'[f].kind = "tun" /\ files'[f].owner = h /\ f # fd'[h] /\ f # tun_fd'[h]
        /\ f # NoFd
    BY <1>1, Constants DEF Inv, Lost
  <2>2. ~UNCHANGED vars /\ ~exit
    BY <1>1, <2>1, RecordLemma
       DEF vars, kernelVars, unixVars, Lost, exit, KernelExit
  <2>3. ~Application
    BY <1>1, <2>1, NoNewTun DEF Application, unixVars, Lost
  <2>4. PICK g \in Handles : Unix(g) \/ Linux(g)
    BY <1>1, <2>2, <2>3 DEF Next
  <2>5. HandleInv(g)
    BY <1>1 DEF Inv
  <2>6. CASE pc[g] = "sys_start" /\ files'[f].owner = g
             /\ (fd'[g] = f \/ UnitRefused(arg[g], f))
    BY <2>1, <2>6 DEF UnitRefused
  <2>7. CASE Mine(h, f)
    <3>1. f = fd[h] \/ f = tun_fd[h]
      BY <1>1, <2>7 DEF Lost, Mine
    <3>2. g = h
      BY <2>1, <2>4, <2>5, <3>1, OthersStay DEF SameFields
    <3>3. CASE f = fd[h]
      BY <2>1, <3>3 DEF TunInv, Attaching
    <3>4. CASE f = tun_fd[h]
      <4>1. ~UNCHANGED tun_fd
        BY <2>1, <3>4
      <4>2. tun_fd[h] # NoFd /\ pc[h] \notin Starting \cup {"null"}
        BY <2>1, <3>4 DEF HandleInv
      <4>3. ~release_ctrl_sock(h)
        BY <2>1, <2>7, <3>4 DEF release_ctrl_sock, TunInv
      <4>4. ~Unix(h)
        BY <4>1, <4>2, <4>3
           DEF Unix, tuntap_init, tuntap_init_fails, tuntap_start, clean, tuntap_release,
               unixVars
      <4>5. ~Linux(h)
        BY <4>1, <4>2
           DEF Linux, open_clone, setiff_ok, setiff_fails, set_persist, get_flags_ok,
               get_flags_fails, tuntap_destroy, tuntap_set_ifname, SysStartFails,
               Starting, Attaching
      <4>6. QED  BY <2>4, <3>2, <4>4, <4>5
    <3>5. QED  BY <3>1, <3>3, <3>4
  <2>8. QED  BY <2>1, <2>4, <2>5, <2>6, <2>7, NewTun DEF Mine
<1>2. Inv /\ (\A h \in Handles : TunInv(h)) /\ [Next]_vars =>
        [\A h \in Handles, f \in Fds : ~Lost(h, f) /\ Lost(h, f)' => Excused(h, f)]_vars
  BY <1>1
<1>3. QED  BY <1>2, TunInvariance, PTL DEF Spec, LostToAnIoctlOrByNumber

=============================================================================
