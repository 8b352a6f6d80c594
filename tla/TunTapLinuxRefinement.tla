----------------------- MODULE TunTapLinuxRefinement ------------------------
(***************************************************************************)
(* TunTapLinux implements DeviceLifecycle: under the refinement mapping of *)
(* TunTapLinux every system call is one step of a device's life or none,   *)
(* for any number of handles, descriptors and interfaces and any faults.   *)
(* The inductive invariant of TunTapLinuxProofs says who owns what; from   *)
(* it follows that a step of one handle leaves the others' stage and       *)
(* interface alone, and what it does to its own.                           *)
(***************************************************************************)
EXTENDS TunTapLinuxProofs

Same(h) == Stage(h)' = Stage(h) /\ Holds(h)' = Holds(h)

\* When one handle moves, the abstract functions change at that handle.
LEMMA Moved ==
  ASSUME NEW h \in Handles, \A g \in Handles : g # h => Same(g)
  PROVE  /\ Stages' = [Stages EXCEPT ![h] = Stage(h)']
         /\ Holdings' = [Holdings EXCEPT ![h] = Holds(h)']
         /\ Stages[h] = Stage(h) /\ Holdings[h] = Holds(h)
         /\ Same(h) => UNCHANGED <<Stages, Holdings>>
  BY DEF Stages, Holdings, Same

\* What a started device holds is its own and nobody else's.
LEMMA HoldsOwn ==
  ASSUME Inv, ~stolen, NEW h \in Handles, NEW i \in Ifs, Holds(h) = i
  PROVE  /\ pc[h] = "idle" /\ tun_fd[h] \in Fds /\ IfaceOf(h) = i
         /\ files[tun_fd[h]].kind = "tun" /\ files[tun_fd[h]].owner = h
<1>1. pc[h] = "idle" /\ tun_fd[h] \in Fds /\ IfaceOf(h) = i
  BY NoneAssumption DEF Holds
<1>2. Holding(h)
  BY <1>1, Constants DEF Holding
<1>3. QED BY <1>1, <1>2 DEF Inv, OwnInv, OwnsTun

\* An interface that a handle has attached inside its tuntap_start is held by
\* no started device.
LEMMA NotHeld ==
  ASSUME Inv, ~stolen, NEW h \in Handles, pc[h] \in {"setpersist", "getflags"}
  PROVE  /\ fd[h] \in Fds /\ files[fd[h]].ifc \in Ifs
         /\ ~Lifecycle!Held(files[fd[h]].ifc)
<1>1. fd[h] \in Fds /\ OwnsTun(h, fd[h], ifr[h])
  BY DEF Inv, OwnInv, HandleInv, Attaching, TypeOK
<1>2. ASSUME NEW g \in Handles, Holds(g) = files[fd[h]].ifc
      PROVE  FALSE
  <2>1. /\ pc[g] = "idle" /\ tun_fd[g] \in Fds /\ IfaceOf(g) = files[fd[h]].ifc
        /\ files[tun_fd[g]].owner = g
    BY <1>1, <1>2, HoldsOwn DEF OwnsTun
  <2>2. tun_fd[g] = fd[h]
    BY <1>1, <2>1, NoneAssumption DEF OwnsTun, IfaceOf, Inv, KernelInv, AttachedOnce
  <2>3. QED BY <1>1, <2>1, <2>2 DEF OwnsTun
<1>3. \A g \in Handles : Holdings[g] # files[fd[h]].ifc
  BY <1>2 DEF Holdings
<1>4. QED BY <1>1, <1>3 DEF OwnsTun, Lifecycle!Held

\* A handle that does not move and is not disturbed keeps stage and interface.
LEMMA UndisturbedSame ==
  ASSUME Inv, ~stolen, NEW g \in Handles, Undisturbed(g),
         pc'[g] = pc[g], tun_fd'[g] = tun_fd[g]
  PROVE  Same(g)
<1>1. Stage(g)' = Stage(g)
  BY DEF Stage
<1>2. CASE pc[g] = "idle" /\ tun_fd[g] \in Fds
  <2>1. files[tun_fd[g]].kind = "tun" /\ files[tun_fd[g]].owner = g
    BY <1>2, Constants DEF Inv, OwnInv, OwnsTun, Holding
  <2>2. files'[tun_fd[g]] = files[tun_fd[g]]
    BY <1>2, <2>1 DEF Undisturbed
  <2>3. QED BY <1>1, <1>2, <2>2 DEF Same, Holds, IfaceOf
<1>3. CASE ~(pc[g] = "idle" /\ tun_fd[g] \in Fds)
  BY <1>1, <1>3 DEF Same, Holds
<1>4. QED BY <1>2, <1>3

\* Persistence on both sides of the kernel's operations.
LEMMA KeptClose == ASSUME KernelTypeOK, NEW h, NEW f, Close(h, f) PROVE Kept' = Kept
  BY CloseLemma, RecordLemma DEF Kept
\* TUNSETIFF makes nothing persistent, and ends no persistence.
LEMMA KeptSetIff ==
  ASSUME KernelTypeOK, KernelInv, NEW f, NEW i \in Ifs, NEW t \in IfTypes, NEW name \in Names,
         SetIff(f, t, name, i)
  PROVE  Kept' = Kept
<1>1. iface'[i].persist = 1 <=> iface[i].persist = 1
  BY SetIffIface DEF KernelInv, AbsentPlain
<1>2. QED BY <1>1, SetIffIface DEF Kept
\* TUNSETPERSIST adds or takes away the interface of its descriptor.
LEMMA KeptSetPersist ==
  ASSUME KernelTypeOK, NEW f, NEW v \in {0, 1}, SetPersist(f, v)
  PROVE  /\ files[f].ifc \in Ifs
         /\ v = 1 => Kept' = Kept \cup {files[f].ifc}
         /\ v = 0 => Kept' = Kept \ {files[f].ifc}
  BY SetPersistLemma DEF Kept
\* A rename leaves the persistent interfaces.
LEMMA KeptRename ==
  ASSUME KernelTypeOK, NEW h, NEW i \in Ifs, NEW name \in Names, SysSetIfname(h, i, name)
  PROVE  Kept' = Kept
  BY RenameLemma DEF Kept

-----------------------------------------------------------------------------
(***************************************************************************)
(* Each system call of a handle, as long as nothing is stolen.             *)
(***************************************************************************)
AStep == Lifecycle!Call \/ UNCHANGED <<Stages, Holdings, Kept>>

\* The calls that the abstract device does not see: neither the handle's
\* stage nor its interface changes, nor does persistence.
LEMMA Unseen ==
  ASSUME NEW h \in Handles, \A g \in Handles : g # h => Same(g),
         Same(h), Kept' = Kept
  PROVE  AStep
  BY Moved DEF AStep

\* tuntap_init is New; tuntap_start up to socket(), and its cleaning up, are stutters.
LEMMA StartStep ==
  ASSUME Inv, ~stolen, ~stolen', NEW h \in Handles, \A g \in Handles : g # h => Same(g),
         \/ tuntap_init(h) \/ tuntap_init_fails(h) \/ clean(h)
         \/ \E mode \in Modes, tun \in Tuns : tuntap_start(h, mode, tun)
  PROVE  AStep
<1> USE DEF Inv, TypeOK, UnixTypeOK
<1>1. CASE tuntap_init(h)
  <2>1. Stage(h) = "none" /\ Stage(h)' = "idle" /\ Holds(h) = None /\ Holds(h)' = None
    BY <1>1, Constants DEF tuntap_init, Goto, Stage, Holds
  <2>2. Kept' = Kept
    BY <1>1 DEF tuntap_init, kernelVars, Kept
  <2>3. UNCHANGED Holdings /\ Stages[h] = "none" /\ Stages' = [Stages EXCEPT ![h] = "idle"]
    BY <2>1, Moved DEF Holdings
  <2>4. QED BY <2>2, <2>3 DEF AStep, Lifecycle!Call, Lifecycle!New
<1>2. CASE tuntap_init_fails(h)
  BY <1>2, Unseen DEF tuntap_init_fails, kernelVars, unixVars, Same, Stage, Holds, IfaceOf, Kept
<1>3. CASE clean(h)
  <2>1. Same(h)
    BY <1>3, Constants DEF clean, Goto, Same, Stage, Holds, HandleInv, Starting
  <2>2. Kept' = Kept
    BY <1>3, KeptClose DEF clean
  <2>3. QED BY <2>1, <2>2, Unseen
<1>4. ASSUME NEW mode \in Modes, NEW tun \in Tuns, tuntap_start(h, mode, tun)
      PROVE  AStep
  <2>1. CASE UNCHANGED <<kernelVars, unixVars>>
    BY <2>1, Unseen DEF kernelVars, unixVars, Same, Stage, Holds, IfaceOf, Kept
  <2>2. CASE ~UNCHANGED <<kernelVars, unixVars>>
    <3>1. /\ tun_fd[h] = NoFd /\ tun_fd' = tun_fd /\ pc[h] = "idle"
          /\ pc'[h] \in {"clean", "sys_start"} /\ iface' = iface
      BY <1>4, <2>2 DEF tuntap_start, AlreadyStarted, AfterSocket, Goto
    <3>2. Same(h) /\ Kept' = Kept
      BY <3>1, Constants DEF Same, Stage, Holds, Kept
    <3>3. QED BY <3>2, Unseen
  <2>3. QED BY <2>1, <2>2
<1>5. QED BY <1>1, <1>2, <1>3, <1>4

\* tuntap_sys_start, TUNSETPERSIST and success aside, is a stutter.
LEMMA SysStartStep ==
  ASSUME Inv, ~stolen, ~stolen', NEW h \in Handles, \A g \in Handles : g # h => Same(g),
         open_clone(h) \/ setiff_ok(h) \/ setiff_fails(h) \/ get_flags_fails(h)
  PROVE  AStep
<1> USE DEF Inv, TypeOK, UnixTypeOK
<1>1. /\ pc[h] \in {"sys_start", "setiff", "getflags"}
      /\ pc'[h] \in {"setiff", "setpersist", "getflags", "clean"}
  BY DEF open_clone, setiff_ok, setiff_fails, get_flags_fails, SysStartFails, Goto, AfterSetIff
<1>2. Same(h)
  BY <1>1 DEF Same, Stage, Holds
<1>3. Kept' = Kept
  <2>1. CASE setiff_ok(h)
    BY <2>1, SetIffStep, KeptSetIff
  <2>2. CASE ~setiff_ok(h)
    BY <2>2 DEF open_clone, setiff_fails, get_flags_fails, kernelVars, Kept
  <2>3. QED BY <2>1, <2>2
<1>4. QED BY <1>2, <1>3, Unseen

\* TUNSETPERSIST in a start is Keep, or a stutter.
LEMMA PersistStep ==
  ASSUME Inv, ~stolen, ~stolen', NEW h \in Handles, \A g \in Handles : g # h => Same(g),
         set_persist(h)
  PROVE  AStep
<1> USE DEF Inv, TypeOK, UnixTypeOK
<1>1. pc[h] = "setpersist" /\ pc'[h] \in {"getflags", "clean"}
  BY DEF set_persist, SysStartFails, Goto
<1>2. Same(h)
  BY <1>1 DEF Same, Stage, Holds
<1>3. UNCHANGED <<Stages, Holdings>>
  BY <1>2, Moved
<1>4. CASE SetPersist(fd[h], 1)
  <2>1. files[fd[h]].ifc \in Ifs /\ Kept' = Kept \cup {files[fd[h]].ifc}
    BY <1>4, KeptSetPersist
  <2>2. ~Lifecycle!Held(files[fd[h]].ifc)
    BY <1>1, NotHeld
  <2>3. Lifecycle!Keep(files[fd[h]].ifc)
    BY <1>3, <2>1, <2>2 DEF Lifecycle!Keep
  <2>4. QED BY <2>1, <2>3 DEF AStep, Lifecycle!Call
<1>5. CASE UNCHANGED kernelVars
  BY <1>2, <1>5, Unseen DEF kernelVars, Kept
<1>6. QED BY <1>4, <1>5 DEF set_persist

\* The success of tuntap_start is Start.
LEMMA SuccessStep ==
  ASSUME Inv, ~stolen, ~stolen', NEW h \in Handles, \A g \in Handles : g # h => Same(g),
         get_flags_ok(h)
  PROVE  AStep
<1> DEFINE i == files[fd[h]].ifc
<1>1. pc[h] = "getflags" /\ pc'[h] = "idle" /\ tun_fd'[h] = fd[h] /\ UNCHANGED kernelVars
  BY DEF get_flags_ok, StartSucceeds, Goto, Inv, TypeOK, UnixTypeOK
<1>2. fd[h] \in Fds /\ i \in Ifs /\ ~Lifecycle!Held(i)
  BY <1>1, NotHeld
<1>3. Stage(h) = "idle" /\ Stage(h)' = "idle" /\ Holds(h) = None /\ Holds(h)' = i
  BY <1>1, <1>2 DEF Stage, Holds, IfaceOf, kernelVars
<1>4. /\ Stages[h] = "idle" /\ Holdings[h] = None /\ Stages' = Stages
      /\ Holdings' = [Holdings EXCEPT ![h] = i]
  <2>1. Stages' = [Stages EXCEPT ![h] = Stages[h]]
    BY <1>3, Moved
  <2>2. Stages' = Stages
    BY <2>1 DEF Stages
  <2>3. QED BY <1>3, <2>2, Moved
<1>5. Kept' = Kept
  BY <1>1 DEF kernelVars, Kept
<1>6. Lifecycle!Start(h, i)
  BY <1>2, <1>4, <1>5 DEF Lifecycle!Start
<1>7. QED BY <1>2, <1>6 DEF AStep, Lifecycle!Call

\* tuntap_release and tuntap_destroy are Release, Destroy and Free.
LEMMA LeaveStep ==
  ASSUME Inv, ~stolen, ~stolen', NEW h \in Handles, \A g \in Handles : g # h => Same(g),
         tuntap_destroy(h) \/ tuntap_release(h) \/ release_ctrl_sock(h)
  PROVE  AStep
<1> USE DEF Inv, TypeOK, UnixTypeOK
<1>1. CASE tuntap_destroy(h)
  <2>1. Stage(h) = "idle" /\ Stage(h)' = "closing" /\ Holds(h)' = None
    BY <1>1 DEF tuntap_destroy, Goto, Stage, Holds
  <2>2. Lifecycle!Leave(h)
    BY <2>1, Moved DEF Lifecycle!Leave
  <2>3. Kept' \in {Kept, Kept \ {Holdings[h]}}
    <3>1. CASE SetPersist(tun_fd[h], 0)
      <4>1. tun_fd[h] \in Fds
        BY <3>1, SetPersistLemma
      <4>2. Holdings[h] = files[tun_fd[h]].ifc
        BY <1>1, <4>1 DEF Holdings, Holds, IfaceOf, tuntap_destroy
      <4>3. QED BY <3>1, <4>2, KeptSetPersist
    <3>2. CASE UNCHANGED kernelVars
      BY <3>2 DEF kernelVars, Kept
    <3>3. QED BY <1>1, <3>1, <3>2 DEF tuntap_destroy
  <2>4. QED BY <2>2, <2>3 DEF Lifecycle!Destroy, AStep, Lifecycle!Call
<1>2. CASE tuntap_release(h)
  <2>1. Kept' = Kept
    <3>1. CASE Close(h, tun_fd[h])
      BY <3>1, KeptClose
    <3>2. CASE UNCHANGED kernelVars
      BY <3>2 DEF kernelVars, Kept
    <3>3. QED BY <1>2, <3>1, <3>2 DEF tuntap_release
  <2>2. pc[h] \in {"idle", "release"} /\ Stage(h)' = "closing" /\ Holds(h)' = None
    BY <1>2 DEF tuntap_release, Goto, Stage, Holds
  <2>3. CASE pc[h] = "idle"
    <3>1. Stage(h) = "idle"
      BY <2>3 DEF Stage
    <3>2. Lifecycle!Leave(h)
      BY <2>2, <3>1, Moved DEF Lifecycle!Leave
    <3>3. QED BY <2>1, <3>2 DEF Lifecycle!Release, AStep, Lifecycle!Call
  <2>4. CASE pc[h] = "release"
    <3>1. Same(h)
      BY <2>2, <2>4 DEF Same, Stage, Holds
    <3>2. QED BY <2>1, <3>1, Unseen
  <2>5. QED BY <2>2, <2>3, <2>4
<1>3. CASE release_ctrl_sock(h)
  <2>1. Kept' = Kept
    BY <1>3, KeptClose DEF release_ctrl_sock
  <2>2. Stage(h) = "closing" /\ Stage(h)' = "none" /\ Holds(h) = None /\ Holds(h)' = None
    BY <1>3 DEF release_ctrl_sock, Goto, Stage, Holds
  <2>3. UNCHANGED Holdings /\ Stages[h] = "closing" /\ Stages' = [Stages EXCEPT ![h] = "none"]
    BY <2>2, Moved DEF Holdings
  <2>4. QED BY <2>1, <2>3 DEF Lifecycle!Free, AStep, Lifecycle!Call
<1>4. QED BY <1>1, <1>2, <1>3

\* tuntap_set_ifname is a stutter.
LEMMA SetIfnameStep ==
  ASSUME Inv, ~stolen, ~stolen', NEW h \in Handles, \A g \in Handles : g # h => Same(g),
         NEW ifname \in NewNames, tuntap_set_ifname(h, ifname)
  PROVE  AStep
<1>1. files' = files /\ pc' = pc /\ tun_fd' = tun_fd
  BY DEF tuntap_set_ifname, SysSetIfname, kernelVars
<1>2. Same(h)
  BY <1>1 DEF Same, Stage, Holds, IfaceOf
<1>3. ASSUME NEW i \in Ifs, SysSetIfname(h, i, ifname) PROVE Kept' = Kept
  BY <1>3, KeptRename, NewNamesAssumption DEF Inv, TypeOK
<1>4. CASE UNCHANGED kernelVars
  BY <1>2, <1>4, Unseen DEF kernelVars, Kept
<1>5. QED BY <1>2, <1>3, <1>4, Unseen DEF tuntap_set_ifname

\* Any step of a handle: the other handles are not disturbed.
LEMMA HandleMoves ==
  ASSUME Inv, ~stolen, ~stolen', NEW h \in Handles, Unix(h) \/ Linux(h)
  PROVE  AStep
<1>1. ASSUME NEW g \in Handles, g # h PROVE Same(g)
  <2>1. Undisturbed(g)
    BY <1>1, UndisturbedStep DEF Inv
  <2>2. SameFields(g)
    BY <1>1, OthersStay DEF Inv
  <2>3. QED BY <2>1, <2>2, UndisturbedSame DEF SameFields
<1>2. QED BY <1>1, StartStep, SysStartStep, PersistStep, SuccessStep, LeaveStep, SetIfnameStep
          DEF Unix, Linux

\* The rest of the application touches its own files only.
LEMMA AppMoves ==
  ASSUME Inv, ~stolen, ~stolen', Application
  PROVE  UNCHANGED <<Stages, Holdings, Kept>>
<1> USE DEF Inv, TypeOK
<1>1. PICK f \in Fds : AppOpen(f) \/ AppClose(f)
  BY DEF Application
<1>2. Kept' = Kept
  BY <1>1, KeptClose DEF AppOpen, AppClose, Kept
<1>3. ASSUME NEW g \in Handles PROVE Same(g)
  <2>1. Undisturbed(g)
    <3>1. CASE AppOpen(f)
      BY <3>1, OpenFrame DEF AppOpen
    <3>2. CASE AppClose(f)
      BY <3>2, CloseFrame, Constants DEF AppClose
    <3>3. QED BY <1>1, <3>1, <3>2
  <2>2. QED BY <2>1, UndisturbedSame DEF Application, unixVars
<1>4. Stages' = Stages /\ Holdings' = Holdings
  BY <1>3 DEF Same, Stages, Holdings
<1>5. QED BY <1>2, <1>4

-----------------------------------------------------------------------------
\* The initial states correspond.
LEMMA InitMaps == Init => Lifecycle!Init
<1> SUFFICES ASSUME Init PROVE Lifecycle!Init
  OBVIOUS
<1>1. \A h \in Handles : Stage(h) = "none" /\ Holds(h) = None
  BY Constants DEF Init, UnixInit, Stage, Holds
<1>2. Kept = {}
  BY DEF Init, KernelInit, Kept, Absent
<1>3. QED BY <1>1, <1>2 DEF Lifecycle!Init, Stages, Holdings, Init, KernelInit

\* The death of the process ends every device and keeps what persists.
LEMMA ExitMaps == ASSUME exit PROVE Lifecycle!Exit /\ ~stolen'
<1>1. \A h \in Handles : Stage(h)' = "none" /\ Holds(h)' = None
  BY Constants DEF exit, UnixExit, Stage, Holds
<1>2. Kept' = Kept
  BY DEF exit, KernelExit, Kept, Absent
<1>3. QED BY <1>1, <1>2 DEF Lifecycle!Exit, Stages, Holdings, exit, KernelExit

\* Every step of TunTapLinux is a step of DeviceLifecycle or none.
LEMMA StepMaps ==
  ASSUME Inv, Inv', [Next]_vars
  PROVE  [Lifecycle!Next]_(Lifecycle!vars)
<1>1. CASE stolen'
  BY <1>1 DEF Lifecycle!Next
<1>2. CASE exit
  BY <1>2, ExitMaps DEF Lifecycle!Next
<1>3. CASE UNCHANGED vars
  BY <1>3 DEF vars, kernelVars, unixVars, Lifecycle!vars, Stages, Holdings, Kept, Stage,
              Holds, IfaceOf
<1>4. CASE ~stolen' /\ ((\E h \in Handles : Unix(h) \/ Linux(h)) \/ Application)
  <2>1. ~stolen
    <3>1. ASSUME NEW h \in Handles, Unix(h) \/ Linux(h) PROVE ~stolen
      BY <1>4, <3>1, StolenStays DEF Inv
    <3>2. ASSUME Application PROVE ~stolen
      BY <1>4, <3>2, CloseLemma DEF Application, AppOpen, AppClose, Inv, TypeOK
    <3>3. QED BY <1>4, <3>1, <3>2
  <2>2. AStep
    BY <1>4, <2>1, HandleMoves, AppMoves DEF AStep
  <2>3. stolen' = stolen
    BY <1>4, <2>1 DEF Inv, TypeOK, KernelTypeOK
  <2>4. QED BY <1>4, <2>1, <2>2, <2>3 DEF AStep, Lifecycle!Next, Lifecycle!vars
<1>5. QED BY <1>1, <1>2, <1>3, <1>4 DEF Next

\* A started device holds an interface alone until it is given back, and a
\* persistent interface stays: what DeviceLifecycle promises, the system
\* calls of tuntap.c, tuntap-unix.c and tuntap-unix-linux.c keep.
THEOREM Implementation == Spec => Lives
<1>1. Inv /\ Inv' /\ [Next]_vars => [Lifecycle!Next]_(Lifecycle!vars)
  BY StepMaps
<1>2. QED BY InitMaps, <1>1, Invariance, PTL DEF Spec, Lives, Lifecycle!Spec
=============================================================================
