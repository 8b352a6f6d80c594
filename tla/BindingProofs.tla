---------------------------- MODULE BindingProofs ---------------------------
(***************************************************************************)
(* The properties of Binding for any number of objects, devices and        *)
(* interfaces.  The inductive invariant ties each object's phase to the    *)
(* state of the device it points to, and its deleter to the device's mode. *)
(***************************************************************************)
EXTENDS Binding, TLAPS

\* No two objects point to one device, and what they point to is allocated.
Unique == \A o, p \in Objs : ptr[o] # None /\ ptr[o] = ptr[p] => o = p
Valid == \A o \in Objs : ptr[o] # None => state[ptr[o]] # "none" /\ ptr[o] \notin released
\* Every allocated device has an object, or was let go of.
Reached == \A h \in Handles : state[h] # "none" => h \in released \/ \E o \in Objs : ptr[o] = h
\* What each phase of an object says of its device.
Phase(o) ==
  /\ pc[o] = "none" => ptr[o] = None
  /\ pc[o] = "free" => ptr[o] # None
  /\ ptr[o] # None =>
       /\ pc[o] = "start" => state[ptr[o]] = "idle" /\ holds[ptr[o]] = None
       /\ pc[o] = "live" => state[ptr[o]] = "idle" /\ holds[ptr[o]] \in Ifs
       /\ pc[o] = "delete" => state[ptr[o]] = "idle"
       /\ pc[o] = "free" => state[ptr[o]] = "closing" /\ holds[ptr[o]] = None
       /\ persist[o] = wanted[ptr[o]]
LetGo == \A h \in released : state[h] = "idle" /\ holds[h] \in Ifs
Unallocated == \A h \in Handles : state[h] = "none" => holds[h] = None

BindInv == /\ BindTypeOK /\ Unique /\ Valid /\ Reached /\ LetGo /\ Unallocated
           /\ \A o \in Objs : Phase(o)

-----------------------------------------------------------------------------
\* The first state satisfies the invariant.
LEMMA InitBindInv == BindInit => BindInv
  BY NoInterface, NoDevice
     DEF BindInit, Init, BindInv, BindTypeOK, TypeOK, Unique, Valid, Reached, LetGo,
         Unallocated, Phase

\* Every step keeps the types.
LEMMA BindTypeStep == ASSUME BindTypeOK, [BindNext]_allVars PROVE BindTypeOK'
<1> USE DEF BindTypeOK, TypeOK, bindVars, vars, Goto
<1>1. ASSUME NEW o \in Objs, NEW mode \in Modes, NEW id \in Ids, construct(o, mode, id)
      PROVE  BindTypeOK'
  <2>1. /\ persist' \in [Objs -> BOOLEAN] /\ released' = released /\ broken' = broken
        /\ pc' \in [Objs -> {"none", "start", "live", "delete", "free"}]
    BY <1>1 DEF construct
  <2>2. CASE \E h \in Handles : /\ New(h)
                               /\ ptr' = [ptr EXCEPT ![o] = h]
                               /\ wanted' = [wanted EXCEPT ![h] = "PERSIST" \in mode]
    BY <2>1, <2>2 DEF New
  <2>3. CASE ptr' = [ptr EXCEPT ![o] = None] /\ UNCHANGED <<vars, wanted>>
    BY <2>1, <2>3
  <2>4. QED BY <1>1, <2>2, <2>3 DEF construct
<1>2. ASSUME NEW o \in Objs, start_keeps(o) \/ start_ok(o) \/ start_throws(o)
      PROVE  BindTypeOK'
  <2>1. CASE start_keeps(o)
    BY <2>1 DEF start_keeps, Keep
  <2>2. CASE start_ok(o)
    BY <2>2 DEF start_ok, Start
  <2>3. CASE start_throws(o)
    BY <2>3 DEF start_throws
  <2>4. QED BY <1>2, <2>1, <2>2, <2>3
<1>3. ASSUME NEW o \in Objs, NEW t \in Objs, move(o, t)
      PROVE  BindTypeOK'
  BY <1>3 DEF move
<1>4. ASSUME NEW o \in Objs, release(o)
      PROVE  BindTypeOK'
  BY <1>4 DEF release
<1>5. ASSUME NEW o \in Objs, destruct(o) \/ delete_device(o) \/ delete_nothing(o) \/ free_device(o)
      PROVE  BindTypeOK'
  <2>1. CASE destruct(o) \/ delete_nothing(o)
    BY <2>1 DEF destruct, delete_nothing
  <2>2. CASE delete_device(o)
    BY <2>2 DEF delete_device, Release, Destroy, Leave
  <2>3. CASE free_device(o)
    BY <2>3 DEF free_device, Free
  <2>4. QED BY <1>5, <2>1, <2>2, <2>3
<1>6. ASSUME Die, UNCHANGED broken
      PROVE  BindTypeOK'
  BY <1>6 DEF Die, Exit
<1>7. ASSUME NEW o \in Objs, call(o)
      PROVE  BindTypeOK'
  BY <1>6, <1>7 DEF call
<1>8. CASE UNCHANGED allVars
  BY <1>8 DEF allVars
<1>9. QED BY <1>1, <1>2, <1>3, <1>4, <1>5, <1>6, <1>7, <1>8 DEF BindNext

-----------------------------------------------------------------------------
\* The rest of the invariant, step by step.  Goal is what a step must restore.
Goal == Unique /\ Valid /\ Reached /\ LetGo /\ Unallocated /\ \A o \in Objs : Phase(o)

\* A constructor has a device of its own, or none, and a deleter of its mode.
LEMMA ConstructStep ==
  ASSUME BindInv, BindTypeOK', NEW o \in Objs, NEW mode \in Modes, NEW id \in Ids,
         construct(o, mode, id)
  PROVE  Goal'
<1> USE DEF BindInv, BindTypeOK, TypeOK, vars, Goto
<1>1. /\ pc[o] = "none" /\ ptr[o] = None /\ released' = released
      /\ persist'[o] = ("PERSIST" \in mode)
      /\ pc'[o] \in {"start", "delete"}
      /\ \A p \in Objs \ {o} : pc'[p] = pc[p] /\ persist'[p] = persist[p]
  BY DEF construct, Phase
<1>2. CASE \E h \in Handles : /\ New(h)
                             /\ ptr' = [ptr EXCEPT ![o] = h]
                             /\ wanted' = [wanted EXCEPT ![h] = "PERSIST" \in mode]
  <2>1. PICK h \in Handles : /\ New(h)
                             /\ ptr' = [ptr EXCEPT ![o] = h]
                             /\ wanted' = [wanted EXCEPT ![h] = "PERSIST" \in mode]
    BY <1>2
  <2>2. /\ state[h] = "none" /\ state' = [state EXCEPT ![h] = "idle"] /\ holds' = holds
        /\ h \notin released /\ holds[h] = None /\ h # None
        /\ \A p \in Objs : ptr[p] # h
    BY <2>1, NoDevice DEF New, LetGo, Unallocated, Valid
  <2>3. Unique' /\ Valid' /\ Reached'
    <3>1. ptr'[o] = h /\ \A p \in Objs \ {o} : ptr'[p] = ptr[p]
      BY <2>1
    <3>2. Unique' /\ Valid'
      BY <1>1, <2>1, <2>2, <3>1 DEF Unique, Valid
    <3>3. ASSUME NEW g \in Handles, state'[g] # "none"
          PROVE  g \in released' \/ \E p \in Objs : ptr'[p] = g
      <4>1. CASE g = h
        BY <3>1, <4>1
      <4>2. CASE g # h
        <5>1. g \in released \/ \E p \in Objs : ptr[p] = g
          BY <2>2, <3>3, <4>2 DEF Reached
        <5>2. QED BY <1>1, <3>1, <5>1, NoDevice
      <4>3. QED BY <4>1, <4>2
    <3>4. QED BY <3>2, <3>3 DEF Reached
  <2>4. LetGo' /\ Unallocated'
    BY <1>1, <2>1, <2>2 DEF LetGo, Unallocated
  <2>5. ASSUME NEW p \in Objs PROVE Phase(p)'
    BY <1>1, <2>1, <2>2 DEF Phase
  <2>6. QED BY <2>3, <2>4, <2>5 DEF Goal
<1>3. CASE ptr' = [ptr EXCEPT ![o] = None] /\ UNCHANGED <<vars, wanted>>
  BY <1>1, <1>3 DEF Goal, Unique, Valid, Reached, LetGo, Unallocated, Phase
<1>4. QED BY <1>2, <1>3 DEF construct

\* tuntap_start inside the constructor gives the device its interface.
LEMMA StartStep ==
  ASSUME BindInv, BindTypeOK', NEW o \in Objs, start_ok(o) PROVE Goal'
<1> USE DEF BindInv, BindTypeOK, TypeOK, vars, Goto
<1>1. PICK i \in Ifs : /\ state' = state /\ holds' = [holds EXCEPT ![ptr[o]] = i]
                       /\ state[ptr[o]] = "idle" /\ holds[ptr[o]] = None
  BY DEF start_ok, Start
<1>2. /\ ptr[o] \in Handles /\ ptr' = ptr /\ persist' = persist /\ wanted' = wanted
      /\ released' = released /\ pc' = [pc EXCEPT ![o] = "live"]
      /\ ptr[o] \notin released
      /\ \A p \in Objs \ {o} : ptr[p] # ptr[o]
  BY DEF start_ok, Unique, Valid
<1>3. Unique' /\ Valid' /\ Reached' /\ LetGo' /\ Unallocated'
  BY <1>1, <1>2 DEF Unique, Valid, Reached, LetGo, Unallocated
<1>4. ASSUME NEW p \in Objs PROVE Phase(p)'
  BY <1>1, <1>2 DEF Phase
<1>5. QED BY <1>3, <1>4 DEF Goal

\* A move hands over the device with all that its phase says.
LEMMA MoveStep ==
  ASSUME BindInv, BindTypeOK', NEW o \in Objs, NEW t \in Objs, move(o, t) PROVE Goal'
<1> USE DEF BindInv, BindTypeOK, TypeOK, vars, Goto
<1>1. /\ o # t /\ ptr[o] = None /\ UNCHANGED <<state, holds, wanted, released>>
      /\ pc[t] = "live" /\ pc' = [pc EXCEPT ![o] = "live"]
      /\ ptr' = [ptr EXCEPT ![o] = ptr[t], ![t] = None]
      /\ persist' = [persist EXCEPT ![o] = persist[t], ![t] = FALSE]
  BY DEF move, Phase
<1>2. Unique' /\ Valid' /\ Reached' /\ LetGo' /\ Unallocated'
  BY <1>1 DEF Unique, Valid, Reached, LetGo, Unallocated
<1>3. ASSUME NEW p \in Objs PROVE Phase(p)'
  BY <1>1 DEF Phase
<1>4. QED BY <1>2, <1>3 DEF Goal

\* release() leaves a device that is started.
LEMMA ReleaseStep ==
  ASSUME BindInv, BindTypeOK', NEW o \in Objs, release(o) PROVE Goal'
<1> USE DEF BindInv, BindTypeOK, TypeOK, vars, Goto
<1>1. /\ pc[o] = "live" /\ UNCHANGED <<state, holds, wanted, pc, persist>>
      /\ ptr' = [ptr EXCEPT ![o] = None]
      /\ released' = released \cup ({ptr[o]} \ {None})
  BY DEF release
<1>2. Unique' /\ Valid' /\ Reached' /\ Unallocated'
  BY <1>1 DEF Unique, Valid, Reached, Unallocated
<1>3. LetGo' /\ \A p \in Objs : Phase(p)'
  BY <1>1 DEF LetGo, Phase
<1>4. QED BY <1>2, <1>3 DEF Goal

\* The deleter begins to free the one device of its object.
LEMMA DeleteStep ==
  ASSUME BindInv, BindTypeOK', NEW o \in Objs, delete_device(o) PROVE Goal'
<1> USE DEF BindInv, BindTypeOK, TypeOK, vars, Goto
<1>1. /\ ptr[o] \in Handles /\ UNCHANGED <<ptr, persist, wanted, released>>
      /\ state' = [state EXCEPT ![ptr[o]] = "closing"]
      /\ holds' = [holds EXCEPT ![ptr[o]] = None]
      /\ pc' = [pc EXCEPT ![o] = "free"]
      /\ ptr[o] \notin released
      /\ \A p \in Objs \ {o} : ptr[p] # ptr[o]
  BY DEF delete_device, Release, Destroy, Leave, Unique, Valid
<1>2. Unique' /\ Valid' /\ Reached' /\ LetGo' /\ Unallocated'
  BY <1>1 DEF Unique, Valid, Reached, LetGo, Unallocated
<1>3. ASSUME NEW p \in Objs PROVE Phase(p)'
  BY <1>1, NoDevice DEF Phase
<1>4. QED BY <1>2, <1>3 DEF Goal

\* The device that is freed has no other object.
LEMMA FreeStep ==
  ASSUME BindInv, BindTypeOK', NEW o \in Objs, free_device(o) PROVE Goal'
<1> USE DEF BindInv, BindTypeOK, TypeOK, vars, Goto
<1>1. /\ ptr[o] \in Handles /\ UNCHANGED <<persist, wanted, released, holds>>
      /\ state' = [state EXCEPT ![ptr[o]] = "none"] /\ holds[ptr[o]] = None
      /\ ptr' = [ptr EXCEPT ![o] = None]
      /\ pc' = [pc EXCEPT ![o] = "none"]
      /\ ptr[o] \notin released
      /\ \A p \in Objs \ {o} : ptr[p] # ptr[o]
  BY DEF free_device, Free, Unique, Valid, Phase
<1>2. Unique' /\ Valid' /\ Reached' /\ LetGo' /\ Unallocated'
  BY <1>1 DEF Unique, Valid, Reached, LetGo, Unallocated
<1>3. ASSUME NEW p \in Objs PROVE Phase(p)'
  BY <1>1 DEF Phase
<1>4. QED BY <1>2, <1>3 DEF Goal

\* Steps that change only how far one object has come.
LEMMA PhaseStep ==
  ASSUME BindInv, BindTypeOK', NEW o \in Objs,
         start_keeps(o) \/ start_throws(o) \/ destruct(o) \/ delete_nothing(o)
  PROVE  Goal'
<1> USE DEF BindInv, BindTypeOK, TypeOK, vars, bindVars, Goto
<1>1. UNCHANGED <<state, holds, ptr, persist, wanted, released>>
  BY DEF start_keeps, Keep, start_throws, destruct, delete_nothing
<1>2. Unique' /\ Valid' /\ Reached' /\ LetGo' /\ Unallocated'
  BY <1>1 DEF Unique, Valid, Reached, LetGo, Unallocated
<1>3. ASSUME NEW p \in Objs PROVE Phase(p)'
  BY <1>1 DEF Phase, start_keeps, start_throws, destruct, delete_nothing
<1>4. QED BY <1>2, <1>3 DEF Goal

\* After the end of the process there is nothing.
LEMMA DieStep == ASSUME Die PROVE Goal'
  BY NoInterface, NoDevice
     DEF Die, Exit, Goal, Unique, Valid, Reached, LetGo, Unallocated, Phase

\* Every step keeps the invariant.
LEMMA BindStep == BindInv /\ [BindNext]_allVars => BindInv'
<1> SUFFICES ASSUME BindInv, [BindNext]_allVars PROVE BindInv'
  OBVIOUS
<1>1. BindTypeOK'
  BY BindTypeStep DEF BindInv
<1>2. CASE UNCHANGED allVars
  <2>1. Goal
    BY DEF BindInv, Goal
  <2>2. Goal'
    BY <1>2, <2>1 DEF allVars, vars, bindVars, Goal, Unique, Valid, Reached, LetGo, Unallocated, Phase
  <2>3. QED BY <1>1, <2>2 DEF BindInv, Goal
<1>3. CASE BindNext
  <2>1. Goal'
    BY <1>1, <1>3, ConstructStep, StartStep, MoveStep, ReleaseStep, DeleteStep, FreeStep,
       PhaseStep, DieStep DEF BindNext, call
  <2>2. QED BY <1>1, <2>1 DEF BindInv, Goal
<1>4. QED BY <1>2, <1>3

\* The inductive invariant holds in every reachable state.
THEOREM Invariance == BindSpec => []BindInv
<1>1. QED BY InitBindInv, BindStep, PTL DEF BindSpec

-----------------------------------------------------------------------------
\* No device leaks in a throw and none has two owners, for any number of
\* objects, devices and threads (tuntap++.cc:6-30).
THEOREM OwnedOnce == BindSpec => []OneOwner
<1>1. BindInv => OneOwner
  <2>1. SUFFICES ASSUME BindInv, NEW h \in Handles
                 PROVE  IF state[h] = "none" \/ h \in released THEN Owners(h) = {}
                        ELSE \E o \in Objs : Owners(h) = {o}
    BY DEF OneOwner
  <2>2. h # None
    BY NoDevice
  <2>3. CASE state[h] = "none" \/ h \in released
    BY <2>1, <2>2, <2>3 DEF BindInv, Valid, Owners
  <2>4. CASE state[h] # "none" /\ h \notin released
    <3>1. PICK o \in Objs : ptr[o] = h
      BY <2>1, <2>4 DEF BindInv, Reached
    <3>2. Owners(h) = {o}
      BY <2>1, <2>2, <3>1 DEF BindInv, Unique, Owners
    <3>3. QED BY <2>4, <3>2
  <2>5. QED BY <2>3, <2>4
<1>2. QED BY <1>1, Invariance, PTL

\* The methods of a live object reach a started device only.
THEOREM LiveIsStarted == BindSpec => []OwnedStarted
<1>1. BindInv => OwnedStarted
  BY NoDevice DEF BindInv, BindTypeOK, OwnedStarted, Owners, Phase, LetGo
<1>2. QED BY <1>1, Invariance, PTL

\* Only the destruction of a device that was not to persist ends an
\* interface's persistence.
THEOREM ModeHonoured == BindSpec => DestructionHonoursMode
<1>1. ASSUME BindInv, [BindNext]_allVars
      PROVE  [\A i \in kept \ kept' : \E h \in Handles :
                holds[h] = i /\ holds'[h] = None /\ ~wanted[h]]_allVars
  <2> USE DEF BindInv, BindTypeOK, TypeOK, vars
  <2>1. SUFFICES ASSUME BindNext, NEW i \in kept \ kept'
                 PROVE  \E h \in Handles : holds[h] = i /\ holds'[h] = None /\ ~wanted[h]
    BY <1>1
  <2>2. PICK o \in Objs : delete_device(o)
    BY <2>1 DEF BindNext, construct, New, start_keeps, Keep, start_ok, Start, start_throws,
         move, release, call, Die, Exit, destruct, delete_nothing, free_device, Free
  <2>3. /\ ptr[o] \in Handles /\ ~persist[o] /\ i = holds[ptr[o]]
        /\ holds' = [holds EXCEPT ![ptr[o]] = None]
    BY <2>1, <2>2, <1>1 DEF delete_device, Release, Destroy, Leave
  <2>4. ~wanted[ptr[o]]
    BY <1>1, <2>3, NoDevice DEF Phase
  <2>5. QED BY <1>1, <2>3, <2>4
<1>2. QED BY <1>1, Invariance, PTL DEF BindSpec, DestructionHonoursMode
=============================================================================
