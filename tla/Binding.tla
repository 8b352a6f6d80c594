------------------------------- MODULE Binding ------------------------------
(***************************************************************************)
(* The C++ binding (bindings/cpp/tuntap++.cc and .hh) as a client of the   *)
(* library: which object owns which struct device, and which of            *)
(* tuntap_release and tuntap_destroy its deleter calls.  The library is    *)
(* DeviceLifecycle, which TunTapLinux implements; objects are built, moved,*)
(* and destroyed by any number of threads.                                 *)
(***************************************************************************)
EXTENDS DeviceLifecycle, Integers, FiniteSets

CONSTANTS Objs,          \* the tuntap::tuntap objects
          Modes, Ids     \* the arguments that constructors are given
CONSTANT TUNTAP_ID_ANY
ASSUME NoDevice == None \notin Handles
ASSUME IdsAssumption == Ids \subseteq Int /\ TUNTAP_ID_ANY \in Int

VARIABLES ptr,       \* _dev.get()
          persist,   \* _dev's TunTapDestroyer
          pc,        \* how far an object's life has come
          wanted,    \* of a handle: it was to be started with MODE_PERSIST
          released   \* the handles that tuntap::release has let go
bindVars == <<ptr, persist, pc, wanted, released>>
allVars == <<vars, bindVars>>

BindTypeOK == /\ TypeOK
              /\ ptr \in [Objs -> Handles \cup {None}]
              /\ persist \in [Objs -> BOOLEAN]
              /\ pc \in [Objs -> {"none", "start", "live", "delete", "free"}]
              /\ wanted \in [Handles -> BOOLEAN]
              /\ released \in SUBSET Handles

Goto(o, l) == pc' = [pc EXCEPT ![o] = l]

\* The three checks of the constructor, on its arguments.
Refused(mode, id) == \/ ("ETHERNET" \in mode) = ("TUNNEL" \in mode)
                     \/ id < 0 \/ id > TUNTAP_ID_ANY

\* The process dies, by a signal or without unwinding.
Die == /\ Exit
       /\ ptr' = [o \in Objs |-> None] /\ persist' = [o \in Objs |-> FALSE]
       /\ pc' = [o \in Objs |-> "none"]
       /\ wanted' = [h \in Handles |-> FALSE] /\ released' = {}

-----------------------------------------------------------------------------
\* tuntap(int mode, int id), up to its call of tuntap_start: _dev is whole
\* before the checks, so a check that throws runs the deleter.
construct(o, mode, id) ==
  /\ pc[o] = "none"
  /\ persist' = [persist EXCEPT ![o] = "PERSIST" \in mode]
  /\ Goto(o, IF Refused(mode, id) THEN "delete" ELSE "start")
  /\ \/ \E h \in Handles : /\ New(h)
                           /\ ptr' = [ptr EXCEPT ![o] = h]
                           /\ wanted' = [wanted EXCEPT ![h] = "PERSIST" \in mode]
     \/ ptr' = [ptr EXCEPT ![o] = None] /\ UNCHANGED <<vars, wanted>>
  /\ UNCHANGED <<released, broken>>

\* tuntap_start inside the constructor.
start_keeps(o) == /\ pc[o] = "start" /\ ptr[o] # None /\ wanted[ptr[o]]
                  /\ \E i \in Ifs : Keep(i)
                  /\ UNCHANGED <<bindVars, broken>>
start_ok(o) == /\ pc[o] = "start" /\ ptr[o] # None
               /\ \E i \in Ifs : /\ wanted[ptr[o]] => i \in kept
                                 /\ Start(ptr[o], i)
               /\ Goto(o, "live")
               /\ UNCHANGED <<ptr, persist, wanted, released, broken>>
no_throw(o) == /\ pc[o] = "start" /\ ptr[o] # None      \* mutant of start_throws
               /\ Goto(o, "live")
               /\ UNCHANGED <<vars, ptr, persist, wanted, released>>
start_throws(o) == /\ pc[o] = "start" /\ ptr[o] # None
                   /\ Goto(o, "delete")
                   /\ UNCHANGED <<vars, ptr, persist, wanted, released>>

\* tuntap(tuntap &&): the new object's _dev, with a default deleter, is
\* swapped with t's, pointer and deleter.
copy_pointer(o, t) ==                                   \* mutant of move
  /\ pc[o] = "none" /\ pc[t] = "live"
  /\ ptr' = [ptr EXCEPT ![o] = ptr[t]]
  /\ persist' = [persist EXCEPT ![o] = persist[t]]
  /\ Goto(o, "live")
  /\ UNCHANGED <<vars, wanted, released>>
default_deleter(o, t) ==                                \* mutant of move
  /\ pc[o] = "none" /\ pc[t] = "live"
  /\ ptr' = [ptr EXCEPT ![o] = ptr[t], ![t] = None]
  /\ persist' = [persist EXCEPT ![o] = FALSE]
  /\ Goto(o, "live")
  /\ UNCHANGED <<vars, wanted, released>>
move(o, t) ==
  /\ pc[o] = "none" /\ pc[t] = "live"
  /\ ptr' = [ptr EXCEPT ![o] = ptr[t], ![t] = None]
  /\ persist' = [persist EXCEPT ![o] = persist[t], ![t] = FALSE]
  /\ Goto(o, "live")
  /\ UNCHANGED <<vars, wanted, released>>

\* release(): _dev.release(), whose result, the only copy of the pointer, is
\* discarded.
release(o) == /\ pc[o] = "live"
              /\ released' = released \cup ({ptr[o]} \ {None})
              /\ ptr' = [ptr EXCEPT ![o] = None]
              /\ UNCHANGED <<vars, persist, pc, wanted>>

\* Every other method hands the pointer to one function of the library, and
\* throws when that fails; without a device it is a null pointer there, as
\* it is in tuntap_start when tuntap_init had no memory.
call(o) == /\ \/ pc[o] = "live"
              \/ pc[o] = "start"
           /\ ptr[o] = None
           /\ Die /\ UNCHANGED broken

-----------------------------------------------------------------------------
\* ~tuntap, by the end of a scope or by a throw.
destruct(o) == /\ pc[o] = "live" /\ Goto(o, "delete")
               /\ UNCHANGED <<vars, ptr, persist, wanted, released>>

\* ~unique_ptr: TunTapDestroyer::operator(), up to the free of the device.
delete_device(o) ==
  /\ pc[o] = "delete" /\ ptr[o] # None
  /\ IF persist[o] THEN Release(ptr[o]) ELSE Destroy(ptr[o])
  /\ Goto(o, "free")
  /\ UNCHANGED <<ptr, persist, wanted, released, broken>>
delete_nothing(o) == /\ pc[o] = "delete" /\ ptr[o] = None
                     /\ Goto(o, "none")
                     /\ UNCHANGED <<vars, ptr, persist, wanted, released>>
free_device(o) == /\ pc[o] = "free"
                  /\ Free(ptr[o])
                  /\ ptr' = [ptr EXCEPT ![o] = None]
                  /\ Goto(o, "none")
                  /\ UNCHANGED <<persist, wanted, released, broken>>

BindInit == /\ Init
            /\ ptr = [o \in Objs |-> None] /\ persist = [o \in Objs |-> FALSE]
            /\ pc = [o \in Objs |-> "none"]
            /\ wanted = [h \in Handles |-> FALSE] /\ released = {}

BindNext ==
  \/ \E o \in Objs :
       \/ \E mode \in Modes, id \in Ids : construct(o, mode, id)
       \/ start_keeps(o) \/ start_ok(o) \/ start_throws(o)
       \/ \E t \in Objs : move(o, t)
       \/ release(o) \/ call(o)
       \/ destruct(o) \/ delete_device(o) \/ delete_nothing(o) \/ free_device(o)
  \/ Die /\ UNCHANGED broken

BindSpec == BindInit /\ [][BindNext]_allVars

-----------------------------------------------------------------------------
Owners(h) == {o \in Objs : ptr[o] = h}

\* Through every constructor that throws at any point, move, release and
\* destruction, an allocated device has exactly one owner, or it is a
\* started device that release() let go of: none leaks in a throw, and none
\* is destroyed twice (tuntap++.cc:6-30).
OneOwner ==
  \A h \in Handles :
    IF state[h] = "none" \/ h \in released THEN Owners(h) = {}
    ELSE \E o \in Objs : Owners(h) = {o}

\* A method of a live object reaches a device that is started and not being
\* freed, so that the calls of tuntap.c that report success on a device that
\* is not started (tuntap.c:84) are out of its reach.  A device that was let
\* go of stays started: nobody can stop it short of the process's end.
OwnedStarted ==
  \A h \in Handles : h \in released \/ (\E o \in Owners(h) : pc[o] = "live") =>
    state[h] = "idle" /\ holds[h] \in Ifs

\* An interface loses its persistence only to the destruction of an object
\* whose device was started without TUNTAP_MODE_PERSIST, whatever objects
\* that device was moved through.
DestructionHonoursMode ==
  [][\A i \in kept \ kept' : \E h \in Handles :
       holds[h] = i /\ holds'[h] = None /\ ~wanted[h]]_allVars
=============================================================================
