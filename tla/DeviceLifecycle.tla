--------------------------- MODULE DeviceLifecycle --------------------------
(***************************************************************************)
(* What tuntap.h promises of devices, without descriptors, names and       *)
(* system calls: a device that tuntap_start has returned 0 for holds one   *)
(* interface, alone, until it is released or destroyed, and an interface   *)
(* that was made persistent stays until the device that holds it is        *)
(* destroyed.  The promise ends with the process, or when a descriptor is  *)
(* closed behind its owner's back (broken).                                *)
(***************************************************************************)
CONSTANTS Handles, Ifs, None
ASSUME NoInterface == None \notin Ifs

VARIABLES state,  \* of a handle: not allocated, in use, being freed
          holds,  \* the interface of each started device
          kept,   \* the persistent interfaces
          broken
vars == <<state, holds, kept, broken>>

TypeOK == /\ state \in [Handles -> {"none", "idle", "closing"}]
          /\ holds \in [Handles -> Ifs \cup {None}]
          /\ kept \in SUBSET Ifs /\ broken \in BOOLEAN

Held(i) == \E h \in Handles : holds[h] = i

-----------------------------------------------------------------------------
\* tuntap_init
New(h) == /\ state[h] = "none"
          /\ state' = [state EXCEPT ![h] = "idle"]
          /\ UNCHANGED <<holds, kept>>

\* Inside a tuntap_start that may still fail.
Keep(i) == ~Held(i) /\ kept' = kept \cup {i} /\ UNCHANGED <<state, holds>>

\* tuntap_start returns 0.
Start(h, i) == /\ state[h] = "idle" /\ holds[h] = None /\ ~Held(i)
               /\ holds' = [holds EXCEPT ![h] = i]
               /\ UNCHANGED <<state, kept>>

\* tuntap_release, and tuntap_destroy: it ends persistence unless it fails.
Leave(h) == /\ state[h] = "idle"
            /\ state' = [state EXCEPT ![h] = "closing"]
            /\ holds' = [holds EXCEPT ![h] = None]
Release(h) == Leave(h) /\ kept' = kept
Destroy(h) == Leave(h) /\ kept' \in {kept, kept \ {holds[h]}}
Free(h) == /\ state[h] = "closing"
           /\ state' = [state EXCEPT ![h] = "none"]
           /\ UNCHANGED <<holds, kept>>

Exit == /\ state' = [h \in Handles |-> "none"]
        /\ holds' = [h \in Handles |-> None]
        /\ kept' = kept

Call == \/ \E h \in Handles : New(h) \/ Release(h) \/ Destroy(h) \/ Free(h)
        \/ \E h \in Handles, i \in Ifs : Start(h, i)
        \/ \E i \in Ifs : Keep(i)

Init == /\ state = [h \in Handles |-> "none"]
        /\ holds = [h \in Handles |-> None]
        /\ kept = {} /\ broken = FALSE
Next == \/ Call /\ ~broken /\ ~broken'
        \/ Exit /\ ~broken'
        \/ broken'
Spec == Init /\ [][Next]_vars

(***************************************************************************)
(* The weaker promise of the systems on which tuntap_destroy finds the     *)
(* interface by its name, and on FreeBSD after it has closed its own       *)
(* descriptor: the persistent interface that goes is one that no other     *)
(* device holds, the destroyed device's or not.                            *)
(***************************************************************************)
HeldByOther(h, i) == \E g \in Handles \ {h} : holds[g] = i
MayUnkeep(h) ==
  kept' = kept \/ \E i \in Ifs : ~HeldByOther(h, i) /\ kept' = kept \ {i}
LeaveByName(h) == Leave(h) /\ MayUnkeep(h)
\* FreeBSD's destroy, once the device has let go.
Unkeep(h) == state[h] = "closing" /\ UNCHANGED <<state, holds>> /\ MayUnkeep(h)

CallByName == \/ \E h \in Handles : New(h) \/ LeaveByName(h) \/ Unkeep(h) \/ Free(h)
              \/ \E h \in Handles, i \in Ifs : Start(h, i)
              \/ \E i \in Ifs : Keep(i)
NextByName == \/ ~broken /\ ~broken' /\ CallByName
              \/ Exit /\ ~broken'
              \/ broken'
SpecByName == Init /\ [][NextByName]_vars
=============================================================================
