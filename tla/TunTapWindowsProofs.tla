------------------------- MODULE TunTapWindowsProofs ------------------------
(***************************************************************************)
(* The safety properties of TunTapWindows for any number of handles,       *)
(* threads and adapters.  An operation that is pending while its handle's  *)
(* file is signalled, or while its thread has been woken, was crossed.     *)
(***************************************************************************)
EXTENDS TunTapWindows, TLAPS

\* A start under way holds nothing and has only adapters that match.
Starting == \A h \in Handles :
  step[h] = "open" => ~Started(h) /\ ids[h] \subseteq Matching(asked[h])
\* What a thread in a call, and a thread out of one, have.
Calling == \A t \in Threads :
  IF pc[t] = "idle" THEN op[t] = "none" /\ on[t] = None
  ELSE op[t] # "none" /\ on[t] \in Handles
SignalledByAnother == \A t \in Threads :
  op[t] = "pending" /\ (on[t] \in signalled \/ pc[t] = "woken") => crossed[t]

DeviceInv == Starting /\ AdapterMine
CallInv == Calling /\ SignalledByAnother
Inv == TypeOK /\ DeviceInv /\ CallInv

-----------------------------------------------------------------------------
\* The first state satisfies the invariant.
LEMMA InitInv == Init => Inv
  BY HandlesAssumption
     DEF Init, Inv, TypeOK, DeviceInv, CallInv, Starting, AdapterMine, Started, Calling,
         SignalledByAnother

-----------------------------------------------------------------------------
(***************************************************************************)
(* Type correctness.                                                       *)
(***************************************************************************)
LEMMA DeviceType == ASSUME TypeOK, NEW h \in Handles, Device(h) PROVE TypeOK'
<1> USE DEF TypeOK, io, devices
<1>1. CASE tuntap_init(h)
  BY <1>1 DEF tuntap_init
<1>2. ASSUME NEW id \in Units, tuntap_start(h, id) PROVE TypeOK'
  BY <1>2 DEF tuntap_start, Matching
<1>3. CASE create_file(h)
  BY <1>3 DEF create_file
<1>4. CASE create_file_fails(h)
  BY <1>4 DEF create_file_fails
<1>5. CASE no_adapter(h)
  BY <1>5 DEF no_adapter
<1>6. CASE tuntap_release(h)
  BY <1>6 DEF tuntap_release
<1>7. CASE device_io_control(h)
  BY <1>7 DEF device_io_control, Signal, CrossedOn
<1>8. QED BY <1>1, <1>2, <1>3, <1>4, <1>5, <1>6, <1>7 DEF Device

\* A call that returns keeps the types.
LEMMA ReturnType ==
  ASSUME TypeOK, Calling, NEW t \in Threads, Return(t), pc[t] # "idle" PROVE TypeOK'
<1>1. on[t] \in Handles
  BY DEF Calling
<1>2. late' \subseteq Threads \X Handles
  BY <1>1 DEF Return, TypeOK
<1>3. QED BY <1>2 DEF Return, TypeOK, devices

\* So does every step of a call.
LEMMA CallType == ASSUME TypeOK, Calling, NEW t \in Threads, Call(t) PROVE TypeOK'
<1>1. ASSUME NEW h \in Handles, NEW tm \in BOOLEAN, issue(t, h, tm) PROVE TypeOK'
  BY <1>1 DEF issue, CrossedOn, TypeOK, devices
<1>2. CASE result(t)
  <2>1. CASE Return(t)
    BY <1>2, <2>1, ReturnType DEF result
  <2>2. CASE ~Return(t)
    BY <1>2, <2>2 DEF result, TypeOK, devices
  <2>3. QED BY <2>1, <2>2
<1>3. CASE wait_signalled(t)
  BY <1>3 DEF wait_signalled, TypeOK, devices
<1>4. CASE woken(t) \/ times_out(t)
  BY <1>4, ReturnType DEF woken, times_out
<1>5. QED BY <1>1, <1>2, <1>3, <1>4 DEF Call, Progress

\* So does every step of the driver.
LEMMA DriverType == ASSUME TypeOK, Calling, Driver PROVE TypeOK'
<1> USE DEF TypeOK, devices, Signal, CrossedOn
<1>1. ASSUME NEW t \in Threads, complete(t) PROVE TypeOK'
  BY <1>1 DEF complete, Calling
<1>2. ASSUME NEW t \in Threads, NEW h \in Handles, complete_late(t, h) PROVE TypeOK'
  BY <1>2 DEF complete_late
<1>3. QED BY <1>1, <1>2 DEF Driver

-----------------------------------------------------------------------------
(***************************************************************************)
(* The starts.                                                             *)
(***************************************************************************)
LEMMA DeviceStep == ASSUME Inv, NEW h \in Handles, Device(h) PROVE DeviceInv'
<1> USE DEF Inv, TypeOK, DeviceInv, Starting, AdapterMine, Started
<1>1. CASE tuntap_init(h)
  BY <1>1 DEF tuntap_init
<1>2. ASSUME NEW id \in Units, tuntap_start(h, id) PROVE DeviceInv'
  BY <1>2 DEF tuntap_start
<1>3. CASE create_file(h)
  <2>1. PICK a \in Adapters : /\ a \in ids[h] /\ \A g \in Handles : tun_fd[g] # a
                              /\ tun_fd' = [tun_fd EXCEPT ![h] = a]
    BY <1>3 DEF create_file, IsNext, Shut
  <2>2. asked[h] = TUNTAP_ID_ANY \/ a = asked[h]
    BY <1>3, <2>1 DEF create_file, Matching
  <2>3. asked' = asked /\ step' = [step EXCEPT ![h] = "idle"] /\ ids' = [ids EXCEPT ![h] = {}]
    BY <1>3 DEF create_file
  <2>4. AdapterMine'
    BY <2>1, <2>2, <2>3, AdaptersAssumption
  <2>5. Starting'
    BY <2>1, <2>3
  <2>6. QED BY <2>4, <2>5
<1>4. CASE create_file_fails(h)
  BY <1>4 DEF create_file_fails
<1>5. CASE no_adapter(h)
  BY <1>5 DEF no_adapter
<1>6. CASE tuntap_release(h)
  BY <1>6 DEF tuntap_release
<1>7. CASE device_io_control(h)
  BY <1>7 DEF device_io_control, devices
<1>8. QED BY <1>1, <1>2, <1>3, <1>4, <1>5, <1>6, <1>7 DEF Device

\* What is known of the devices depends on nothing else.
LEMMA DevicesKept == ASSUME DeviceInv, UNCHANGED devices PROVE DeviceInv'
  BY DEF devices, DeviceInv, Starting, AdapterMine, Started

\* Calls and the driver leave the devices alone.
LEMMA OthersKeepDevices ==
  ASSUME (\E t \in Threads : Call(t)) \/ Driver PROVE UNCHANGED devices
  BY DEF Call, Progress, issue, result, wait_signalled, woken, times_out, Return, Driver,
         complete, complete_late

-----------------------------------------------------------------------------
(***************************************************************************)
(* The overlapped operations.                                              *)
(***************************************************************************)
LEMMA CallDeviceStep == ASSUME Inv, NEW h \in Handles, Device(h) PROVE CallInv'
<1> USE DEF Inv, TypeOK, CallInv, Calling, SignalledByAnother
<1>1. CASE device_io_control(h)
  BY <1>1 DEF device_io_control, Signal, CrossedOn
<1>2. CASE create_file(h) \/ tuntap_release(h)
  BY <1>2 DEF create_file, tuntap_release
<1>3. CASE ~device_io_control(h) /\ ~create_file(h) /\ ~tuntap_release(h)
  BY <1>3 DEF Device, tuntap_init, tuntap_start, create_file_fails, no_adapter, io
<1>4. QED BY <1>1, <1>2, <1>3

\* A call that returns leaves nothing pending that was not crossed.
LEMMA ReturnStep == ASSUME Inv, NEW t \in Threads, Return(t) PROVE CallInv'
  BY DEF Inv, TypeOK, CallInv, Calling, SignalledByAnother, Return

\* Every step of a call crosses the operations that it signals or outlives.
LEMMA CallStep == ASSUME Inv, NEW t \in Threads, Call(t) PROVE CallInv'
<1> USE DEF Inv, TypeOK, CallInv, Calling, SignalledByAnother
<1>1. ASSUME NEW h \in Handles, NEW tm \in BOOLEAN, issue(t, h, tm) PROVE CallInv'
  <2>1. /\ op' = [op EXCEPT ![t] = "pending"] /\ on' = [on EXCEPT ![t] = h]
        /\ pc' = [pc EXCEPT ![t] = "result"] /\ signalled' = signalled \ {h}
        /\ crossed' = [CrossedOn(h, Threads \ {t}) EXCEPT ![t] = FALSE]
    BY <1>1 DEF issue
  <2>2. \A s \in Threads \ {t} : crossed[s] => crossed'[s]
    BY <2>1 DEF CrossedOn
  <2>3. QED BY <2>1, <2>2
<1>2. CASE result(t)
  <2>1. CASE Return(t)
    BY <2>1, ReturnStep
  <2>2. CASE ~Return(t)
    BY <1>2, <2>2 DEF result
  <2>3. QED BY <2>1, <2>2
<1>3. CASE wait_signalled(t)
  BY <1>3 DEF wait_signalled
<1>4. CASE woken(t) \/ times_out(t)
  BY <1>4, ReturnStep DEF woken, times_out
<1>5. QED BY <1>1, <1>2, <1>3, <1>4 DEF Call, Progress

\* So does every completion.
LEMMA DriverStep == ASSUME Inv, Driver PROVE CallInv'
<1> USE DEF Inv, TypeOK, CallInv, Calling, SignalledByAnother, Signal, CrossedOn
<1>1. ASSUME NEW t \in Threads, complete(t) PROVE CallInv'
  BY <1>1 DEF complete
<1>2. ASSUME NEW t \in Threads, NEW h \in Handles, complete_late(t, h) PROVE CallInv'
  BY <1>2 DEF complete_late
<1>3. QED BY <1>1, <1>2 DEF Driver

\* Every step keeps the invariant.
LEMMA NextInv == Inv /\ [Next]_vars => Inv'
<1> SUFFICES ASSUME Inv, [Next]_vars PROVE Inv'
  OBVIOUS
<1>1. CASE UNCHANGED vars
  BY <1>1 DEF vars, devices, io, Inv, TypeOK, DeviceInv, CallInv, Starting, AdapterMine,
     Started, Calling, SignalledByAnother
<1>2. ASSUME NEW h \in Handles, Device(h) PROVE Inv'
  BY <1>2, DeviceType, DeviceStep, CallDeviceStep DEF Inv
<1>3. ASSUME NEW t \in Threads, Call(t) PROVE Inv'
  BY <1>3, CallType, OthersKeepDevices, DevicesKept, CallStep DEF Inv, CallInv
<1>4. CASE Driver
  BY <1>4, DriverType, OthersKeepDevices, DevicesKept, DriverStep DEF Inv, CallInv
<1>5. QED BY <1>1, <1>2, <1>3, <1>4 DEF Next

\* The inductive invariant holds in every reachable state.
THEOREM Invariance == Spec => []Inv
<1>1. QED BY InitInv, NextInv, PTL DEF Spec

-----------------------------------------------------------------------------
\* Every variable keeps its type.
THEOREM TypeCorrectness == Spec => []TypeOK
<1>1. Inv => TypeOK
  BY DEF Inv
<1>2. QED BY <1>1, Invariance, PTL

\* Whatever the races of the starts, a started device has an adapter of its
\* own, of the number that was asked for.
THEOREM AdapterIsMine == Spec => []AdapterMine
<1>1. Inv => AdapterMine
  BY DEF Inv, DeviceInv
<1>2. QED BY <1>1, Invariance, PTL

\* A call abandons its operation only after a time-out or when another
\* operation crossed it on the device.
THEOREM AbandonedOnlyIfCrossed == Spec => LateOnlyIfCrossedOrExpired
<1>1. ASSUME Inv, [Next]_vars
      PROVE  [\A t \in Threads : op[t] = "pending" /\ op'[t] = "none"
                => crossed[t] \/ (pc[t] = "wait" /\ timed[t])]_vars
  <2> USE DEF Inv, TypeOK, CallInv
  <2>1. SUFFICES ASSUME Next, NEW t \in Threads, op[t] = "pending", op'[t] = "none"
                 PROVE  crossed[t] \/ (pc[t] = "wait" /\ timed[t])
    BY <1>1
  <2>2. PICK s \in Threads : Call(s)
    BY <1>1, <2>1 DEF Next, Device, tuntap_init, tuntap_start, create_file, create_file_fails,
       no_adapter, tuntap_release, device_io_control, io, Driver, complete, complete_late
  <2>3. s = t /\ (woken(t) \/ times_out(t))
    BY <1>1, <2>1, <2>2 DEF Call, Progress, issue, result, wait_signalled, woken, times_out,
       Return
  <2>4. QED BY <1>1, <2>1, <2>3 DEF woken, times_out, SignalledByAnother
<1>2. QED BY <1>1, Invariance, PTL DEF Spec, LateOnlyIfCrossedOrExpired
=============================================================================
