---------------------------- MODULE TunTapWindows ---------------------------
(***************************************************************************)
(* The Windows back-end, src/tuntap-windows.c: a device is one of the      *)
(* TAP adapters that the registry lists, opened for this handle alone, and *)
(* packets move by overlapped operations that several threads start on it. *)
(*                                                                         *)
(* An operation's OVERLAPPED is on the stack of the call and its hEvent is *)
(* NULL, so a call waits for its operation on the file handle: that is     *)
(* signalled by every operation that completes on it, those of             *)
(* DeviceIoControl included, and reset by every one that is started.       *)
(***************************************************************************)
EXTENDS Integers

CONSTANTS Handles, Threads,
          Adapters,       \* numbers of the TAP adapters, in registry order
          Units,          \* the `tun' arguments the clients pass
          TUNTAP_ID_ANY,
          None            \* no adapter, no handle

ASSUME AdaptersAssumption == Adapters \subseteq Nat /\ None \notin Adapters
ASSUME UnitsAssumption == Units \subseteq Int /\ TUNTAP_ID_ANY \in Int \ Adapters
ASSUME HandlesAssumption == None \notin Handles

VARIABLES step,      \* where each handle's tuntap_start is
          asked,     \* its `tun'
          ids,       \* the adapters of `deviceids' from idptr on
          tun_fd,    \* the adapter that the handle has open, or None
          signalled, \* the handles whose file is signalled
          pc,        \* the system call each thread is in
          on,        \* the handle its call is about
          timed,     \* whether it has a time-out
          op,        \* its operation
          crossed,   \* ghost: another operation started or ended meanwhile
          late       \* <<thread, handle>> of operations that outlived a call

devices == <<step, asked, ids, tun_fd>>
io == <<signalled, pc, on, timed, op, crossed, late>>
vars == <<devices, io>>

TypeOK == /\ step \in [Handles -> {"null", "idle", "open"}]
          /\ asked \in [Handles -> Units \cup {TUNTAP_ID_ANY}]
          /\ ids \in [Handles -> SUBSET Adapters]
          /\ tun_fd \in [Handles -> Adapters \cup {None}]
          /\ signalled \subseteq Handles
          /\ pc \in [Threads -> {"idle", "result", "wait", "woken"}]
          /\ on \in [Threads -> Handles \cup {None}]
          /\ timed \in [Threads -> BOOLEAN]
          /\ op \in [Threads -> {"none", "pending", "done"}]
          /\ crossed \in [Threads -> BOOLEAN]
          /\ late \subseteq Threads \X Handles

-----------------------------------------------------------------------------
(***************************************************************************)
(* tuntap_init, tuntap_start, tuntap_release.                              *)
(***************************************************************************)
Started(h) == tun_fd[h] # None

tuntap_init(h) ==
  /\ step[h] = "null"
  /\ step' = [step EXCEPT ![h] = "idle"]
  /\ UNCHANGED <<asked, ids, tun_fd, io>>

\* reg_query: the adapters of that number, or all of them.
take_number(id) == IF id = TUNTAP_ID_ANY THEN Adapters ELSE {id}
                                                 \* mutant of Matching
take_any(id) == Adapters                         \* mutant of Matching
Matching(id) == {a \in Adapters : id = TUNTAP_ID_ANY \/ a = id}

\* tuntap_start up to its loop: reg_query leaves out the adapters whose keys
\* it cannot read.  Only TUNTAP_MODE_ETHERNET gets here; the other modes and
\* a second start are refused without effect.  (Where the registry has no
\* adapter at all reg_query returns NULL and the process dies in the loop.)
tuntap_start(h, id) ==
  /\ step[h] = "idle" /\ ~Started(h)
  /\ \E readable \in SUBSET Matching(id) : ids' = [ids EXCEPT ![h] = readable]
  /\ asked' = [asked EXCEPT ![h] = id]
  /\ step' = [step EXCEPT ![h] = "open"]
  /\ UNCHANGED <<tun_fd, io>>

\* CreateFile of the next adapter, with dwShareMode 0.
IsNext(h, a) == a \in ids[h] /\ \A b \in ids[h] : a <= b
Shut(a) == \A g \in Handles : tun_fd[g] # a
create_file(h) ==
  /\ step[h] = "open"
  /\ \E a \in Adapters : /\ IsNext(h, a) /\ Shut(a)
                         /\ tun_fd' = [tun_fd EXCEPT ![h] = a]
  /\ ids' = [ids EXCEPT ![h] = {}]
  /\ step' = [step EXCEPT ![h] = "idle"]
  /\ signalled' = signalled \ {h}
  /\ UNCHANGED <<asked, pc, on, timed, op, crossed, late>>

\* The adapter is open already, or cannot be opened.
create_file_fails(h) ==
  /\ step[h] = "open"
  /\ \E a \in Adapters : IsNext(h, a) /\ ids' = [ids EXCEPT ![h] = @ \ {a}]
  /\ UNCHANGED <<step, asked, tun_fd, io>>

no_adapter(h) ==
  /\ step[h] = "open" /\ ids[h] = {}
  /\ step' = [step EXCEPT ![h] = "idle"]
  /\ UNCHANGED <<asked, ids, tun_fd, io>>

\* tuntap_destroy does no more on Windows.  The client does not release a
\* device while one of its threads is inside a call on it; the operations that
\* outlived theirs end with the handle.
tuntap_release(h) ==
  /\ step[h] = "idle" /\ \A t \in Threads : on[t] # h
  /\ tun_fd' = [tun_fd EXCEPT ![h] = None]
  /\ step' = [step EXCEPT ![h] = "null"]
  /\ late' = {l \in late : l[2] # h}
  /\ UNCHANGED <<asked, ids, signalled, pc, on, timed, op, crossed>>

-----------------------------------------------------------------------------
(***************************************************************************)
(* tuntap_read, tuntap_read_tm, tuntap_write, tuntap_write_tm.             *)
(***************************************************************************)
CrossedOn(h, others) ==
  [s \in Threads |-> crossed[s] \/ (s \in others /\ on[s] = h)]

\* ReadFile or WriteFile starts an operation.  (Where it fails the call
\* returns at once.)
issue(t, h, tm) ==
  /\ pc[t] = "idle" /\ step[h] = "idle" /\ Started(h)
  /\ op' = [op EXCEPT ![t] = "pending"]
  /\ on' = [on EXCEPT ![t] = h]
  /\ timed' = [timed EXCEPT ![t] = tm]
  /\ signalled' = signalled \ {h}
  /\ crossed' = [CrossedOn(h, Threads \ {t}) EXCEPT ![t] = FALSE]
  /\ pc' = [pc EXCEPT ![t] = "result"]
  /\ UNCHANGED <<devices, late>>

\* The call returns.  An operation that is still pending lives on.
Return(t) ==
  /\ pc' = [pc EXCEPT ![t] = "idle"]
  /\ on' = [on EXCEPT ![t] = None]
  /\ op' = [op EXCEPT ![t] = "none"]
  /\ timed' = [timed EXCEPT ![t] = FALSE]
  /\ crossed' = [crossed EXCEPT ![t] = FALSE]
  /\ late' = IF op[t] = "pending" THEN late \cup {<<t, on[t]>>} ELSE late
  /\ UNCHANGED <<devices, signalled>>

\* GetOverlappedResult and GetOverlappedResultEx look at the OVERLAPPED first,
\* and wait on the file handle if it is pending.
no_wait(t) == pc[t] = "result" /\ Return(t)      \* mutant of result
result(t) ==
  /\ pc[t] = "result"
  /\ \/ op[t] = "done" /\ Return(t)
     \/ /\ op[t] = "pending"
        /\ pc' = [pc EXCEPT ![t] = "wait"]
        /\ UNCHANGED <<devices, signalled, on, timed, op, crossed, late>>

wait_signalled(t) ==
  /\ pc[t] = "wait" /\ on[t] \in signalled
  /\ pc' = [pc EXCEPT ![t] = "woken"]
  /\ UNCHANGED <<devices, signalled, on, timed, op, crossed, late>>

\* Woken, the call returns, whatever its operation does.
woken(t) == pc[t] = "woken" /\ Return(t)

\* wait_completion_or_timeout: the operation is asked to end by CancelIo, and
\* nobody waits until it does.
infinite(t) == FALSE                             \* mutant of times_out
times_out(t) == pc[t] = "wait" /\ timed[t] /\ Return(t)

-----------------------------------------------------------------------------
\* What completes an operation on h: its file is signalled, which releases
\* the threads that wait on it.
Signal(h) ==
  /\ signalled' = signalled \cup {h}
  /\ pc' = [s \in Threads |-> IF on[s] = h /\ pc[s] = "wait" THEN "woken" ELSE pc[s]]

complete(t) ==
  /\ op[t] = "pending"
  /\ op' = [op EXCEPT ![t] = "done"]
  /\ Signal(on[t])
  /\ crossed' = CrossedOn(on[t], Threads \ {t})
  /\ UNCHANGED <<devices, on, timed, late>>

\* An operation that outlived its call, cancelled or not, writes into an
\* OVERLAPPED and a buffer that the call has left.
complete_late(t, h) ==
  /\ <<t, h>> \in late
  /\ late' = late \ {<<t, h>>}
  /\ Signal(h)
  /\ crossed' = CrossedOn(h, Threads)
  /\ UNCHANGED <<devices, on, timed, op>>

\* tuntap_up, tuntap_down, tuntap_get_hwaddr, tuntap_get_mtu and the IPv4 part
\* of tuntap_set_ip by a thread that makes no other call.
device_io_control(h) ==
  /\ step[h] = "idle" /\ Started(h) /\ \E t \in Threads : pc[t] = "idle"
  /\ Signal(h)
  /\ crossed' = CrossedOn(h, Threads)
  /\ UNCHANGED <<devices, on, timed, op, late>>

-----------------------------------------------------------------------------
Init == /\ step = [h \in Handles |-> "null"]
        /\ asked = [h \in Handles |-> TUNTAP_ID_ANY]
        /\ ids = [h \in Handles |-> {}]
        /\ tun_fd = [h \in Handles |-> None]
        /\ signalled = {} /\ late = {}
        /\ pc = [t \in Threads |-> "idle"]
        /\ on = [t \in Threads |-> None]
        /\ timed = [t \in Threads |-> FALSE]
        /\ op = [t \in Threads |-> "none"]
        /\ crossed = [t \in Threads |-> FALSE]

Device(h) == \/ tuntap_init(h) \/ \E id \in Units : tuntap_start(h, id)
             \/ create_file(h) \/ create_file_fails(h) \/ no_adapter(h)
             \/ tuntap_release(h) \/ device_io_control(h)
Progress(t) == result(t) \/ wait_signalled(t) \/ woken(t) \/ times_out(t)
Call(t) == \/ Progress(t)
           \/ \E h \in Handles, tm \in BOOLEAN : issue(t, h, tm)
Driver == \E t \in Threads : complete(t) \/ \E h \in Handles : complete_late(t, h)
Next == \/ \E h \in Handles : Device(h)
        \/ \E t \in Threads : Call(t)
        \/ Driver

\* The scheduler runs a thread whose wait is over, and a time-out passes; the
\* driver need not complete anything.
Fairness == \A t \in Threads : WF_vars(Progress(t))
Spec == Init /\ [][Next]_vars /\ Fairness

-----------------------------------------------------------------------------
\* A started device has an adapter for itself, the one of the number that was
\* asked for, and the races of the starts decide only who gets which
\* (reg_query, tuntap_start).
AdapterMine ==
  \A h \in Handles : Started(h) =>
    /\ asked[h] = TUNTAP_ID_ANY \/ tun_fd[h] = asked[h]
    /\ \A g \in Handles \ {h} : tun_fd[g] # tun_fd[h]

\* An operation outlives its call, and then writes into memory that the call
\* has given back, only if the call had a time-out that passed, or if another
\* operation crossed it on the same device (tuntap_read, tuntap_write,
\* wait_completion_or_timeout).
LateOnlyIfCrossedOrExpired ==
  [][\A t \in Threads : op[t] = "pending" /\ op'[t] = "none"
       => crossed[t] \/ (pc[t] = "wait" /\ timed[t])]_vars

\* A call with a time-out ends whatever the driver and the other threads do
\* (wait_completion_or_timeout).
TimedCallEnds == \A t \in Threads : (pc[t] # "idle" /\ timed[t]) ~> pc[t] = "idle"

-----------------------------------------------------------------------------
\* The comment in wait_completion_or_timeout: it waits until the operation
\* completes or the time-out triggers.  Violated: any other completion on the
\* handle ends the wait, and the call returns as if its operation were done.
WaitsForItsOwn == \A t \in Threads : pc[t] = "woken" => op[t] = "done"
=============================================================================
