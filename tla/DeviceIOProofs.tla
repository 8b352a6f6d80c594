--------------------------- MODULE DeviceIOProofs ---------------------------
(***************************************************************************)
(* The safety properties of DeviceIO for any number of threads, any queue  *)
(* lengths, packets and time-outs.  Two facts make them inductive: a       *)
(* thread is inside the system call of its own operation, and where        *)
(* FIONREAD works an answer that no read has outdated is the length of the *)
(* packet at the head of the queue.                                        *)
(***************************************************************************)
EXTENDS DeviceIO, TLAPS

InOwnCall == \A t \in Threads : pc[t] \in Ops => pc[t] = call[t].op

HeadIs(size) == size # NoSize => inq # <<>> /\ size = Head(inq)
AnswersHold ==
  fionread => \A t \in Threads :
    HeadIs(asked[t]) /\ (pc[t] # "idle" => HeadIs(call[t].size))

Inv == TypeOK /\ InOwnCall /\ StuckOnlyIfOvertaken /\ AnswersHold

-----------------------------------------------------------------------------
\* A packet that arrives leaves the head of the queue as it is.
LEMMA Arrival == ASSUME NEW q \in Seq(Nat \ {0}), NEW len \in Nat \ {0}
                 PROVE  /\ Append(q, len) # <<>>
                        /\ q # <<>> => Head(Append(q, len)) = Head(q)
OBVIOUS

\* The first state has no call and no answer.
LEMMA InitInv == Init => Inv
<1> SUFFICES ASSUME Init PROVE Inv
  OBVIOUS
<1> USE DEF Init, Ops, Calls, NoCall, NoSize
<1>1. TypeOK
  <2>1. NoCall \in Calls
    OBVIOUS
  <2>2. call \in [Threads -> Calls]
    BY <2>1
  <2>3. inq \in Seq(Nat \ {0}) /\ room \in 0..Room
    BY QueueAssumption
  <2>4. QED BY <2>2, <2>3 DEF TypeOK
<1>2. InOwnCall /\ StuckOnlyIfOvertaken /\ AnswersHold
  BY DEF InOwnCall, StuckOnlyIfOvertaken, AnswersHold, HeadIs
<1>3. QED BY <1>1, <1>2 DEF Inv

\* Every step keeps the types (all actions of DeviceIO).
LEMMA TypeStep == ASSUME TypeOK, [Next]_vars PROVE TypeOK'
<1> USE DEF TypeOK, Calls, Ops, NoSize, device, queues, threads, Goto, Return
<1>1. ASSUME NEW t \in Threads, Progress(t) PROVE TypeOK'
  <2>1. CASE select_ready(t) \/ select_times_out(t) \/ wait(t) \/ would_block(t)
    BY <2>1 DEF select_ready, select_times_out, wait, would_block
  <2>2. CASE read_packet(t)
    <3>1. inq' \in Seq(Nat \ {0})
      BY <2>2 DEF read_packet
    <3>2. call' \in [Threads -> Calls] /\ asked' \in [Threads -> Nat]
      BY <2>2 DEF read_packet, Outdate
    <3>3. overtaken' \in [Threads -> BOOLEAN]
      BY <2>2 DEF read_packet, Overtake
    <3>4. QED BY <2>2, <3>1, <3>2, <3>3 DEF read_packet
  <2>3. CASE write_packet(t)
    BY <2>3, QueueAssumption DEF write_packet, Overtake
  <2>4. QED BY <1>1, <2>1, <2>2, <2>3 DEF Progress
<1>2. ASSUME NEW t \in Threads, call_fails(t) PROVE TypeOK'
  BY <1>2 DEF call_fails
<1>3. ASSUME NEW t \in Threads, tuntap_get_readable(t) PROVE TypeOK'
  <2>1. NextLength \in Nat
    BY DEF NextLength
  <2>2. mtu \in Nat
    BY LengthAssumption
  <2>3. Readable \in Nat
    BY <2>1, <2>2 DEF Readable
  <2>4. QED BY <1>3, <2>3 DEF tuntap_get_readable
<1>4. ASSUME NEW t \in Threads, NEW op \in Ops, NEW tm \in Timeouts, NEW size \in Nat,
             enter(t, op, tm, size)
      PROVE  TypeOK'
  BY <1>4, ArgumentAssumption DEF enter, FirstStep
<1>5. ASSUME NEW t \in Threads, NEW tm \in Timeouts,
             tuntap_read_tm(t, tm) \/ tuntap_write_tm(t, tm)
      PROVE  TypeOK'
  <2>1. asked[t] \in Nat
    OBVIOUS
  <2>2. QED BY <1>4, <1>5, <2>1 DEF tuntap_read_tm, tuntap_write_tm
<1>6. ASSUME NEW t \in Threads, NEW set \in BOOLEAN, tuntap_set_nonblocking(t, set)
      PROVE  TypeOK'
  BY <1>6 DEF tuntap_set_nonblocking
<1>7. CASE System
  <2>1. CASE Start
    BY <2>1 DEF Start
  <2>2. CASE Arrive
    BY <2>2, LengthAssumption DEF Arrive
  <2>3. CASE Drain
    BY <2>3, QueueAssumption DEF Drain
  <2>4. CASE SetMtu
    BY <2>4 DEF SetMtu
  <2>5. QED BY <1>7, <2>1, <2>2, <2>3, <2>4 DEF System
<1>8. CASE UNCHANGED vars
  BY <1>8 DEF vars
<1>9. QED BY <1>1, <1>2, <1>3, <1>5, <1>6, <1>7, <1>8 DEF Next, Thread

\* A thread enters the system call of its operation and no other.
LEMMA OwnCallStep == ASSUME Inv, [Next]_vars PROVE InOwnCall'
<1> USE DEF Inv, TypeOK, Calls, Ops, InOwnCall, device, queues, threads, Goto, Return, In
<1>1. ASSUME NEW t \in Threads, Progress(t) \/ call_fails(t) PROVE InOwnCall'
  <2>1. CASE read_packet(t)
    BY <2>1 DEF read_packet, Outdate
  <2>2. QED BY <1>1, <2>1 DEF Progress, select_ready, select_times_out, write_packet,
               wait, would_block, call_fails
<1>2. ASSUME NEW t \in Threads, NEW op \in Ops, NEW tm \in Timeouts, NEW size \in Nat,
             enter(t, op, tm, size)
      PROVE  InOwnCall'
  BY <1>2, ArgumentAssumption DEF enter, FirstStep
<1>3. ASSUME NEW t \in Threads, NEW tm \in Timeouts,
             tuntap_read_tm(t, tm) \/ tuntap_write_tm(t, tm)
      PROVE  InOwnCall'
  <2>1. asked[t] \in Nat /\ NoSize \in Nat
    BY DEF NoSize
  <2>2. QED BY <1>2, <1>3, <2>1 DEF tuntap_read_tm, tuntap_write_tm
<1>4. QED BY <1>1, <1>3 DEF Next, Thread, System, vars, tuntap_get_readable,
             tuntap_set_nonblocking, Start, Arrive, Drain, SetMtu

\* What select() has seen is only taken by a thread that marks the others.
LEMMA StuckStep == ASSUME Inv, [Next]_vars PROVE StuckOnlyIfOvertaken'
<1> USE DEF Inv, TypeOK, Calls, Ops, InOwnCall, StuckOnlyIfOvertaken, Timed, Ready,
            device, queues, threads, Goto, Return, In
<1>1. ASSUME NEW t \in Threads, Progress(t) \/ call_fails(t) PROVE StuckOnlyIfOvertaken'
  <2>1. CASE read_packet(t)
    BY <2>1 DEF read_packet, Outdate, Overtake
  <2>2. CASE write_packet(t)
    BY <2>2 DEF write_packet, Overtake
  <2>3. CASE select_ready(t)
    BY <2>3 DEF select_ready
  <2>4. QED BY <1>1, <2>1, <2>2, <2>3 DEF Progress, select_times_out, wait, would_block, call_fails
<1>2. ASSUME NEW t \in Threads, NEW op \in Ops, NEW tm \in Timeouts, NEW size \in Nat,
             enter(t, op, tm, size)
      PROVE  StuckOnlyIfOvertaken'
  BY <1>2, ArgumentAssumption DEF enter, FirstStep
<1>3. ASSUME NEW t \in Threads, NEW tm \in Timeouts,
             tuntap_read_tm(t, tm) \/ tuntap_write_tm(t, tm)
      PROVE  StuckOnlyIfOvertaken'
  <2>1. asked[t] \in Nat /\ NoSize \in Nat
    BY DEF NoSize
  <2>2. QED BY <1>2, <1>3, <2>1 DEF tuntap_read_tm, tuntap_write_tm
<1>4. CASE Arrive
  <2>1. PICK len \in Nat \ {0} : inq' = Append(inq, len)
    BY <1>4, LengthAssumption DEF Arrive
  <2>2. inq' # <<>>
    BY <2>1, Arrival
  <2>3. QED BY <1>4, <2>2 DEF Arrive
<1>5. CASE Drain
  BY <1>5, QueueAssumption DEF Drain
<1>6. QED BY <1>1, <1>3, <1>4, <1>5 DEF Next, Thread, System, vars, tuntap_get_readable,
             tuntap_set_nonblocking, Start, SetMtu

\* Arrivals go to the tail of the queue; a read outdates every answer.
LEMMA AnswersStep == ASSUME Inv, [Next]_vars PROVE AnswersHold'
<1> USE DEF Inv, TypeOK, Calls, Ops, AnswersHold, HeadIs, NoSize, device, queues, threads,
            Goto, Return, In
<1>1. ASSUME NEW t \in Threads, Progress(t) \/ call_fails(t) PROVE AnswersHold'
  <2>1. CASE read_packet(t)
    BY <2>1 DEF read_packet, Outdate
  <2>2. QED BY <1>1, <2>1 DEF Progress, select_ready, select_times_out, write_packet,
               wait, would_block, call_fails
<1>2. ASSUME NEW t \in Threads, tuntap_get_readable(t) PROVE AnswersHold'
  BY <1>2 DEF tuntap_get_readable, Readable, NextLength
<1>3. ASSUME NEW t \in Threads, NEW tm \in Timeouts,
             tuntap_read_tm(t, tm) \/ tuntap_write_tm(t, tm)
      PROVE  AnswersHold'
  <2>1. PICK op \in Ops, size \in {NoSize, asked[t]} : enter(t, op, tm, size)
    BY <1>3 DEF tuntap_read_tm, tuntap_write_tm
  <2>2. fionread => HeadIs(size)
    OBVIOUS
  <2>3. call'[t].size = size /\ \A s \in Threads \ {t} : call'[s] = call[s] /\ pc'[s] = pc[s]
    BY <2>1 DEF enter
  <2>4. QED BY <2>1, <2>2, <2>3 DEF enter
<1>4. CASE Arrive
  <2>1. PICK len \in Nat \ {0} : inq' = Append(inq, len)
    BY <1>4, LengthAssumption DEF Arrive
  <2>2. inq # <<>> => inq' # <<>> /\ Head(inq') = Head(inq)
    BY <2>1, Arrival
  <2>3. QED BY <1>4, <2>2 DEF Arrive
<1>5. QED BY <1>1, <1>2, <1>3, <1>4 DEF Next, Thread, System, vars,
             tuntap_set_nonblocking, Start, Drain, SetMtu

\* The inductive invariant of DeviceIO.
THEOREM Invariance == Spec => []Inv
<1>1. ASSUME Inv, [Next]_vars PROVE Inv'
  BY <1>1, TypeStep, OwnCallStep, StuckStep, AnswersStep DEF Inv
<1>2. QED BY InitInv, <1>1, PTL DEF Spec

\* A timed call waits in read() or write() only if it was overtaken
\* (tuntap_read_tm, tuntap_write_tm).
THEOREM StuckIsOvertaken == Spec => []StuckOnlyIfOvertaken
<1>1. Inv => StuckOnlyIfOvertaken
  BY DEF Inv
<1>2. QED BY Invariance, <1>1, PTL

\* A buffer of the size that FIONREAD answered fits (tuntap_get_readable).
THEOREM AnswerFits == Spec => []SizedReadWhole
<1>1. ASSUME Inv PROVE SizedReadWhole
  <2>1. SUFFICES ASSUME fionread, NEW t \in Threads, In(t, "read"), call[t].size # NoSize
                 PROVE  call[t].size >= Head(inq)
    BY DEF SizedReadWhole, Fits
  <2>2. pc[t] # "idle"
    BY <2>1 DEF In
  <2>3. call[t].size = Head(inq) /\ call[t].size \in Nat
    BY <1>1, <2>1, <2>2 DEF Inv, AnswersHold, HeadIs, TypeOK, Calls
  <2>4. QED BY <2>3
<1>2. QED BY Invariance, <1>1, PTL

\* The variables keep their types (every operation of DeviceIO).
THEOREM TypeCorrectness == Spec => []TypeOK
<1>1. Inv => TypeOK
  BY DEF Inv
<1>2. QED BY Invariance, <1>1, PTL
=============================================================================
