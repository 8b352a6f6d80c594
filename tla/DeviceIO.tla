------------------------------ MODULE DeviceIO ------------------------------
(***************************************************************************)
(* Packet I/O of src/tuntap-unix.c on one device that several threads      *)
(* use: tuntap_read, tuntap_read_tm, tuntap_write, tuntap_write_tm,        *)
(* tuntap_get_readable and tuntap_set_nonblocking.  These calls only read  *)
(* struct device.  A timed call is a select() and then a read() or a       *)
(* write(): between the two other threads run.                             *)
(*                                                                         *)
(* A packet is its length.  A packet that finds the queue of the interface *)
(* full is dropped.                                                        *)
(***************************************************************************)
EXTENDS Integers, Sequences

CONSTANTS Threads,
          Queue,      \* packets the interface holds for the readers
          Room,       \* packets the kernel takes from the writers
          Mtus,       \* the MTUs the interface is given
          Headers,    \* lengths of the link header: 0 for tun, more for tap
          Fionreads,  \* whether the descriptor may support FIONREAD
          Timeouts    \* timeout_ms; a negative one means none

ASSUME QueueAssumption == Queue \in Nat /\ Room \in Nat
ASSUME LengthAssumption == Mtus \subseteq Nat \ {0} /\ Headers \subseteq Nat
ASSUME ArgumentAssumption == Fionreads \subseteq BOOLEAN /\ Timeouts \subseteq Int

VARIABLES header, fionread,  \* what the interface is; they never change
          started,           \* tun_fd is not -1
          nonblock,          \* FIONBIO on tun_fd
          mtu, inq, room,    \* the interface: MTU, waiting packets, room
          pc,                \* the system call each thread is in, or asleep in
          call,              \* its operation, time-out and size of buffer
          asked,             \* the last answer of tuntap_get_readable
          overtaken          \* ghost: another thread took what select saw

device == <<header, fionread, started, nonblock>>
queues == <<mtu, inq, room>>
threads == <<pc, call, asked, overtaken>>
vars == <<device, queues, threads>>

\* No answer of tuntap_get_readable, or an outdated one: the thread reads into
\* a buffer of a size it chose by itself.
NoSize == 0

Ops == {"read", "write"}
Calls == [op : Ops, tm : Int, size : Nat]
NoCall == [op |-> "read", tm |-> -1, size |-> NoSize]

TypeOK == /\ header \in Headers /\ fionread \in Fionreads
          /\ started \in BOOLEAN /\ nonblock \in BOOLEAN
          /\ mtu \in Mtus /\ inq \in Seq(Nat \ {0}) /\ room \in 0..Room
          /\ pc \in [Threads -> Ops \cup {"idle", "select", "sleep"}]
          /\ call \in [Threads -> Calls]
          /\ asked \in [Threads -> Nat]
          /\ overtaken \in [Threads -> BOOLEAN]

Timed(t) == call[t].tm >= 0
Goto(t, step) == pc' = [pc EXCEPT ![t] = step]
Return(t) == Goto(t, "idle")

-----------------------------------------------------------------------------
\* wait_ready_event_or_timeout: no select() for a negative time-out.
FirstStep(op, tm) == IF tm < 0 THEN op ELSE "select"

\* The calls up to their first system call.  On a device that is not started
\* they return 0 and change nothing.
enter(t, op, tm, size) ==
  /\ pc[t] = "idle" /\ started
  /\ call' = [call EXCEPT ![t] = [op |-> op, tm |-> tm, size |-> size]]
  /\ overtaken' = [overtaken EXCEPT ![t] = FALSE]
  /\ Goto(t, FirstStep(op, tm))
  /\ UNCHANGED <<device, queues, asked>>

\* With tm < 0 these are tuntap_read and tuntap_write.
tuntap_read_tm(t, tm) == \E size \in {NoSize, asked[t]} : enter(t, "read", tm, size)
tuntap_write_tm(t, tm) == enter(t, "write", tm, NoSize)

-----------------------------------------------------------------------------
(***************************************************************************)
(* wait_ready_event_or_timeout                                             *)
(***************************************************************************)
Ready(op) == IF op = "read" THEN inq # <<>> ELSE room > 0

select_ready(t) ==
  /\ pc[t] = "select" /\ Ready(call[t].op)
  /\ Goto(t, call[t].op)
  /\ UNCHANGED <<device, queues, call, asked, overtaken>>

try_anyway(t) ==                                 \* mutant of select_times_out
  /\ pc[t] = "select" /\ ~Ready(call[t].op)
  /\ Goto(t, call[t].op)
  /\ UNCHANGED <<device, queues, call, asked, overtaken>>

wait_forever(t) == FALSE                         \* mutant of select_times_out

select_times_out(t) ==
  /\ pc[t] = "select" /\ ~Ready(call[t].op)
  /\ Return(t)
  /\ UNCHANGED <<device, queues, call, asked, overtaken>>

-----------------------------------------------------------------------------
(***************************************************************************)
(* read() and write() on tun_fd.  Whether a call may sleep is settled when *)
(* it finds nothing: FIONBIO does not wake a thread that is asleep.        *)
(***************************************************************************)
In(t, op) == pc[t] = op \/ (pc[t] = "sleep" /\ call[t].op = op)

\* Of the threads about to make the same call, the others may find nothing;
\* and whoever has asked for the size of the next packet has it no more.
Overtake(t, op) ==
  overtaken' = [s \in Threads |-> overtaken[s] \/ (s # t /\ pc[s] = op)]
Outdate == /\ asked' = [s \in Threads |-> NoSize]
           /\ call' = [s \in Threads |-> [call[s] EXCEPT !.size = NoSize]]

\* One packet, cut to the size of the buffer.
read_packet(t) ==
  /\ In(t, "read") /\ inq # <<>>
  /\ inq' = Tail(inq)
  /\ Return(t) /\ Overtake(t, "read") /\ Outdate
  /\ UNCHANGED <<device, mtu, room>>

write_packet(t) ==
  /\ In(t, "write") /\ room > 0
  /\ room' = room - 1
  /\ Return(t) /\ Overtake(t, "write")
  /\ UNCHANGED <<device, mtu, inq, call, asked>>

try_again(t) ==                                  \* mutant of would_block
  pc[t] \in Ops /\ ~Ready(pc[t]) /\ nonblock /\ UNCHANGED vars

wait(t) ==
  /\ pc[t] \in Ops /\ ~Ready(pc[t]) /\ ~nonblock
  /\ Goto(t, "sleep")
  /\ UNCHANGED <<device, queues, call, asked, overtaken>>

\* EAGAIN
would_block(t) ==
  /\ pc[t] \in Ops /\ ~Ready(pc[t]) /\ nonblock
  /\ Return(t)
  /\ UNCHANGED <<device, queues, call, asked, overtaken>>

\* select(), read() or write() returns -1: a signal (EINTR), or the interface
\* is down or gone.
call_fails(t) ==
  /\ pc[t] # "idle"
  /\ Return(t)
  /\ UNCHANGED <<device, queues, call, asked, overtaken>>

-----------------------------------------------------------------------------
\* What FIONREAD answers, or else tuntap_get_mtu: 0 if it is not started.
always_mtu == mtu                                \* mutant of NextLength
NextLength == IF inq = <<>> THEN 0 ELSE Head(inq)
Readable == CASE ~started -> 0
              [] started /\ fionread -> NextLength
              [] started /\ ~fionread -> mtu
tuntap_get_readable(t) ==
  /\ pc[t] = "idle"
  /\ asked' = [asked EXCEPT ![t] = Readable]
  /\ UNCHANGED <<device, queues, pc, call, overtaken>>

tuntap_set_nonblocking(t, set) ==
  /\ pc[t] = "idle" /\ started
  /\ nonblock' = set
  /\ UNCHANGED <<header, fionread, started, queues, threads>>

-----------------------------------------------------------------------------
\* The rest of the system: tuntap_start, the kernel, tuntap_set_mtu.
Start == /\ ~started /\ started' = TRUE
         /\ UNCHANGED <<header, fionread, nonblock, queues, threads>>
Arrive == /\ Len(inq) < Queue
          /\ \E len \in 1..(mtu + header) : inq' = Append(inq, len)
          /\ UNCHANGED <<device, mtu, room, threads>>
Drain == room < Room /\ room' = room + 1 /\ UNCHANGED <<device, mtu, inq, threads>>
SetMtu == mtu' \in Mtus \ {mtu} /\ UNCHANGED <<device, inq, room, threads>>

Init == /\ header \in Headers /\ fionread \in Fionreads /\ mtu \in Mtus
        /\ started = FALSE /\ nonblock = FALSE /\ inq = <<>> /\ room = Room
        /\ pc = [t \in Threads |-> "idle"]
        /\ call = [t \in Threads |-> NoCall]
        /\ asked = [t \in Threads |-> NoSize]
        /\ overtaken = [t \in Threads |-> FALSE]

Progress(t) == \/ select_ready(t) \/ select_times_out(t)
               \/ read_packet(t) \/ write_packet(t) \/ wait(t) \/ would_block(t)
Thread(t) == \/ Progress(t) \/ call_fails(t) \/ tuntap_get_readable(t)
             \/ \E tm \in Timeouts : tuntap_read_tm(t, tm) \/ tuntap_write_tm(t, tm)
             \/ \E set \in BOOLEAN : tuntap_set_nonblocking(t, set)
System == Start \/ Arrive \/ Drain \/ SetMtu
Next == (\E t \in Threads : Thread(t)) \/ System

\* The scheduler runs a thread whose system call can return, and a time-out
\* passes; nothing is said of packets that come or go, of signals, or of the
\* calls that threads make.
Fairness == \A t \in Threads : WF_vars(Progress(t))
Spec == Init /\ [][Next]_vars /\ Fairness

-----------------------------------------------------------------------------
\* A timed call that got past select() finds its descriptor ready, whatever
\* the other threads read and write in between, unless one of them took the
\* packet or the room that select() had seen: no other call with a time-out
\* sleeps in read() or write() (tuntap_read_tm, tuntap_write_tm).
StuckOnlyIfOvertaken ==
  \A t \in Threads :
    Timed(t) /\ (pc[t] = "sleep" \/ (pc[t] \in Ops /\ ~Ready(pc[t]))) => overtaken[t]

\* A buffer of the size that tuntap_get_readable gave fits the packet that the
\* read is about to take, unless another packet was read since.
Fits(t) == In(t, "read") /\ call[t].size # NoSize /\ inq # <<>>
             => call[t].size >= Head(inq)

\* Where FIONREAD works, such a buffer always fits, whatever arrives and
\* whatever MTU is set between the two calls (tuntap_get_readable).
SizedReadWhole == fionread => \A t \in Threads : Fits(t)

\* A call with a time-out ends, packets or not, except that a thread which
\* was overtaken between select() and read() on a blocking descriptor can
\* sleep on (wait_ready_event_or_timeout, tuntap_read_tm, tuntap_write_tm).
TimedCallEnds ==
  \A t \in Threads :
    (pc[t] # "idle" /\ Timed(t)) ~> (pc[t] = "idle" \/ (overtaken[t] /\ pc[t] = "sleep"))

\* Once tuntap_set_nonblocking holds for good every call ends, whatever
\* becomes of the packets, except one that fell asleep before that and never
\* gets a packet: tuntap_set_nonblocking does not wake it.
NonblockingEnds ==
  <>[]nonblock => \A t \in Threads :
    []<>(pc[t] = "idle") \/ <>[](pc[t] = "sleep")
=============================================================================
