------------------------------ MODULE MsgQueue ------------------------------
(***************************************************************************)
(* The data path of one message queue of mw/os_pthread/os_pthread_msg_q.c: *)
(* x_msg_q_send, x_msg_q_receive, x_msg_q_receive_timeout, x_msg_q_flush.  *)
(*                                                                         *)
(* The queue is a ring of ui2_msg_count + 1 slots with a read and a write  *)
(* pointer; read = write means empty, so one slot always stays free.  All  *)
(* four operations work under the queue's mutex, which each holds from its *)
(* start to its end except while it sleeps in pthread_cond_wait: what one  *)
(* does between two sleeps is one action.                                  *)
(*                                                                         *)
(* A pointer is a slot number 0..ui2_msg_count; `end' is slot number       *)
(* ui2_msg_count + 1.  A message is what the properties tell apart: a      *)
(* ticket that names its payload, its length, and whether the first word   *)
(* of the payload is zero.                                                 *)
(***************************************************************************)
EXTENDS Integers, Sequences

CONSTANTS
  Senders, Receivers,  \* the threads that send, and that receive or flush
  ui2_msg_count,       \* the capacity given to x_msg_q_create
  z_maxsize,           \* the largest message, given to x_msg_q_create
  BufSizes,            \* the receive buffer sizes callers pass in *pz_size
  SizeofSIZE_T,        \* 8 in the default (LP64) build, 4 on ILP32
  MaxSends             \* bound: how many sends are accepted in a run

ASSUME MsgQueueAssumption ==
  /\ ui2_msg_count \in Nat \ {0}     \* 0 is OSR_INV_ARG
  /\ z_maxsize \in Nat \ {0}         \* likewise
  /\ BufSizes \subseteq Nat \ {0}    \* *pz_size == 0 is OSR_INV_ARG
  /\ SizeofSIZE_T \in {4, 8}
  /\ MaxSends \in Nat

Threads == Senders \cup Receivers

\* What a sender passes: a length (0 is OSR_INV_ARG, more than z_maxsize is
\* OSR_TOO_BIG) and `lead', 1 when the first payload word is not zero.
Request == [len : 1 .. z_maxsize + 1, lead : {0, 1}]

\* The payload as the slot keeps it: ticket and length name it.
Message == [tick : 0 .. MaxSends, len : 0 .. z_maxsize, lead : {0, 1}]
NoMessage == [tick |-> 0, len |-> 0, lead |-> 0]

\* A slot: the payload, and the SIZE_T at the head of the slot as its low and
\* its high 32 bits.
Slot == [msg : Message, lo : 0 .. z_maxsize, hi : {0, 1}]
FreshSlot == [msg |-> NoMessage, lo |-> 0, hi |-> 0]

\* The arguments of a blocked receive, and what a receive handed over: the
\* payload, the size stored in *pz_size, and the buffer size found there.
Call == [timed : BOOLEAN, size : BufSizes]
NoCall == [timed |-> FALSE, size |-> 0]
Receipt == [msg : Message, size : Nat, buf : Nat]
NoReceipt == [msg |-> NoMessage, size |-> 0, buf |-> 0]

VARIABLES
  slot,    \* slot[i]: the i-th slot between start and end
  read,    \* the slot the next receive takes
  write,   \* the slot the next send fills
  pc,      \* pc[t]: "idle", "asleep" in cond_wait, or "woken" from it
  call,    \* call[t]: the arguments of t's blocked receive
  got,     \* got[t]: what t's last successful receive handed over
  ret,     \* ret[t]: what t's last call returned
  sends    \* how many sends were accepted: the ticket of the last one

vars == <<slot, read, write, pc, call, got, ret, sends>>

-----------------------------------------------------------------------------
\* Pointer steps: += message_size, and back to start at end.
Step(p) == IF p + 1 = ui2_msg_count + 1 THEN 0 ELSE p + 1

Empty == read = write

\* *(SIZE_T *)write = z_size, then memcpy(write + 4, ...).  With an 8-byte
\* SIZE_T the payload's first word lands on the upper half of the size.
Fill(m) ==
  [msg |-> m, lo |-> m.len, hi |-> IF SizeofSIZE_T > 4 THEN m.lead ELSE 0]

\* Mutant of ReadSize: the stored SIZE_T is taken whatever the buffer's size; a
\* word in its upper half makes it larger than any buffer.
ReadSizeUnclamped(s, bufsize) == s.lo + s.hi * (bufsize + 1)

\* z_size as the receiver computes it: the stored SIZE_T, cut down to the
\* caller's buffer.
ReadSize(s, bufsize) ==
  IF s.hi > 0 \/ s.lo > bufsize THEN bufsize ELSE s.lo

\* pthread_cond_broadcast(&write_cond): every sleeper will look again.
Broadcast ==
  pc' = [t \in Threads |-> IF pc[t] = "asleep" THEN "woken" ELSE pc[t]]

Returns(t, code) == ret' = [ret EXCEPT ![t] = code]

-----------------------------------------------------------------------------
Init ==
  /\ slot = [i \in 0 .. ui2_msg_count |-> FreshSlot]
  /\ read = 0
  /\ write = 0
  /\ pc = [t \in Threads |-> "idle"]
  /\ call = [t \in Threads |-> NoCall]
  /\ got = [t \in Threads |-> NoReceipt]
  /\ ret = [t \in Threads |-> "none"]
  /\ sends = 0

-----------------------------------------------------------------------------
\* x_msg_q_send.  The length is checked before the mutex is taken.
SendTooBig(t, r) ==
  /\ pc[t] = "idle"
  /\ r.len > z_maxsize
  /\ Returns(t, "OSR_TOO_BIG")
  /\ UNCHANGED <<slot, read, write, pc, call, got, sends>>

SendFull(t, r) ==
  /\ pc[t] = "idle"
  /\ r.len <= z_maxsize
  /\ Step(write) = read
  /\ Returns(t, "OSR_TOO_MANY")
  /\ UNCHANGED <<slot, read, write, pc, call, got, sends>>

\* Mutants of SendOk: no broadcast; no test for a full queue.
SendOkSilent(t, r) ==
  /\ sends < MaxSends
  /\ pc[t] = "idle"
  /\ r.len <= z_maxsize
  /\ Step(write) # read
  /\ slot' = [slot EXCEPT ![write] =
                Fill([tick |-> sends + 1, len |-> r.len, lead |-> r.lead])]
  /\ write' = Step(write)
  /\ Returns(t, "OSR_OK")
  /\ sends' = sends + 1
  /\ UNCHANGED <<read, pc, call, got>>

SendOkOverrun(t, r) ==
  /\ sends < MaxSends
  /\ pc[t] = "idle"
  /\ r.len <= z_maxsize
  /\ slot' = [slot EXCEPT ![write] =
                Fill([tick |-> sends + 1, len |-> r.len, lead |-> r.lead])]
  /\ write' = Step(write)
  /\ Broadcast
  /\ Returns(t, "OSR_OK")
  /\ sends' = sends + 1
  /\ UNCHANGED <<read, call, got>>

SendOk(t, r) ==
  /\ sends < MaxSends
  /\ pc[t] = "idle"
  /\ r.len <= z_maxsize
  /\ Step(write) # read
  /\ slot' = [slot EXCEPT ![write] =
                Fill([tick |-> sends + 1, len |-> r.len, lead |-> r.lead])]
  /\ write' = Step(write)
  /\ Broadcast
  /\ Returns(t, "OSR_OK")
  /\ sends' = sends + 1
  /\ UNCHANGED <<read, call, got>>

Send(t, r) == SendTooBig(t, r) \/ SendFull(t, r) \/ SendOk(t, r)

-----------------------------------------------------------------------------
\* The end of a receive that found a message: copy it out, step the read
\* pointer, return.  (The broadcast on read_cond wakes nobody: no operation
\* waits for room.)
Take(t, bufsize) ==
  /\ ~Empty
  /\ got' = [got EXCEPT ![t] = [msg  |-> slot[read].msg,
                                size |-> ReadSize(slot[read], bufsize),
                                buf  |-> bufsize]]
  /\ read' = Step(read)
  /\ pc' = [pc EXCEPT ![t] = "idle"]
  /\ call' = [call EXCEPT ![t] = NoCall]
  /\ Returns(t, "OSR_OK")
  /\ UNCHANGED <<slot, write, sends>>

\* pthread_cond_wait or _timedwait(&write_cond): release the mutex and sleep.
Sleep(t, c) ==
  /\ Empty
  /\ pc' = [pc EXCEPT ![t] = "asleep"]
  /\ call' = [call EXCEPT ![t] = c]
  /\ UNCHANGED <<slot, read, write, got, ret, sends>>

\* x_msg_q_receive(X_MSGQ_OPTION_NOWAIT)
ReceiveNoWait(t, bufsize) ==
  /\ pc[t] = "idle"
  /\ \/ Take(t, bufsize)
     \/ /\ Empty
        /\ Returns(t, "OSR_NO_MSG")
        /\ UNCHANGED <<slot, read, write, pc, call, got, sends>>

\* x_msg_q_receive(X_MSGQ_OPTION_WAIT) and x_msg_q_receive_timeout
Receive(t, c) ==
  /\ pc[t] = "idle"
  /\ Take(t, c.size) \/ Sleep(t, c)

\* The while loop around the wait tests for a message again.
Recheck(t) ==
  /\ pc[t] = "woken"
  /\ Take(t, call[t].size) \/ Sleep(t, call[t])

\* pthread_cond_wait may return without a broadcast.
SpuriousWake(t) ==
  /\ pc[t] = "asleep"
  /\ pc' = [pc EXCEPT ![t] = "woken"]
  /\ UNCHANGED <<slot, read, write, call, got, ret, sends>>

\* pthread_cond_timedwait returned ETIMEDOUT: leave without a look at the
\* queue.
TimeOut(t) ==
  /\ pc[t] = "asleep"
  /\ call[t].timed
  /\ pc' = [pc EXCEPT ![t] = "idle"]
  /\ call' = [call EXCEPT ![t] = NoCall]
  /\ Returns(t, "OSR_TIMEOUT")
  /\ UNCHANGED <<slot, read, write, got, sends>>

-----------------------------------------------------------------------------
\* x_msg_q_flush: both pointers back to start, everybody waiting is woken.
Flush(t) ==
  /\ pc[t] = "idle"
  /\ read' = 0
  /\ write' = 0
  /\ Broadcast
  /\ Returns(t, "OSR_OK")
  /\ UNCHANGED <<slot, call, got, sends>>

-----------------------------------------------------------------------------
Next ==
  \/ \E t \in Senders, r \in Request : Send(t, r)
  \/ \E t \in Receivers :
       \/ \E b \in BufSizes : ReceiveNoWait(t, b)
       \/ \E c \in Call : Receive(t, c)
       \/ Recheck(t)
       \/ SpuriousWake(t)
       \/ TimeOut(t)
       \/ Flush(t)

Spec == Init /\ [][Next]_vars

\* The dispatch loop of appman_main calls x_msg_q_receive(WAIT) again as soon
\* as a message is handled, and the scheduler runs every runnable thread.
Dispatches(t) ==
  Recheck(t) \/ \E b \in BufSizes : Receive(t, [timed |-> FALSE, size |-> b])

LiveSpec == Spec /\ \A t \in Receivers : WF_vars(Dispatches(t))

-----------------------------------------------------------------------------
TypeOK ==
  /\ slot \in [0 .. ui2_msg_count -> Slot]
  /\ read \in 0 .. ui2_msg_count
  /\ write \in 0 .. ui2_msg_count
  /\ pc \in [Threads -> {"idle", "asleep", "woken"}]
  /\ call \in [Threads -> Call \cup {NoCall}]
  /\ \A t \in Threads : pc[t] # "idle" => call[t] \in Call
  /\ got \in [Threads -> Receipt]
  /\ ret \in [Threads -> {"none", "OSR_OK", "OSR_TOO_BIG", "OSR_TOO_MANY",
                          "OSR_NO_MSG", "OSR_TIMEOUT"}]
  /\ sends \in 0 .. MaxSends

\* No wake-up is lost between a sender and the receivers: while a thread
\* sleeps in x_msg_q_receive or x_msg_q_receive_timeout with no wake-up on its
\* way, the queue is empty.
NoLostWakeup == \A t \in Threads : pc[t] = "asleep" => Empty

\* A receiver is never told less than it was given: the size x_msg_q_receive
\* stores in *pz_size covers the message, or the whole buffer if that is
\* smaller, and never exceeds the buffer, whatever bytes the payload starts with.
Least(a, b) == IF a <= b THEN a ELSE b

SizeNeverShort ==
  \A t \in Threads :
    /\ got[t].size >= Least(got[t].msg.len, got[t].buf)
    /\ got[t].size <= got[t].buf

\* The size a receiver is told is the size that was sent (or its buffer's).
SizeExact ==
  \A t \in Threads : got[t].size = Least(got[t].msg.len, got[t].buf)

-----------------------------------------------------------------------------
\* The queue as its users see it: how many slots lie between the pointers r
\* and w, the slot of the i-th message, and the messages, oldest first.
Count(r, w) == IF w >= r THEN w - r ELSE w - r + ui2_msg_count + 1

SlotAt(r, i) ==
  IF r + i - 1 > ui2_msg_count THEN r + i - 1 - (ui2_msg_count + 1)
                               ELSE r + i - 1

ContentsOf(s, r, w) == [i \in 1 .. Count(r, w) |-> s[SlotAt(r, i)].msg]

Contents == ContentsOf(slot, read, write)

Fifo == INSTANCE BoundedFifo
          WITH Capacity <- ui2_msg_count, queue <- Contents,
               got <- [t \in Threads |-> got[t].msg]

\* The ring buffer is a bounded first-in first-out queue: nothing is lost,
\* duplicated or reordered, and a send is refused with OSR_TOO_MANY exactly
\* when ui2_msg_count messages are waiting.
ImplementsFifo == Fifo!FifoSpec

\* With a thread in the dispatch loop, no message stays in the queue for ever:
\* sends being bounded, the queue is empty again and again.
EveryMessageLeaves == []<>Empty
=============================================================================
