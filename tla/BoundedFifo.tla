---------------------------- MODULE BoundedFifo ----------------------------
(***************************************************************************)
(* What a message queue promises to the threads that use it: a first-in    *)
(* first-out buffer of at most Capacity messages.  A send never blocks: it *)
(* is accepted when there is room and refused when there is none.  A       *)
(* receive hands over the oldest message; on an empty queue it declines,   *)
(* waits, or gives up after a time.  MsgQueue shows that the ring buffer   *)
(* of os_pthread_msg_q.c implements this specification.                    *)
(***************************************************************************)
EXTENDS Naturals, Sequences

CONSTANTS Senders,   \* the threads that send
          Receivers, \* the threads that receive, or empty the queue
          Message,   \* what may be sent
          NoMessage, \* what a thread has that received nothing yet
          Capacity   \* ui2_msg_count

VARIABLES queue,     \* the messages waiting, oldest first
          got,       \* got[t]: the message t received last
          ret        \* ret[t]: the code t's last call returned

fifoThreads == Senders \cup Receivers
fifoVars == <<queue, got, ret>>

Returns(t, code) == ret' = [ret EXCEPT ![t] = code]

Enqueue(t, m) ==
  /\ Len(queue) < Capacity
  /\ queue' = Append(queue, m)
  /\ Returns(t, "OSR_OK")
  /\ UNCHANGED got

Refuse(t) ==
  /\ \/ Len(queue) = Capacity /\ Returns(t, "OSR_TOO_MANY")
     \/ Returns(t, "OSR_TOO_BIG")
  /\ UNCHANGED <<queue, got>>

Dequeue(t) ==
  /\ queue # <<>>
  /\ queue' = Tail(queue)
  /\ got' = [got EXCEPT ![t] = Head(queue)]
  /\ Returns(t, "OSR_OK")

Decline(t) ==
  /\ \/ queue = <<>> /\ Returns(t, "OSR_NO_MSG")
     \/ Returns(t, "OSR_TIMEOUT")
  /\ UNCHANGED <<queue, got>>

Flush(t) ==
  /\ queue' = <<>>
  /\ Returns(t, "OSR_OK")
  /\ UNCHANGED got

FifoInit ==
  /\ queue = <<>>
  /\ got = [t \in fifoThreads |-> NoMessage]
  /\ ret = [t \in fifoThreads |-> "none"]

FifoNext ==
  \/ \E t \in Senders : Refuse(t) \/ \E m \in Message : Enqueue(t, m)
  \/ \E t \in Receivers : Dequeue(t) \/ Decline(t) \/ Flush(t)

FifoSpec == FifoInit /\ [][FifoNext]_fifoVars
=============================================================================
