------------------------------ MODULE AppSend ------------------------------
(***************************************************************************)
(* How a message gets to an application's handler, am/aee/appman.c:        *)
(* u_app_send_appmsg copies the caller's data behind an APPMSG_T,          *)
(* u_app_send_msg puts a header before it, msg_q_send_2_parts joins the    *)
(* two, on the stack or, for a thread that u_thread_self cannot make       *)
(* known, in one static buffer, and appman_main receives every message     *)
(* into the same buffer.  The queue is the FIFO that MsgQueue implements.  *)
(*                                                                         *)
(* A call is its own number; a byte is the call it comes from.             *)
(***************************************************************************)
EXTENDS Integers, Sequences

CONSTANTS Senders,          \* threads that send
          Lengths,          \* lengths of data
          MAX_USR_MSG_LEN,
          MaxMsgSize,       \* ui2_max_msg_size of the application
          MsgCount,         \* ui2_msg_count
          MaxSends,         \* bound on the calls
          MaxFaults         \* bound on allocations that fail

SendAssumption == /\ "static" \notin Senders /\ Lengths \subseteq Nat
                  /\ {MAX_USR_MSG_LEN, MaxMsgSize, MsgCount, MaxSends, MaxFaults} \subseteq Nat

VARIABLES snd,     \* per thread: where it is, its call and the pieces to send
          parts,   \* the buffers of msg_q_send_2_parts: per thread, and the static one
          block,   \* block[n]: the APPMSG_T of call n
          asked,   \* asked[n]: what the caller of call n gave
          mq,      \* the message queue
          msgbuf,  \* pv_msg_buffer
          handled, \* what the handler was called with
          n_faults

dvars == <<snd, parts, block, asked, mq, msgbuf, handled, n_faults>>

Static == "static"
Junk == 0                   \* a byte of an allocation that was not written
Header(n, len) == [call |-> n, z_msg_len |-> len]
Empty == [header |-> Header(0, 0), data |-> <<>>]
Bytes(n, len) == [k \in 1..len |-> n]
Idle == [at |-> "idle", call |-> 0, data |-> <<>>, len |-> 0]
\* memcpy to the front of a buffer: what is behind stays.
Over(old, new) == [k \in 1..(IF Len(new) > Len(old) THEN Len(new) ELSE Len(old)) |->
                      IF k <= Len(new) THEN new[k] ELSE old[k]]
\* The first bytes of a buffer.
Front(data, len) == [k \in 1..len |-> IF k <= Len(data) THEN data[k] ELSE Junk]

DInit == /\ snd = [t \in Senders |-> Idle]
         /\ parts = [b \in Senders \union {Static} |-> Empty]
         /\ block = <<>> /\ asked = <<>> /\ mq = <<>> /\ msgbuf = Empty /\ handled = <<>> /\ n_faults = 0

Fault == n_faults < MaxFaults /\ n_faults' = n_faults + 1
MayCall(t) == snd[t].at = "idle" /\ Len(asked) < MaxSends

-----------------------------------------------------------------------------
\* u_app_send_msg: data that is NULL or empty is no data, and the header says so.
Prepare(t, n, data, len) ==
    LET some == data # <<>> /\ len # 0
    IN  snd' = [snd EXCEPT ![t] = [at |-> IF some THEN "self" ELSE "alone", call |-> n,
                                   data |-> IF some THEN data ELSE <<>>, len |-> IF some THEN len ELSE 0]]

\* A call with data, or with NULL and any length.
u_app_send_msg(t, given, len) ==
    /\ MayCall(t)
    /\ LET n == Len(asked) + 1
       IN  /\ Prepare(t, n, IF given THEN Bytes(n, len) ELSE <<>>, len)
           /\ asked' = Append(asked, IF given THEN Bytes(n, len) ELSE <<>>)
           /\ block' = Append(block, "none")
    /\ UNCHANGED <<parts, mq, msgbuf, handled, n_faults>>

\* An APPMSG_T, one byte here, with the data behind it; without data what
\* malloc returned is sent.
u_app_send_appmsg(t, given, len) ==
    /\ MayCall(t)
    /\ LET n == Len(asked) + 1
           data == <<n>> \o Bytes(IF given THEN n ELSE Junk, len)
       IN  \/ /\ len > MAX_USR_MSG_LEN
              /\ asked' = Append(asked, <<>>) /\ block' = Append(block, "none") /\ UNCHANGED <<snd, n_faults>>
           \/ /\ len <= MAX_USR_MSG_LEN /\ Fault
              /\ asked' = Append(asked, <<>>) /\ block' = Append(block, "none") /\ UNCHANGED snd
           \/ /\ len <= MAX_USR_MSG_LEN /\ Prepare(t, n, data, 1 + len)
              /\ asked' = Append(asked, data) /\ block' = Append(block, "live") /\ UNCHANGED n_faults
    /\ UNCHANGED <<parts, mq, msgbuf, handled>>

-----------------------------------------------------------------------------
\* u_thread_self knows the thread or makes it known (ThreadUpgrade), unless
\* there is no memory.
Self(t) ==
    /\ snd[t].at = "self"
    /\ \/ snd' = [snd EXCEPT ![t].at = "stack"] /\ UNCHANGED n_faults
       \/ Fault /\ snd' = [snd EXCEPT ![t].at = Static]
    /\ UNCHANGED <<parts, block, asked, mq, msgbuf, handled>>

\* The two memcpys, to the stack or to the static buffer.
Join(t) ==
    /\ snd[t].at \in {"stack", Static}
    /\ LET b == IF snd[t].at = Static THEN Static ELSE t
       IN  /\ parts' = [parts EXCEPT ![b] = [header |-> Header(snd[t].call, snd[t].len),
                                             data |-> Over(@.data, snd[t].data)]]
           /\ snd' = [snd EXCEPT ![t].at = IF b = Static THEN "send_static" ELSE "send_stack"]
    /\ UNCHANGED <<block, asked, mq, msgbuf, handled, n_faults>>

\* u_app_send_appmsg frees its block whatever became of it.
FreeMessage(n, sent) == IF block[n] = "live" THEN [block EXCEPT ![n] = "freed"] ELSE block

\* x_msg_q_send of z_size_1 + z_size_2 bytes: refused when it is too big or the
\* queue is full; the caller returns.
Send(t) ==
    /\ snd[t].at \in {"alone", "send_stack", "send_static"}
    /\ LET b == IF snd[t].at = "send_static" THEN Static ELSE t
           msg == IF snd[t].at = "alone" THEN [header |-> Header(snd[t].call, 0), data |-> <<>>]
                  ELSE [header |-> parts[b].header, data |-> Front(parts[b].data, snd[t].len)]
           fits == snd[t].len <= MaxMsgSize /\ Len(mq) < MsgCount
       IN  /\ mq' = IF fits THEN Append(mq, msg) ELSE mq
           /\ block' = FreeMessage(snd[t].call, fits)
           /\ asked' = IF fits THEN asked ELSE [asked EXCEPT ![snd[t].call] = <<>>]
    /\ snd' = [snd EXCEPT ![t] = Idle]
    /\ parts' = [parts EXCEPT ![t] = Empty]
    /\ UNCHANGED <<msgbuf, handled, n_faults>>

-----------------------------------------------------------------------------
\* The handler's pv_msg and z_msg_len, of the message's header.
Given == Front(msgbuf.data, msgbuf.header.z_msg_len)

\* appman_main receives over the message before ...
Receive ==
    /\ mq # <<>> /\ msgbuf.header.call = 0
    /\ msgbuf' = [header |-> Head(mq).header, data |-> Over(msgbuf.data, Head(mq).data)] /\ mq' = Tail(mq)
    /\ UNCHANGED <<snd, parts, block, asked, handled, n_faults>>

\* ... and calls pf_process_msg.
Process ==
    /\ msgbuf.header.call # 0
    /\ handled' = Append(handled, [call |-> msgbuf.header.call, data |-> Given])
    /\ msgbuf' = [msgbuf EXCEPT !.header.call = 0]
    /\ UNCHANGED <<snd, parts, block, asked, mq, n_faults>>

DNext ==
    \/ \E t \in Senders :
         \/ \E given \in BOOLEAN, len \in Lengths : u_app_send_msg(t, given, len) \/ u_app_send_appmsg(t, given, len)
         \/ Self(t) \/ Join(t) \/ Send(t)
    \/ Receive \/ Process

-----------------------------------------------------------------------------
\* The handler is given exactly the data of one call, once, and neither bytes
\* of another thread that sends at the same time nor those that an earlier,
\* longer message left in the loop's buffer, if at most one allocation fails:
\* two threads that u_thread_self cannot make known mix theirs in the static
\* buffer.
HandlerGetsTheCall == n_faults <= 1 =>
    \A k \in DOMAIN handled :
        /\ handled[k].data = asked[handled[k].call]
        /\ \A j \in DOMAIN handled : handled[j].call = handled[k].call => j = k

\* The copy of u_app_send_appmsg is gone once the call has returned, whether
\* the queue took the message or not.
CopyReturned == \A n \in DOMAIN block : block[n] = "live" => \E t \in Senders : snd[t].call = n
=============================================================================
