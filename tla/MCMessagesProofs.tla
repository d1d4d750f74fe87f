-------------------------- MODULE MCMessagesProofs --------------------------
(***************************************************************************)
(* Proofs about what the framework passes messages with, for all values of *)
(* the constants of MCMessages.  About MsgQueue (for every capacity, every *)
(* message and buffer size, both widths of SIZE_T and any sets of          *)
(* threads): the type invariant, no lost wake-up, the size a receiver is   *)
(* told, and that the ring buffer implements BoundedFifo.  About the       *)
(* client of ipcd and the wire format: requests are freed and arrive       *)
(* exactly.  About the daemon netinfd: connections, slots and the table.   *)
(***************************************************************************)
EXTENDS MCMessages, ListProofs

USE DEF Threads

-----------------------------------------------------------------------------
\* Stepping a pointer stays inside the ring.
LEMMA StepType ==
  ASSUME NEW p \in 0 .. ui2_msg_count
  PROVE  Step(p) \in 0 .. ui2_msg_count
BY MsgQueueAssumption DEF Step

\* What a receive finds in a slot is a size within its buffer.
LEMMA ReadSizeType ==
  ASSUME NEW s \in Slot, NEW b \in Nat
  PROVE  ReadSize(s, b) \in 0 .. b
BY MsgQueueAssumption DEF ReadSize, Slot

\* Taking a message keeps the type invariant.
LEMMA TakeType ==
  ASSUME TypeOK, NEW t \in Threads, NEW b \in BufSizes, Take(t, b)
  PROVE  TypeOK'
<1>1. b \in Nat
  BY MsgQueueAssumption
<1>2. slot[read] \in Slot /\ Step(read) \in 0 .. ui2_msg_count
  BY StepType DEF TypeOK
<1>3. ReadSize(slot[read], b) \in 0 .. b
  BY <1>1, <1>2, ReadSizeType
<1>4. [msg |-> slot[read].msg, size |-> ReadSize(slot[read], b), buf |-> b]
        \in Receipt
  BY <1>1, <1>2, <1>3 DEF Slot, Receipt
<1>5. QED
  BY <1>2, <1>4 DEF TypeOK, Take, Returns, NoCall

\* So does going to sleep.
LEMMA SleepType ==
  ASSUME TypeOK, NEW t \in Threads, NEW c \in Call, Sleep(t, c)
  PROVE  TypeOK'
BY DEF TypeOK, Sleep

\* The variables of the queue always hold values of their C types, and the
\* arguments of every blocked receive are still there when it wakes up.
THEOREM TypeCorrect == Spec => []TypeOK
<1>1. Init => TypeOK
  <2> SUFFICES ASSUME Init PROVE TypeOK
    OBVIOUS
  <2>1. FreshSlot \in Slot /\ NoReceipt \in Receipt
    BY MsgQueueAssumption
      DEF FreshSlot, Slot, NoReceipt, Receipt, NoMessage, Message
  <2>2. QED
    BY <2>1, MsgQueueAssumption DEF Init, TypeOK
<1>2. TypeOK /\ [Next]_vars => TypeOK'
  <2> SUFFICES ASSUME TypeOK, [Next]_vars PROVE TypeOK'
    OBVIOUS
  <2>1. ASSUME NEW t \in Senders, NEW r \in Request, Send(t, r)
        PROVE  TypeOK'
    <3>1. CASE SendTooBig(t, r)
      BY <3>1 DEF TypeOK, SendTooBig, Returns
    <3>2. CASE SendFull(t, r)
      BY <3>2 DEF TypeOK, SendFull, Returns
    <3>3. CASE SendOk(t, r)
      <4> DEFINE m == [tick |-> sends + 1, len |-> r.len, lead |-> r.lead]
      <4>1. m \in Message /\ sends + 1 \in 0 .. MaxSends
        BY <3>3, MsgQueueAssumption DEF SendOk, TypeOK, Message, Request
      <4>2. Fill(m) \in Slot
        BY <4>1 DEF Fill, Slot, Message
      <4>3. slot' \in [0 .. ui2_msg_count -> Slot]
        BY <3>3, <4>2 DEF SendOk, TypeOK
      <4>4. write' \in 0 .. ui2_msg_count
        BY <3>3, StepType DEF SendOk, TypeOK
      <4>5. QED
        BY <3>3, <4>1, <4>3, <4>4 DEF SendOk, TypeOK, Returns, Broadcast
    <3>4. QED
      BY <2>1, <3>1, <3>2, <3>3 DEF Send
  <2>2. ASSUME NEW t \in Receivers, NEW b \in BufSizes, ReceiveNoWait(t, b)
        PROVE  TypeOK'
    <3>1. CASE Take(t, b)
      BY <3>1, TakeType
    <3>2. CASE Empty /\ Returns(t, "OSR_NO_MSG")
               /\ UNCHANGED <<slot, read, write, pc, call, got, sends>>
      BY <3>2 DEF TypeOK, Returns
    <3>3. QED
      BY <2>2, <3>1, <3>2 DEF ReceiveNoWait
  <2>3. ASSUME NEW t \in Receivers, NEW c \in Call, Receive(t, c)
        PROVE  TypeOK'
    BY <2>3, TakeType, SleepType DEF Receive, Call
  <2>4. ASSUME NEW t \in Receivers, Recheck(t)
        PROVE  TypeOK'
    <3>1. call[t] \in Call /\ call[t].size \in BufSizes
      BY <2>4 DEF Recheck, TypeOK, Call
    <3>2. QED
      BY <2>4, <3>1, TakeType, SleepType DEF Recheck
  <2>5. ASSUME NEW t \in Receivers, SpuriousWake(t)
        PROVE  TypeOK'
    BY <2>5 DEF SpuriousWake, TypeOK
  <2>6. ASSUME NEW t \in Receivers, TimeOut(t)
        PROVE  TypeOK'
    BY <2>6 DEF TimeOut, TypeOK, Returns
  <2>7. ASSUME NEW t \in Receivers, Flush(t)
        PROVE  TypeOK'
    BY <2>7, MsgQueueAssumption DEF Flush, TypeOK, Returns, Broadcast
  <2>8. CASE UNCHANGED vars
    BY <2>8 DEF vars, TypeOK
  <2>9. QED
    BY <2>1, <2>2, <2>3, <2>4, <2>5, <2>6, <2>7, <2>8 DEF Next
<1>3. QED
  BY <1>1, <1>2, PTL DEF Spec

-----------------------------------------------------------------------------
\* A sender's broadcast reaches every receiver asleep in cond_wait: no thread
\* is left asleep beside a message, for any number of senders and receivers.
THEOREM WakeupsAreNotLost == Spec => []NoLostWakeup
<1>1. Init => NoLostWakeup
  BY DEF Init, NoLostWakeup
<1>2. TypeOK /\ NoLostWakeup /\ [Next]_vars => NoLostWakeup'
  <2> SUFFICES ASSUME TypeOK, NoLostWakeup, [Next]_vars
               PROVE  NoLostWakeup'
    OBVIOUS
  <2>1. ASSUME NEW t \in Senders, NEW r \in Request, Send(t, r)
        PROVE  NoLostWakeup'
    BY <2>1 DEF Send, SendTooBig, SendFull, SendOk, Broadcast,
                NoLostWakeup, Empty, TypeOK
  <2>2. ASSUME NEW t \in Receivers, NEW b \in BufSizes, Take(t, b)
        PROVE  NoLostWakeup'
    BY <2>2 DEF Take, NoLostWakeup, Empty, TypeOK
  <2>3. ASSUME NEW t \in Receivers, NEW c \in Call, Sleep(t, c)
        PROVE  NoLostWakeup'
    BY <2>3 DEF Sleep, NoLostWakeup, Empty, TypeOK
  <2>4. ASSUME NEW t \in Receivers, NEW b \in BufSizes, ReceiveNoWait(t, b)
        PROVE  NoLostWakeup'
    BY <2>2, <2>4 DEF ReceiveNoWait, NoLostWakeup, Empty
  <2>5. ASSUME NEW t \in Receivers, NEW c \in Call, Receive(t, c)
        PROVE  NoLostWakeup'
    BY <2>2, <2>3, <2>5 DEF Receive, Call
  <2>6. ASSUME NEW t \in Receivers, Recheck(t)
        PROVE  NoLostWakeup'
    <3>1. call[t] \in Call /\ call[t].size \in BufSizes
      BY <2>6 DEF Recheck, TypeOK, Call
    <3>2. QED
      BY <2>2, <2>3, <2>6, <3>1 DEF Recheck
  <2>7. ASSUME NEW t \in Receivers, SpuriousWake(t) \/ TimeOut(t)
        PROVE  NoLostWakeup'
    BY <2>7 DEF SpuriousWake, TimeOut, NoLostWakeup, Empty, TypeOK
  <2>8. ASSUME NEW t \in Receivers, Flush(t)
        PROVE  NoLostWakeup'
    BY <2>8 DEF Flush, Broadcast, NoLostWakeup, Empty, TypeOK
  <2>9. CASE UNCHANGED vars
    BY <2>9 DEF vars, NoLostWakeup, Empty
  <2>10. QED
    BY <2>1, <2>4, <2>5, <2>6, <2>7, <2>8, <2>9 DEF Next
<1>3. QED
  BY <1>1, <1>2, TypeCorrect, PTL DEF Spec

-----------------------------------------------------------------------------
\* The low half of the size word in a slot is the length of its payload,
\* whatever the payload's first word did to the high half.
SlotSizes == \A i \in 0 .. ui2_msg_count : slot[i].lo = slot[i].msg.len

SizeInv == SlotSizes /\ SizeNeverShort

\* A receive keeps the size invariant.
LEMMA TakeSize ==
  ASSUME TypeOK, SizeInv, NEW t \in Threads, NEW b \in BufSizes, Take(t, b)
  PROVE  SizeInv'
<1> DEFINE s == slot[read]
           z == ReadSize(s, b)
<1>1. b \in Nat /\ s \in Slot /\ s.lo = s.msg.len /\ s.lo \in Nat
  BY MsgQueueAssumption DEF TypeOK, SizeInv, SlotSizes, Slot
<1>2. z >= Least(s.msg.len, b) /\ z <= b
  BY <1>1 DEF ReadSize, Least
<1>3. got' = [got EXCEPT ![t] = [msg |-> s.msg, size |-> z, buf |-> b]]
  BY DEF Take
<1>4. SizeNeverShort'
  BY <1>2, <1>3 DEF SizeInv, SizeNeverShort, TypeOK
<1>5. QED
  BY <1>4 DEF SizeInv, SlotSizes, Take

\* Receivers are told a size that covers the message or fills their buffer, on
\* either width of SIZE_T: the misplaced payload never shortens a message.
THEOREM SizesAreNeverShort == Spec => []SizeNeverShort
<1>1. Init => SizeInv
  <2> SUFFICES ASSUME Init PROVE SizeInv
    OBVIOUS
  <2>1. \A t \in Threads : got[t] = NoReceipt
    BY DEF Init
  <2>2. \A i \in 0 .. ui2_msg_count : slot[i] = FreshSlot
    BY DEF Init
  <2>3. QED
    BY <2>1, <2>2 DEF SizeInv, SlotSizes, SizeNeverShort, Least,
                      FreshSlot, NoReceipt, NoMessage
<1>2. TypeOK /\ SizeInv /\ [Next]_vars => SizeInv'
  <2> SUFFICES ASSUME TypeOK, SizeInv, [Next]_vars
               PROVE  SizeInv'
    OBVIOUS
  <2>1. ASSUME NEW t \in Senders, NEW r \in Request, Send(t, r)
        PROVE  SizeInv'
    <3>1. CASE UNCHANGED <<slot, got>>
      BY <3>1 DEF SizeInv, SlotSizes, SizeNeverShort
    <3>2. CASE SendOk(t, r)
      <4> DEFINE m == [tick |-> sends + 1, len |-> r.len, lead |-> r.lead]
      <4>1. slot' = [slot EXCEPT ![write] = Fill(m)] /\ got' = got
        BY <3>2 DEF SendOk
      <4>2. Fill(m).lo = Fill(m).msg.len
        BY DEF Fill
      <4>3. QED
        BY <4>1, <4>2 DEF SizeInv, SlotSizes, SizeNeverShort, TypeOK
    <3>3. QED
      BY <2>1, <3>1, <3>2 DEF Send, SendTooBig, SendFull
  <2>2. ASSUME NEW t \in Receivers, NEW b \in BufSizes, ReceiveNoWait(t, b)
        PROVE  SizeInv'
    BY <2>2, TakeSize
       DEF ReceiveNoWait, SizeInv, SlotSizes, SizeNeverShort
  <2>3. ASSUME NEW t \in Receivers, NEW c \in Call, Sleep(t, c)
        PROVE  SizeInv'
    BY <2>3 DEF Sleep, SizeInv, SlotSizes, SizeNeverShort
  <2>4. ASSUME NEW t \in Receivers, NEW c \in Call, Receive(t, c)
        PROVE  SizeInv'
    BY <2>3, <2>4, TakeSize DEF Receive, Call
  <2>5. ASSUME NEW t \in Receivers, Recheck(t)
        PROVE  SizeInv'
    <3>1. call[t] \in Call /\ call[t].size \in BufSizes
      BY <2>5 DEF Recheck, TypeOK, Call
    <3>2. QED
      BY <2>3, <2>5, <3>1, TakeSize DEF Recheck
  <2>6. ASSUME NEW t \in Receivers, SpuriousWake(t) \/ TimeOut(t) \/ Flush(t)
        PROVE  SizeInv'
    BY <2>6 DEF SpuriousWake, TimeOut, Flush, SizeInv, SlotSizes, SizeNeverShort
  <2>7. CASE UNCHANGED vars
    BY <2>7 DEF vars, SizeInv, SlotSizes, SizeNeverShort
  <2>8. QED
    BY <2>1, <2>2, <2>4, <2>5, <2>6, <2>7 DEF Next
<1>3. QED
  BY <1>1, <1>2, TypeCorrect, PTL DEF Spec, SizeInv

-----------------------------------------------------------------------------
\* The mapped queue is a sequence of at most ui2_msg_count messages, and empty
\* exactly when the pointers meet.
LEMMA ContentsType ==
  ASSUME NEW s \in [0 .. ui2_msg_count -> Slot],
         NEW r \in 0 .. ui2_msg_count, NEW w \in 0 .. ui2_msg_count
  PROVE  /\ Count(r, w) \in 0 .. ui2_msg_count
         /\ ContentsOf(s, r, w) \in Seq(Message)
         /\ Len(ContentsOf(s, r, w)) = Count(r, w)
         /\ (ContentsOf(s, r, w) = <<>>) <=> r = w
<1>1. Count(r, w) \in 0 .. ui2_msg_count /\ (Count(r, w) = 0 <=> r = w)
  BY MsgQueueAssumption DEF Count
<1>2. \A i \in 1 .. Count(r, w) : SlotAt(r, i) \in 0 .. ui2_msg_count
  BY <1>1, MsgQueueAssumption DEF Count, SlotAt
<1>3. \A i \in 1 .. Count(r, w) : s[SlotAt(r, i)].msg \in Message
  BY <1>2 DEF Slot
<1>4. /\ ContentsOf(s, r, w) \in Seq(Message)
      /\ Len(ContentsOf(s, r, w)) = Count(r, w)
  BY <1>1, <1>3 DEF ContentsOf
<1>5. QED
  BY <1>1, <1>4 DEF ContentsOf

\* Filling the slot at w appends to the mapped queue.
LEMMA SendAppends ==
  ASSUME NEW s \in [0 .. ui2_msg_count -> Slot],
         NEW r \in 0 .. ui2_msg_count, NEW w \in 0 .. ui2_msg_count,
         NEW f \in Slot, Step(w) # r
  PROVE  /\ Count(r, w) < ui2_msg_count
         /\ ContentsOf([s EXCEPT ![w] = f], r, Step(w))
              = Append(ContentsOf(s, r, w), f.msg)
<1> DEFINE s2 == [s EXCEPT ![w] = f]
           new == ContentsOf(s2, r, Step(w))
           old == ContentsOf(s, r, w)
           n == Count(r, w)
<1>1. /\ n < ui2_msg_count /\ n \in Nat
      /\ Count(r, Step(w)) = n + 1
  BY MsgQueueAssumption DEF Count, Step
<1>2. \A i \in 1 .. n : SlotAt(r, i) # w /\ SlotAt(r, i) \in 0 .. ui2_msg_count
  BY MsgQueueAssumption DEF Count, SlotAt
<1>3. SlotAt(r, n + 1) = w
  BY MsgQueueAssumption DEF Count, SlotAt
<1>4. Step(w) \in 0 .. ui2_msg_count /\ s2 \in [0 .. ui2_msg_count -> Slot]
  BY StepType
<1>5. /\ new \in Seq(Message) /\ Len(new) = n + 1
      /\ \A i \in 1 .. n + 1 : new[i] = s2[SlotAt(r, i)].msg
  <2> HIDE DEF s2
  <2>1. new \in Seq(Message) /\ Len(new) = n + 1
    BY <1>1, <1>4, ContentsType
  <2>2. \A i \in 1 .. n + 1 : new[i] = s2[SlotAt(r, i)].msg
    BY <1>1 DEF ContentsOf
  <2>3. QED
    BY <2>1, <2>2
<1>6. /\ old \in Seq(Message) /\ Len(old) = n
      /\ \A i \in 1 .. n : old[i] = s[SlotAt(r, i)].msg
  <2>1. old \in Seq(Message) /\ Len(old) = n
    BY ContentsType
  <2>2. \A i \in 1 .. n : old[i] = s[SlotAt(r, i)].msg
    BY DEF ContentsOf
  <2>3. QED
    BY <2>1, <2>2
<1>7. f.msg \in Message
  BY DEF Slot
<1> HIDE DEF new, old, s2, n
<1>8. /\ Append(old, f.msg) \in Seq(Message)
      /\ Len(Append(old, f.msg)) = n + 1
      /\ \A i \in 1 .. n : Append(old, f.msg)[i] = old[i]
      /\ Append(old, f.msg)[n + 1] = f.msg
  BY <1>1, <1>6, <1>7
<1>9. \A i \in 1 .. n : new[i] = old[i]
  BY <1>1, <1>2, <1>5, <1>6 DEF s2
<1>10. new[n + 1] = f.msg
  BY <1>1, <1>3, <1>5 DEF s2
<1>11. \A i \in 1 .. n + 1 : new[i] = Append(old, f.msg)[i]
  BY <1>1, <1>8, <1>9, <1>10
<1>12. new = Append(old, f.msg)
  BY <1>5, <1>8, <1>11, SeqEqual
<1>13. QED
  BY <1>1, <1>12 DEF new, old, s2, n

\* Stepping the read pointer removes the head of the mapped queue.
LEMMA TakeRemovesHead ==
  ASSUME NEW s \in [0 .. ui2_msg_count -> Slot],
         NEW r \in 0 .. ui2_msg_count, NEW w \in 0 .. ui2_msg_count, r # w
  PROVE  /\ ContentsOf(s, r, w) # <<>>
         /\ Head(ContentsOf(s, r, w)) = s[r].msg
         /\ ContentsOf(s, Step(r), w) = Tail(ContentsOf(s, r, w))
<1> DEFINE new == ContentsOf(s, Step(r), w)
           old == ContentsOf(s, r, w)
           n == Count(r, w)
<1>1. n \in Nat /\ n > 0 /\ Count(Step(r), w) = n - 1
  BY MsgQueueAssumption DEF Count, Step
<1>2. \A i \in 1 .. n - 1 : SlotAt(Step(r), i) = SlotAt(r, i + 1)
  BY MsgQueueAssumption DEF Count, SlotAt, Step
<1>3. SlotAt(r, 1) = r
  BY MsgQueueAssumption DEF SlotAt
<1>4. /\ old \in Seq(Message) /\ Len(old) = n /\ old # <<>>
      /\ \A i \in 1 .. n : old[i] = s[SlotAt(r, i)].msg
  <2>1. old \in Seq(Message) /\ Len(old) = n /\ old # <<>>
    BY ContentsType
  <2>2. \A i \in 1 .. n : old[i] = s[SlotAt(r, i)].msg
    BY DEF ContentsOf
  <2>3. QED
    BY <2>1, <2>2
<1>5. /\ new \in Seq(Message) /\ Len(new) = n - 1
      /\ \A i \in 1 .. n - 1 : new[i] = s[SlotAt(Step(r), i)].msg
  <2>1. Step(r) \in 0 .. ui2_msg_count
    BY StepType
  <2>2. new \in Seq(Message) /\ Len(new) = n - 1
    BY <1>1, <2>1, ContentsType
  <2>3. \A i \in 1 .. n - 1 : new[i] = s[SlotAt(Step(r), i)].msg
    BY <1>1 DEF ContentsOf
  <2>4. QED
    BY <2>2, <2>3
<1> HIDE DEF new, old, n
<1>6. /\ Tail(old) \in Seq(Message) /\ Len(Tail(old)) = n - 1
      /\ \A i \in 1 .. n - 1 : Tail(old)[i] = old[i + 1]
  BY <1>4, HeadTailProperties
<1>7. \A i \in 1 .. n - 1 : new[i] = Tail(old)[i]
  <2> SUFFICES ASSUME NEW i \in 1 .. n - 1 PROVE new[i] = Tail(old)[i]
    OBVIOUS
  <2>1. i + 1 \in 1 .. n
    BY <1>1
  <2>2. new[i] = s[SlotAt(r, i + 1)].msg
    BY <1>2, <1>5
  <2>3. old[i + 1] = s[SlotAt(r, i + 1)].msg
    BY <1>4, <2>1
  <2>4. Tail(old)[i] = old[i + 1]
    BY <1>6
  <2>5. QED
    BY <2>2, <2>3, <2>4
<1>8. new = Tail(old)
  BY <1>5, <1>6, <1>7, SeqEqual
<1>9. Head(old) = s[r].msg
  BY <1>1, <1>3, <1>4
<1>10. QED
  BY <1>4, <1>8, <1>9 DEF new, old, n

\* A receive that found a message is a Dequeue of the abstract queue.
LEMMA TakeDequeues ==
  ASSUME TypeOK, NEW t \in Threads, NEW b \in BufSizes, Take(t, b)
  PROVE  Fifo!Dequeue(t)
<1>1. /\ Contents # <<>>
      /\ Head(Contents) = slot[read].msg
      /\ Contents' = Tail(Contents)
  BY TakeRemovesHead DEF Take, TypeOK, Empty, Contents
<1>2. [u \in Threads |-> got[u].msg]'
        = [[u \in Threads |-> got[u].msg] EXCEPT ![t] = slot[read].msg]
  BY DEF Take, TypeOK
<1>3. QED
  BY <1>1, <1>2 DEF Take, Returns, Fifo!Dequeue, Fifo!Returns

\* If neither a pointer nor a slot nor a receipt changes, the abstract queue
\* and what its users received do not change either.
LEMMA MappedUnchanged ==
  ASSUME UNCHANGED <<slot, read, write, got>>
  PROVE  /\ Contents' = Contents
         /\ [u \in Threads |-> got[u].msg]' = [u \in Threads |-> got[u].msg]
BY DEF Contents

\* Every step of the ring buffer is a step of the abstract queue or leaves it
\* unchanged.
LEMMA StepRefines ==
  ASSUME TypeOK, [Next]_vars
  PROVE  [Fifo!FifoNext]_(Fifo!fifoVars)
<1>1. ASSUME NEW t \in Senders, NEW r \in Request, Send(t, r)
      PROVE  Fifo!FifoNext
  <2>1. CASE SendTooBig(t, r)
    <3>1. Fifo!Refuse(t)
      BY <2>1, MappedUnchanged DEF SendTooBig, Returns, Fifo!Refuse, Fifo!Returns
    <3>2. QED
      BY <3>1 DEF Fifo!FifoNext
  <2>2. CASE SendFull(t, r)
    <3>1. Len(Contents) = Count(read, write)
      BY ContentsType DEF TypeOK, Contents
    <3>2. Count(read, write) = ui2_msg_count
      BY <2>2, MsgQueueAssumption DEF SendFull, TypeOK, Count, Step
    <3>3. Fifo!Refuse(t)
      BY <2>2, <3>1, <3>2, MappedUnchanged
         DEF SendFull, Returns, Fifo!Refuse, Fifo!Returns
    <3>4. QED
      BY <3>3 DEF Fifo!FifoNext
  <2>3. CASE SendOk(t, r)
    <3> DEFINE m == [tick |-> sends + 1, len |-> r.len, lead |-> r.lead]
    <3>1. m \in Message
      BY <2>3, MsgQueueAssumption DEF SendOk, TypeOK, Message, Request
    <3>2. Fill(m) \in Slot /\ Fill(m).msg = m
      BY <3>1 DEF Fill, Slot, Message
    <3>3. /\ slot' = [slot EXCEPT ![write] = Fill(m)] /\ write' = Step(write)
          /\ read' = read /\ Step(write) # read /\ got' = got
          /\ Returns(t, "OSR_OK")
      BY <2>3 DEF SendOk
    <3> HIDE DEF m
    <3>4. Len(Contents) = Count(read, write)
      BY ContentsType DEF TypeOK, Contents
    <3>5. Count(read, write) < ui2_msg_count /\ Contents' = Append(Contents, m)
      BY <3>2, <3>3, SendAppends DEF TypeOK, Contents
    <3>6. Fifo!Enqueue(t, m)
      BY <3>3, <3>4, <3>5 DEF Returns, Fifo!Enqueue, Fifo!Returns
    <3>7. QED
      BY <3>1, <3>6 DEF Fifo!FifoNext
  <2>4. QED
    BY <1>1, <2>1, <2>2, <2>3 DEF Send
<1>2. ASSUME NEW t \in Receivers, NEW b \in BufSizes, Take(t, b)
      PROVE  Fifo!FifoNext
  BY <1>2, TakeDequeues DEF Fifo!FifoNext
<1>3. ASSUME NEW t \in Receivers, NEW c \in Call, Sleep(t, c)
      PROVE  UNCHANGED Fifo!fifoVars
  BY <1>3, MappedUnchanged DEF Sleep, Fifo!fifoVars
<1>4. ASSUME NEW t \in Receivers, NEW b \in BufSizes, ReceiveNoWait(t, b)
      PROVE  Fifo!FifoNext
  <2>1. CASE Take(t, b)
    BY <1>2, <2>1
  <2>2. CASE Empty /\ Returns(t, "OSR_NO_MSG")
             /\ UNCHANGED <<slot, read, write, pc, call, got, sends>>
    <3>1. Contents = <<>>
      BY <2>2, ContentsType DEF TypeOK, Contents, Empty
    <3>2. Fifo!Decline(t)
      BY <2>2, <3>1, MappedUnchanged DEF Returns, Fifo!Decline, Fifo!Returns
    <3>3. QED
      BY <3>2 DEF Fifo!FifoNext
  <2>3. QED
    BY <1>4, <2>1, <2>2 DEF ReceiveNoWait
<1>5. ASSUME NEW t \in Receivers, NEW c \in Call, Receive(t, c)
      PROVE  [Fifo!FifoNext]_(Fifo!fifoVars)
  BY <1>2, <1>3, <1>5 DEF Receive, Call
<1>6. ASSUME NEW t \in Receivers, Recheck(t)
      PROVE  [Fifo!FifoNext]_(Fifo!fifoVars)
  <2>1. call[t] \in Call /\ call[t].size \in BufSizes
    BY <1>6 DEF Recheck, TypeOK, Call
  <2>2. QED
    BY <1>2, <1>3, <1>6, <2>1 DEF Recheck
<1>7. ASSUME NEW t \in Receivers, SpuriousWake(t)
      PROVE  UNCHANGED Fifo!fifoVars
  BY <1>7, MappedUnchanged DEF SpuriousWake, Fifo!fifoVars
<1>8. ASSUME NEW t \in Receivers, TimeOut(t)
      PROVE  Fifo!FifoNext
  <2>1. Fifo!Decline(t)
    BY <1>8, MappedUnchanged DEF TimeOut, Returns, Fifo!Decline, Fifo!Returns
  <2>2. QED
    BY <2>1 DEF Fifo!FifoNext
<1>9. ASSUME NEW t \in Receivers, Flush(t)
      PROVE  Fifo!FifoNext
  <2>1. 0 \in 0 .. ui2_msg_count /\ slot' \in [0 .. ui2_msg_count -> Slot]
    BY <1>9, MsgQueueAssumption DEF Flush, TypeOK
  <2>2. Contents' = <<>>
    BY <1>9, <2>1, ContentsType DEF Flush, Contents
  <2>3. Fifo!Flush(t)
    BY <1>9, <2>2 DEF Flush, Returns, Fifo!Flush, Fifo!Returns
  <2>4. QED
    BY <2>3 DEF Fifo!FifoNext
<1>10. CASE UNCHANGED vars
  BY <1>10, MappedUnchanged DEF vars, Fifo!fifoVars
<1>11. QED
  BY <1>1, <1>4, <1>5, <1>6, <1>7, <1>8, <1>9, <1>10 DEF Next

\* The ring buffer of os_pthread_msg_q.c is a first-in first-out queue of
\* exactly ui2_msg_count messages, for every capacity and any number of
\* threads: no message is lost, duplicated or reordered.
THEOREM RingBufferIsFifo == Spec => ImplementsFifo
<1>1. Init => Fifo!FifoInit
  <2> SUFFICES ASSUME Init PROVE Fifo!FifoInit
    OBVIOUS
  <2>1. slot \in [0 .. ui2_msg_count -> Slot] /\ 0 \in 0 .. ui2_msg_count
    BY MsgQueueAssumption
       DEF Init, FreshSlot, Slot, NoMessage, Message
  <2>2. Contents = <<>>
    BY <2>1, ContentsType DEF Init, Contents
  <2>3. [t \in Threads |-> got[t].msg] = [t \in Threads |-> NoMessage]
    BY DEF Init, NoReceipt
  <2>4. QED
    BY <2>2, <2>3 DEF Init, Fifo!FifoInit, Fifo!fifoThreads
<1>2. TypeOK /\ [Next]_vars => [Fifo!FifoNext]_(Fifo!fifoVars)
  BY StepRefines
<1>3. QED
  BY <1>1, <1>2, TypeCorrect, PTL DEF Spec, ImplementsFifo, Fifo!FifoSpec

-----------------------------------------------------------------------------
\* A client of ipcd: what its calls hold at each place.
IpcFns == Sync \cup {"exec_async"}
IpcPtrs == {"null", "env", "cmd", "priv", "marker", "area"}
IpcCall == [pc : {"idle", "asking", "thread", "free"}, fn : IpcFns \cup {"none"},
            cmd : IpcPtrs, priv : IpcPtrs, heap : SUBSET {"req", "cmd", "priv"},
            status : {"none", "fail", "0", "1"}, ret : {"none", "-1", "0", "1"}, calls : Nat]

IpcType ==
  /\ icall \in [Callers -> IpcCall]
  /\ cbs \in [Callers -> Seq({"success", "failed"})]
  /\ low \in BOOLEAN /\ fault \in {"none", "callback", "value", "free"}

\* The strings are the caller's own or copies.
Passed(k) ==
  IF k.fn \in {"set_env", "get_env"} THEN k.cmd = "env" /\ k.priv \in {"env", "null"}
  ELSE k.cmd = "cmd" /\ k.priv \in {"null", "priv"}

\* The thread of ipcd_exec_async has left a private string's pointer inside the request.
Astray(k) == k.fn = "exec_async" /\ "priv" \in k.heap /\ k.priv \in {"marker", "area"}

\* One call k, with the callbacks b: the blocks of a request are those its pointers
\* lead to, before the exchange and, put back, when it is freed.
CallKnows(k, b) ==
  /\ k.pc = "idle" => k.heap = {}
  /\ k.pc \in {"asking", "thread"} =>
       k.fn \in IpcFns /\ Passed(k) /\ k.heap = {"req"} \cup Blocks({k.cmd, k.priv}) /\ b = <<>>
  /\ k.pc = "thread" => k.fn = "exec_async" /\ k.ret = "0"
  /\ k.pc = "free" => k.heap \subseteq {"req", "cmd", "priv"} /\ (Freed(k.cmd, k.priv) = k.heap \/ Astray(k))
  /\ k.pc = "free" /\ k.fn \in {"set_env", "exec", "exec_security"} => (k.ret = "0" <=> k.status = "0")
  /\ Len(b) <= (IF k.fn = "exec_async" /\ k.ret = "0" THEN 1 ELSE 0)

\* What stopped the program, if anything did.
FaultKnown ==
  /\ fault = "callback" => ~low
  /\ fault = "value" => \E c \in Callers : icall[c].fn = "get_env" /\ icall[c].status = "0"

IpcInv == IpcType /\ FaultKnown /\ \A c \in Callers : CallKnows(icall[c], cbs[c])

\* A step of one caller.
LEMMA IpcMoves ==
  ASSUME IpcInv, NEW c \in Callers, NEW k \in IpcCall, NEW b \in Seq({"success", "failed"}),
         CallKnows(k, b), low' = low, fault' \in {"none", "callback", "value"},
         fault' = "callback" => ~low, fault' = "value" => k.fn = "get_env" /\ k.status = "0",
         icall' = [icall EXCEPT ![c] = k], cbs' = [cbs EXCEPT ![c] = b]
  PROVE  IpcInv'
<1>1. icall' \in [Callers -> IpcCall] /\ \A d \in Callers : icall'[d] = IF d = c THEN k ELSE icall[d]
  BY DEF IpcInv, IpcType
<1>2. cbs' \in [Callers -> Seq({"success", "failed"})] /\ \A d \in Callers : cbs'[d] = IF d = c THEN b ELSE cbs[d]
  BY DEF IpcInv, IpcType
<1>3. \A d \in Callers : CallKnows(icall'[d], cbs'[d])
  <2> SUFFICES ASSUME NEW d \in Callers PROVE CallKnows(icall'[d], cbs'[d])
    OBVIOUS
  <2>1. CASE d = c
    BY <1>1, <1>2, <2>1
  <2>2. CASE d # c
    BY <1>1, <1>2, <2>2 DEF IpcInv
  <2>3. QED
    BY <2>1, <2>2
<1>4. FaultKnown'
  BY <1>1 DEF FaultKnown
<1>5. QED
  BY <1>1, <1>2, <1>3, <1>4 DEF IpcInv, IpcType

\* A call that starts has the blocks it allocated, or none.
LEMMA IpcBegins ==
  ASSUME IpcInv, NEW c \in Callers, NEW fn \in IpcFns, NEW cmd0 \in IpcPtrs, NEW priv0 \in IpcPtrs,
         Begin(c, fn, cmd0, priv0),
         Passed([fn |-> fn, cmd |-> cmd0, priv |-> priv0])
  PROVE  IpcInv'
<1> DEFINE all == {"req"} \cup Blocks({cmd0, priv0})
           k1 == [icall[c] EXCEPT !.pc = "asking", !.fn = fn, !.priv = priv0, !.cmd = cmd0,
                                  !.heap = all, !.ret = "none", !.calls = @ + 1]
           k2 == [Idle EXCEPT !.fn = fn, !.ret = "-1", !.calls = icall[c].calls + 1]
<1>1. icall[c] \in IpcCall /\ icall[c].calls \in Nat
  BY DEF IpcInv, IpcType, IpcCall
<1>2. cbs' = [cbs EXCEPT ![c] = <<>>] /\ low' = low /\ fault' = "none" /\ <<>> \in Seq({"success", "failed"})
  BY DEF Begin, IpcInv
<1>3. CASE icall' = [icall EXCEPT ![c] = k1]
  <2>0. all \in SUBSET {"req", "cmd", "priv"} /\ icall[c].calls + 1 \in Nat
    BY <1>1 DEF Blocks
  <2>1. k1 \in IpcCall
    <3> HIDE DEF all
    <3>1. QED
      BY <1>1, <2>0 DEF IpcCall
  <2>2. k1.pc = "asking" /\ k1.fn = fn /\ k1.cmd = cmd0 /\ k1.priv = priv0 /\ k1.heap = all /\ k1.ret = "none"
    BY <1>1 DEF IpcCall
  <2>3. CallKnows(k1, <<>>)
    BY <2>2 DEF CallKnows, Passed
  <2> HIDE DEF k1
  <2>4. QED
    BY <1>2, <1>3, <2>1, <2>3, IpcMoves
<1>4. CASE icall' = [icall EXCEPT ![c] = k2]
  <2>1. k2 \in IpcCall
    <3>1. Idle \in IpcCall /\ icall[c].calls + 1 \in Nat
      BY <1>1 DEF IpcCall, Idle, IpcPtrs
    <3>2. QED
      BY <3>1 DEF IpcCall
  <2>2. k2.pc = "idle" /\ k2.heap = {} /\ k2.ret = "-1"
    BY DEF Idle
  <2>3. CallKnows(k2, <<>>)
    BY <2>2 DEF CallKnows
  <2> HIDE DEF k2
  <2>4. QED
    BY <1>2, <1>4, <2>1, <2>3, IpcMoves
<1>5. icall' = [icall EXCEPT ![c] = k1] \/ icall' = [icall EXCEPT ![c] = k2]
  BY DEF Begin
<1> HIDE DEF k1, k2
<1>6. QED
  BY <1>3, <1>4, <1>5

\* ipcd_exec_async starts its thread, or takes the failure back.
LEMMA IpcSpawns ==
  ASSUME IpcInv, NEW c \in Callers, Spawn(c)
  PROVE  IpcInv'
<1> DEFINE k1 == [icall[c] EXCEPT !.pc = "thread", !.ret = "0"]
           k2 == [icall[c] EXCEPT !.pc = "free", !.ret = "-1"]
<1>1. icall[c] \in IpcCall /\ CallKnows(icall[c], cbs[c]) /\ icall[c].pc = "asking" /\ icall[c].fn = "exec_async"
  BY DEF IpcInv, IpcType, Spawn
<1>2. cbs \in [Callers -> Seq({"success", "failed"})] /\ low' = low /\ fault' = "none"
      /\ cbs' = [cbs EXCEPT ![c] = cbs[c]] /\ cbs[c] = <<>>
  BY <1>1 DEF Spawn, IpcInv, IpcType, CallKnows
<1>3. CASE icall' = [icall EXCEPT ![c] = k1]
  <2>1. k1 \in IpcCall /\ k1.pc = "thread" /\ k1.ret = "0" /\ k1.fn = "exec_async"
        /\ k1.cmd = icall[c].cmd /\ k1.priv = icall[c].priv /\ k1.heap = icall[c].heap
    BY <1>1 DEF IpcCall
  <2> HIDE DEF k1
  <2>2. CallKnows(k1, cbs[c])
    <3>1. Passed(icall[c]) /\ icall[c].heap = {"req"} \cup Blocks({icall[c].cmd, icall[c].priv})
      BY <1>1 DEF CallKnows
    <3>2. Passed(k1) /\ k1.heap = {"req"} \cup Blocks({k1.cmd, k1.priv})
      BY <1>1, <2>1, <3>1 DEF Passed
    <3>3. Len(cbs[c]) = 0
      BY <1>2
    <3>4. QED
      BY <1>2, <2>1, <3>2, <3>3 DEF CallKnows, IpcFns
  <2> HIDE DEF k1
  <2>3. QED
    BY <1>2, <1>3, <2>1, <2>2, IpcMoves
<1>4. CASE icall' = [icall EXCEPT ![c] = k2]
  <2>1. k2 \in IpcCall /\ k2.pc = "free" /\ k2.ret = "-1" /\ k2.fn = "exec_async"
        /\ k2.cmd = icall[c].cmd /\ k2.priv = icall[c].priv /\ k2.heap = icall[c].heap
    BY <1>1 DEF IpcCall
  <2>2. Freed(k2.cmd, k2.priv) = k2.heap /\ k2.heap \subseteq {"req", "cmd", "priv"}
    BY <1>1, <2>1 DEF CallKnows, Passed, Freed, Blocks
  <2>3. CallKnows(k2, cbs[c])
    BY <1>2, <2>1, <2>2 DEF CallKnows
  <2> HIDE DEF k2
  <2>4. QED
    BY <1>2, <1>4, <2>1, <2>3, IpcMoves
<1>5. QED
  BY <1>3, <1>4 DEF Spawn

\* Whatever the exchange leaves in the pointers, the ones put back are those the
\* blocks were allocated for, but for the private string of ipcd_exec_async.
LEMMA PutBack ==
  ASSUME NEW k \in IpcCall, k.fn \in IpcFns, Passed(k), k.heap = {"req"} \cup Blocks({k.cmd, k.priv}),
         NEW o \in Outcomes(k.fn, k.cmd, k.priv)
  PROVE  LET r == Restored(k.fn, k.cmd, k.priv, o)
         IN  /\ r[1] \in IpcPtrs /\ r[2] \in IpcPtrs
             /\ Freed(r[1], r[2]) = k.heap
                \/ (k.fn = "exec_async" /\ "priv" \in k.heap /\ r[2] \in {"marker", "area"})
             /\ o.status \in {"fail", "0", "1"}
<1>1. o.status \in {"fail", "0", "1"} /\ (k.priv = "null" /\ k.fn # "get_env" => o.priv = "null")
      /\ o.priv \in {"null", k.priv, "marker", "area"}
      /\ (k.priv = "priv" /\ k.fn # "get_env" => o.priv # "null")
  BY DEF Outcomes
<1>2. k.cmd \in IpcPtrs /\ k.priv \in IpcPtrs
  BY DEF IpcCall
<1>3. CASE k.fn \in {"set_env", "get_env"}
  BY <1>1, <1>3 DEF Restored, Passed, Freed, Blocks, IpcPtrs
<1>4. CASE k.fn = "exec_async"
  <2>1. k.cmd = "cmd" /\ k.priv \in {"null", "priv"} /\ Restored(k.fn, k.cmd, k.priv, o) = <<"cmd", o.priv>>
    BY <1>4 DEF Restored, Passed
  <2>2. CASE k.priv = "null"
    BY <1>1, <1>4, <2>1, <2>2 DEF Freed, Blocks, IpcPtrs
  <2>3. CASE k.priv = "priv"
    BY <1>1, <1>4, <2>1, <2>3 DEF Freed, Blocks, IpcPtrs
  <2>4. QED
    BY <2>1, <2>2, <2>3
<1>5. CASE k.fn \in {"exec", "exec_security"}
  BY <1>1, <1>2, <1>5 DEF Restored, Passed, Freed, Blocks
<1>6. QED
  BY <1>3, <1>4, <1>5 DEF IpcFns, Sync

\* The exchange with the daemon, whatever becomes of it.
LEMMA IpcExchanges ==
  ASSUME IpcInv, NEW c \in Callers, Exchange(c)
  PROVE  IpcInv'
<1>1. icall[c] \in IpcCall /\ CallKnows(icall[c], cbs[c])
      /\ icall[c].pc = IF icall[c].fn \in Sync THEN "asking" ELSE "thread"
  BY DEF IpcInv, IpcType, Exchange
<1>2. icall[c].fn \in IpcFns /\ Passed(icall[c]) /\ cbs[c] = <<>>
      /\ icall[c].heap = {"req"} \cup Blocks({icall[c].cmd, icall[c].priv})
      /\ (icall[c].fn = "exec_async" <=> icall[c].fn \notin Sync)
  BY <1>1 DEF CallKnows, IpcFns, Sync
<1>3. PICK o \in Outcomes(icall[c].fn, icall[c].cmd, icall[c].priv) :
        LET r == Restored(icall[c].fn, icall[c].cmd, icall[c].priv, o)
        IN  /\ icall' = [icall EXCEPT ![c].pc = "free", ![c].cmd = r[1], ![c].priv = r[2],
                          ![c].status = o.status,
                          ![c].ret = IF icall[c].fn \in Sync THEN Result(icall[c].fn, o.status) ELSE @]
            /\ cbs' = IF icall[c].fn = "exec_async" THEN [cbs EXCEPT ![c] = @ \o Called(o.status)] ELSE cbs
            /\ fault' = Stops(icall[c].fn, o)
  BY DEF Exchange
<1> DEFINE r == Restored(icall[c].fn, icall[c].cmd, icall[c].priv, o)
<1>4. PICK r1, r2, s, x : r1 = r[1] /\ r2 = r[2] /\ s = o.status
        /\ x = IF icall[c].fn \in Sync THEN Result(icall[c].fn, s) ELSE icall[c].ret
  OBVIOUS
<1>5. /\ r1 \in IpcPtrs /\ r2 \in IpcPtrs /\ s \in {"fail", "0", "1"}
      /\ Freed(r1, r2) = icall[c].heap
         \/ (icall[c].fn = "exec_async" /\ "priv" \in icall[c].heap /\ r2 \in {"marker", "area"})
  BY <1>1, <1>2, <1>4, PutBack
<1>6. x \in {"none", "-1", "0", "1"}
  BY <1>1, <1>4, <1>5 DEF Result, IpcCall
<1> DEFINE k == [icall[c] EXCEPT !.pc = "free", !.cmd = r1, !.priv = r2, !.status = s, !.ret = x]
           b == IF icall[c].fn = "exec_async" THEN Called(s) ELSE <<>>
<1>7. icall' = [icall EXCEPT ![c] = k]
  <2>1. icall' = [icall EXCEPT ![c].pc = "free", ![c].cmd = r1, ![c].priv = r2, ![c].status = s, ![c].ret = x]
    BY <1>3, <1>4
  <2>2. icall \in [Callers -> IpcCall]
    BY DEF IpcInv, IpcType
  <2>3. QED
    BY <2>1, <2>2
<1>8. k \in IpcCall /\ k.pc = "free" /\ k.cmd = r1 /\ k.priv = r2 /\ k.status = s /\ k.ret = x
      /\ k.fn = icall[c].fn /\ k.heap = icall[c].heap
  BY <1>1, <1>5, <1>6 DEF IpcCall
<1>9. Called(s) \in Seq({"success", "failed"}) /\ Len(Called(s)) <= 1 /\ <<>> \o Called(s) = Called(s)
  <2>1. \A y \in {"success", "failed"} :
          <<y>> \in Seq({"success", "failed"}) /\ Len(<<y>>) = 1 /\ <<>> \o <<y>> = <<y>>
    OBVIOUS
  <2>3. <<>> \in Seq({"success", "failed"}) /\ Len(<<>>) = 0 /\ <<>> \o <<>> = <<>>
    OBVIOUS
  <2>2. Called(s) = <<>> \/ \E y \in {"success", "failed"} : Called(s) = <<y>>
    BY DEF Called
  <2>4. CASE Called(s) = <<>>
    BY <2>3, <2>4
  <2>5. ASSUME NEW y \in {"success", "failed"}, Called(s) = <<y>>
        PROVE  Called(s) \in Seq({"success", "failed"}) /\ Len(Called(s)) <= 1 /\ <<>> \o Called(s) = Called(s)
    BY <2>1, <2>5
  <2>6. QED
    BY <2>2, <2>4, <2>5
<1>10. cbs' = [cbs EXCEPT ![c] = b] /\ b \in Seq({"success", "failed"})
  BY <1>2, <1>3, <1>4, <1>9 DEF IpcInv, IpcType
<1>11. k.fn \in {"set_env", "exec", "exec_security"} => (x = "0" <=> s = "0")
  BY <1>4, <1>5, <1>8 DEF Result, Sync
<1>12. Len(b) <= (IF k.fn = "exec_async" /\ k.ret = "0" THEN 1 ELSE 0)
  <2>1. CASE icall[c].fn = "exec_async"
    <3>1. x = "0"
      BY <1>1, <1>2, <1>4, <2>1 DEF CallKnows
    <3>2. b = Called(s) /\ k.fn = "exec_async" /\ k.ret = "0"
      BY <1>8, <2>1, <3>1
    <3> HIDE DEF b, k
    <3>3. Len(b) <= 1
      BY <1>9, <3>2
    <3>4. QED
      BY <3>2, <3>3
  <2>2. CASE icall[c].fn # "exec_async"
    BY <1>8, <2>2
  <2>3. QED
    BY <2>1, <2>2
<1> HIDE DEF k, b
<1>13. CallKnows(k, b)
  <2>1. k.heap \subseteq {"req", "cmd", "priv"}
    BY <1>8 DEF IpcCall
  <2>2. QED
    BY <1>5, <1>8, <1>11, <1>12, <2>1 DEF CallKnows, Astray
<1>14. /\ low' = low /\ fault' \in {"none", "callback", "value"}
       /\ fault' = "callback" => ~low
       /\ fault' = "value" => k.fn = "get_env" /\ k.status = "0"
  BY <1>3, <1>4, <1>8 DEF Exchange, Stops
<1>15. QED
  BY <1>7, <1>8, <1>10, <1>13, <1>14, IpcMoves

\* The request is freed and the call is over.
LEMMA IpcReleases ==
  ASSUME IpcInv, NEW c \in Callers, Release(c)
  PROVE  IpcInv'
<1> DEFINE k == [icall[c] EXCEPT !.pc = "idle", !.heap = {}]
<1>1. icall[c] \in IpcCall /\ CallKnows(icall[c], cbs[c]) /\ icall[c].pc = "free"
  BY DEF IpcInv, IpcType, Release
<1>2. Freed(icall[c].cmd, icall[c].priv) = icall[c].heap \/ Astray(icall[c])
  BY <1>1 DEF CallKnows
<1>3. CASE Freed(icall[c].cmd, icall[c].priv) = icall[c].heap
  <2>1. icall' = [icall EXCEPT ![c] = k] /\ low' = low /\ fault' = "none"
    <3>1. icall' = [icall EXCEPT ![c].pc = "idle", ![c].heap = icall[c].heap \ Freed(icall[c].cmd, icall[c].priv)]
          /\ low' = low /\ fault' = "none"
      BY <1>3 DEF Release
    <3>2. icall[c].heap \ Freed(icall[c].cmd, icall[c].priv) = {}
      BY <1>3
    <3>3. icall' = [icall EXCEPT ![c].pc = "idle", ![c].heap = {}]
      BY <3>1, <3>2
    <3>4. icall \in [Callers -> IpcCall]
      BY DEF IpcInv, IpcType
    <3>5. QED
      BY <3>1, <3>3, <3>4
  <2>2. cbs \in [Callers -> Seq({"success", "failed"})] /\ cbs' = [cbs EXCEPT ![c] = cbs[c]]
    BY DEF Release, IpcInv, IpcType
  <2>3. k \in IpcCall /\ k.pc = "idle" /\ k.heap = {} /\ k.fn = icall[c].fn /\ k.ret = icall[c].ret
    BY <1>1 DEF IpcCall
  <2>4. CallKnows(k, cbs[c])
    BY <1>1, <2>3 DEF CallKnows
  <2> HIDE DEF k
  <2>5. cbs[c] \in Seq({"success", "failed"})
    BY <2>2
  <2>6. QED
    BY <2>1, <2>2, <2>3, <2>4, <2>5, IpcMoves
<1>4. CASE Astray(icall[c])
  <2>1. ~(Freed(icall[c].cmd, icall[c].priv) \subseteq icall[c].heap)
    BY <1>1, <1>4 DEF Astray, Freed, CallKnows
  <2>2. UNCHANGED <<icall, cbs, low>> /\ fault' = "free"
    BY <2>1 DEF Release
  <2>3. QED
    BY <2>2 DEF IpcInv, IpcType, FaultKnown
<1>5. QED
  BY <1>2, <1>3, <1>4

\* Every step of a client of ipcd keeps what its calls hold.
LEMMA IpcStep == IpcInv /\ [PNext]_ivars => IpcInv'
<1> SUFFICES ASSUME IpcInv, [PNext]_ivars PROVE IpcInv'
  OBVIOUS
<1>1. ASSUME NEW c \in Callers, ipcd_set_env(c) \/ ipcd_get_env(c) PROVE IpcInv'
  <2>1. PICK fn \in {"set_env", "get_env"}, p \in {"env", "null"} : Begin(c, fn, "env", p)
    BY <1>1 DEF ipcd_set_env, ipcd_get_env
  <2>2. Passed([fn |-> fn, cmd |-> "env", priv |-> p])
    BY DEF Passed
  <2>3. QED
    BY <2>1, <2>2, IpcBegins DEF IpcFns, Sync, IpcPtrs
<1>2. ASSUME NEW c \in Callers, ipcd_exec(c) \/ ipcd_exec_security(c) PROVE IpcInv'
  <2>1. PICK fn \in {"exec", "exec_security"}, p \in {"null", "priv"} : Begin(c, fn, "cmd", p)
    BY <1>2 DEF ipcd_exec, ipcd_exec_security
  <2>2. Passed([fn |-> fn, cmd |-> "cmd", priv |-> p])
    BY DEF Passed
  <2>3. QED
    BY <2>1, <2>2, IpcBegins DEF IpcFns, Sync, IpcPtrs
<1>3. ASSUME NEW c \in Callers, ipcd_exec_async(c) PROVE IpcInv'
  <2>1. PICK p \in {"null", "priv"} : Begin(c, "exec_async", "cmd", p)
    BY <1>3 DEF ipcd_exec_async
  <2>2. Passed([fn |-> "exec_async", cmd |-> "cmd", priv |-> p])
    BY DEF Passed
  <2>3. QED
    BY <2>1, <2>2, IpcBegins DEF IpcFns, IpcPtrs
<1>4. CASE UNCHANGED ivars
  BY <1>4 DEF ivars, IpcInv, IpcType, FaultKnown
<1>5. QED
  BY <1>1, <1>2, <1>3, <1>4, IpcSpawns, IpcExchanges, IpcReleases DEF PNext

\* No call has begun.
LEMMA IpcStarts == PInit => IpcInv
<1> SUFFICES ASSUME PInit PROVE IpcInv
  OBVIOUS
<1>1. Idle \in IpcCall /\ <<>> \in Seq({"success", "failed"}) /\ CallKnows(Idle, <<>>)
  BY DEF Idle, IpcCall, IpcPtrs, CallKnows
<1>2. QED
  BY <1>1 DEF PInit, IpcInv, IpcType, FaultKnown

\* The three properties of the clients of ipcd from what their calls hold.
LEMMA IpcHolds == IpcInv => RequestFreedExactly /\ SuccessIsTheDaemons /\ CallbackAtMostOnce
BY DEF IpcInv, FaultKnown, CallKnows, Astray, RequestFreedExactly, SuccessIsTheDaemons, CallbackAtMostOnce

-----------------------------------------------------------------------------
\* The wire format: strings are without NUL, and an area is its cells.
Areas == [1 .. Cap -> Nat]
Pointers == Strings \cup {Marker} \cup {InArea(k) : k \in Nat}
Records == [magic : {"host", "net"}, type : {"host", "net"}, status : Int, cmd : Pointers, priv : Pointers,
            area : Areas]

Width(x) == IF x = Null THEN 0 ELSE Len(x.text) + 1
MarkerOf(x) == IF x = Null THEN Null ELSE Marker

\* The string is in the area from offset k on, with its NUL.
Holds(area, k, s) ==
  /\ k + Len(s) + 1 <= Cap
  /\ \A i \in 1 .. Len(s) : area[k + i] = s[i]
  /\ area[k + Len(s) + 1] = NUL

\* A string is NULL or a text without NUL.
LEMMA StringIs ==
  ASSUME NEW x \in Strings
  PROVE  /\ Width(x) \in Nat /\ Cap \in Nat
         /\ x # Null => /\ x.at = "own" /\ x # Marker /\ x = Own(x.text) /\ x.text \in Seq(Nat \ {0})
                        /\ Len(x.text) \in Nat /\ Width(x) = Len(x.text) + 1
         /\ \A k : x # InArea(k)
<1>1. CASE x = Null
  BY <1>1, RequestAssumption DEF Null, InArea, Width
<1>2. CASE x # Null
  <2>1. PICK s \in Texts : x = Own(s)
    BY <1>2 DEF Strings
  <2>2. s \in Seq(Nat \ {0}) /\ Cap \in Nat
    BY RequestAssumption
  <2>3. Len(s) \in Nat
    BY <2>2
  <2>4. x.at = "own" /\ x.text = s
    BY <2>1 DEF Own
  <2>5. x # Marker /\ \A k : x # InArea(k)
    BY <2>4 DEF Marker, InArea
  <2>6. QED
    BY <1>2, <2>1, <2>2, <2>3, <2>4, <2>5 DEF Width
<1>3. QED
  BY <1>1, <1>2

\* NULL, the marker and a pointer into the area are told apart.
LEMMA PointersDiffer == Null # Marker /\ \A k : InArea(k) # Null /\ InArea(k) # Marker /\ InArea(k).at = "area"
                                                 /\ InArea(k).off = k
BY DEF Null, Marker, InArea

\* What is found at an offset is the string up to its NUL.
LEMMA TextIs ==
  ASSUME NEW area \in Areas, NEW k \in Nat, NEW s \in Seq(Nat \ {0}), Holds(area, k, s)
  PROVE  TextAt(area, k) = s
<1> DEFINE ends == {i \in (k + 1) .. Cap : area[i] = NUL}
           e == k + Len(s) + 1
<1>1. Cap \in Nat /\ Len(s) \in Nat /\ e \in Nat /\ e <= Cap /\ e >= k + 1
  BY RequestAssumption DEF Holds
<1>2. e \in ends
  BY <1>1 DEF Holds
<1>3. ASSUME NEW j \in ends PROVE e <= j
  <2>1. j \in Nat /\ j >= k + 1
    BY <1>1
  <2>2. SUFFICES ASSUME j < e PROVE FALSE
    BY <1>1, <2>1
  <2>3. j - k \in 1 .. Len(s) /\ k + (j - k) = j
    BY <1>1, <2>1, <2>2
  <2>4. area[k + (j - k)] = s[j - k]
    BY <2>3 DEF Holds
  <2>5. s[j - k] \in Nat \ {0}
    BY <2>3
  <2>6. QED
    BY <2>3, <2>4, <2>5 DEF NUL
<1>4. (CHOOSE i \in ends : \A j \in ends : i =< j) = e
  <2>1. \E i \in ends : \A j \in ends : i =< j
    BY <1>2, <1>3
  <2>2. ends \subseteq Nat
    BY <1>1
  <2> HIDE DEF ends, e
  <2>3. \A i \in ends : (\A j \in ends : i =< j) => i = e
    BY <1>1, <1>2, <1>3, <2>2
  <2>4. QED
    BY <2>1, <2>3
<1>5. TextAt(area, k) = SubSeq(area, k + 1, e - 1)
  BY <1>2, <1>4 DEF TextAt
<1>6. area \in Seq(Nat) /\ Len(area) = Cap
  BY <1>1 DEF Areas
<1>7. e - 1 = k + Len(s)
  BY <1>1
<1>8. /\ Len(SubSeq(area, k + 1, k + Len(s))) = Len(s)
      /\ SubSeq(area, k + 1, k + Len(s)) \in Seq(Nat)
      /\ \A i \in 1 .. Len(s) : SubSeq(area, k + 1, k + Len(s))[i] = area[k + i]
  <2>1. k + 1 \in 1 .. Len(area) + 1 /\ k + Len(s) \in (k + 1) - 1 .. Len(area)
    BY <1>1, <1>6
  <2>2. (k + Len(s)) - (k + 1) + 1 = Len(s) /\ \A i \in 1 .. Len(s) : (k + 1) + i - 1 = k + i
    BY <1>1
  <2>3. QED
    BY <1>1, <1>6, <2>1, <2>2, SubSeqProperties
<1>9. QED
  <2>1. \A i \in 1 .. Len(s) : SubSeq(area, k + 1, k + Len(s))[i] = s[i]
    BY <1>8 DEF Holds
  <2>2. s \in Seq(Nat)
    OBVIOUS
  <2>3. SubSeq(area, k + 1, k + Len(s)) = s
    BY <1>8, <2>1, <2>2, SeqEqual
  <2>4. QED
    BY <1>5, <1>7, <2>3

\* Writing a string puts it there, and leaves the other cells alone.
LEMMA WrittenIs ==
  ASSUME NEW area \in Areas, NEW k \in Nat, NEW s \in Seq(Nat \ {0}), k + Len(s) + 1 <= Cap
  PROVE  /\ Written(area, k, s) \in Areas /\ Holds(Written(area, k, s), k, s)
         /\ \A i \in 1 .. Cap : i <= k \/ i > k + Len(s) + 1 => Written(area, k, s)[i] = area[i]
<1>1. Cap \in Nat /\ Len(s) \in Nat
  BY RequestAssumption
<1>2. ASSUME NEW i \in (k + 1) .. (k + Len(s)) PROVE i - k \in 1 .. Len(s) /\ s[i - k] \in Nat
  <2>1. i - k \in 1 .. Len(s)
    BY <1>1
  <2>2. QED
    BY <2>1
<1>3. Written(area, k, s) \in Areas
  BY <1>1, <1>2 DEF Written, Areas, NUL
<1>4. ASSUME NEW i \in 1 .. Len(s) PROVE Written(area, k, s)[k + i] = s[i]
  <2>1. k + i \in 1 .. Cap /\ k + i \in (k + 1) .. (k + Len(s)) /\ (k + i) - k = i
    BY <1>1
  <2>2. QED
    BY <2>1 DEF Written
<1>5. Written(area, k, s)[k + Len(s) + 1] = NUL
  <2>1. k + Len(s) + 1 \in 1 .. Cap /\ k + Len(s) + 1 \notin (k + 1) .. (k + Len(s))
    BY <1>1
  <2>2. QED
    BY <2>1 DEF Written
<1>6. \A i \in 1 .. Cap : i <= k \/ i > k + Len(s) + 1 => Written(area, k, s)[i] = area[i]
  BY <1>1 DEF Written
<1>7. QED
  BY <1>3, <1>4, <1>5, <1>6 DEF Holds

\* A string stays where no cell of it is written.
LEMMA HoldsOn ==
  ASSUME NEW a1 \in Areas, NEW a2 \in Areas, NEW k \in Nat, NEW s \in Seq(Nat \ {0}), Holds(a1, k, s),
         \A i \in 1 .. Cap : i > k /\ i <= k + Len(s) + 1 => a2[i] = a1[i]
  PROVE  Holds(a2, k, s)
<1>1. Cap \in Nat /\ Len(s) \in Nat /\ k + Len(s) + 1 <= Cap
  BY RequestAssumption DEF Holds
<1>2. \A i \in 1 .. Len(s) : k + i \in 1 .. Cap /\ k + i > k /\ k + i <= k + Len(s) + 1
  BY <1>1
<1>3. k + Len(s) + 1 \in 1 .. Cap /\ k + Len(s) + 1 > k
  BY <1>1
<1>4. \A i \in 1 .. Len(s) : a2[k + i] = s[i]
  BY <1>2 DEF Holds
<1>5. a2[k + Len(s) + 1] = NUL
  BY <1>1, <1>3 DEF Holds
<1>6. QED
  BY <1>1, <1>4, <1>5 DEF Holds

\* A pointer leads to the string x: its own memory, or the area.
Leads(area, p, x) ==
  IF x = Null THEN p = Null
  ELSE p = x \/ \E k \in Nat : p = InArea(k) /\ Holds(area, k, x.text)

\* What is written at a place of the area is the string found there.
LEMMA LeadsTo ==
  ASSUME NEW area \in Areas, NEW x \in Strings, NEW p, Leads(area, p, x)
  PROVE  /\ p = Null <=> x = Null
         /\ p \in Pointers
         /\ x # Null => Text(area, p) = x.text
<1>1. CASE x = Null
  BY <1>1 DEF Leads, Pointers, Strings
<1>2. CASE x # Null /\ p = x
  BY <1>2, StringIs DEF Text, Pointers
<1>3. CASE x # Null /\ p # x
  <2>1. PICK k \in Nat : p = InArea(k) /\ Holds(area, k, x.text)
    BY <1>3 DEF Leads
  <2>2. x.text \in Seq(Nat \ {0})
    BY <1>3, StringIs
  <2>3. Text(area, p) = TextAt(area, k)
    BY <2>1, PointersDiffer DEF Text
  <2>4. QED
    BY <1>3, <2>1, <2>2, <2>3, TextIs, PointersDiffer DEF Pointers
<1>4. QED
  BY <1>1, <1>2, <1>3

\* Packing a string writes it, or refuses it when it does not fit.
LEMMA StringPacked ==
  ASSUME NEW area \in Areas, NEW next \in 0 .. Cap, NEW x \in Strings, NEW p, Leads(area, p, x),
         NEW y, y = pack_request_string(p, area, next)
  PROVE  /\ y.ok <=> next + Width(x) <= Cap
         /\ y.ok \in BOOLEAN
         /\ y.area \in Areas
         /\ y.ok => /\ y.p = MarkerOf(x) /\ y.next = next + Width(x)
                    /\ x # Null => Holds(y.area, next, x.text)
                    /\ \A i \in 1 .. Cap : i <= next \/ i > next + Width(x) => y.area[i] = area[i]
         /\ ~y.ok => y.p = p /\ y.next = next /\ y.area = area
<1>1. Cap \in Nat /\ next \in Nat
  BY RequestAssumption
<1>2. CASE x = Null
  <2>1. p = Null /\ Width(x) = 0 /\ MarkerOf(x) = Null
    BY <1>2, LeadsTo DEF Width, MarkerOf
  <2>2. y = [ok |-> TRUE, p |-> p, area |-> area, next |-> next]
    BY <2>1 DEF pack_request_string
  <2>3. y.ok = TRUE /\ y.p = p /\ y.area = area /\ y.next = next
    BY <2>2
  <2>4. next + Width(x) = next /\ next <= Cap
    BY <1>1, <2>1
  <2>5. QED
    BY <1>2, <2>1, <2>3, <2>4
<1>3. CASE x # Null
  <2>1. p # Null /\ Text(area, p) = x.text /\ MarkerOf(x) = Marker
    BY <1>3, LeadsTo DEF MarkerOf
  <2>2. x.text \in Seq(Nat \ {0}) /\ Len(x.text) \in Nat /\ Width(x) = Len(x.text) + 1
    BY <1>3, StringIs
  <2>3. Fits(Width(x), next) <=> next + Width(x) <= Cap
    BY <1>1, <2>2 DEF Fits
  <2>4. CASE next + Width(x) <= Cap
    <3>1. y = [ok |-> TRUE, p |-> Marker, area |-> Written(area, next, x.text), next |-> next + Width(x)]
      BY <2>1, <2>2, <2>3, <2>4 DEF pack_request_string
    <3>2. next + Len(x.text) + 1 <= Cap
      BY <1>1, <2>2, <2>4
    <3>3. /\ Written(area, next, x.text) \in Areas /\ Holds(Written(area, next, x.text), next, x.text)
          /\ \A i \in 1 .. Cap : i <= next \/ i > next + Len(x.text) + 1 => Written(area, next, x.text)[i] = area[i]
      BY <1>1, <2>2, <3>2, WrittenIs
    <3>4. next + Len(x.text) + 1 = next + Width(x)
      BY <1>1, <2>2
    <3>5. QED
      BY <2>1, <2>4, <3>1, <3>3, <3>4
  <2>5. CASE ~(next + Width(x) <= Cap)
    <3>1. y = [ok |-> FALSE, p |-> p, area |-> area, next |-> next]
      BY <2>1, <2>2, <2>3, <2>5 DEF pack_request_string
    <3>2. QED
      BY <2>5, <3>1
  <2>6. QED
    BY <2>4, <2>5
<1>4. QED
  BY <1>2, <1>3

\* Unpacking finds the string where packing has put it.
LEMMA StringUnpacked ==
  ASSUME NEW area \in Areas, NEW next \in Nat, NEW x \in Strings, x # Null => Holds(area, next, x.text)
  PROVE  unpack_request_string(MarkerOf(x), area, next, Cap)
           = [ok |-> TRUE, p |-> IF x = Null THEN Null ELSE InArea(next), next |-> next + Width(x)]
<1>1. CASE x = Null
  BY <1>1 DEF unpack_request_string, MarkerOf, Width
<1>2. CASE x # Null
  <2>1. x.text \in Seq(Nat \ {0}) /\ Len(x.text) \in Nat /\ Width(x) = Len(x.text) + 1 /\ Cap \in Nat
    BY <1>2, StringIs
  <2>2. TextAt(area, next) = x.text
    BY <1>2, <2>1, TextIs
  <2>3. next + Len(x.text) + 1 \in {i \in (next + 1) .. Cap : area[i] = NUL}
    BY <1>2, <2>1 DEF Holds
  <2>4. MarkerOf(x) = Marker /\ Marker # Null
    BY <1>2, PointersDiffer DEF MarkerOf
  <2>5. unpack_request_string(Marker, area, next, Cap)
          = [ok |-> TRUE, p |-> InArea(next), next |-> next + Len(x.text) + 1]
    BY <2>2, <2>3, <2>4 DEF unpack_request_string
  <2>6. next + Len(x.text) + 1 = next + Width(x)
    BY <2>1
  <2>7. QED
    BY <1>2, <2>4, <2>5, <2>6
<1>3. QED
  BY <1>1, <1>2

\* A request as it travels, with the strings c and v.
Packed(r, c, v) ==
  /\ r \in Records /\ r.magic = "net" /\ r.cmd = MarkerOf(c) /\ r.priv = MarkerOf(v)
  /\ c # Null => Holds(r.area, 0, c.text)
  /\ v # Null => Holds(r.area, Width(c), v.text)

\* One that was received, or is going to be sent.
Carries(r, c, v) ==
  /\ r \in Records /\ r.magic = "host"
  /\ Leads(r.area, r.cmd, c)
  /\ IF v = Null \/ r.priv = v THEN r.priv = v
     ELSE r.priv = InArea(Width(c)) /\ Holds(r.area, Width(c), v.text)

\* The area of a packed request carries its two strings.
LEMMA CarriesBoth ==
  ASSUME NEW r, NEW c \in Strings, NEW v \in Strings, Carries(r, c, v)
  PROVE  Same(r, r.cmd, c) /\ Same(r, r.priv, v) /\ Leads(r.area, r.priv, v)
<1>1. r.area \in Areas /\ Leads(r.area, r.cmd, c) /\ Width(c) \in Nat
  BY StringIs DEF Carries, Records
<1>2. Leads(r.area, r.priv, v)
  BY <1>1 DEF Carries, Leads
<1>3. QED
  BY <1>1, <1>2, LeadsTo DEF Same

\* A carried request is unpacked to its strings.
LEMMA Unpacks ==
  ASSUME NEW r, NEW c \in Strings, NEW v \in Strings, Packed(r, c, v),
         NEW u, u = unpack_request(r)
  PROVE  u.ok /\ Carries(u.r, c, v) /\ u.r.status = r.status /\ u.r.area = r.area
         /\ u.r.cmd # Marker /\ u.r.priv = (IF v = Null THEN Null ELSE InArea(Width(c)))
<1> DEFINE p1 == IF c = Null THEN Null ELSE InArea(0)
           p2 == IF v = Null THEN Null ELSE InArea(Width(c))
           q == [[r EXCEPT !.magic = "host", !.type = "host", !.cmd = p1] EXCEPT !.priv = p2]
<1>1. r \in Records /\ r.area \in Areas /\ r.magic = "net" /\ r.cmd = MarkerOf(c) /\ r.priv = MarkerOf(v)
  BY DEF Packed, Records
<1>2. Width(c) \in Nat /\ 0 + Width(c) = Width(c)
  BY StringIs
<1>3. unpack_request_string(r.cmd, r.area, 0, Cap) = [ok |-> TRUE, p |-> p1, next |-> Width(c)]
  <2>1. c # Null => Holds(r.area, 0, c.text)
    BY DEF Packed
  <2>2. unpack_request_string(MarkerOf(c), r.area, 0, Cap) = [ok |-> TRUE, p |-> p1, next |-> 0 + Width(c)]
    BY <1>1, <2>1, StringUnpacked
  <2>3. QED
    BY <1>1, <1>2, <2>2
<1>4. unpack_request_string(r.priv, r.area, Width(c), Cap) = [ok |-> TRUE, p |-> p2, next |-> Width(c) + Width(v)]
  <2>1. v # Null => Holds(r.area, Width(c), v.text)
    BY DEF Packed
  <2>2. unpack_request_string(MarkerOf(v), r.area, Width(c), Cap) = [ok |-> TRUE, p |-> p2, next |-> Width(c) + Width(v)]
    BY <1>1, <1>2, <2>1, StringUnpacked
  <2>3. QED
    BY <1>1, <2>2
<1>5. p1 \in Pointers /\ p2 \in Pointers /\ p1 # Marker
  BY <1>2, PointersDiffer DEF Pointers, Strings
<1>6. u = [ok |-> TRUE, r |-> q]
  <2> HIDE DEF p1, p2
  <2>1. PICK x, y : x = unpack_request_string(r.cmd, r.area, 0, Cap)
                    /\ y = unpack_request_string(r.priv, r.area, x.next, Cap)
    OBVIOUS
  <2>2. x.ok = TRUE /\ x.p = p1 /\ x.next = Width(c) /\ y.ok = TRUE /\ y.p = p2
    BY <1>3, <1>4, <2>1
  <2>3. u = IF ~x.ok THEN [ok |-> FALSE, r |-> [r EXCEPT !.magic = "host", !.type = "host", !.cmd = x.p]]
            ELSE [ok |-> y.ok,
                  r |-> [[r EXCEPT !.magic = "host", !.type = "host", !.cmd = x.p] EXCEPT !.priv = y.p]]
    BY <1>1, <2>1 DEF unpack_request
  <2>4. QED
    BY <2>2, <2>3
<1>7. /\ q \in Records /\ q.magic = "host" /\ q.cmd = p1 /\ q.priv = p2 /\ q.area = r.area
      /\ q.status = r.status
  <2> HIDE DEF p1, p2
  <2>1. QED
    BY <1>1, <1>5 DEF Records
<1> HIDE DEF q
<1>8. Leads(q.area, q.cmd, c)
  BY <1>7 DEF Leads, Packed
<1>9. IF v = Null \/ q.priv = v THEN q.priv = v
      ELSE q.priv = InArea(Width(c)) /\ Holds(q.area, Width(c), v.text)
  BY <1>7 DEF Packed
<1>10. QED
  BY <1>5, <1>6, <1>7, <1>8, <1>9 DEF Carries

WithStatus(r, n, p) == [r EXCEPT !.status = n, !.priv = p]

\* Setting the status leaves the strings as they are.
LEMMA StatusSet ==
  ASSUME NEW r \in Records, NEW n \in Int, NEW p \in Pointers, NEW q, q = WithStatus(r, n, p)
  PROVE  /\ q \in Records /\ q.magic = r.magic /\ q.cmd = r.cmd /\ q.area = r.area
         /\ q.priv = p /\ q.status = n
BY DEF Records, WithStatus

\* What packing makes of it: the strings behind one another, if both fit.
LEMMA Packs ==
  ASSUME NEW r, NEW c \in Strings, NEW v \in Strings, Carries(r, c, v),
         NEW p, p = pack_request(r)
  PROVE  /\ p.ok <=> Width(c) + Width(v) <= Cap
         /\ p.ok => Packed(p.r, c, v) /\ p.r.status = r.status
         /\ ~p.ok /\ Width(c) <= Cap => Packed([p.r EXCEPT !.status = -1, !.priv = Null], c, Null)
<1>0. Cap \in Nat /\ Width(c) \in Nat /\ Width(v) \in Nat /\ 0 + Width(c) = Width(c) /\ 0 \in 0 .. Cap
  BY StringIs
<1>1. r \in Records /\ r.area \in Areas /\ r.magic = "host" /\ Leads(r.area, r.cmd, c)
  BY DEF Carries, Records
<1>2. PICK x : x = pack_request_string(r.cmd, r.area, 0)
  OBVIOUS
<1>3. /\ x.ok <=> Width(c) <= Cap
      /\ x.ok \in BOOLEAN /\ x.area \in Areas
      /\ x.ok => /\ x.p = MarkerOf(c) /\ x.next = Width(c)
                 /\ c # Null => Holds(x.area, 0, c.text)
                 /\ \A i \in 1 .. Cap : i <= 0 \/ i > Width(c) => x.area[i] = r.area[i]
      /\ ~x.ok => x.p = r.cmd /\ x.next = 0 /\ x.area = r.area
  BY <1>0, <1>1, <1>2, StringPacked
<1>4. PICK y : y = pack_request_string(r.priv, x.area, x.next)
  OBVIOUS
<1> DEFINE q == [r EXCEPT !.magic = "net", !.type = "net", !.cmd = x.p]
           q2 == [q EXCEPT !.priv = y.p, !.area = y.area]
<1>5. p = IF ~x.ok THEN [ok |-> FALSE, r |-> q] ELSE [ok |-> y.ok, r |-> q2]
  BY <1>1, <1>2, <1>4 DEF pack_request
<1> HIDE DEF q, q2
<1>6. CASE ~x.ok
  BY <1>0, <1>3, <1>5, <1>6
<1>7. CASE x.ok
  <2>1. Leads(x.area, r.priv, v)
    <3>1. CASE v = Null \/ r.priv = v
      BY <3>1 DEF Carries, Leads
    <3>2. CASE ~(v = Null \/ r.priv = v)
      <4>1. r.priv = InArea(Width(c)) /\ Holds(r.area, Width(c), v.text) /\ v.text \in Seq(Nat \ {0})
        BY <3>2, StringIs DEF Carries
      <4>2. \A i \in 1 .. Cap : i > Width(c) => x.area[i] = r.area[i]
        BY <1>3, <1>7
      <4>3. Holds(x.area, Width(c), v.text)
        BY <1>0, <1>1, <1>3, <4>1, <4>2, HoldsOn
      <4>4. QED
        BY <1>0, <3>2, <4>1, <4>3 DEF Leads
    <3>3. QED
      BY <3>1, <3>2
  <2>2. x.next \in 0 .. Cap /\ x.next = Width(c) /\ r.priv \in Pointers
    BY <1>0, <1>1, <1>3, <1>7 DEF Records
  <2>3. /\ y.ok <=> Width(c) + Width(v) <= Cap
        /\ y.ok \in BOOLEAN /\ y.area \in Areas
        /\ y.ok => /\ y.p = MarkerOf(v)
                   /\ v # Null => Holds(y.area, Width(c), v.text)
                   /\ \A i \in 1 .. Cap : i <= Width(c) \/ i > Width(c) + Width(v) => y.area[i] = x.area[i]
        /\ ~y.ok => y.p = r.priv /\ y.area = x.area
    BY <1>3, <1>4, <2>1, <2>2, StringPacked
  <2>4. c # Null => Holds(y.area, 0, c.text)
    <3> SUFFICES ASSUME c # Null PROVE Holds(y.area, 0, c.text)
      OBVIOUS
    <3>1. c.text \in Seq(Nat \ {0}) /\ Width(c) = Len(c.text) + 1 /\ Len(c.text) \in Nat
      BY StringIs
    <3>2. Holds(x.area, 0, c.text)
      BY <1>3, <1>7
    <3>3. \A i \in 1 .. Cap : i > 0 /\ i <= 0 + Len(c.text) + 1 => y.area[i] = x.area[i]
      BY <2>3, <3>1
    <3>4. QED
      BY <1>3, <2>3, <3>1, <3>2, <3>3, HoldsOn
  <2>5. MarkerOf(c) \in Pointers /\ MarkerOf(v) \in Pointers /\ Null \in Pointers /\ MarkerOf(Null) = Null
    BY DEF MarkerOf, Pointers, Strings
  <2>6. q \in Records /\ q.magic = "net" /\ q.cmd = MarkerOf(c) /\ q.status = r.status /\ q.priv = r.priv
    BY <1>1, <1>3, <1>7, <2>5 DEF Records, q
  <2>7. y.p \in Pointers
    BY <2>2, <2>3, <2>5
  <2>8. /\ q2 \in Records /\ q2.magic = "net" /\ q2.cmd = MarkerOf(c) /\ q2.priv = y.p
        /\ q2.area = y.area /\ q2.status = r.status
    BY <2>3, <2>6, <2>7 DEF Records, q2
  <2>9. p.ok = y.ok /\ p.r = q2
    BY <1>5, <1>7
  <2>10. y.ok => Packed(q2, c, v)
    BY <2>3, <2>4, <2>8 DEF Packed
  <2>11. Packed([q2 EXCEPT !.status = -1, !.priv = Null], c, Null)
    <3> DEFINE f == WithStatus(q2, -1, Null)
    <3>1. f \in Records /\ f.magic = "net" /\ f.cmd = MarkerOf(c) /\ f.priv = Null /\ f.area = y.area
      BY <2>5, <2>8, StatusSet
    <3> HIDE DEF f
    <3>2. Packed(f, c, Null)
      BY <2>4, <2>5, <3>1 DEF Packed
    <3>3. QED
      BY <3>2 DEF f, WithStatus
  <2>12. QED
    BY <2>3, <2>8, <2>9, <2>10, <2>11
<1>8. QED
  BY <1>3, <1>6, <1>7

\* A request that is being sent.
LEMMA NewCarries ==
  ASSUME NEW c \in Strings, NEW v \in Strings
  PROVE  Carries(NewRequest(c, v), c, v)
<1>1. NewRequest(c, v) \in Records
  BY DEF NewRequest, Records, Pointers, Areas, NUL
<1>2. QED
  BY <1>1 DEF Carries, NewRequest, Leads

\* A request that fits arrives as it was sent, another one is not sent.
LEMMA RequestsArrive ==
  ASSUME NEW c \in Strings, NEW v \in Strings
  PROVE  RequestRoundTrip(c, v)
<1>1. PICK p : p = pack_request(NewRequest(c, v))
  OBVIOUS
<1>2. PICK u : u = unpack_request(p.r)
  OBVIOUS
<1>3. /\ p.ok <=> Width(c) + Width(v) <= Cap
      /\ p.ok => Packed(p.r, c, v)
  BY <1>1, NewCarries, Packs
<1>4. p.ok => u.ok /\ Carries(u.r, c, v)
  BY <1>2, <1>3, Unpacks
<1>5. p.ok => Same(u.r, u.r.cmd, c) /\ Same(u.r, u.r.priv, v)
  BY <1>4, CarriesBoth
<1>6. QED
  BY <1>1, <1>2, <1>3, <1>4, <1>5 DEF RequestRoundTrip, Width

\* The reply packed in place: over a request that was received.
LEMMA ReplyIs ==
  ASSUME NEW d, NEW c \in Strings, NEW v \in Strings, NEW value,
         NEW q, q = WithStatus(d, 0, value), Carries(q, c, v), Width(c) <= Cap,
         NEW u, u = unpack_request(Reply(d, 0, value))
  PROVE  /\ u.ok /\ Same(u.r, u.r.cmd, c)
         /\ IF Width(c) + Width(v) <= Cap THEN u.r.status = 0 /\ Same(u.r, u.r.priv, v)
            ELSE u.r.status = -1 /\ u.r.priv = Null
<1>2. PICK p : p = pack_request(q)
  OBVIOUS
<1>3. PICK f : f = [p.r EXCEPT !.status = -1, !.priv = Null]
  OBVIOUS
<1>4. /\ p.ok <=> Width(c) + Width(v) <= Cap
      /\ p.ok => Packed(p.r, c, v) /\ p.r.status = q.status
      /\ ~p.ok => Packed(f, c, Null)
  BY <1>2, <1>3, Packs
<1>5. Reply(d, 0, value) = IF p.ok THEN p.r ELSE pack_request(f).r
  BY <1>2, <1>3 DEF Reply, pack_request_netinf, WithStatus
<1>6. q.status = 0
  <2>1. q \in Records
    BY DEF Carries
  <2>2. QED
    BY <2>1 DEF Records, WithStatus
<1>7. CASE p.ok
  BY <1>4, <1>5, <1>6, <1>7, Unpacks, CarriesBoth
<1>8. CASE ~p.ok
  <2>1. Packed(f, c, Null) /\ f.magic = "net" /\ pack_request(f).r = f
    BY <1>4, <1>8 DEF Packed, pack_request
  <2>2. f.status = -1
    BY <1>3, <2>1 DEF Packed, Records
  <2>3. Null \in Strings
    BY DEF Strings
  <2>4. u.ok /\ Carries(u.r, c, Null) /\ u.r.status = -1 /\ u.r.priv = Null
    BY <1>5, <1>8, <2>1, <2>2, <2>3, Unpacks
  <2>5. QED
    BY <1>4, <1>8, <2>3, <2>4, CarriesBoth
<1>9. QED
  BY <1>7, <1>8

\* A reply packed over its request says what the daemon found.
LEMMA RepliesArrive ==
  ASSUME NEW c \in Strings, NEW v \in Strings, NEW value \in Strings
  PROVE  ReplyRoundTrip(c, v, value)
<1>1. PICK p : p = pack_request_netinf(NewRequest(c, v))
  OBVIOUS
<1> SUFFICES ASSUME p.ok, c # Null PROVE ReplyRoundTrip(c, v, value)
  BY <1>1 DEF ReplyRoundTrip
<1>2. Width(c) + Width(v) <= Cap /\ Packed(p.r, c, v)
  BY <1>1, NewCarries, Packs DEF pack_request_netinf
<1>3. PICK w : w = unpack_request_netinf(p.r)
  OBVIOUS
<1>4. PICK d : d = w.r
  OBVIOUS
<1>5. Carries(d, c, v) /\ d.priv = (IF v = Null THEN Null ELSE InArea(Width(c)))
  BY <1>2, <1>3, <1>4, Unpacks DEF unpack_request_netinf
<1>6. Cap \in Nat /\ Width(c) \in Nat /\ Width(v) \in Nat /\ Width(value) \in Nat /\ Width(c) <= Cap
  BY <1>2, StringIs
<1>7. d \in Records /\ d.priv \in Pointers
  BY <1>5 DEF Carries, Records
<1>8. Carries(WithStatus(d, 0, value), c, value)
  <2> DEFINE q == WithStatus(d, 0, value)
  <2>1. value \in Pointers
    BY DEF Pointers
  <2>2. q \in Records /\ q.magic = d.magic /\ q.area = d.area /\ q.cmd = d.cmd /\ q.priv = value
    BY <1>7, <2>1, StatusSet
  <2> HIDE DEF q
  <2>3. Carries(q, c, value)
    BY <1>5, <2>2 DEF Carries
  <2>4. QED
    BY <2>3 DEF q
<1>9. Carries(WithStatus(d, 0, d.priv), c, v)
  <2> DEFINE q == WithStatus(d, 0, d.priv)
  <2>1. q \in Records /\ q.magic = d.magic /\ q.area = d.area /\ q.cmd = d.cmd /\ q.priv = d.priv
    BY <1>7, StatusSet
  <2> HIDE DEF q
  <2>2. Carries(q, c, v)
    BY <1>5, <2>1 DEF Carries
  <2>3. QED
    BY <2>2 DEF q
<1>10. PICK u : u = unpack_request_netinf(Reply(d, 0, value))
  OBVIOUS
<1>11. PICK own : own = unpack_request_netinf(Reply(d, 0, d.priv))
  OBVIOUS
<1>12. /\ u.ok /\ Same(u.r, u.r.cmd, c)
       /\ IF Width(c) + Width(value) <= Cap THEN u.r.status = 0 /\ Same(u.r, u.r.priv, value)
          ELSE u.r.status = -1 /\ u.r.priv = Null
  <2>1. u = unpack_request(Reply(d, 0, value))
    BY <1>10 DEF unpack_request_netinf
  <2>2. QED
    BY <1>6, <1>8, <2>1, ReplyIs
<1>13. own.ok /\ Same(own.r, own.r.cmd, c) /\ Same(own.r, own.r.priv, v)
  BY <1>2, <1>6, <1>9, <1>11, ReplyIs DEF unpack_request_netinf
<1>14. Width(c) + Width(value) <= Cap
         <=> value = Null \/ Len(c.text) + Len(value.text) + 2 =< Cap
  <2>1. Width(c) = Len(c.text) + 1 /\ Len(c.text) \in Nat
    BY StringIs
  <2>2. CASE value = Null
    BY <1>6, <2>2 DEF Width
  <2>3. CASE value # Null
    <3>1. Width(value) = Len(value.text) + 1 /\ Len(value.text) \in Nat
      BY <2>3, StringIs
    <3>2. PICK lc \in Nat, lv \in Nat : lc = Len(c.text) /\ lv = Len(value.text)
      BY <2>1, <3>1
    <3>3. Width(c) = lc + 1 /\ Width(value) = lv + 1 /\ (lc + 1) + (lv + 1) = lc + lv + 2
      <4>1. Width(c) = lc + 1
        BY <2>1, <3>2
      <4>2. Width(value) = lv + 1
        BY <3>1, <3>2
      <4>3. (lc + 1) + (lv + 1) = lc + lv + 2
        OBVIOUS
      <4>4. QED
        BY <4>1, <4>2, <4>3
    <3>4. Width(c) + Width(value) <= Cap <=> lc + lv + 2 <= Cap
      BY <3>3
    <3>5. QED
      BY <2>3, <3>2, <3>4
  <2>4. QED
    BY <2>2, <2>3
<1>15. QED
  BY <1>1, <1>3, <1>4, <1>10, <1>11, <1>12, <1>13, <1>14 DEF ReplyRoundTrip

-----------------------------------------------------------------------------
\* The daemon netinfd and its clients.
Reqs == UNION {Requests[c] : c \in Clients}
ClientRec == [pc : {"idle", "write", "read", "done"}, req : Reqs \cup {None}, sent : 0 .. Size, got : 0 .. Size,
              status : {0, -1}, value : Seq(Nat), left : Nat, set : [Keys -> Seq(Nat)]]
ServingPcs == {"read", "serve", "entry", "wait", "over", "reply"}
ThreadRec == [pc : {"none", "start"} \cup ServingPcs, sock : Clients \cup {None}, got : Nat,
              ptr : 0 .. CONFIG_SIZE, count : Nat \cup {-1}, child : {"none", "runs", "ok", "bad"}, status : {0, -1},
              value : Seq(Nat)]
EntryRec == [buse : {0, 1}, key : Keys \cup {None}, room : Nat, value : Seq(Nat)]

NType ==
  /\ cl \in [Clients -> ClientRec]
  /\ backlog \in Seq(Clients)
  /\ main \in [pc : {"select", "lock", "create"}, p_thread : 1 .. MAX_THREAD]
  /\ lock_thrdParam \in BOOLEAN /\ acceptsock \in Clients \cup {None}
  /\ NetinfdTd \in [1 .. MAX_THREAD -> Ids \cup {0}]
  /\ h \in [Ids -> ThreadRec]
  /\ up \in [Clients -> Nat] /\ down \in [Clients -> Nat]
  /\ ConfigHashTable \in [1 .. CONFIG_SIZE -> EntryRec]
  /\ faults \in Nat

\* What a client knows of its call, and the thread r that has its connection.
ClientFits(c, k, u, d) ==
  /\ k.pc # "idle" => k.req \in Requests[c]
  /\ k.pc = "write" => k.sent < Size /\ k.got = 0 /\ d = 0
  /\ k.pc = "read" => k.sent = Size /\ k.got < Size /\ k.got + d <= Size
  /\ k.pc = "done" => k.got = Size /\ d = 0

ThreadFits(r, k, u, d) ==
  /\ k.pc \in {"write", "read"}
  /\ r.pc \in ServingPcs
  /\ r.pc = "read" => r.got < Size /\ r.got + u = k.sent /\ k.got = 0 /\ d = 0
  /\ r.pc \in {"serve", "entry", "wait", "over"} => k.sent = Size /\ k.got = 0 /\ d = 0
  /\ r.pc = "reply" => k.sent = Size /\ r.got < Size /\ k.got + d = r.got

\* A connection whose thread has not begun.
Waits(k, u, d) == k.pc \in {"write", "read"} /\ k.got = 0 /\ d = 0 /\ u = k.sent

\* A thread is on its way to the socket that was accepted.
Starting == {t \in Ids : h[t].pc = "start"}
Pending == main.pc = "create" \/ Starting # {}

LockInv ==
  /\ main.pc = "lock" => backlog # <<>>
  /\ main.pc = "create" => lock_thrdParam /\ Starting = {}
  /\ Starting # {} => lock_thrdParam
  /\ \A t, u \in Starting : t = u

\* What each side knows; a connection has one thread; an accepted connection
\* and those of the backlog have none, and the two differ.
SidesAgree ==
  /\ \A c \in Clients : ClientFits(c, cl[c], up[c], down[c])
  /\ \A t \in Ids : h[t].sock # None => ThreadFits(h[t], cl[h[t].sock], up[h[t].sock], down[h[t].sock])
  /\ \A t \in Ids : h[t].pc \in {"none", "start"} => h[t].sock = None /\ h[t].got = 0
  /\ \A t \in Ids : h[t].sock = None => h[t].pc \in {"none", "start", "read", "over"}
Lone == \A t, u \in Ids : h[t].sock # None /\ h[t].sock = h[u].sock => t = u
Unserved(c) == Waits(cl[c], up[c], down[c]) /\ \A t \in Ids : h[t].sock # c
Queued == Distinct(backlog) /\ \A c \in Range(backlog) : Unserved(c)
Handed == Pending /\ acceptsock # None => Unserved(acceptsock) /\ acceptsock \notin Range(backlog)
ConnInv == SidesAgree /\ Lone /\ Queued /\ Handed

\* As long as nothing failed, a slot is left by the thread that it names.
SlotInv ==
  faults = 0 =>
    /\ \A i \in 1 .. MAX_THREAD : NetinfdTd[i] # 0 => NetinfdTd[i] \in Ids /\ h[NetinfdTd[i]].pc # "none"
    /\ \A i, j \in 1 .. MAX_THREAD : NetinfdTd[i] # 0 /\ NetinfdTd[i] = NetinfdTd[j] => i = j
    /\ \A t \in Ids : h[t].pc = "read" => h[t].sock # None
    /\ Pending => acceptsock # None

NLinks == NType /\ LockInv /\ ConnInv /\ SlotInv

\* The table holds at most one entry of a key, and its entry for a key, if it can be
\* found, has what the client that sets has had stored, before its call has returned too.
Answered(c) == cl[c].pc \in {"read", "done"} /\ cl[c].got + down[c] = Size /\ cl[c].status = 0
Replying(c) == \E t \in Ids : h[t].sock = c /\ h[t].pc = "reply" /\ h[t].status = 0
StoredNow(c) == cl[c].pc # "idle" /\ cl[c].req.type = "SET" /\ (Replying(c) \/ Answered(c))
LastSet(c, k) == IF StoredNow(c) /\ cl[c].req.key = k THEN cl[c].req.value ELSE cl[c].set[k]
Shows(k, last, v) == IF EntriesOf(k) # {} THEN Prefixed(last, v) ELSE v = <<>>

OneEach == \A k \in Keys : \A i, j \in EntriesOf(k) : i = j
TableHas(c) == \A k \in Keys : \A i \in EntriesOf(k) : Prefixed(LastSet(c, k), ConfigHashTable[i].value)

\* A thread of the client that sets knows the entry of its key, which no other thread
\* sets; its answer to a GET, and then the client's, has what was set.
ThreadTold(t) ==
  /\ h[t].pc = "entry" => /\ Req(t).type \in {"GET", "SET"}
                          /\ Setter(h[t].sock) => h[t].ptr = find_config(Req(t).key)
  /\ h[t].pc = "wait" => Req(t).type \notin {"GET", "SET"}
  /\ h[t].pc = "reply" /\ Req(t).type = "GET" /\ Setter(h[t].sock) =>
       Shows(Req(t).key, cl[h[t].sock].set[Req(t).key], h[t].value)
ClientTold(c) == Setter(c) /\ Answered(c) /\ cl[c].req.type = "GET" =>
                   Shows(cl[c].req.key, cl[c].set[cl[c].req.key], cl[c].value)

DataInv == /\ OneEach
           /\ \A c \in Clients : Setter(c) => TableHas(c)
           /\ \A t \in Ids : ThreadTold(t)
           /\ \A c \in Clients : ClientTold(c)

\* Only the work on an entry answers a GET or a SET.
Kinds == \A t \in Ids : h[t].pc = "entry" => Req(t).type \in {"GET", "SET"}

NInv == NLinks /\ Kinds /\ (OneSetter => DataInv)

NoneIs == None \notin Clients /\ None \notin Keys
\* No client and no key is the absence of one.
LEMMA NoneDiffers == NoneIs
BY NetinfdAssumption DEF NoneIs, None

\* The record of a thread that does not run.
LEMMA NoThreadType == NoThread \in ThreadRec
BY NetinfdAssumption DEF NoThread, ThreadRec, ServingPcs

\* A number is the least one of a set.
LEMMA LeastIs ==
  ASSUME NEW S \in SUBSET Nat, S # {}
  PROVE  (CHOOSE i \in S : \A j \in S : i =< j) \in S
<1>1. \E i \in S : \A j \in S : i =< j
  BY MinIsOne
<1>2. QED
  BY <1>1

\* The slot found for a new thread is one of the table.
LEMMA FreeThreadType ==
  ASSUME NType
  PROVE  GetFreeThread \in 1 .. MAX_THREAD
<1> DEFINE free == {i \in 1 .. MAX_THREAD : NetinfdTd[i] = 0}
<1>1. CASE free = {}
  BY <1>1 DEF GetFreeThread, NType
<1>2. CASE free # {}
  <2>1. free \in SUBSET Nat
    BY NetinfdAssumption
  <2>2. (CHOOSE i \in free : \A j \in free : i =< j) \in free
    <3> HIDE DEF free
    <3>1. QED
      BY <1>2, <2>1, LeastIs
  <2>3. QED
    BY <1>2, <2>2 DEF GetFreeThread
<1>3. QED
  BY <1>1, <1>2

\* The slots without a thread's name.
LEMMA FreedSlot ==
  ASSUME NType, NEW t \in Ids
  PROVE  /\ FreeThisThread(t) \in [1 .. MAX_THREAD -> Ids \cup {0}]
         /\ \A i \in 1 .. MAX_THREAD : (\/ FreeThisThread(t)[i] = NetinfdTd[i]
                                        \/ NetinfdTd[i] = t /\ FreeThisThread(t)[i] = 0)
         /\ (\E i \in 1 .. MAX_THREAD : NetinfdTd[i] = t) =>
              \E i \in 1 .. MAX_THREAD : NetinfdTd[i] = t /\ FreeThisThread(t)[i] = 0
<1> DEFINE mine == {i \in 1 .. MAX_THREAD : NetinfdTd[i] = t}
<1>1. CASE mine = {}
  BY <1>1 DEF FreeThisThread, NType
<1>2. CASE mine # {}
  <2>1. mine \in SUBSET Nat
    BY NetinfdAssumption
  <2>2. PICK m : m = CHOOSE i \in mine : \A j \in mine : i =< j
    OBVIOUS
  <2>3. m \in mine
    <3> HIDE DEF mine
    <3>1. QED
      BY <1>2, <2>1, <2>2, LeastIs
  <2>4. FreeThisThread(t) = [NetinfdTd EXCEPT ![m] = 0]
    BY <1>2, <2>2 DEF FreeThisThread
  <2>5. QED
    BY <2>3, <2>4 DEF NType
<1>3. QED
  BY <1>1, <1>2

\* The entry that is found: the key's, or a free one, or none.
LEMMA FoundEntry ==
  ASSUME NType, NEW key \in Keys
  PROVE  LET i == find_config(key)
             mine == {j \in 1 .. CONFIG_SIZE : ConfigHashTable[j].buse = 1 /\ ConfigHashTable[j].key = key}
         IN  /\ i \in 0 .. CONFIG_SIZE
             /\ mine # {} => i \in mine
             /\ mine = {} => i = 0 \/ (i \in 1 .. CONFIG_SIZE /\ ConfigHashTable[i].buse = 0)
<1> DEFINE mine == {i \in 1 .. CONFIG_SIZE : ConfigHashTable[i].buse = 1 /\ ConfigHashTable[i].key = key}
           free == {i \in 1 .. CONFIG_SIZE : ConfigHashTable[i].buse = 0}
<1>1. mine \in SUBSET Nat /\ free \in SUBSET Nat
  BY NetinfdAssumption
<1>2. CASE mine # {}
  <2>1. (CHOOSE i \in mine : \A j \in mine : i =< j) \in mine
    <3> HIDE DEF mine
    <3>1. QED
      BY <1>1, <1>2, LeastIs
  <2>2. find_config(key) = CHOOSE i \in mine : \A j \in mine : i =< j
    BY <1>2 DEF find_config
  <2>3. find_config(key) \in mine
    BY <2>1, <2>2
  <2>4. QED
    BY <1>2, <2>3, NetinfdAssumption
<1>3. CASE mine = {} /\ free # {}
  <2>1. (CHOOSE i \in free : \A j \in free : i =< j) \in free
    <3> HIDE DEF free
    <3>1. QED
      BY <1>1, <1>3, LeastIs
  <2>2. find_config(key) = CHOOSE i \in free : \A j \in free : i =< j
    BY <1>3 DEF find_config
  <2>3. find_config(key) \in free
    BY <2>1, <2>2
  <2>4. QED
    BY <1>3, <2>3, NetinfdAssumption
<1>4. CASE mine = {} /\ free = {}
  <2>1. find_config(key) = 0
    BY <1>4 DEF find_config
  <2>2. QED
    BY <1>4, <2>1, NetinfdAssumption
<1>5. QED
  BY <1>2, <1>3, <1>4

\* What config_set leaves of the pair: the value in front, the key in a used entry.
LEMMA StoredIs ==
  ASSUME NEW e \in EntryRec, NEW key \in Keys, NEW value \in Seq(Nat), NEW new \in Stored(e, key, value)
  PROVE  /\ new \in EntryRec /\ new.buse = 1
         /\ e.buse = 0 => new.key \in {key, None}
         /\ e.buse = 1 => new.key = e.key
         /\ SubSeq(new.value, 1, Len(value)) = value
<1>1. e.value \in Seq(Nat) /\ Len(value) \in Nat /\ Len(e.value) \in Nat
  BY DEF EntryRec
<1>2. \A w \in Seq(Nat) : value \o w \in Seq(Nat) /\ SubSeq(value \o w, 1, Len(value)) = value
  <2> SUFFICES ASSUME NEW w \in Seq(Nat)
               PROVE  value \o w \in Seq(Nat) /\ SubSeq(value \o w, 1, Len(value)) = value
    OBVIOUS
  <2>1. value \o w \in Seq(Nat) /\ Len(value \o w) = Len(value) + Len(w) /\ Len(w) \in Nat
        /\ \A i \in 1 .. Len(value) : (value \o w)[i] = value[i]
    BY ConcatProperties
  <2>2. 1 \in 1 .. Len(value \o w) + 1 /\ Len(value) \in 1 - 1 .. Len(value \o w)
    BY <1>1, <2>1
  <2>3. /\ SubSeq(value \o w, 1, Len(value)) \in Seq(Nat)
        /\ Len(SubSeq(value \o w, 1, Len(value))) = Len(value) - 1 + 1
        /\ \A i \in 1 .. Len(value) - 1 + 1 : SubSeq(value \o w, 1, Len(value))[i] = (value \o w)[1 + i - 1]
    BY <2>1, <2>2, SubSeqProperties
  <2>4. Len(value) - 1 + 1 = Len(value) /\ \A i \in 1 .. Len(value) : 1 + i - 1 = i
    BY <1>1
  <2>5. \A i \in 1 .. Len(value) : SubSeq(value \o w, 1, Len(value))[i] = value[i]
    BY <2>1, <2>3, <2>4
  <2>6. QED
    BY <2>1, <2>3, <2>4, <2>5, SeqEqual
<1>3. \A w \in Copied(value) : w \in Seq(Nat) /\ SubSeq(w, 1, Len(value)) = value
  <2>1. <<>> \in Seq(Nat) /\ <<0>> \in Seq(Nat)
    OBVIOUS
  <2>2. \A w \in Copied(value) : w = value \o <<>> \/ w = value \o <<0>>
    BY DEF Copied, Behind
  <2>3. QED
    BY <1>2, <2>1, <2>2
<1>4. CASE e.buse = 0
  <2>1. new \in [buse : {1}, key : {key, None}, room : {Len(value)}, value : Copied(value)]
    BY <1>4 DEF Stored
  <2>2. QED
    BY <1>1, <1>3, <1>4, <2>1 DEF EntryRec
<1>5. CASE e.buse = 1 /\ Len(value) <= e.room
  <2> DEFINE end == SubSeq(e.value, Len(value) + 1, Len(e.value))
  <2>1. end \in Seq(Nat)
    <3>1. CASE Len(value) < Len(e.value)
      <4>1. Len(value) + 1 \in 1 .. Len(e.value) + 1 /\ Len(e.value) \in (Len(value) + 1) - 1 .. Len(e.value)
        BY <1>1, <3>1
      <4>2. QED
        BY <1>1, <4>1, SubSeqProperties
    <3>2. CASE Len(value) >= Len(e.value)
      <4>1. end = <<>>
        BY <1>1, <3>2
      <4> HIDE DEF end
      <4>2. <<>> \in Seq(Nat)
        OBVIOUS
      <4>3. QED
        BY <4>1, <4>2
    <3>3. QED
      BY <1>1, <3>1, <3>2
  <2>2. new = [e EXCEPT !.value = value \o end]
    <3>1. e.buse # 0
      BY <1>5
    <3>2. Stored(e, key, value) = {[e EXCEPT !.value = value \o end]}
      BY <1>5, <3>1, Zenon DEF Stored
    <3>3. QED
      BY <3>2
  <2> HIDE DEF end
  <2>3. PICK w : w = value \o end /\ w \in Seq(Nat) /\ SubSeq(w, 1, Len(value)) = value
    BY <1>2, <2>1
  <2>4. new = [e EXCEPT !.value = w]
    BY <2>2, <2>3
  <2>5. new \in EntryRec /\ new.buse = e.buse /\ new.key = e.key /\ new.value = w
    BY <2>3, <2>4 DEF EntryRec
  <2>6. QED
    BY <1>5, <2>3, <2>5
<1>6. CASE e.buse = 1 /\ ~(Len(value) <= e.room)
  <2>1. e.buse # 0
    BY <1>6
  <2>2. Stored(e, key, value) = {[e EXCEPT !.room = Len(value), !.value = copy] : copy \in Copied(value)}
    BY <1>6, <2>1, Zenon DEF Stored
  <2>3. PICK w \in Copied(value) : new = [e EXCEPT !.room = Len(value), !.value = w]
    BY <2>2
  <2>4. w \in Seq(Nat) /\ SubSeq(w, 1, Len(value)) = value
    BY <1>3
  <2>5. new \in EntryRec /\ new.buse = e.buse /\ new.key = e.key /\ new.value = w
    BY <1>1, <2>3, <2>4 DEF EntryRec
  <2>6. QED
    BY <1>6, <2>4, <2>5
<1>7. QED
  BY <1>4, <1>5, <1>6 DEF EntryRec
\* The steps of a running thread, and of its client when a reply is complete,
\* at its own connection.
Elsewhere(s) == \A c \in Clients : c # s => cl'[c] = cl[c] /\ up'[c] = up[c] /\ down'[c] = down[c]
Wired == /\ cl' \in [Clients -> ClientRec] /\ up' \in [Clients -> Nat] /\ down' \in [Clients -> Nat]
TableType == ConfigHashTable \in [1 .. CONFIG_SIZE -> EntryRec]
\* Such a step keeps the links between clients, threads and slots.
LEMMA ThreadGoesOn ==
  ASSUME NLinks, NEW t \in Ids, NEW n \in ThreadRec,
         h[t].pc \in ServingPcs, n.pc \in ServingPcs, n.pc = "read" => h[t].pc = "read" /\ n.sock = h[t].sock,
         h' = [h EXCEPT ![t] = n], n.sock \in {h[t].sock, None}, n.sock = None => n.pc \in {"read", "over"},
         Wired, Elsewhere(h[t].sock), TableType',
         h[t].sock # None => ClientFits(h[t].sock, cl'[h[t].sock], up'[h[t].sock], down'[h[t].sock]),
         n.sock # None => ThreadFits(n, cl'[n.sock], up'[n.sock], down'[n.sock]),
         UNCHANGED <<main, backlog, lock_thrdParam, acceptsock, NetinfdTd>>,
         faults' \in Nat, faults' = 0 => faults = 0
  PROVE  NLinks'
<1>0. h \in [Ids -> ThreadRec] /\ h' \in [Ids -> ThreadRec] /\ h'[t] = n /\ \A u \in Ids : u # t => h'[u] = h[u]
  BY DEF NLinks, NType
<1>1. NType'
  BY <1>0 DEF NLinks, NType, Wired, TableType
<1>2. \A u \in Ids : (h'[u].pc = "start" <=> h[u].pc = "start") /\ (h'[u].pc = "none" <=> h[u].pc = "none")
  BY <1>0 DEF ServingPcs
<1>3. Starting' = Starting
  BY <1>2 DEF Starting
<1>4. Pending' <=> Pending
  BY <1>3 DEF Pending
<1>5. LockInv'
  BY <1>3 DEF NLinks, LockInv
<1>6. SidesAgree'
  <2>1. ASSUME NEW c \in Clients
        PROVE  ClientFits(c, cl[c], up[c], down[c])'
    <3>1. ClientFits(c, cl[c], up[c], down[c])
      BY DEF NLinks, ConnInv, SidesAgree
    <3>2. CASE c = h[t].sock
      <4>1. h[t].sock # None
        BY <3>2, NoneDiffers DEF NoneIs
      <4>2. QED
        BY <3>2, <4>1
    <3>3. CASE c # h[t].sock
      BY <3>1, <3>3 DEF Elsewhere
    <3>4. QED
      BY <3>2, <3>3
  <2>2. ASSUME NEW u \in Ids, h'[u].sock # None
        PROVE  ThreadFits(h[u], cl[h[u].sock], up[h[u].sock], down[h[u].sock])'
    <3>1. CASE u = t
      BY <1>0, <2>2, <3>1
    <3>2. CASE u # t
      <4>1. h'[u] = h[u] /\ h[u].sock \in Clients
        BY <1>0, <2>2, <3>2 DEF ThreadRec
      <4>2. h[u].sock # h[t].sock
        BY <2>2, <3>2, <4>1 DEF NLinks, ConnInv, Lone
      <4>3. QED
        BY <2>2, <4>1, <4>2 DEF NLinks, ConnInv, SidesAgree, Elsewhere
    <3>3. QED
      BY <3>1, <3>2
  <2>3. /\ \A u \in Ids : h'[u].pc \in {"none", "start"} => h'[u].sock = None /\ h'[u].got = 0
        /\ \A u \in Ids : h'[u].sock = None => h'[u].pc \in {"none", "start", "read", "over"}
    BY <1>0 DEF NLinks, ConnInv, SidesAgree, ServingPcs
  <2>4. QED
    BY <2>1, <2>2, <2>3 DEF SidesAgree
<1>7. Lone'
  BY <1>0 DEF NLinks, ConnInv, Lone
<1>8. ASSUME NEW c \in Clients, Unserved(c)
      PROVE  Unserved(c)'
  <2>1. h[t].sock # c
    BY <1>8 DEF Unserved
  <2>2. \A u \in Ids : h'[u].sock # c
    BY <1>0, <1>8, <2>1, NoneDiffers DEF Unserved, NoneIs
  <2>3. QED
    BY <1>8, <2>1, <2>2 DEF Unserved, Elsewhere
<1>9. Queued'
  <2>1. Range(backlog) \subseteq Clients
    BY DEF NLinks, NType, Range
  <2>2. QED
    BY <1>8, <2>1 DEF NLinks, ConnInv, Queued
<1>10. Handed'
  BY <1>4, <1>8 DEF NLinks, ConnInv, Handed, NType
<1>11. SlotInv'
  BY <1>0, <1>2, <1>4 DEF NLinks, SlotInv, NType
<1>12. QED
  BY <1>1, <1>5, <1>6, <1>7, <1>9, <1>10, <1>11 DEF NLinks, ConnInv

\* The steps of a client in its call.
LEMMA ClientGoesOn ==
  ASSUME NLinks, NEW c \in Clients, Wired, Elsewhere(c),
         ClientFits(c, cl'[c], up'[c], down'[c]),
         \A t \in Ids : h[t].sock = c => ThreadFits(h[t], cl'[c], up'[c], down'[c]),
         Unserved(c) => Waits(cl'[c], up'[c], down'[c]),
         UNCHANGED <<dvars, faults>>
  PROVE  NLinks'
<1>0. UNCHANGED <<backlog, main, lock_thrdParam, acceptsock, NetinfdTd, h, ConfigHashTable, faults>>
  BY DEF dvars
<1>1. NType'
  BY <1>0 DEF NLinks, NType, Wired
<1>2. LockInv' /\ SlotInv' /\ Lone' /\ (Pending' <=> Pending)
  BY <1>0 DEF NLinks, LockInv, SlotInv, ConnInv, Lone, Starting, Pending
<1>3. SidesAgree'
  <2>1. \A d \in Clients : ClientFits(d, cl[d], up[d], down[d])'
    BY DEF NLinks, ConnInv, SidesAgree, Elsewhere
  <2>2. \A t \in Ids : h[t].sock # None => h[t].sock \in Clients
    BY DEF NLinks, NType, ThreadRec
  <2>3. QED
    BY <1>0, <2>1, <2>2 DEF NLinks, ConnInv, SidesAgree, Elsewhere
<1>4. \A d \in Clients : Unserved(d) => Unserved(d)'
  BY <1>0 DEF Unserved, Elsewhere
<1>5. Queued'
  <2>1. Range(backlog) \subseteq Clients
    BY DEF NLinks, NType, Range
  <2>2. QED
    BY <1>0, <1>4, <2>1 DEF NLinks, ConnInv, Queued
<1>6. Handed'
  BY <1>0, <1>2, <1>4 DEF NLinks, ConnInv, Handed, NType
<1>7. QED
  BY <1>1, <1>2, <1>3, <1>5, <1>6 DEF NLinks, ConnInv
\* What a call of a client makes of its record.
Asked(k, r) == [k EXCEPT !.pc = "write", !.req = r, !.sent = 0, !.got = 0, !.left = k.left - 1]
Wrote(k, n) == [k EXCEPT !.sent = k.sent + n, !.pc = IF k.sent + n = Size THEN "read" ELSE k.pc]
HasRead(k, n) == [k EXCEPT !.got = k.got + n, !.pc = IF k.got + n = Size THEN "done" ELSE k.pc]
NewSet(k) == IF k.req.type = "SET" /\ k.status = 0 THEN [k.set EXCEPT ![k.req.key] = k.req.value] ELSE k.set
Returned(l, w) == [NoRequest EXCEPT !.left = l, !.set = w]
Told(k, s, v) == [k EXCEPT !.status = s, !.value = v]

\* The fields of a client that has connected.
LEMMA AskedIs ==
  ASSUME NEW k \in ClientRec, NEW r \in Reqs, k.left > 0
  PROVE  /\ Asked(k, r) \in ClientRec
         /\ Asked(k, r).pc = "write" /\ Asked(k, r).req = r /\ Asked(k, r).sent = 0 /\ Asked(k, r).got = 0
         /\ Asked(k, r).left = k.left - 1 /\ Asked(k, r).set = k.set /\ Asked(k, r).status = k.status
<1>1. k.left \in Nat /\ k.left - 1 \in Nat /\ 0 \in 0 .. Size
  BY NetinfdAssumption DEF ClientRec
<1>2. Asked(k, r) \in ClientRec
  BY <1>1 DEF ClientRec, Asked
<1>3. QED
  BY <1>2 DEF ClientRec, Asked

\* The fields of a client that has written.
LEMMA WroteIs ==
  ASSUME NEW k \in ClientRec, k.pc = "write", k.sent < Size, NEW n \in 1 .. Size - k.sent
  PROVE  /\ Wrote(k, n) \in ClientRec
         /\ Wrote(k, n).pc = (IF k.sent + n = Size THEN "read" ELSE "write")
         /\ Wrote(k, n).req = k.req /\ Wrote(k, n).sent = k.sent + n /\ Wrote(k, n).got = k.got
         /\ Wrote(k, n).set = k.set /\ Wrote(k, n).status = k.status /\ Wrote(k, n).value = k.value
<1>1. k.sent \in Nat /\ k.sent + n \in 0 .. Size
  BY NetinfdAssumption DEF ClientRec
<1>2. Wrote(k, n) \in ClientRec
  BY <1>1 DEF ClientRec, Wrote
<1>3. QED
  BY <1>2 DEF ClientRec, Wrote

\* The fields of a client that has read.
LEMMA HasReadIs ==
  ASSUME NEW k \in ClientRec, k.pc = "read", NEW n \in Nat, k.got + n <= Size
  PROVE  /\ HasRead(k, n) \in ClientRec
         /\ HasRead(k, n).pc = (IF k.got + n = Size THEN "done" ELSE "read")
         /\ HasRead(k, n).req = k.req /\ HasRead(k, n).sent = k.sent /\ HasRead(k, n).got = k.got + n
         /\ HasRead(k, n).set = k.set /\ HasRead(k, n).status = k.status /\ HasRead(k, n).value = k.value
<1>1. k.got \in Nat /\ k.got + n \in 0 .. Size
  BY NetinfdAssumption DEF ClientRec
<1>2. HasRead(k, n) \in ClientRec
  BY <1>1 DEF ClientRec, HasRead
<1>3. QED
  BY <1>2 DEF ClientRec, HasRead

\* What a client has set, with the value of its last SET.
LEMMA NewSetIs ==
  ASSUME NEW k \in ClientRec, NEW c \in Clients, k.req \in Requests[c]
  PROVE  NewSet(k) \in [Keys -> Seq(Nat)]
BY NetinfdAssumption DEF ClientRec, NewSet

\* The fields of a client whose call has returned.
LEMMA ReturnedIs ==
  ASSUME NEW l \in Nat, NEW w \in [Keys -> Seq(Nat)]
  PROVE  /\ Returned(l, w) \in ClientRec
         /\ Returned(l, w).pc = "idle" /\ Returned(l, w).got = 0 /\ Returned(l, w).set = w
<1>1. 0 \in 0 .. Size /\ <<>> \in Seq(Nat)
  BY NetinfdAssumption
<1>2. Returned(l, w) \in ClientRec
  BY <1>1 DEF ClientRec, Returned, NoRequest
<1>3. QED
  BY <1>2 DEF ClientRec, Returned, NoRequest

\* The fields of a client whose reply is complete.
LEMMA ToldIs ==
  ASSUME NEW k \in ClientRec, NEW s \in {0, -1}, NEW v \in Seq(Nat)
  PROVE  /\ Told(k, s, v) \in ClientRec
         /\ Told(k, s, v).pc = k.pc /\ Told(k, s, v).req = k.req /\ Told(k, s, v).sent = k.sent
         /\ Told(k, s, v).got = k.got /\ Told(k, s, v).set = k.set
         /\ Told(k, s, v).status = s /\ Told(k, s, v).value = v
<1>1. Told(k, s, v) \in ClientRec
  BY DEF ClientRec, Told
<1>2. QED
  BY <1>1 DEF ClientRec, Told

\* A client connects.
LEMMA ConnectLinks ==
  ASSUME NLinks, NEW c \in Clients, NEW type, Connect(c, type)
  PROVE  NLinks'
<1>1. PICK r \in Requests[c] : r.type = type /\ cl' = [cl EXCEPT ![c] = Asked(cl[c], r)]
  BY DEF Connect, Asked
<1>2. /\ cl[c] \in ClientRec /\ cl[c].pc = "idle" /\ cl[c].left > 0 /\ backlog' = Append(backlog, c)
      /\ up' = [up EXCEPT ![c] = 0] /\ down' = [down EXCEPT ![c] = 0]
      /\ UNCHANGED <<main, lock_thrdParam, acceptsock, NetinfdTd, h, ConfigHashTable, faults>>
  BY DEF Connect, NLinks, NType
<1>3. r \in Reqs /\ Size \in Nat /\ Size > 0 /\ 0 \in 0 .. Size
  BY NetinfdAssumption DEF Reqs
<1>4. /\ cl'[c] \in ClientRec /\ cl' = [cl EXCEPT ![c] = cl'[c]]
      /\ cl'[c].pc = "write" /\ cl'[c].req = r /\ cl'[c].sent = 0 /\ cl'[c].got = 0
  <2>1. cl'[c] = Asked(cl[c], r)
    BY <1>1 DEF NLinks, NType
  <2>2. cl' = [cl EXCEPT ![c] = cl'[c]]
    BY <1>1, <2>1
  <2>3. QED
    BY <1>2, <1>3, <2>1, <2>2, AskedIs
<1>5. backlog \in Seq(Clients) /\ Range(backlog) \subseteq Clients
  BY DEF NLinks, NType, Range
<1>6. Wired /\ Elsewhere(c) /\ up'[c] = 0 /\ down'[c] = 0
  BY <1>2, <1>4 DEF Wired, Elsewhere, NLinks, NType
<1>9. LockInv' /\ SlotInv' /\ Lone' /\ (Pending' <=> Pending)
  <2>1. backlog' # <<>>
    BY <1>2, <1>5
  <2>2. QED
    BY <1>2, <2>1 DEF NLinks, LockInv, SlotInv, ConnInv, Lone, Starting, Pending
<1>10. c \notin Range(backlog) /\ (Pending => acceptsock # c) /\ \A t \in Ids : h[t].sock # c
  BY <1>2, NoneDiffers DEF NLinks, ConnInv, SidesAgree, Queued, Handed, Unserved, Waits, ThreadFits, NoneIs
<1>7. Append(backlog, c) \in Seq(Clients) /\ Range(Append(backlog, c)) = Range(backlog) \cup {c}
      /\ Distinct(Append(backlog, c))
  BY <1>5, <1>10, Appended DEF NLinks, ConnInv, Queued
<1>8. NType'
  BY <1>2, <1>6, <1>7 DEF NLinks, NType, Wired
<1>11. Unserved(c)'
  BY <1>2, <1>4, <1>6, <1>10 DEF Unserved, Waits
<1>12. \A d \in Clients : d # c /\ Unserved(d) => Unserved(d)'
  BY <1>2, <1>6 DEF Unserved, Elsewhere
<1>13. SidesAgree'
  <2>1. ClientFits(c, cl[c], up[c], down[c])'
    BY <1>3, <1>4, <1>6 DEF ClientFits
  <2>2. \A t \in Ids : h[t].sock # None => h[t].sock \in Clients /\ h[t].sock # c
    BY <1>10 DEF NLinks, NType, ThreadRec
  <2>3. \A d \in Clients : ClientFits(d, cl[d], up[d], down[d])'
    BY <2>1, <1>6 DEF NLinks, ConnInv, SidesAgree, Elsewhere
  <2>4. QED
    BY <1>2, <1>6, <2>2, <2>3 DEF NLinks, ConnInv, SidesAgree, Elsewhere
<1>14. Queued'
  BY <1>2, <1>5, <1>7, <1>11, <1>12 DEF NLinks, ConnInv, Queued
<1>15. Handed'
  BY <1>2, <1>7, <1>9, <1>10, <1>12 DEF NLinks, ConnInv, Handed, NType
<1>16. QED
  BY <1>8, <1>9, <1>13, <1>14, <1>15 DEF NLinks, ConnInv

\* A call of a client returns.
LEMMA ReturnLinks ==
  ASSUME NLinks, NEW c \in Clients, Return(c)
  PROVE  NLinks'
<1>1. /\ cl' = [cl EXCEPT ![c] = Returned(cl[c].left, NewSet(cl[c]))]
      /\ cl[c].pc = "done" /\ UNCHANGED <<dvars, up, down, faults>>
  BY DEF Return, Returned, NewSet
<1>2. cl \in [Clients -> ClientRec] /\ cl[c] \in ClientRec /\ cl[c].req \in Requests[c] /\ cl[c].left \in Nat
  <2>1. cl[c] \in ClientRec
    BY DEF NLinks, NType
  <2>2. QED
    BY <1>1, <2>1 DEF NLinks, NType, ConnInv, SidesAgree, ClientFits, ClientRec
<1>3. cl'[c] = Returned(cl[c].left, NewSet(cl[c]))
  BY <1>1, <1>2
<1>4. cl'[c] \in ClientRec /\ cl'[c].pc = "idle"
  BY <1>2, <1>3, NewSetIs, ReturnedIs
<1>5. Wired /\ Elsewhere(c)
  BY <1>1, <1>2, <1>4 DEF Wired, Elsewhere, NLinks, NType
<1>6. ~Unserved(c) /\ \A t \in Ids : h[t].sock # c
  BY <1>1, NoneDiffers DEF Unserved, Waits, NLinks, ConnInv, SidesAgree, ThreadFits, NoneIs
<1>7. ClientFits(c, cl'[c], up'[c], down'[c])
  BY <1>4 DEF ClientFits
<1>8. QED
  BY <1>1, <1>5, <1>6, <1>7, ClientGoesOn

\* A client writes a piece of its request.
LEMMA WriteLinks ==
  ASSUME NLinks, NEW c \in Clients, safe_write(c)
  PROVE  NLinks'
<1>1. PICK n \in 1 .. Size - cl[c].sent : up' = [up EXCEPT ![c] = up[c] + n] /\ cl' = [cl EXCEPT ![c] = Wrote(cl[c], n)]
  BY DEF safe_write, Wrote
<1>2. /\ cl \in [Clients -> ClientRec] /\ cl[c] \in ClientRec /\ cl[c].pc = "write" /\ UNCHANGED <<dvars, down, faults>>
      /\ up \in [Clients -> Nat] /\ up[c] \in Nat /\ down \in [Clients -> Nat] /\ Size \in Nat /\ Size > 0
  BY NetinfdAssumption DEF NLinks, NType, safe_write
<1>3. ClientFits(c, cl[c], up[c], down[c])
  BY DEF NLinks, ConnInv, SidesAgree
<1>4. cl[c].sent \in Nat /\ cl[c].sent < Size
  BY <1>2, <1>3 DEF ClientRec, ClientFits
<1>5. /\ cl[c].sent + n \in 0 .. Size /\ n \in Nat /\ n > 0
      /\ up'[c] = up[c] + n /\ down' = down
  BY <1>1, <1>2, <1>4
<1>6. /\ cl'[c] \in ClientRec /\ cl'[c].sent = cl[c].sent + n /\ cl'[c].req = cl[c].req /\ cl'[c].got = cl[c].got
      /\ cl'[c].pc = IF cl[c].sent + n = Size THEN "read" ELSE "write"
  <2>1. cl'[c] = Wrote(cl[c], n)
    BY <1>1, <1>2
  <2>2. QED
    BY <1>2, <1>4, <2>1, WroteIs
<1>7. Wired /\ Elsewhere(c)
  BY <1>1, <1>2, <1>6 DEF Wired, Elsewhere
<1>8. ClientFits(c, cl'[c], up'[c], down'[c])
  BY <1>2, <1>3, <1>4, <1>5, <1>6 DEF ClientFits
<1>9. Unserved(c) => Waits(cl'[c], up'[c], down'[c])
  BY <1>2, <1>4, <1>5, <1>6 DEF Unserved, Waits
<1>10. ASSUME NEW t \in Ids, h[t].sock = c
       PROVE  ThreadFits(h[t], cl'[c], up'[c], down'[c])
  <2>1. ThreadFits(h[t], cl[c], up[c], down[c]) /\ h[t] \in ThreadRec
    BY <1>10, NoneDiffers DEF NLinks, NType, ConnInv, SidesAgree, NoneIs
  <2>2. h[t].pc = "read" /\ h[t].got \in Nat
    BY <1>2, <2>1 DEF ThreadFits, ServingPcs, ThreadRec
  <2>3. QED
    BY <1>2, <1>4, <1>5, <1>6, <2>1, <2>2 DEF ThreadFits
<1>11. QED
  BY <1>2, <1>7, <1>8, <1>9, <1>10, ClientGoesOn

\* A client reads a piece of the reply.
LEMMA ReadLinks ==
  ASSUME NLinks, NEW c \in Clients, safe_read(c)
  PROVE  NLinks'
<1>1. PICK n \in 1 .. down[c] : down' = [down EXCEPT ![c] = down[c] - n] /\ cl' = [cl EXCEPT ![c] = HasRead(cl[c], n)]
  BY DEF safe_read, HasRead
<1>2. /\ cl \in [Clients -> ClientRec] /\ cl[c] \in ClientRec /\ cl[c].pc = "read" /\ UNCHANGED <<dvars, up, faults>>
      /\ down \in [Clients -> Nat] /\ down[c] \in Nat /\ up \in [Clients -> Nat] /\ Size \in Nat /\ Size > 0
  BY NetinfdAssumption DEF NLinks, NType, safe_read
<1>3. ClientFits(c, cl[c], up[c], down[c])
  BY DEF NLinks, ConnInv, SidesAgree
<1>4. cl[c].got \in Nat /\ cl[c].got + down[c] <= Size
  BY <1>2, <1>3 DEF ClientRec, ClientFits
<1>5. /\ cl[c].got + n <= Size /\ n \in Nat /\ n > 0 /\ down[c] - n \in Nat /\ down[c] # 0
      /\ down'[c] = down[c] - n /\ up' = up
  BY <1>1, <1>2, <1>4
<1>6. /\ cl'[c] \in ClientRec /\ cl'[c].got = cl[c].got + n /\ cl'[c].req = cl[c].req /\ cl'[c].sent = cl[c].sent
      /\ cl'[c].pc = IF cl[c].got + n = Size THEN "done" ELSE "read"
  <2>1. cl'[c] = HasRead(cl[c], n)
    BY <1>1, <1>2
  <2>2. QED
    BY <1>2, <1>5, <2>1, HasReadIs
<1>7. Wired /\ Elsewhere(c)
  BY <1>1, <1>2, <1>5, <1>6 DEF Wired, Elsewhere
<1>8. ClientFits(c, cl'[c], up'[c], down'[c])
  BY <1>2, <1>3, <1>4, <1>5, <1>6 DEF ClientFits
<1>9. ~Unserved(c)
  BY <1>5 DEF Unserved, Waits
<1>10. ASSUME NEW t \in Ids, h[t].sock = c
       PROVE  ThreadFits(h[t], cl'[c], up'[c], down'[c])
  <2>1. ThreadFits(h[t], cl[c], up[c], down[c]) /\ h[t] \in ThreadRec
    BY <1>10, NoneDiffers DEF NLinks, NType, ConnInv, SidesAgree, NoneIs
  <2>2. h[t].pc = "reply" /\ h[t].got \in Nat
    BY <1>5, <2>1 DEF ThreadFits, ServingPcs, ThreadRec
  <2>3. QED
    BY <1>2, <1>4, <1>5, <1>6, <2>1, <2>2 DEF ThreadFits
<1>11. QED
  BY <1>2, <1>7, <1>8, <1>9, <1>10, ClientGoesOn

\* Main finds a slot for a connection.
LEMMA SelectLinks ==
  ASSUME NLinks, Select
  PROVE  NLinks'
<1>1. /\ main.pc = "select" /\ backlog # <<>> /\ main' = [pc |-> "lock", p_thread |-> GetFreeThread]
      /\ UNCHANGED <<cl, backlog, lock_thrdParam, acceptsock, NetinfdTd, h, up, down, ConfigHashTable, faults>>
  BY DEF Select
<1>2. NType'
  BY <1>1, FreeThreadType DEF NLinks, NType
<1>3. main'.pc = "lock" /\ main.pc # "create" /\ Starting' = Starting /\ (Pending' <=> Pending)
  BY <1>1 DEF Starting, Pending
<1>4. LockInv' /\ SlotInv' /\ Lone'
  BY <1>1, <1>3 DEF NLinks, LockInv, SlotInv, ConnInv, Lone
<1>5. SidesAgree'
  BY <1>1 DEF NLinks, ConnInv, SidesAgree
<1>6. Queued' /\ Handed'
  BY <1>1, <1>3 DEF NLinks, ConnInv, Queued, Handed, Unserved
<1>7. QED
  BY <1>2, <1>4, <1>5, <1>6 DEF NLinks, ConnInv

\* Main accepts a connection when the socket before it has been taken.
LEMMA AcceptLinks ==
  ASSUME NLinks, Accept
  PROVE  NLinks'
<1>0. backlog # <<>>
  BY DEF NLinks, LockInv, Accept
<1>1. /\ main.pc = "lock" /\ lock_thrdParam = FALSE /\ lock_thrdParam' = TRUE /\ backlog' = Tail(backlog)
      /\ main' = [main EXCEPT !.pc = "create"]
      /\ UNCHANGED <<cl, NetinfdTd, h, up, down, ConfigHashTable>>
  BY DEF Accept, MayLock, NLinks, NType
<1>2. \/ acceptsock' = Head(backlog) /\ faults' = faults
      \/ acceptsock' = None /\ faults' = faults + 1
  BY DEF Accept
<1>3. /\ backlog \in Seq(Clients) /\ Head(backlog) \in Range(backlog) /\ Head(backlog) \in Clients
      /\ Tail(backlog) \in Seq(Clients) /\ Distinct(Tail(backlog))
      /\ Range(Tail(backlog)) = Range(backlog) \ {Head(backlog)}
  BY <1>0, TailIs DEF NLinks, NType, ConnInv, Queued
<1>4. main'.pc = "create" /\ main' \in [pc : {"select", "lock", "create"}, p_thread : 1 .. MAX_THREAD] /\ faults \in Nat
  BY <1>1 DEF NLinks, NType
<1>5. NType'
  BY <1>1, <1>2, <1>3, <1>4 DEF NLinks, NType
<1>6. Starting = {} /\ Starting' = {}
  <2>1. Starting = {}
    BY <1>1 DEF NLinks, LockInv
  <2>2. QED
    BY <1>1, <2>1 DEF Starting
<1>7. LockInv'
  BY <1>1, <1>4, <1>6 DEF LockInv
<1>8. SidesAgree' /\ Lone'
  BY <1>1 DEF NLinks, ConnInv, SidesAgree, Lone
<1>9. \A c \in Range(backlog) : Unserved(c)'
  BY <1>1 DEF NLinks, ConnInv, Queued, Unserved
<1>10. Queued'
  BY <1>1, <1>3, <1>9 DEF Queued
<1>11. Handed'
  <2>1. acceptsock' # None => acceptsock' = Head(backlog)
    BY <1>2
  <2>2. QED
    BY <1>1, <1>3, <1>9, <2>1 DEF Handed, Unserved
<1>12. SlotInv'
  <2>1. faults' = 0 => faults = 0 /\ acceptsock' # None
    BY <1>2, <1>3, <1>4, NoneDiffers DEF NoneIs
  <2>2. QED
    BY <1>1, <2>1 DEF NLinks, SlotInv
<1>13. QED
  BY <1>5, <1>7, <1>8, <1>10, <1>11, <1>12 DEF NLinks, ConnInv

\* What the steps of a thread make of its record.
Begun == [NoThread EXCEPT !.pc = "start"]
Took(r, s) == [r EXCEPT !.pc = "read", !.sock = s]
ReadOn(r, n) == [r EXCEPT !.got = r.got + n, !.pc = IF r.got + n = Size THEN "serve" ELSE r.pc]
Looked(r, i) == [r EXCEPT !.pc = "entry", !.ptr = i]
Ready(r, s) == [r EXCEPT !.pc = "reply", !.got = 0, !.status = s]
ReadyWith(r, v) == [r EXCEPT !.pc = "reply", !.got = 0, !.status = 0, !.value = v]
Forked(r, n) == [r EXCEPT !.pc = "wait", !.child = "runs", !.count = n]
GaveUp(r) == [r EXCEPT !.pc = "over"]
Closed(r) == [r EXCEPT !.pc = "over", !.sock = None]
ReadyAfter(r, s) == [r EXCEPT !.pc = "reply", !.got = 0, !.child = "none", !.status = s]
WroteOn(r, n, all) == [r EXCEPT !.got = r.got + n, !.pc = IF all THEN "over" ELSE r.pc,
                                !.sock = IF all THEN None ELSE r.sock]

\* The fields of a new thread.
LEMMA BegunIs == Begun \in ThreadRec /\ Begun.pc = "start" /\ Begun.sock = None /\ Begun.got = 0
<1>1. NoThread \in ThreadRec /\ NoThread.sock = None /\ NoThread.got = 0
  BY NoThreadType DEF NoThread
<1>2. Begun \in ThreadRec
  BY <1>1 DEF Begun, ThreadRec, ServingPcs
<1>3. QED
  BY <1>1, <1>2 DEF Begun, ThreadRec

\* The fields of a thread with its socket.
LEMMA TookIs ==
  ASSUME NEW r \in ThreadRec, NEW s \in Clients \cup {None}
  PROVE  /\ Took(r, s) \in ThreadRec
         /\ Took(r, s).pc = "read" /\ Took(r, s).sock = s /\ Took(r, s).got = r.got
<1>1. Took(r, s) \in ThreadRec
  BY DEF Took, ThreadRec, ServingPcs
<1>2. QED
  BY <1>1 DEF Took, ThreadRec

\* The fields of a thread that has read.
LEMMA ReadOnIs ==
  ASSUME NEW r \in ThreadRec, r.pc = "read", NEW n \in Nat
  PROVE  /\ ReadOn(r, n) \in ThreadRec
         /\ ReadOn(r, n).pc = (IF r.got + n = Size THEN "serve" ELSE "read")
         /\ ReadOn(r, n).sock = r.sock /\ ReadOn(r, n).got = r.got + n
<1>1. r.got \in Nat /\ r.got + n \in Nat
  BY DEF ThreadRec
<1>2. ReadOn(r, n) \in ThreadRec
  BY <1>1 DEF ReadOn, ThreadRec, ServingPcs
<1>3. QED
  BY <1>2 DEF ReadOn, ThreadRec

\* The fields of a thread with its entry.
LEMMA LookedIs ==
  ASSUME NEW r \in ThreadRec, NEW i \in 0 .. CONFIG_SIZE
  PROVE  /\ Looked(r, i) \in ThreadRec
         /\ Looked(r, i).pc = "entry" /\ Looked(r, i).sock = r.sock /\ Looked(r, i).ptr = i
<1>1. Looked(r, i) \in ThreadRec
  BY DEF Looked, ThreadRec, ServingPcs
<1>2. QED
  BY <1>1 DEF Looked, ThreadRec

\* The fields of a thread with a status to write.
LEMMA ReadyIs ==
  ASSUME NEW r \in ThreadRec, NEW s \in {0, -1}
  PROVE  /\ Ready(r, s) \in ThreadRec
         /\ Ready(r, s).pc = "reply" /\ Ready(r, s).sock = r.sock /\ Ready(r, s).got = 0
         /\ Ready(r, s).status = s /\ Ready(r, s).value = r.value
<1>1. Ready(r, s) \in ThreadRec
  BY DEF Ready, ThreadRec, ServingPcs
<1>2. QED
  BY <1>1 DEF Ready, ThreadRec

\* The fields of a thread with a value to write.
LEMMA ReadyWithIs ==
  ASSUME NEW r \in ThreadRec, NEW v \in Seq(Nat)
  PROVE  /\ ReadyWith(r, v) \in ThreadRec
         /\ ReadyWith(r, v).pc = "reply" /\ ReadyWith(r, v).sock = r.sock /\ ReadyWith(r, v).got = 0
         /\ ReadyWith(r, v).status = 0 /\ ReadyWith(r, v).value = v
<1>1. ReadyWith(r, v) \in ThreadRec
  BY DEF ReadyWith, ThreadRec, ServingPcs
<1>2. QED
  BY <1>1 DEF ReadyWith, ThreadRec

\* The fields of a thread with a child.
LEMMA ForkedIs ==
  ASSUME NEW r \in ThreadRec, NEW n \in Nat \cup {-1}
  PROVE  /\ Forked(r, n) \in ThreadRec
         /\ Forked(r, n).pc = "wait" /\ Forked(r, n).sock = r.sock
<1>1. Forked(r, n) \in ThreadRec
  BY DEF Forked, ThreadRec, ServingPcs
<1>2. QED
  BY <1>1 DEF Forked, ThreadRec

\* The fields of a thread that could not fork.
LEMMA GaveUpIs ==
  ASSUME NEW r \in ThreadRec
  PROVE  /\ GaveUp(r) \in ThreadRec
         /\ GaveUp(r).pc = "over" /\ GaveUp(r).sock = r.sock
<1>1. GaveUp(r) \in ThreadRec
  BY DEF GaveUp, ThreadRec, ServingPcs
<1>2. QED
  BY <1>1 DEF GaveUp, ThreadRec

\* The fields of a thread that has closed its connection without an answer.
LEMMA ClosedIs ==
  ASSUME NEW r \in ThreadRec
  PROVE  Closed(r) \in ThreadRec /\ Closed(r).pc = "over" /\ Closed(r).sock = None
<1>1. Closed(r) \in ThreadRec
  BY DEF Closed, ThreadRec, ServingPcs
<1>2. QED
  BY <1>1 DEF Closed, ThreadRec

\* The fields of a thread whose child is over.
LEMMA ReadyAfterIs ==
  ASSUME NEW r \in ThreadRec, NEW s \in {0, -1}
  PROVE  /\ ReadyAfter(r, s) \in ThreadRec
         /\ ReadyAfter(r, s).pc = "reply" /\ ReadyAfter(r, s).sock = r.sock /\ ReadyAfter(r, s).got = 0
<1>1. ReadyAfter(r, s) \in ThreadRec
  BY DEF ReadyAfter, ThreadRec, ServingPcs
<1>2. QED
  BY <1>1 DEF ReadyAfter, ThreadRec

\* The fields of a thread that has written.
LEMMA WroteOnIs ==
  ASSUME NEW r \in ThreadRec, r.pc = "reply", NEW n \in Nat, NEW all \in BOOLEAN
  PROVE  /\ WroteOn(r, n, all) \in ThreadRec
         /\ WroteOn(r, n, all).pc = (IF all THEN "over" ELSE "reply")
         /\ WroteOn(r, n, all).sock = (IF all THEN None ELSE r.sock) /\ WroteOn(r, n, all).got = r.got + n
         /\ WroteOn(r, n, all).status = r.status /\ WroteOn(r, n, all).value = r.value
<1>1. r.got \in Nat /\ r.got + n \in Nat
  BY DEF ThreadRec
<1>2. WroteOn(r, n, all) \in ThreadRec
  BY <1>1 DEF WroteOn, ThreadRec, ServingPcs
<1>3. QED
  BY <1>2 DEF WroteOn, ThreadRec

\* The thread for the accepted connection is created, or is not.
LEMMA CreateLinks ==
  ASSUME NLinks, Create
  PROVE  NLinks'
<1>1. /\ main.pc = "create" /\ main' = [main EXCEPT !.pc = "select"]
      /\ UNCHANGED <<cl, backlog, lock_thrdParam, acceptsock, up, down, ConfigHashTable>>
  BY DEF Create
<1>2. /\ main'.pc = "select" /\ main' \in [pc : {"select", "lock", "create"}, p_thread : 1 .. MAX_THREAD]
      /\ main.p_thread \in 1 .. MAX_THREAD /\ faults \in Nat /\ lock_thrdParam = TRUE /\ Starting = {}
  BY <1>1 DEF NLinks, NType, LockInv
<1>3. CASE UNCHANGED <<h, NetinfdTd>> /\ faults' = faults + 1
  <2>1. NType'
    BY <1>1, <1>2, <1>3 DEF NLinks, NType
  <2>2. Starting' = {} /\ ~Pending'
    BY <1>2, <1>3 DEF Starting, Pending
  <2>3. LockInv'
    BY <1>2, <2>2 DEF LockInv
  <2>4. SidesAgree' /\ Lone' /\ Queued'
    BY <1>1, <1>3 DEF NLinks, ConnInv, SidesAgree, Lone, Queued, Unserved
  <2>5. Handed'
    BY <2>2 DEF Handed
  <2>6. SlotInv'
    BY <1>2, <1>3 DEF SlotInv
  <2>7. QED
    BY <2>1, <2>3, <2>4, <2>5, <2>6 DEF NLinks, ConnInv
<1>4. ASSUME NEW t \in Ids \ Alive, h' = [h EXCEPT ![t] = Begun],
             NetinfdTd' = [NetinfdTd EXCEPT ![main.p_thread] = t], UNCHANGED faults
      PROVE  NLinks'
  <2>1. h \in [Ids -> ThreadRec] /\ NetinfdTd \in [1 .. MAX_THREAD -> Ids \cup {0}] /\ h[t].pc = "none" /\ t # 0
    BY NetinfdAssumption DEF NLinks, NType, Alive
  <2>2. /\ h' \in [Ids -> ThreadRec] /\ h'[t].pc = "start" /\ h'[t].sock = None /\ h'[t].got = 0
        /\ \A u \in Ids : u # t => h'[u] = h[u]
    BY <1>4, <2>1, BegunIs
  <2>3. NType'
    BY <1>1, <1>2, <1>4, <2>1, <2>2 DEF NLinks, NType
  <2>4. Starting' = {t}
    BY <1>2, <2>2 DEF Starting
  <2>5. LockInv'
    BY <1>1, <1>2, <2>4 DEF LockInv
  <2>6. h[t].sock = None
    BY <2>1 DEF NLinks, ConnInv, SidesAgree
  <2>7. \A u \in Ids : h'[u].sock = h[u].sock
    BY <2>2, <2>6
  <2>8. Lone'
    BY <2>7 DEF NLinks, ConnInv, Lone
  <2>9. SidesAgree'
    BY <1>1, <2>2 DEF NLinks, ConnInv, SidesAgree
  <2>10. \A c \in Clients : Unserved(c)' <=> Unserved(c)
    BY <1>1, <2>7 DEF Unserved
  <2>11. Queued'
    <3>1. Range(backlog) \subseteq Clients
      BY DEF NLinks, NType, Range
    <3>2. QED
      BY <1>1, <2>10, <3>1 DEF NLinks, ConnInv, Queued
  <2>12. Handed'
    BY <1>1, <2>10 DEF NLinks, NType, ConnInv, Handed, Pending
  <2>13. SlotInv'
    <3> SUFFICES ASSUME faults = 0 PROVE SlotInv'
      BY <1>4 DEF SlotInv
    <3>1. /\ \A i \in 1 .. MAX_THREAD : NetinfdTd[i] # 0 => NetinfdTd[i] \in Ids /\ h[NetinfdTd[i]].pc # "none"
          /\ \A i, j \in 1 .. MAX_THREAD : NetinfdTd[i] # 0 /\ NetinfdTd[i] = NetinfdTd[j] => i = j
          /\ \A u \in Ids : h[u].pc = "read" => h[u].sock # None
          /\ acceptsock # None
      BY <1>1 DEF NLinks, SlotInv, Pending
    <3>2. \A i \in 1 .. MAX_THREAD : NetinfdTd[i] # t
      BY <2>1, <3>1
    <3>3. /\ NetinfdTd'[main.p_thread] = t
          /\ \A i \in 1 .. MAX_THREAD : i # main.p_thread => NetinfdTd'[i] = NetinfdTd[i]
      BY <1>2, <1>4, <2>1
    <3>4. \A i \in 1 .. MAX_THREAD : NetinfdTd'[i] # 0 => NetinfdTd'[i] \in Ids /\ h'[NetinfdTd'[i]].pc # "none"
      BY <2>2, <3>1, <3>2, <3>3
    <3>5. \A i, j \in 1 .. MAX_THREAD : NetinfdTd'[i] # 0 /\ NetinfdTd'[i] = NetinfdTd'[j] => i = j
      BY <3>1, <3>2, <3>3
    <3>6. \A u \in Ids : h'[u].pc = "read" => h'[u].sock # None
      BY <2>2, <3>1
    <3>7. QED
      BY <1>1, <3>1, <3>4, <3>5, <3>6 DEF SlotInv
  <2>14. QED
    BY <2>3, <2>5, <2>8, <2>9, <2>11, <2>12, <2>13 DEF NLinks, ConnInv
<1>5. QED
  BY <1>3, <1>4 DEF Create, Begun

\* The new thread takes the socket and lets main go on.
LEMMA TakeLinks ==
  ASSUME NLinks, NEW t \in Ids, TakeSocket(t)
  PROVE  NLinks'
<1>1. /\ h[t].pc = "start" /\ h' = [h EXCEPT ![t] = Took(h[t], acceptsock)] /\ lock_thrdParam' = FALSE
      /\ UNCHANGED <<main, backlog, acceptsock, faults, cl, NetinfdTd, up, down, ConfigHashTable>>
  BY DEF TakeSocket, svars, Took
<1>2. h \in [Ids -> ThreadRec] /\ acceptsock \in Clients \cup {None} /\ h[t].got = 0
  BY <1>1 DEF NLinks, NType, ConnInv, SidesAgree
<1>3. /\ h' \in [Ids -> ThreadRec] /\ h'[t].pc = "read" /\ h'[t].sock = acceptsock /\ h'[t].got = 0
      /\ \A u \in Ids : u # t => h'[u] = h[u]
  BY <1>1, <1>2, TookIs
<1>4. NType'
  BY <1>1, <1>3 DEF NLinks, NType
<1>5. t \in Starting /\ Pending /\ main.pc # "create" /\ Starting = {t}
  BY <1>1 DEF NLinks, LockInv, Starting, Pending
<1>6. Starting' = {} /\ ~Pending'
  BY <1>1, <1>3, <1>5 DEF Starting, Pending
<1>7. LockInv'
  <2>1. main.pc = "lock" => backlog # <<>>
    BY DEF NLinks, LockInv
  <2>2. QED
    BY <1>1, <1>5, <1>6, <2>1 DEF LockInv
<1>8. Handed'
  BY <1>6 DEF Handed
<1>9. acceptsock # None => Unserved(acceptsock) /\ acceptsock \notin Range(backlog)
  BY <1>5 DEF NLinks, ConnInv, Handed
<1>10. Lone'
  BY <1>3, <1>9 DEF NLinks, ConnInv, Lone, Unserved
<1>11. SidesAgree'
  <2>1. \A c \in Clients : ClientFits(c, cl[c], up[c], down[c])'
    BY <1>1 DEF NLinks, ConnInv, SidesAgree
  <2>2. acceptsock # None => ThreadFits(h'[t], cl[acceptsock], up[acceptsock], down[acceptsock])
    <3>1. Size \in Nat /\ Size > 0
      BY NetinfdAssumption
    <3>2. acceptsock # None => up[acceptsock] \in Nat
      BY <1>2 DEF NLinks, NType
    <3>3. QED
      BY <1>3, <1>9, <3>1, <3>2 DEF Unserved, Waits, ThreadFits, ServingPcs
  <2>3. \A u \in Ids : h'[u].sock # None =>
           ThreadFits(h'[u], cl[h'[u].sock], up[h'[u].sock], down[h'[u].sock])
    BY <1>3, <2>2 DEF NLinks, ConnInv, SidesAgree
  <2>4. /\ \A u \in Ids : h'[u].pc \in {"none", "start"} => h'[u].sock = None /\ h'[u].got = 0
        /\ \A u \in Ids : h'[u].sock = None => h'[u].pc \in {"none", "start", "read", "over"}
    BY <1>3 DEF NLinks, ConnInv, SidesAgree
  <2>5. QED
    BY <1>1, <2>1, <2>3, <2>4 DEF SidesAgree
<1>12. Queued'
  <2>1. Range(backlog) \subseteq Clients
    BY DEF NLinks, NType, Range
  <2>2. \A c \in Range(backlog) : Unserved(c)'
    BY <1>1, <1>3, <1>9, <2>1, NoneDiffers DEF NLinks, ConnInv, Queued, Unserved, NoneIs
  <2>3. QED
    BY <1>1, <2>2 DEF NLinks, ConnInv, Queued
<1>13. SlotInv'
  BY <1>1, <1>3, <1>5, <1>6 DEF NLinks, SlotInv, NType
<1>14. QED
  BY <1>4, <1>7, <1>8, <1>10, <1>11, <1>12, <1>13 DEF NLinks, ConnInv

\* A thread ends: the others and the connections are as before.
LEMMA ThreadEnds ==
  ASSUME NLinks, NEW t \in Ids, h[t].pc \in {"read", "over"}, h' = [h EXCEPT ![t] = NoThread],
         UNCHANGED <<main, backlog, acceptsock, cl, lock_thrdParam, up, down, ConfigHashTable>>,
         NetinfdTd' \in [1 .. MAX_THREAD -> Ids \cup {0}], faults' \in Nat, SlotInv'
  PROVE  NLinks'
<1>1. /\ h' \in [Ids -> ThreadRec] /\ h'[t].pc = "none" /\ h'[t].sock = None /\ h'[t].got = 0
      /\ \A u \in Ids : u # t => h'[u] = h[u]
  <2>1. NoThread \in ThreadRec /\ NoThread.pc = "none" /\ NoThread.sock = None /\ NoThread.got = 0
    BY NoThreadType DEF NoThread
  <2>2. QED
    BY <2>1 DEF NLinks, NType
<1>2. NType'
  BY <1>1 DEF NLinks, NType
<1>3. Starting' = Starting /\ (Pending' <=> Pending)
  <2>1. \A u \in Ids : h'[u].pc = "start" <=> h[u].pc = "start"
    BY <1>1
  <2>2. QED
    BY <2>1 DEF Starting, Pending
<1>4. LockInv'
  BY <1>3 DEF NLinks, LockInv
<1>5. \A u \in Ids : h'[u].sock \in {None, h[u].sock}
  BY <1>1
<1>6. Lone'
  BY <1>5 DEF NLinks, ConnInv, Lone
<1>7. SidesAgree'
  BY <1>1 DEF NLinks, ConnInv, SidesAgree
<1>8. \A c \in Clients : Unserved(c) => Unserved(c)'
  BY <1>5, NoneDiffers DEF Unserved, NoneIs
<1>9. Queued'
  <2>1. Range(backlog) \subseteq Clients
    BY DEF NLinks, NType, Range
  <2>2. QED
    BY <1>8, <2>1 DEF NLinks, ConnInv, Queued
<1>10. Handed'
  BY <1>3, <1>8 DEF NLinks, NType, ConnInv, Handed
<1>11. QED
  BY <1>2, <1>4, <1>6, <1>7, <1>9, <1>10 DEF NLinks, ConnInv

\* A thread leaves without its clean-up handler: a failure is counted.
LEMMA EarlyLinks ==
  ASSUME NLinks, NEW t \in Ids, EarlyReturn(t)
  PROVE  NLinks'
<1>1. /\ h[t].pc = "read" /\ h' = [h EXCEPT ![t] = NoThread]
      /\ UNCHANGED <<main, backlog, acceptsock, cl, lock_thrdParam, NetinfdTd, up, down, ConfigHashTable>>
      /\ (h[t].sock = None /\ faults' = faults) \/ faults' = faults + 1
      /\ faults \in Nat
  BY DEF EarlyReturn, NLinks, NType
<1>2. faults' # 0
  BY <1>1 DEF NLinks, SlotInv
<1>3. SlotInv'
  BY <1>2 DEF SlotInv
<1>4. NetinfdTd' \in [1 .. MAX_THREAD -> Ids \cup {0}] /\ faults' \in Nat
  BY <1>1 DEF NLinks, NType
<1>5. QED
  BY <1>1, <1>3, <1>4, ThreadEnds

\* A thread leaves its slot.
LEMMA OverLinks ==
  ASSUME NLinks, NEW t \in Ids, Over(t)
  PROVE  NLinks'
<1>1. /\ h[t].pc = "over" /\ h' = [h EXCEPT ![t] = NoThread] /\ NetinfdTd' = FreeThisThread(t)
      /\ UNCHANGED <<main, backlog, acceptsock, cl, lock_thrdParam, up, down, ConfigHashTable, faults>>
      /\ faults \in Nat
  BY DEF Over, svars, NLinks, NType
<1>2. /\ NetinfdTd' \in [1 .. MAX_THREAD -> Ids \cup {0}]
      /\ \A i \in 1 .. MAX_THREAD : (NetinfdTd'[i] = NetinfdTd[i] \/ (NetinfdTd[i] = t /\ NetinfdTd'[i] = 0))
      /\ (\E i \in 1 .. MAX_THREAD : NetinfdTd[i] = t) =>
           \E i \in 1 .. MAX_THREAD : NetinfdTd[i] = t /\ NetinfdTd'[i] = 0
  BY <1>1, FreedSlot DEF NLinks
<1>3. SlotInv'
  <2> SUFFICES ASSUME faults = 0 PROVE SlotInv'
    BY <1>1 DEF SlotInv
  <2>1. /\ \A i \in 1 .. MAX_THREAD : NetinfdTd[i] # 0 => NetinfdTd[i] \in Ids /\ h[NetinfdTd[i]].pc # "none"
        /\ \A i, j \in 1 .. MAX_THREAD : NetinfdTd[i] # 0 /\ NetinfdTd[i] = NetinfdTd[j] => i = j
        /\ \A u \in Ids : h[u].pc = "read" => h[u].sock # None
        /\ Pending => acceptsock # None
    BY DEF NLinks, SlotInv
  <2>2. t # 0
    BY NetinfdAssumption
  <2>3. \A i \in 1 .. MAX_THREAD : NetinfdTd'[i] # t
    BY <1>2, <2>1, <2>2
  <2>4. h'[t].pc = "none" /\ \A u \in Ids : u # t => h'[u] = h[u]
    BY <1>1 DEF NLinks, NType, NoThread
  <2>5. Pending' <=> Pending
    <3>1. \A u \in Ids : h'[u].pc = "start" <=> h[u].pc = "start"
      BY <1>1, <2>4
    <3>2. QED
      BY <1>1, <3>1 DEF Starting, Pending
  <2>6. \A i \in 1 .. MAX_THREAD : NetinfdTd'[i] # 0 => NetinfdTd'[i] \in Ids /\ h'[NetinfdTd'[i]].pc # "none"
    BY <1>2, <2>1, <2>3, <2>4
  <2>7. \A i, j \in 1 .. MAX_THREAD : NetinfdTd'[i] # 0 /\ NetinfdTd'[i] = NetinfdTd'[j] => i = j
    BY <1>2, <2>1
  <2>8. \A u \in Ids : h'[u].pc = "read" => h'[u].sock # None
    BY <2>1, <2>4
  <2>9. QED
    BY <1>1, <2>1, <2>5, <2>6, <2>7, <2>8 DEF SlotInv
<1>4. QED
  BY <1>1, <1>2, <1>3, ThreadEnds

\* The request of a thread that serves one.
LEMMA ServedRequest ==
  ASSUME NLinks, NEW t \in Ids, h[t].pc \in {"serve", "entry", "wait", "reply"}
  PROVE  /\ h[t].sock \in Clients /\ h[t].sock # None /\ h[t] \in ThreadRec
         /\ cl[h[t].sock] \in ClientRec /\ cl[h[t].sock].pc \in {"write", "read"}
         /\ Req(t) = cl[h[t].sock].req /\ Req(t) \in Requests[h[t].sock] /\ Req(t).key \in Keys
         /\ ClientFits(h[t].sock, cl[h[t].sock], up[h[t].sock], down[h[t].sock])
         /\ ThreadFits(h[t], cl[h[t].sock], up[h[t].sock], down[h[t].sock])
<1>1. h[t] \in ThreadRec /\ h[t].sock # None /\ h[t].sock \in Clients
  <2>1. h[t] \in ThreadRec
    BY DEF NLinks, NType
  <2>2. h[t].sock # None
    BY DEF NLinks, ConnInv, SidesAgree
  <2>3. QED
    BY <2>1, <2>2 DEF ThreadRec
<1>2. cl[h[t].sock] \in ClientRec
  BY <1>1 DEF NLinks, NType
<1>3. ClientFits(h[t].sock, cl[h[t].sock], up[h[t].sock], down[h[t].sock])
      /\ ThreadFits(h[t], cl[h[t].sock], up[h[t].sock], down[h[t].sock])
  BY <1>1 DEF NLinks, ConnInv, SidesAgree
<1>4. cl[h[t].sock].pc \in {"write", "read"}
  BY <1>3 DEF ThreadFits
<1>5. cl[h[t].sock].req \in Requests[h[t].sock]
  BY <1>3, <1>4 DEF ClientFits
<1>6. QED
  BY <1>1, <1>2, <1>3, <1>4, <1>5, NetinfdAssumption DEF Req

\* A step of a thread that leaves the connections as they are.
LEMMA ThreadServes ==
  ASSUME NLinks, NEW t \in Ids, NEW n \in ThreadRec, h' = [h EXCEPT ![t] = n],
         h[t].pc \in {"serve", "entry", "wait"}, n.sock = h[t].sock,
         n.pc \in {"entry", "wait", "over"} \/ (n.pc = "reply" /\ n.got = 0),
         UNCHANGED <<cl, up, down, main, backlog, lock_thrdParam, acceptsock, NetinfdTd>>, TableType',
         faults' = faults \/ faults' = faults + 1
  PROVE  NLinks'
<1>1. Wired /\ Elsewhere(h[t].sock)
  BY DEF NLinks, NType, Wired, Elsewhere
<1>2. /\ h[t].sock # None /\ h[t].sock \in Clients
      /\ ClientFits(h[t].sock, cl'[h[t].sock], up'[h[t].sock], down'[h[t].sock])
      /\ ThreadFits(h[t], cl'[h[t].sock], up'[h[t].sock], down'[h[t].sock])
  BY ServedRequest
<1>3. ThreadFits(n, cl'[n.sock], up'[n.sock], down'[n.sock])
  <2>1. Size \in Nat /\ Size > 0
    BY NetinfdAssumption
  <2>2. QED
    BY <1>2, <2>1 DEF ThreadFits, ServingPcs
<1>4. faults' \in Nat /\ (faults' = 0 => faults = 0)
  BY DEF NLinks, NType
<1>5. h[t].pc \in ServingPcs /\ n.pc \in ServingPcs /\ n.pc # "read"
  BY DEF ServingPcs
<1>6. QED
  BY <1>1, <1>2, <1>3, <1>4, <1>5, ThreadGoesOn

\* The rounds of a request's time-out.
LEMMA RoundsIs == \A r : Rounds(r) \in Nat \cup {-1}
BY NetinfdAssumption DEF Rounds

\* A thread begins to serve its request.
LEMMA ServeLinks ==
  ASSUME NLinks, NEW t \in Ids, Serve(t)
  PROVE  NLinks'
<1>1. /\ h[t].pc = "serve"
      /\ UNCHANGED <<main, backlog, acceptsock, cl, lock_thrdParam, NetinfdTd, up, down, ConfigHashTable>>
      /\ TableType' /\ h[t] \in ThreadRec
  BY DEF Serve, NLinks, NType, TableType
<1>2. find_config(Req(t).key) \in 0 .. CONFIG_SIZE
  BY <1>1, ServedRequest, FoundEntry DEF NLinks
<1>3. CASE h' = [h EXCEPT ![t] = Looked(h[t], find_config(Req(t).key))] /\ faults' = faults
  BY <1>1, <1>2, <1>3, LookedIs, ThreadServes
<1>4. CASE h' = [h EXCEPT ![t] = Ready(h[t], 0)] /\ faults' = faults
  BY <1>1, <1>4, ReadyIs, ThreadServes
<1>5. ASSUME NEW n \in Nat \cup {-1}, h' = [h EXCEPT ![t] = Forked(h[t], n)], faults' = faults
      PROVE  NLinks'
  BY <1>1, <1>5, ForkedIs, ThreadServes
<1>6. CASE h' = [h EXCEPT ![t] = GaveUp(h[t])] /\ faults' = faults + 1
  BY <1>1, <1>6, GaveUpIs, ThreadServes
<1>7. CASE h' = [h EXCEPT ![t] = Closed(h[t])] /\ faults' = faults
  <2>1. Wired /\ Elsewhere(h[t].sock)
    BY <1>1 DEF NLinks, NType, Wired, Elsewhere
  <2>2. ClientFits(h[t].sock, cl'[h[t].sock], up'[h[t].sock], down'[h[t].sock])
    BY <1>1, ServedRequest
  <2>3. Closed(h[t]) \in ThreadRec /\ Closed(h[t]).pc = "over" /\ Closed(h[t]).sock = None
    BY <1>1, ClosedIs
  <2>4. faults' \in Nat /\ (faults' = 0 => faults = 0)
    BY <1>7 DEF NLinks, NType
  <2>5. h[t].pc \in ServingPcs /\ "over" \in ServingPcs
    BY <1>1 DEF ServingPcs
  <2>6. QED
    BY <1>1, <1>7, <2>1, <2>2, <2>3, <2>4, <2>5, ThreadGoesOn
<1>8. \/ h' = [h EXCEPT ![t] = Looked(h[t], find_config(Req(t).key))] /\ faults' = faults
      \/ h' = [h EXCEPT ![t] = Ready(h[t], 0)] /\ faults' = faults
      \/ h' = [h EXCEPT ![t] = Forked(h[t], Rounds(Req(t)))] /\ faults' = faults
      \/ h' = [h EXCEPT ![t] = GaveUp(h[t])] /\ faults' = faults + 1
      \/ h' = [h EXCEPT ![t] = Closed(h[t])] /\ faults' = faults
  BY DEF Serve, Looked, Ready, Forked, GaveUp, Closed
<1>9. QED
  BY <1>3, <1>4, <1>5, <1>6, <1>7, <1>8, RoundsIs

\* What the thread does to the table: an answer, or the pair that is set.
Looks(t) == /\ Req(t).type = "GET" /\ ConfigHashTable' = ConfigHashTable
            /\ h' = [h EXCEPT ![t] = ReadyWith(h[t],
                       IF h[t].ptr = 0 THEN <<>> ELSE IF ConfigHashTable[h[t].ptr].buse = 0 THEN <<>>
                       ELSE ConfigHashTable[h[t].ptr].value)]
Sets(t) == /\ Req(t).type # "GET" /\ h' = [h EXCEPT ![t] = Ready(h[t], IF h[t].ptr = 0 THEN -1 ELSE 0)]
           /\ IF h[t].ptr = 0 THEN ConfigHashTable' = ConfigHashTable
              ELSE \E new \in Stored(ConfigHashTable[h[t].ptr], Req(t).key, Req(t).value) :
                     ConfigHashTable' = [ConfigHashTable EXCEPT ![h[t].ptr] = new]
\* The two cases of the work on an entry.
LEMMA EntryIs ==
  ASSUME NEW t \in Ids, Entry(t)
  PROVE  /\ h[t].pc = "entry" /\ (Looks(t) \/ Sets(t))
         /\ UNCHANGED <<main, backlog, acceptsock, faults, cl, lock_thrdParam, NetinfdTd, up, down>>
<1>1. CASE Req(t).type = "GET"
  BY <1>1 DEF Entry, svars, Looks, ReadyWith
<1>2. CASE Req(t).type # "GET"
  BY <1>2 DEF Entry, svars, Sets, Ready
<1>3. QED
  BY <1>1, <1>2

\* A thread has answered or set, and replies.
LEMMA EntryLinks ==
  ASSUME NLinks, NEW t \in Ids, Entry(t), Req(t).type \in {"GET", "SET"}
  PROVE  NLinks'
<1>1. /\ h[t].pc = "entry" /\ h[t] \in ThreadRec /\ h[t].ptr \in 0 .. CONFIG_SIZE
      /\ UNCHANGED <<main, backlog, acceptsock, faults, cl, lock_thrdParam, NetinfdTd, up, down>>
  <2>1. h[t] \in ThreadRec
    BY DEF NLinks, NType
  <2>2. QED
    BY <2>1, EntryIs DEF ThreadRec
<1>2. ConfigHashTable \in [1 .. CONFIG_SIZE -> EntryRec] /\ CONFIG_SIZE \in Nat
  BY NetinfdAssumption DEF NLinks, NType
<1>3. h[t].ptr # 0 => ConfigHashTable[h[t].ptr] \in EntryRec
  BY <1>1, <1>2
<1>4. CASE Looks(t)
  <2> DEFINE v == IF h[t].ptr = 0 THEN <<>> ELSE IF ConfigHashTable[h[t].ptr].buse = 0 THEN <<>>
                  ELSE ConfigHashTable[h[t].ptr].value
  <2>1. v \in Seq(Nat)
    BY <1>3 DEF EntryRec
  <2>2. TableType' /\ h' = [h EXCEPT ![t] = ReadyWith(h[t], v)]
    BY <1>2, <1>4 DEF Looks, TableType
  <2> HIDE DEF v
  <2>3. QED
    BY <1>1, <2>1, <2>2, ReadyWithIs, ThreadServes
<1>5. CASE Sets(t)
  <2>1. Req(t).key \in Keys /\ Req(t).value \in Seq(Nat)
    <3>1. Req(t).type = "SET"
      BY <1>5 DEF Sets
    <3>2. QED
      BY <1>1, <3>1, ServedRequest, NetinfdAssumption
  <2>2. TableType'
    <3>1. CASE h[t].ptr = 0
      BY <1>2, <1>5, <3>1 DEF Sets, TableType
    <3>2. CASE h[t].ptr # 0
      <4>1. PICK new \in Stored(ConfigHashTable[h[t].ptr], Req(t).key, Req(t).value) :
              ConfigHashTable' = [ConfigHashTable EXCEPT ![h[t].ptr] = new]
        BY <1>5, <3>2 DEF Sets
      <4>2. new \in EntryRec
        BY <1>3, <2>1, <3>2, <4>1, StoredIs
      <4>3. QED
        BY <1>2, <4>1, <4>2 DEF TableType
    <3>3. QED
      BY <3>1, <3>2
  <2> DEFINE s == IF h[t].ptr = 0 THEN -1 ELSE 0
  <2>3. s \in {0, -1} /\ h' = [h EXCEPT ![t] = Ready(h[t], s)]
    BY <1>5 DEF Sets
  <2> HIDE DEF s
  <2>4. QED
    BY <1>1, <2>2, <2>3, ReadyIs, ThreadServes
<1>6. QED
  BY <1>4, <1>5, EntryIs

\* A child of a thread ends, and the thread's waiting.
WithChild(r, s) == [r EXCEPT !.child = s]
OneRound(r) == [r EXCEPT !.count = r.count - 1]
\* The fields of a thread whose child has ended.
LEMMA WithChildIs ==
  ASSUME NEW r \in ThreadRec, NEW s \in {"ok", "bad"}
  PROVE  WithChild(r, s) \in ThreadRec /\ WithChild(r, s).pc = r.pc /\ WithChild(r, s).sock = r.sock
<1>1. WithChild(r, s) \in ThreadRec
  BY DEF WithChild, ThreadRec, ServingPcs
<1>2. QED
  BY <1>1 DEF WithChild, ThreadRec

\* The fields of a thread that waits on.
LEMMA OneRoundIs ==
  ASSUME NEW r \in ThreadRec, r.count > 0
  PROVE  OneRound(r) \in ThreadRec /\ OneRound(r).pc = r.pc /\ OneRound(r).sock = r.sock
<1>1. r.count \in Nat /\ r.count - 1 \in Nat
  BY DEF ThreadRec
<1>2. OneRound(r) \in ThreadRec
  BY <1>1 DEF OneRound, ThreadRec, ServingPcs
<1>3. QED
  BY <1>2 DEF OneRound, ThreadRec

\* What a step of a thread with a child makes of it.
Waited(t) == \/ \E s \in {"ok", "bad"} : h' = [h EXCEPT ![t] = WithChild(h[t], s)]
             \/ h[t].count > 0 /\ h' = [h EXCEPT ![t] = OneRound(h[t])]
             \/ \E s \in {0, -1} : h' = [h EXCEPT ![t] = ReadyAfter(h[t], s)]
\* The cases of a thread with a child.
LEMMA WaitedIs ==
  ASSUME NEW t \in Ids, ChildEnds(t) \/ WaitChild(t)
  PROVE  /\ h[t].pc = "wait" /\ Waited(t)
         /\ UNCHANGED <<main, backlog, acceptsock, faults, cl, lock_thrdParam, NetinfdTd, up, down, ConfigHashTable>>
<1>1. CASE ChildEnds(t)
  BY <1>1 DEF ChildEnds, svars, Waited, WithChild
<1>2. CASE WaitChild(t)
  <2>1. h[t].pc = "wait"
        /\ UNCHANGED <<main, backlog, acceptsock, faults, cl, lock_thrdParam, NetinfdTd, up, down, ConfigHashTable>>
    BY <1>2 DEF WaitChild, svars
  <2>2. \/ h[t].count > 0 /\ h' = [h EXCEPT ![t] = OneRound(h[t])]
        \/ h' = [h EXCEPT ![t] = ReadyAfter(h[t], IF h[t].child = "ok" THEN 0 ELSE -1)]
        \/ h' = [h EXCEPT ![t] = ReadyAfter(h[t], -1)]
    BY <1>2 DEF WaitChild, OneRound, ReadyAfter
  <2>3. (IF h[t].child = "ok" THEN 0 ELSE -1) \in {0, -1}
    OBVIOUS
  <2>4. Waited(t)
    BY <2>2, <2>3 DEF Waited
  <2>5. QED
    BY <2>1, <2>4
<1>3. QED
  BY <1>1, <1>2

\* A thread waits for its child, or replies.
LEMMA WaitLinks ==
  ASSUME NLinks, NEW t \in Ids, ChildEnds(t) \/ WaitChild(t)
  PROVE  NLinks'
<1>1. /\ h[t].pc = "wait" /\ Waited(t) /\ TableType' /\ h[t] \in ThreadRec
      /\ UNCHANGED <<main, backlog, acceptsock, faults, cl, lock_thrdParam, NetinfdTd, up, down>>
  BY WaitedIs DEF NLinks, NType, TableType
<1>2. ASSUME NEW s \in {"ok", "bad"}, h' = [h EXCEPT ![t] = WithChild(h[t], s)]
      PROVE  NLinks'
  BY <1>1, <1>2, WithChildIs, ThreadServes
<1>3. CASE h[t].count > 0 /\ h' = [h EXCEPT ![t] = OneRound(h[t])]
  BY <1>1, <1>3, OneRoundIs, ThreadServes
<1>4. ASSUME NEW s \in {0, -1}, h' = [h EXCEPT ![t] = ReadyAfter(h[t], s)]
      PROVE  NLinks'
  BY <1>1, <1>4, ReadyAfterIs, ThreadServes
<1>5. QED
  BY <1>1, <1>2, <1>3, <1>4 DEF Waited

\* A thread reads a piece of the request.
LEMMA ReadRequestIs ==
  ASSUME NLinks, NEW t \in Ids, ReadRequest(t)
  PROVE  /\ h[t].pc = "read" /\ h[t].sock # None /\ h[t].sock \in Clients /\ h[t] \in ThreadRec
         /\ \E n \in 1 .. up[h[t].sock] : /\ up' = [up EXCEPT ![h[t].sock] = up[h[t].sock] - n]
                                          /\ h' = [h EXCEPT ![t] = ReadOn(h[t], n)]
         /\ UNCHANGED <<main, backlog, acceptsock, faults, cl, lock_thrdParam, NetinfdTd, down, ConfigHashTable>>
<1>1. h[t].pc = "read" /\ h[t].sock # None
      /\ UNCHANGED <<main, backlog, acceptsock, faults, cl, lock_thrdParam, NetinfdTd, down, ConfigHashTable>>
  BY DEF ReadRequest, svars
<1>2. \E n \in 1 .. up[h[t].sock] : /\ up' = [up EXCEPT ![h[t].sock] = up[h[t].sock] - n]
                                    /\ h' = [h EXCEPT ![t] = ReadOn(h[t], n)]
  BY DEF ReadRequest, ReadOn
<1>3. h[t] \in ThreadRec
  BY DEF NLinks, NType
<1>4. QED
  BY <1>1, <1>2, <1>3 DEF ThreadRec

\* Reading keeps the links.
LEMMA ReadRequestLinks ==
  ASSUME NLinks, NEW t \in Ids, ReadRequest(t)
  PROVE  NLinks'
<1>1. PICK n \in 1 .. up[h[t].sock] : /\ up' = [up EXCEPT ![h[t].sock] = up[h[t].sock] - n]
                                      /\ h' = [h EXCEPT ![t] = ReadOn(h[t], n)]
  BY ReadRequestIs
<1>2. /\ h[t].pc = "read" /\ h[t].sock # None /\ h[t].sock \in Clients /\ h[t] \in ThreadRec
      /\ UNCHANGED <<main, backlog, acceptsock, faults, cl, lock_thrdParam, NetinfdTd, down, ConfigHashTable>>
  BY ReadRequestIs
<1> DEFINE s == h[t].sock
<1>3. /\ up \in [Clients -> Nat] /\ up[s] \in Nat /\ n \in Nat /\ n > 0 /\ up[s] - n \in Nat /\ down \in [Clients -> Nat]
      /\ cl \in [Clients -> ClientRec] /\ cl[s] \in ClientRec /\ faults \in Nat
  BY <1>1, <1>2 DEF NLinks, NType
<1>4. /\ ClientFits(s, cl[s], up[s], down[s]) /\ ThreadFits(h[t], cl[s], up[s], down[s])
  BY <1>2 DEF NLinks, ConnInv, SidesAgree
<1>5. /\ h[t].got \in Nat /\ h[t].got + up[s] = cl[s].sent /\ cl[s].got = 0 /\ down[s] = 0 /\ cl[s].pc \in {"write", "read"}
      /\ cl[s].sent \in 0 .. Size /\ Size \in Nat
  BY <1>2, <1>3, <1>4, NetinfdAssumption DEF ThreadFits, ThreadRec, ClientRec
<1>6. up'[s] = up[s] - n /\ Wired /\ Elsewhere(s) /\ TableType'
  BY <1>1, <1>2, <1>3 DEF Wired, Elsewhere, NLinks, NType, TableType
<1> DEFINE r == ReadOn(h[t], n)
<1>7. /\ r \in ThreadRec /\ r.pc = (IF h[t].got + n = Size THEN "serve" ELSE "read")
      /\ r.sock = s /\ r.got = h[t].got + n
  BY <1>2, <1>3, ReadOnIs
<1> HIDE DEF r
<1>8. ClientFits(s, cl'[s], up'[s], down'[s])
  BY <1>2, <1>4 DEF ClientFits
<1>9. ThreadFits(r, cl'[s], up'[s], down'[s])
  <2>1. CASE h[t].got + n = Size
    <3>1. cl[s].sent = Size
      BY <1>3, <1>5, <2>1
    <3>2. QED
      BY <1>2, <1>5, <1>7, <2>1, <3>1 DEF ThreadFits, ServingPcs
  <2>2. CASE h[t].got + n # Size
    <3>1. r.got < Size /\ r.got + (up[s] - n) = cl[s].sent
      BY <1>3, <1>5, <1>7, <2>2
    <3>2. QED
      BY <1>2, <1>5, <1>6, <1>7, <2>2, <3>1 DEF ThreadFits, ServingPcs
  <2>3. QED
    BY <2>1, <2>2
<1>10. h[t].pc \in ServingPcs /\ r.pc \in ServingPcs
  BY <1>2, <1>7 DEF ServingPcs
<1>11. h' = [h EXCEPT ![t] = r]
  BY <1>1 DEF r
<1>12. QED
  BY <1>2, <1>3, <1>6, <1>7, <1>8, <1>9, <1>10, <1>11, ThreadGoesOn

\* A thread writes a piece of the reply, and closes the socket after the last.
LEMMA WriteReplyIs ==
  ASSUME NLinks, NEW t \in Ids, WriteReply(t)
  PROVE  /\ h[t].pc = "reply"
         /\ \E n \in 1 .. Size - h[t].got :
              /\ down' = [down EXCEPT ![h[t].sock] = down[h[t].sock] + n]
              /\ h' = [h EXCEPT ![t] = WroteOn(h[t], n, h[t].got + n = Size)]
              /\ h[t].got + n = Size =>
                   cl' = [cl EXCEPT ![h[t].sock] = Told(cl[h[t].sock], h[t].status, h[t].value)]
              /\ h[t].got + n # Size => cl' = cl
         /\ UNCHANGED <<main, backlog, acceptsock, faults, lock_thrdParam, NetinfdTd, up, ConfigHashTable>>
<1>1. h[t].pc = "reply"
      /\ UNCHANGED <<main, backlog, acceptsock, faults, lock_thrdParam, NetinfdTd, up, ConfigHashTable>>
  BY DEF WriteReply, svars
<1>2. PICK n \in 1 .. Size - h[t].got :
        /\ down' = [down EXCEPT ![h[t].sock] = down[h[t].sock] + n]
        /\ h' = [h EXCEPT ![t].got = h[t].got + n, ![t].pc = IF h[t].got + n = Size THEN "over" ELSE h[t].pc,
                      ![t].sock = IF h[t].got + n = Size THEN None ELSE h[t].sock]
        /\ cl' = IF h[t].got + n = Size
                 THEN [cl EXCEPT ![h[t].sock].status = h[t].status, ![h[t].sock].value = h[t].value] ELSE cl
  BY DEF WriteReply
<1>3. h' = [h EXCEPT ![t] = WroteOn(h[t], n, h[t].got + n = Size)]
  BY <1>2 DEF WroteOn
<1>4. /\ h[t].got + n = Size => cl' = [cl EXCEPT ![h[t].sock] = Told(cl[h[t].sock], h[t].status, h[t].value)]
      /\ h[t].got + n # Size => cl' = cl
  BY <1>2 DEF Told
<1>5. QED
  BY <1>1, <1>2, <1>3, <1>4

\* Writing keeps the links.
LEMMA WriteReplyLinks ==
  ASSUME NLinks, NEW t \in Ids, WriteReply(t)
  PROVE  NLinks'
<1> DEFINE s == h[t].sock
<1>1. PICK n \in 1 .. Size - h[t].got :
              /\ down' = [down EXCEPT ![s] = down[s] + n]
              /\ h' = [h EXCEPT ![t] = WroteOn(h[t], n, h[t].got + n = Size)]
              /\ h[t].got + n = Size => cl' = [cl EXCEPT ![s] = Told(cl[s], h[t].status, h[t].value)]
              /\ h[t].got + n # Size => cl' = cl
  BY WriteReplyIs
<1>2. /\ h[t].pc = "reply" /\ s \in Clients /\ s # None /\ h[t] \in ThreadRec /\ cl[s] \in ClientRec
      /\ UNCHANGED <<main, backlog, acceptsock, faults, lock_thrdParam, NetinfdTd, up, ConfigHashTable>>
      /\ ClientFits(s, cl[s], up[s], down[s]) /\ ThreadFits(h[t], cl[s], up[s], down[s])
  BY WriteReplyIs, ServedRequest
<1>3. /\ up \in [Clients -> Nat] /\ down[s] \in Nat /\ n \in Nat /\ n > 0 /\ down \in [Clients -> Nat]
      /\ cl \in [Clients -> ClientRec] /\ faults \in Nat /\ Size \in Nat /\ h[t].got \in Nat
      /\ h[t].status \in {0, -1} /\ h[t].value \in Seq(Nat)
  <2>1. h[t].got \in Nat /\ h[t].status \in {0, -1} /\ h[t].value \in Seq(Nat)
    BY <1>2 DEF ThreadRec
  <2>2. Size \in Nat /\ n \in Nat /\ n > 0
    BY <1>1, <2>1, NetinfdAssumption
  <2>3. up \in [Clients -> Nat] /\ down \in [Clients -> Nat] /\ cl \in [Clients -> ClientRec] /\ faults \in Nat
    BY DEF NLinks, NType
  <2>4. QED
    BY <1>2, <2>1, <2>2, <2>3
<1>4. /\ cl[s].sent = Size /\ h[t].got < Size /\ cl[s].got \in Nat /\ cl[s].got + down[s] = h[t].got
      /\ cl[s].pc \in {"write", "read"} /\ cl[s].pc = "read" /\ cl[s].got < Size
  BY <1>2, <1>3 DEF ThreadFits, ClientFits, ClientRec
<1>5. /\ cl'[s] \in ClientRec /\ cl' \in [Clients -> ClientRec] /\ \A c \in Clients : c # s => cl'[c] = cl[c]
      /\ cl'[s].pc = cl[s].pc /\ cl'[s].sent = cl[s].sent /\ cl'[s].got = cl[s].got /\ cl'[s].req = cl[s].req
  <2>1. CASE h[t].got + n = Size
    <3>1. cl' = [cl EXCEPT ![s] = Told(cl[s], h[t].status, h[t].value)]
      BY <1>1, <2>1
    <3>2. cl'[s] = Told(cl[s], h[t].status, h[t].value)
      BY <1>2, <1>3, <3>1
    <3>3. QED
      BY <1>2, <1>3, <3>1, <3>2, ToldIs
  <2>2. CASE h[t].got + n # Size
    BY <1>1, <1>2, <1>3, <2>2
  <2>3. QED
    BY <2>1, <2>2
<1>6. /\ down'[s] = down[s] + n /\ Wired /\ Elsewhere(s) /\ TableType'
  <2>1. down'[s] = down[s] + n /\ down' \in [Clients -> Nat]
    BY <1>1, <1>2, <1>3
  <2>2. Elsewhere(s)
    BY <1>1, <1>2, <1>3, <1>5 DEF Elsewhere
  <2>3. Wired /\ TableType'
    BY <1>2, <1>3, <1>5, <2>1 DEF Wired, NLinks, NType, TableType
  <2>4. QED
    BY <2>1, <2>2, <2>3
<1> DEFINE r == WroteOn(h[t], n, h[t].got + n = Size)
<1>7. /\ r \in ThreadRec /\ r.pc = (IF h[t].got + n = Size THEN "over" ELSE "reply")
      /\ r.sock = (IF h[t].got + n = Size THEN None ELSE s) /\ r.got = h[t].got + n
  BY <1>2, <1>3, WroteOnIs
<1>8. h' = [h EXCEPT ![t] = r]
  BY <1>1
<1> HIDE DEF r
<1>9. cl[s].got + down'[s] = h[t].got + n /\ h[t].got + n <= Size
  <2>1. cl[s].got + down'[s] = h[t].got + n
    BY <1>3, <1>4, <1>6
  <2>2. n <= Size - h[t].got
    BY <1>1
  <2>3. QED
    BY <1>3, <2>1, <2>2
<1>10. ClientFits(s, cl'[s], up'[s], down'[s])
  BY <1>2, <1>4, <1>5, <1>9 DEF ClientFits
<1>11. ASSUME r.sock # None
       PROVE  ThreadFits(r, cl'[r.sock], up'[r.sock], down'[r.sock])
  <2>1. h[t].got + n # Size /\ r.pc = "reply" /\ r.sock = s /\ r.got = h[t].got + n
    BY <1>7, <1>11
  <2>2. r.got < Size /\ cl'[s].got + down'[s] = r.got /\ cl'[s].sent = Size /\ cl'[s].pc = "read"
    <3>1. h[t].got + n < Size
      <4>1. h[t].got + n <= Size /\ h[t].got + n # Size
        BY <1>9, <2>1
      <4>2. \A x, y \in Nat : x <= y /\ x # y => x < y
        OBVIOUS
      <4>3. h[t].got + n \in Nat /\ Size \in Nat
        BY <1>3
      <4>4. QED
        BY <4>1, <4>2, <4>3
    <3>2. cl'[s].got + down'[s] = r.got
      BY <1>5, <1>9, <2>1
    <3>3. QED
      BY <1>4, <1>5, <2>1, <3>1, <3>2
  <2>3. ThreadFits(r, cl'[s], up'[s], down'[s])
    BY <2>1, <2>2 DEF ThreadFits, ServingPcs
  <2>4. QED
    BY <2>1, <2>3
<1>12. h[t].pc \in ServingPcs /\ r.pc \in ServingPcs /\ r.pc # "read" /\ (r.sock = None => r.pc \in {"read", "over"})
       /\ r.sock \in {s, None}
  BY <1>2, <1>7 DEF ServingPcs
<1>13. QED
  BY <1>2, <1>3, <1>6, <1>7, <1>8, <1>10, <1>11, <1>12, ThreadGoesOn

\* At the start there is no connection, thread or slot in use.
LEMMA LinksStart == NInit => NLinks
<1> SUFFICES ASSUME NInit PROVE NLinks
  OBVIOUS
<1>1. PICK load \in Loads : cl = [c \in Clients |-> [NoRequest EXCEPT !.left = load[c]]]
  BY DEF NInit
<1>2. /\ backlog = <<>> /\ main = [pc |-> "select", p_thread |-> 1]
      /\ lock_thrdParam = FALSE /\ acceptsock = None
      /\ NetinfdTd = [i \in 1 .. MAX_THREAD |-> 0]
      /\ h = [t \in Ids |-> NoThread]
      /\ up = [c \in Clients |-> 0] /\ down = [c \in Clients |-> 0]
      /\ ConfigHashTable = [i \in 1 .. CONFIG_SIZE |-> FreeEntry]
      /\ faults = 0
  BY DEF NInit
<1>3. NoThread \in ThreadRec /\ NoThread.pc = "none" /\ NoThread.sock = None /\ NoThread.got = 0
  BY NoThreadType DEF NoThread
<1>4. FreeEntry \in EntryRec /\ [k \in Keys |-> <<>>] \in [Keys -> Seq(Nat)]
  BY DEF FreeEntry, EntryRec
<1>5. \A c \in Clients : cl[c] \in ClientRec /\ cl[c].pc = "idle"
  <2> SUFFICES ASSUME NEW c \in Clients PROVE cl[c] \in ClientRec /\ cl[c].pc = "idle"
    OBVIOUS
  <2>1. load[c] \in Nat
    BY NetinfdAssumption
  <2>2. /\ 0 \in 0 .. Size /\ NoRequest.pc = "idle" /\ NoRequest \in ClientRec
    <3>1. 0 \in 0 .. Size /\ <<>> \in Seq(Nat)
      BY NetinfdAssumption
    <3>2. QED
      BY <1>4, <3>1 DEF NoRequest, ClientRec
  <2>3. [NoRequest EXCEPT !.left = load[c]] \in ClientRec /\ [NoRequest EXCEPT !.left = load[c]].pc = "idle"
    BY <2>1, <2>2 DEF ClientRec
  <2>4. QED
    BY <1>1, <2>3
<1>6. NType
  <2>1. cl \in [Clients -> ClientRec]
    BY <1>1, <1>5
  <2>2. main \in [pc : {"select", "lock", "create"}, p_thread : 1 .. MAX_THREAD] /\ <<>> \in Seq(Clients)
    BY <1>2, NetinfdAssumption
  <2>3. QED
    BY <1>2, <1>3, <1>4, <2>1, <2>2 DEF NType
<1>7. Starting = {} /\ ~Pending /\ main.pc = "select"
  BY <1>2, <1>3 DEF Starting, Pending
<1>8. \A t \in Ids : h[t] = NoThread
  BY <1>2
<1>9. LockInv
  BY <1>7 DEF LockInv
<1>10. ConnInv
  <2>1. SidesAgree /\ Lone
    BY <1>3, <1>5, <1>8 DEF SidesAgree, Lone, ClientFits
  <2>2. Range(<<>>) = {} /\ Distinct(<<>>)
    BY DEF Range, Distinct
  <2>3. Queued /\ Handed
    BY <1>2, <1>7, <2>2 DEF Queued, Handed
  <2>4. QED
    BY <2>1, <2>3 DEF ConnInv
<1>11. SlotInv
  BY <1>2, <1>3, <1>7, <1>8 DEF SlotInv
<1>12. QED
  BY <1>6, <1>9, <1>10, <1>11 DEF NLinks

\* What the invariant says of the connections and the slots.
LEMMA LinksServe == NLinks => OneThreadPerConnection /\ SlotsNameRunning
<1> SUFFICES ASSUME NLinks PROVE OneThreadPerConnection /\ SlotsNameRunning
  OBVIOUS
<1>1. IsFiniteSet(Ids) /\ Ids \subseteq Nat \ {0} /\ MAX_THREAD \in Nat
  BY NetinfdAssumption
<1>2. \A S \in SUBSET Ids : IsFiniteSet(S)
  BY <1>1, FS_Subset
<1>3. {t \in Alive : h[t].pc = "start"} = Starting
  BY DEF Alive, Starting
<1>4. Cardinality(Starting) =< 1
  <2>1. CASE Starting = {}
    BY <2>1, FS_EmptySet
  <2>2. CASE Starting # {}
    <3>1. PICK t : t \in Starting
      BY <2>2
    <3>2. Starting = {t}
      BY <3>1 DEF NLinks, LockInv
    <3>3. Cardinality({t}) = 1
      BY FS_Singleton
    <3>4. QED
      BY <3>2, <3>3
  <2>3. QED
    BY <2>1, <2>2
<1>5. OneThreadPerConnection
  <2>1. \A t, u \in Alive : (t # u /\ h[t].sock # None) => h[t].sock # h[u].sock
    BY DEF NLinks, ConnInv, Lone, Alive
  <2>2. \A t \in Alive : h[t].pc = "start" => lock_thrdParam
    BY DEF NLinks, LockInv, Alive, Starting
  <2>3. acceptsock # None /\ (\E t \in Alive : h[t].pc = "start") => ~\E t \in Alive : h[t].sock = acceptsock
    BY DEF NLinks, ConnInv, Handed, Unserved, Pending, Starting, Alive
  <2>4. QED
    BY <1>3, <1>4, <2>1, <2>2, <2>3 DEF OneThreadPerConnection
<1>6. SlotsNameRunning
  <2> SUFFICES ASSUME faults = 0 PROVE SlotsNameRunning
    BY DEF SlotsNameRunning
  <2>1. \A i \in 1 .. MAX_THREAD : NetinfdTd[i] # 0 => NetinfdTd[i] \in Alive
    BY DEF NLinks, SlotInv, Alive
  <2>2. \A i, j \in 1 .. MAX_THREAD : (NetinfdTd[i] # 0 /\ NetinfdTd[i] = NetinfdTd[j]) => i = j
    BY DEF NLinks, SlotInv
  <2>3. ASSUME \A i \in 1 .. MAX_THREAD : NetinfdTd[i] # 0
        PROVE  MAX_THREAD <= Cardinality(Alive)
    <3>1. NetinfdTd \in [1 .. MAX_THREAD -> Alive]
      BY <2>1, <2>3 DEF NLinks, NType
    <3>2. NetinfdTd \in Injection(1 .. MAX_THREAD, Alive)
      BY <2>2, <2>3, <3>1 DEF Injection, IsInjective
    <3>3. IsFiniteSet(Alive)
      BY <1>2 DEF Alive
    <3>4. Cardinality(1 .. MAX_THREAD) <= Cardinality(Alive)
      BY <3>2, <3>3, FS_Injection
    <3>5. Cardinality(1 .. MAX_THREAD) = MAX_THREAD
      BY <1>1, FS_Interval
    <3>6. QED
      BY <3>4, <3>5
  <2>4. Cardinality(Alive) < MAX_THREAD => \E i \in 1 .. MAX_THREAD : NetinfdTd[i] = 0
    <3>1. Cardinality(Alive) \in Nat
      BY <1>2, FS_CardinalityType DEF Alive
    <3>2. QED
      BY <1>1, <2>3, <3>1
  <2>5. QED
    BY <2>1, <2>2, <2>4 DEF SlotsNameRunning
<1>7. QED
  BY <1>5, <1>6

\* A step that leaves the table alone, at one connection and in one thread.
LEMMA DataKept ==
  ASSUME OneSetter, NLinks, DataInv, UNCHANGED ConfigHashTable, NEW t, NEW s, Elsewhere(s),
         \A u \in Ids : u # t => h'[u] = h[u],
         t \in Ids => ThreadTold(t)' /\ h[t].sock \in {s, None} /\ h'[t].sock \in {s, None},
         s \in Clients =>
           /\ ClientTold(s)'
           /\ Setter(s) => \A k \in Keys : LastSet(s, k)' = LastSet(s, k)
           /\ (cl'[s].set = cl[s].set /\ cl'[s].req = cl[s].req) \/ \A u \in Ids : u # t => h[u].sock # s
  PROVE  DataInv'
<1>1. \A k \in Keys : EntriesOf(k)' = EntriesOf(k)
  BY DEF EntriesOf
<1>2. OneEach'
  BY <1>1 DEF DataInv, OneEach
<1>3. ASSUME NEW d \in Clients, d # s
      PROVE  /\ cl'[d] = cl[d] /\ (Answered(d)' <=> Answered(d)) /\ (Replying(d)' <=> Replying(d))
             /\ \A k \in Keys : LastSet(d, k)' = LastSet(d, k)
  <2>1. cl'[d] = cl[d] /\ (Answered(d)' <=> Answered(d))
    BY <1>3 DEF Elsewhere, Answered
  <2>2. d # None
    BY NoneDiffers DEF NoneIs
  <2>3. \A u \in Ids : h'[u].sock = d \/ h[u].sock = d => h'[u] = h[u]
    BY <1>3, <2>2
  <2>4. Replying(d)' <=> Replying(d)
    BY <2>3 DEF Replying
  <2>5. StoredNow(d)' <=> StoredNow(d)
    BY <2>1, <2>4 DEF StoredNow
  <2>6. QED
    BY <2>1, <2>4, <2>5 DEF LastSet
<1>4. ASSUME NEW d \in Clients
      PROVE  Setter(d) => TableHas(d)'
  <2> SUFFICES ASSUME Setter(d) PROVE TableHas(d)'
    OBVIOUS
  <2>1. TableHas(d)
    BY DEF DataInv
  <2>2. \A k \in Keys : LastSet(d, k)' = LastSet(d, k)
    BY <1>3
  <2>3. QED
    BY <1>1, <2>1, <2>2 DEF TableHas
<1>5. ASSUME NEW u \in Ids
      PROVE  ThreadTold(u)'
  <2>1. CASE u = t
    BY <2>1
  <2>2. CASE u # t
    <3>1. h'[u] = h[u] /\ ThreadTold(u)
      BY <2>2 DEF DataInv
    <3>2. CASE h[u].pc \notin {"entry", "wait", "reply"}
      BY <3>1, <3>2 DEF ThreadTold
    <3>3. CASE h[u].pc \in {"entry", "wait", "reply"}
      <4>1. h[u].sock \in Clients
        BY <3>3, ServedRequest
      <4>2. cl'[h[u].sock].set = cl[h[u].sock].set /\ cl'[h[u].sock].req = cl[h[u].sock].req
        <5>1. CASE h[u].sock = s
          BY <2>2, <4>1, <5>1
        <5>2. CASE h[u].sock # s
          BY <1>3, <4>1, <5>2
        <5>3. QED
          BY <5>1, <5>2
      <4>3. Req(u)' = Req(u)
        BY <3>1, <4>2 DEF Req
      <4>4. find_config(Req(u).key)' = find_config(Req(u).key)
        BY <4>3 DEF find_config
      <4>5. Shows(Req(u).key, cl[h[u].sock].set[Req(u).key], h[u].value)'
              = Shows(Req(u).key, cl[h[u].sock].set[Req(u).key], h[u].value)
        BY <3>1, <4>2, <4>3 DEF Shows, EntriesOf, Prefixed
      <4>6. QED
        BY <3>1, <4>2, <4>3, <4>4, <4>5 DEF ThreadTold
    <3>4. QED
      BY <3>2, <3>3
  <2>3. QED
    BY <2>1, <2>2
<1>6. ASSUME NEW d \in Clients
      PROVE  ClientTold(d)'
  <2>1. CASE d = s
    BY <2>1
  <2>2. CASE d # s
    <3>1. ClientTold(d)
      BY DEF DataInv
    <3>2. cl'[d] = cl[d] /\ (Answered(d)' <=> Answered(d))
      BY <1>3, <2>2
    <3>3. Shows(cl[d].req.key, cl[d].set[cl[d].req.key], cl[d].value)'
            = Shows(cl[d].req.key, cl[d].set[cl[d].req.key], cl[d].value)
      BY <3>2 DEF Shows, EntriesOf, Prefixed
    <3>4. QED
      BY <3>1, <3>2, <3>3 DEF ClientTold
  <2>3. QED
    BY <2>1, <2>2
<1>7. QED
  BY <1>2, <1>4, <1>5, <1>6 DEF DataInv

\* A step of main, and of a thread that comes or goes.
LEMMA DataBeyond ==
  ASSUME OneSetter, NLinks, DataInv, UNCHANGED <<ConfigHashTable, cl, up, down>>, NEW t,
         h \in [Ids -> ThreadRec],
         \A u \in Ids : u # t => h'[u] = h[u],
         t \in Ids => h[t].pc \notin {"reply"} /\ h'[t].pc \notin {"entry", "wait", "reply"}
  PROVE  DataInv'
<1>1. \A k \in Keys : EntriesOf(k)' = EntriesOf(k)
  BY DEF EntriesOf
<1>2. \A c \in Clients : Replying(c)' <=> Replying(c)
  BY DEF Replying
<1>3. \A c \in Clients : \A k \in Keys : LastSet(c, k)' = LastSet(c, k)
  BY <1>2 DEF LastSet, StoredNow, Answered
<1>4. OneEach' /\ \A c \in Clients : (TableHas(c) => TableHas(c)') /\ (ClientTold(c) => ClientTold(c)')
  <2>1. OneEach' /\ \A c \in Clients : TableHas(c) => TableHas(c)'
    BY <1>1, <1>3 DEF DataInv, OneEach, TableHas
  <2>2. ASSUME NEW c \in Clients, ClientTold(c)
        PROVE  ClientTold(c)'
    <3>1. Shows(cl[c].req.key, cl[c].set[cl[c].req.key], cl[c].value)'
            = Shows(cl[c].req.key, cl[c].set[cl[c].req.key], cl[c].value)
      BY DEF Shows, EntriesOf, Prefixed
    <3>2. QED
      BY <2>2, <3>1 DEF ClientTold, Answered
  <2>3. QED
    BY <2>1, <2>2
<1>5. ASSUME NEW u \in Ids
      PROVE  ThreadTold(u)'
  <2>1. CASE u = t
    BY <2>1 DEF ThreadTold
  <2>2. CASE u # t
    <3>1. h'[u] = h[u] /\ ThreadTold(u)
      BY <2>2 DEF DataInv
    <3>2. Req(u)' = Req(u)
      BY <3>1 DEF Req
    <3>3. find_config(Req(u).key)' = find_config(Req(u).key)
      BY <3>2 DEF find_config
    <3>4. Shows(Req(u).key, cl[h[u].sock].set[Req(u).key], h[u].value)'
            = Shows(Req(u).key, cl[h[u].sock].set[Req(u).key], h[u].value)
      BY <3>1, <3>2 DEF Shows, EntriesOf, Prefixed
    <3>5. QED
      BY <3>1, <3>2, <3>3, <3>4 DEF ThreadTold
  <2>3. QED
    BY <2>1, <2>2
<1>6. QED
  BY <1>4, <1>5 DEF DataInv

\* A client that connects has set what it had set.
LEMMA ConnectData ==
  ASSUME OneSetter, NLinks, DataInv, NEW c \in Clients, NEW type, Connect(c, type)
  PROVE  DataInv'
<1>1. PICK r \in Requests[c] : r.type = type /\ cl' = [cl EXCEPT ![c] = Asked(cl[c], r)]
  BY DEF Connect, Asked
<1>2. /\ cl \in [Clients -> ClientRec] /\ cl[c] \in ClientRec /\ cl[c].pc = "idle" /\ cl[c].left > 0 /\ r \in Reqs
      /\ up' = [up EXCEPT ![c] = 0] /\ down' = [down EXCEPT ![c] = 0] /\ UNCHANGED <<h, ConfigHashTable>>
  BY DEF Connect, NLinks, NType, Reqs
<1>3. cl'[c] = Asked(cl[c], r)
  BY <1>1, <1>2
<1>4. cl'[c].pc = "write" /\ cl'[c].set = cl[c].set
  BY <1>2, <1>3, AskedIs
<1>5. Elsewhere(c)
  BY <1>1, <1>2 DEF Elsewhere, NLinks, NType
<1>6. \A t \in Ids : h[t].sock # c
  BY <1>2, NoneDiffers DEF NLinks, ConnInv, SidesAgree, ThreadFits, NoneIs
<1>7. ~Answered(c)' /\ ~Replying(c)' /\ ~StoredNow(c)
  BY <1>2, <1>4, <1>6 DEF Answered, Replying, StoredNow
<1>8. ClientTold(c)' /\ \A k \in Keys : LastSet(c, k)' = LastSet(c, k)
  BY <1>4, <1>7 DEF ClientTold, LastSet, StoredNow
<1>9. 0 \notin Ids
  BY NetinfdAssumption
<1>10. QED
  BY <1>2, <1>4, <1>5, <1>6, <1>8, <1>9, DataKept

\* When a SET returns, the value that was stored counts as set.
LEMMA ReturnData ==
  ASSUME OneSetter, NLinks, DataInv, NEW c \in Clients, Return(c)
  PROVE  DataInv'
<1>1. /\ cl' = [cl EXCEPT ![c] = Returned(cl[c].left, NewSet(cl[c]))]
      /\ cl[c].pc = "done" /\ UNCHANGED <<up, down, h, ConfigHashTable>>
  BY DEF Return, Returned, NewSet, dvars
<1>2. cl \in [Clients -> ClientRec] /\ cl[c] \in ClientRec /\ cl[c].req \in Requests[c] /\ cl[c].left \in Nat
      /\ cl[c].got = Size /\ down[c] = 0 /\ cl[c].set \in [Keys -> Seq(Nat)]
  <2>1. cl[c] \in ClientRec
    BY DEF NLinks, NType
  <2>2. QED
    BY <1>1, <2>1 DEF NLinks, NType, ConnInv, SidesAgree, ClientFits, ClientRec
<1>3. cl'[c] = Returned(cl[c].left, NewSet(cl[c]))
  BY <1>1, <1>2
<1>4. cl'[c].pc = "idle" /\ cl'[c].set = NewSet(cl[c])
  BY <1>2, <1>3, NewSetIs, ReturnedIs
<1>5. Elsewhere(c)
  BY <1>1, <1>2 DEF Elsewhere
<1>6. \A t \in Ids : h[t].sock # c
  BY <1>1, NoneDiffers DEF NLinks, ConnInv, SidesAgree, ThreadFits, NoneIs
<1>7. ~Answered(c)' /\ ~StoredNow(c)' /\ ~Replying(c) /\ (Answered(c) <=> cl[c].status = 0)
  BY <1>1, <1>2, <1>4, <1>6, NetinfdAssumption DEF Answered, Replying, StoredNow
<1>8. StoredNow(c) <=> cl[c].req.type = "SET" /\ cl[c].status = 0
  BY <1>1, <1>7 DEF StoredNow
<1>9. cl[c].req.key \in Keys
  BY <1>2, NetinfdAssumption
<1>10. \A k \in Keys : LastSet(c, k)' = LastSet(c, k)
  <2>1. CASE StoredNow(c)
    BY <1>2, <1>4, <1>7, <1>8, <1>9, <2>1 DEF LastSet, NewSet
  <2>2. CASE ~StoredNow(c)
    BY <1>4, <1>7, <1>8, <2>2 DEF LastSet, NewSet
  <2>3. QED
    BY <2>1, <2>2
<1>11. ClientTold(c)'
  BY <1>7 DEF ClientTold
<1>12. 0 \notin Ids
  BY NetinfdAssumption
<1>13. QED
  BY <1>1, <1>5, <1>6, <1>10, <1>11, <1>12, DataKept

\* A client that writes knows no answer yet.
LEMMA WriteData ==
  ASSUME OneSetter, NLinks, DataInv, NEW c \in Clients, safe_write(c)
  PROVE  DataInv'
<1>1. PICK n \in 1 .. Size - cl[c].sent : up' = [up EXCEPT ![c] = up[c] + n] /\ cl' = [cl EXCEPT ![c] = Wrote(cl[c], n)]
  BY DEF safe_write, Wrote
<1>2. /\ cl \in [Clients -> ClientRec] /\ cl[c] \in ClientRec /\ cl[c].pc = "write"
      /\ UNCHANGED <<down, h, ConfigHashTable>> /\ up \in [Clients -> Nat] /\ Size \in Nat /\ Size > 0
  BY NetinfdAssumption DEF NLinks, NType, safe_write, dvars
<1>3. cl[c].sent < Size /\ cl[c].got = 0 /\ down[c] = 0
  BY <1>2 DEF NLinks, ConnInv, SidesAgree, ClientFits
<1>4. cl'[c] = Wrote(cl[c], n)
  BY <1>1, <1>2
<1>5. /\ cl'[c].req = cl[c].req /\ cl'[c].got = cl[c].got /\ cl'[c].set = cl[c].set /\ cl'[c].pc # "idle"
  BY <1>2, <1>3, <1>4, WroteIs
<1>6. Elsewhere(c)
  BY <1>1, <1>2 DEF Elsewhere
<1>7. ~Answered(c) /\ ~Answered(c)' /\ (Replying(c)' <=> Replying(c))
  BY <1>2, <1>3, <1>5 DEF Answered, Replying
<1>8. StoredNow(c)' <=> StoredNow(c)
  BY <1>2, <1>5, <1>7 DEF StoredNow
<1>9. ClientTold(c)' /\ \A k \in Keys : LastSet(c, k)' = LastSet(c, k)
  BY <1>5, <1>7, <1>8 DEF ClientTold, LastSet
<1>10. 0 \notin Ids
  BY NetinfdAssumption
<1>11. QED
  BY <1>2, <1>5, <1>6, <1>9, <1>10, DataKept

\* Reading does not change an answer that is complete.
LEMMA ReadData ==
  ASSUME OneSetter, NLinks, DataInv, NEW c \in Clients, safe_read(c)
  PROVE  DataInv'
<1>1. PICK n \in 1 .. down[c] : down' = [down EXCEPT ![c] = down[c] - n] /\ cl' = [cl EXCEPT ![c] = HasRead(cl[c], n)]
  BY DEF safe_read, HasRead
<1>2. /\ cl \in [Clients -> ClientRec] /\ cl[c] \in ClientRec /\ cl[c].pc = "read" /\ UNCHANGED <<up, h, ConfigHashTable>>
      /\ down \in [Clients -> Nat] /\ down[c] \in Nat /\ Size \in Nat /\ Size > 0
  BY NetinfdAssumption DEF NLinks, NType, safe_read, dvars
<1>3. cl[c].got + down[c] <= Size /\ cl[c].got \in Nat
  <2>1. ClientFits(c, cl[c], up[c], down[c])
    BY DEF NLinks, ConnInv, SidesAgree
  <2>2. QED
    BY <1>2, <2>1 DEF ClientFits, ClientRec
<1>4. cl[c].got + n <= Size /\ n \in Nat /\ down'[c] = down[c] - n
  BY <1>1, <1>2, <1>3
<1>5. /\ cl'[c].req = cl[c].req /\ cl'[c].got = cl[c].got + n /\ cl'[c].set = cl[c].set /\ cl'[c].pc \in {"read", "done"}
      /\ cl'[c].status = cl[c].status /\ cl'[c].value = cl[c].value
  <2>1. cl'[c] = HasRead(cl[c], n)
    BY <1>1, <1>2
  <2>2. QED
    BY <1>2, <1>4, <2>1, HasReadIs
<1>6. Elsewhere(c)
  BY <1>1, <1>2 DEF Elsewhere
<1>7. cl'[c].got + down'[c] = cl[c].got + down[c]
  BY <1>2, <1>3, <1>4, <1>5
<1>8. (Answered(c)' <=> Answered(c)) /\ (Replying(c)' <=> Replying(c))
  BY <1>2, <1>5, <1>7 DEF Answered, Replying
<1>9. StoredNow(c)' <=> StoredNow(c)
  BY <1>2, <1>5, <1>8 DEF StoredNow
<1>10. ClientTold(c)' /\ \A k \in Keys : LastSet(c, k)' = LastSet(c, k)
  <2>1. ClientTold(c)
    BY DEF DataInv
  <2>2. Shows(cl[c].req.key, cl[c].set[cl[c].req.key], cl[c].value)'
          = Shows(cl[c].req.key, cl[c].set[cl[c].req.key], cl[c].value)
    BY <1>2, <1>5 DEF Shows, EntriesOf, Prefixed
  <2>3. QED
    BY <1>5, <1>8, <1>9, <2>1, <2>2 DEF ClientTold, LastSet
<1>11. 0 \notin Ids
  BY NetinfdAssumption
<1>12. QED
  BY <1>2, <1>5, <1>6, <1>10, <1>11, DataKept

\* Main, and threads that begin, read or end.
LEMMA MainData ==
  ASSUME OneSetter, NLinks, DataInv, Main
  PROVE  DataInv'
<1>1. h \in [Ids -> ThreadRec] /\ 0 \notin Ids
  BY NetinfdAssumption DEF NLinks, NType
<1>2. CASE Select
  BY <1>1, <1>2, DataBeyond DEF Select
<1>3. CASE Accept
  BY <1>1, <1>3, DataBeyond DEF Accept
<1>4. CASE Create
  <2>1. UNCHANGED <<cl, up, down, ConfigHashTable>>
    BY <1>4 DEF Create
  <2>2. CASE UNCHANGED h
    BY <1>1, <2>1, <2>2, DataBeyond
  <2>3. ASSUME NEW t \in Ids \ Alive, h' = [h EXCEPT ![t] = Begun]
        PROVE  DataInv'
    BY <1>1, <2>1, <2>3, BegunIs, DataBeyond DEF Alive
  <2>4. QED
    BY <1>4, <2>2, <2>3 DEF Create, Begun
<1>5. QED
  BY <1>2, <1>3, <1>4 DEF Main

\* A thread that takes its socket, reads or ends.
LEMMA ThreadData ==
  ASSUME OneSetter, NLinks, DataInv, NEW t \in Ids, TakeSocket(t) \/ EarlyReturn(t) \/ ReadRequest(t) \/ Over(t)
  PROVE  DataInv'
<1>1. h \in [Ids -> ThreadRec] /\ h[t] \in ThreadRec /\ acceptsock \in Clients \cup {None}
  BY DEF NLinks, NType
<1>2. CASE TakeSocket(t)
  <2>1. h[t].pc = "start" /\ h' = [h EXCEPT ![t] = Took(h[t], acceptsock)] /\ UNCHANGED <<cl, up, down, ConfigHashTable>>
    BY <1>2 DEF TakeSocket, svars, Took
  <2>2. h'[t].pc = "read" /\ \A u \in Ids : u # t => h'[u] = h[u]
    BY <1>1, <2>1, TookIs
  <2>3. QED
    BY <1>1, <2>1, <2>2, DataBeyond
<1>3. CASE EarlyReturn(t) \/ Over(t)
  <2>1. h[t].pc \in {"read", "over"} /\ h' = [h EXCEPT ![t] = NoThread] /\ UNCHANGED <<cl, up, down, ConfigHashTable>>
    BY <1>3 DEF EarlyReturn, Over, svars
  <2>2. h'[t].pc = "none" /\ \A u \in Ids : u # t => h'[u] = h[u]
    BY <1>1, <2>1 DEF NoThread
  <2>3. QED
    BY <1>1, <2>1, <2>2, DataBeyond
<1>4. CASE ReadRequest(t)
  <2>0. PICK s \in Clients : s = h[t].sock
    BY <1>4, ReadRequestIs
  <2>1. PICK n \in 1 .. up[s] : up' = [up EXCEPT ![s] = up[s] - n] /\ h' = [h EXCEPT ![t] = ReadOn(h[t], n)]
    BY <1>4, <2>0, ReadRequestIs
  <2>2. h[t].pc = "read" /\ UNCHANGED <<cl, down, ConfigHashTable>>
    BY <1>4, ReadRequestIs
  <2>3. up \in [Clients -> Nat] /\ n \in Nat
    BY <2>1, <2>2 DEF NLinks, NType
  <2>4. /\ h'[t].pc \in {"serve", "read"} /\ h'[t].sock = s
        /\ \A u \in Ids : u # t => h'[u] = h[u]
    BY <1>1, <2>0, <2>1, <2>2, <2>3, ReadOnIs
  <2>5. Elsewhere(s)
    BY <2>1, <2>2, <2>3 DEF Elsewhere
  <2>6. ThreadTold(t)'
    BY <2>4 DEF ThreadTold
  <2>7. \A c \in Clients : (Answered(c)' <=> Answered(c)) /\ (Replying(c)' <=> Replying(c))
    BY <2>2, <2>4 DEF Answered, Replying
  <2>8. \A c \in Clients : \A k \in Keys : LastSet(c, k)' = LastSet(c, k)
    BY <2>2, <2>7 DEF LastSet, StoredNow
  <2>9. ClientTold(s)'
    <3>1. ClientTold(s)
      BY DEF DataInv
    <3>2. Shows(cl[s].req.key, cl[s].set[cl[s].req.key], cl[s].value)'
            = Shows(cl[s].req.key, cl[s].set[cl[s].req.key], cl[s].value)
      BY <2>2 DEF Shows, EntriesOf, Prefixed
    <3>3. QED
      BY <2>2, <2>7, <3>1, <3>2 DEF ClientTold
  <2>10. QED
    BY <2>0, <2>2, <2>4, <2>5, <2>6, <2>8, <2>9, DataKept
<1>5. QED
  BY <1>2, <1>3, <1>4

\* A step of a thread that serves a request that sets nothing.
LEMMA DataServes ==
  ASSUME OneSetter, NLinks, DataInv, NEW t \in Ids, NEW c \in Clients, h[t].sock = c, NEW n \in ThreadRec,
         h' = [h EXCEPT ![t] = n], n.sock \in {c, None}, ThreadTold(t)',
         UNCHANGED <<cl, up, down, ConfigHashTable>>,
         cl[c].req.type = "SET" => n.pc # "reply" /\ h[t].pc # "reply"
  PROVE  DataInv'
<1>1. /\ h \in [Ids -> ThreadRec] /\ h'[t] = n
      /\ \A u \in Ids : u # t => h'[u] = h[u]
  BY DEF NLinks, NType
<1>2. Elsewhere(c) /\ (Answered(c)' <=> Answered(c))
  BY DEF Elsewhere, Answered
<1>3. cl[c].req.type = "SET" => (Replying(c)' <=> Replying(c))
  <2>1. c # None
    BY NoneDiffers DEF NoneIs
  <2>2. QED
    BY <1>1, <2>1 DEF Replying
<1>4. StoredNow(c)' <=> StoredNow(c)
  BY <1>2, <1>3 DEF StoredNow
<1>5. \A k \in Keys : LastSet(c, k)' = LastSet(c, k)
  BY <1>4 DEF LastSet
<1>6. ClientTold(c)'
  <2>1. ClientTold(c)
    BY DEF DataInv
  <2>2. Shows(cl[c].req.key, cl[c].set[cl[c].req.key], cl[c].value)'
          = Shows(cl[c].req.key, cl[c].set[cl[c].req.key], cl[c].value)
    BY DEF Shows, EntriesOf, Prefixed
  <2>3. QED
    BY <1>2, <2>1, <2>2 DEF ClientTold
<1>7. QED
  BY <1>1, <1>2, <1>5, <1>6, DataKept

\* A thread that begins to serve looks for its entry.
LEMMA ServeData ==
  ASSUME OneSetter, NLinks, DataInv, NEW t \in Ids, Serve(t)
  PROVE  DataInv'
<1>1. /\ h[t].pc = "serve" /\ UNCHANGED <<cl, up, down, ConfigHashTable>> /\ h \in [Ids -> ThreadRec]
  BY DEF Serve, NLinks, NType
<1>2. PICK c \in Clients : c = h[t].sock
  BY <1>1, ServedRequest
<1>3. h[t] \in ThreadRec /\ Req(t) = cl[c].req /\ Req(t).key \in Keys /\ DnsCount \in Nat
  BY <1>1, <1>2, ServedRequest, NetinfdAssumption
<1>4. find_config(Req(t).key) \in 0 .. CONFIG_SIZE
  BY <1>3, FoundEntry DEF NLinks
<1>5. CASE Req(t).type \in {"GET", "SET"}
  <2>1. h' = [h EXCEPT ![t] = Looked(h[t], find_config(Req(t).key))]
    BY <1>5 DEF Serve, Looked
  <2>2. h'[t].pc = "entry" /\ h'[t].sock = c /\ h'[t].ptr = find_config(Req(t).key)
        /\ Looked(h[t], find_config(Req(t).key)) \in ThreadRec
    BY <1>1, <1>2, <1>3, <1>4, <2>1, LookedIs
  <2>3. Req(t)' = Req(t)
    BY <1>1, <1>2, <2>2 DEF Req
  <2>4. find_config(Req(t).key)' = find_config(Req(t).key)
    BY <1>1, <2>3 DEF find_config
  <2>5. ThreadTold(t)'
    BY <1>5, <2>2, <2>3, <2>4 DEF ThreadTold
  <2>6. h'[t] = Looked(h[t], find_config(Req(t).key))
    BY <1>1, <2>1
  <2>7. QED
    BY <1>1, <1>2, <2>1, <2>2, <2>5, <2>6, DataServes
<1>6. CASE Req(t).type = "NIENABLE" /\ Req(t).known
  <2>1. h' = [h EXCEPT ![t] = Ready(h[t], 0)]
    BY <1>6 DEF Serve, Ready
  <2>2. h'[t].pc = "reply" /\ h'[t].sock = c /\ Ready(h[t], 0) \in ThreadRec /\ h'[t] = Ready(h[t], 0)
    BY <1>1, <1>2, <1>3, <2>1, ReadyIs
  <2>3. Req(t)' = Req(t)
    BY <1>1, <1>2, <2>2 DEF Req
  <2>4. ThreadTold(t)'
    BY <1>6, <2>2, <2>3 DEF ThreadTold
  <2>5. cl[c].req.type # "SET"
    BY <1>3, <1>6
  <2>6. QED
    BY <1>1, <1>2, <2>1, <2>2, <2>4, <2>5, DataServes
<1>7. CASE Req(t).type \notin {"GET", "SET", "NIENABLE"}
  <2>1. \/ \E n \in Nat \cup {-1} : h' = [h EXCEPT ![t] = Forked(h[t], n)]
        \/ h' = [h EXCEPT ![t] = GaveUp(h[t])]
    <3>1. \/ h' = [h EXCEPT ![t] = Forked(h[t], Rounds(Req(t)))]
          \/ h' = [h EXCEPT ![t] = GaveUp(h[t])]
      BY <1>7 DEF Serve, Forked, GaveUp
    <3>2. QED
      BY <3>1, RoundsIs
  <2>2. PICK r \in ThreadRec : h' = [h EXCEPT ![t] = r] /\ r.pc \in {"wait", "over"} /\ r.sock = c
    BY <1>2, <1>3, <2>1, ForkedIs, GaveUpIs
  <2>3. h'[t] = r
    BY <1>1, <2>2
  <2>4. Req(t)' = Req(t)
    BY <1>1, <1>2, <2>2, <2>3 DEF Req
  <2>5. ThreadTold(t)'
    BY <1>7, <2>2, <2>3, <2>4 DEF ThreadTold
  <2>6. QED
    BY <1>1, <1>2, <2>2, <2>5, DataServes
<1>8. CASE Req(t).type = "NIENABLE" /\ ~Req(t).known
  <2>1. h' = [h EXCEPT ![t] = Closed(h[t])]
    BY <1>8 DEF Serve, Closed
  <2>2. h'[t].pc = "over" /\ Closed(h[t]) \in ThreadRec /\ Closed(h[t]).pc = "over" /\ Closed(h[t]).sock = None
    BY <1>1, <1>3, <2>1, ClosedIs
  <2>3. ThreadTold(t)'
    BY <2>2 DEF ThreadTold
  <2>4. cl[c].req.type # "SET"
    BY <1>3, <1>8
  <2>5. QED
    BY <1>1, <1>2, <2>1, <2>2, <2>3, <2>4, DataServes
<1>9. QED
  BY <1>5, <1>6, <1>7, <1>8

\* A thread with a child neither gets nor sets.
LEMMA WaitData ==
  ASSUME OneSetter, NLinks, DataInv, NEW t \in Ids, ChildEnds(t) \/ WaitChild(t)
  PROVE  DataInv'
<1>1. /\ h[t].pc = "wait" /\ Waited(t) /\ UNCHANGED <<cl, up, down, ConfigHashTable>> /\ h \in [Ids -> ThreadRec]
  BY WaitedIs DEF NLinks, NType
<1>2. PICK c \in Clients : c = h[t].sock
  BY <1>1, ServedRequest
<1>3. h[t] \in ThreadRec /\ Req(t) = cl[c].req
  BY <1>1, <1>2, ServedRequest
<1>4. Req(t).type \notin {"GET", "SET"}
  BY <1>1 DEF DataInv, ThreadTold
<1>5. PICK r \in ThreadRec : h' = [h EXCEPT ![t] = r] /\ r.pc \in {"wait", "reply"} /\ r.sock = c
  BY <1>1, <1>2, <1>3, WithChildIs, OneRoundIs, ReadyAfterIs DEF Waited
<1>6. h'[t] = r
  BY <1>1, <1>5
<1>7. Req(t)' = Req(t)
  BY <1>1, <1>2, <1>5, <1>6 DEF Req
<1>8. ThreadTold(t)'
  BY <1>4, <1>5, <1>6, <1>7 DEF ThreadTold
<1>9. cl[c].req.type # "SET"
  BY <1>3, <1>4
<1>10. QED
  BY <1>1, <1>2, <1>5, <1>8, <1>9, DataServes

\* The last piece of a reply gives the client what the thread had.
LEMMA WriteReplyData ==
  ASSUME OneSetter, NLinks, DataInv, NEW t \in Ids, WriteReply(t)
  PROVE  DataInv'
<1>0. h[t].pc = "reply"
  BY WriteReplyIs
<1>1. PICK s \in Clients : s = h[t].sock
  BY <1>0, ServedRequest
<1>2. /\ s # None /\ h[t] \in ThreadRec /\ cl[s] \in ClientRec /\ Req(t) = cl[s].req
      /\ UNCHANGED <<up, ConfigHashTable>> /\ Req(t).key \in Keys
      /\ ClientFits(s, cl[s], up[s], down[s]) /\ ThreadFits(h[t], cl[s], up[s], down[s])
  BY <1>0, <1>1, WriteReplyIs, ServedRequest
<1>3. PICK n \in 1 .. Size - h[t].got :
              /\ down' = [down EXCEPT ![s] = down[s] + n]
              /\ h' = [h EXCEPT ![t] = WroteOn(h[t], n, h[t].got + n = Size)]
              /\ h[t].got + n = Size => cl' = [cl EXCEPT ![s] = Told(cl[s], h[t].status, h[t].value)]
              /\ h[t].got + n # Size => cl' = cl
  BY <1>1, WriteReplyIs
<1>4. /\ down[s] \in Nat /\ n \in Nat /\ n > 0 /\ down \in [Clients -> Nat]
      /\ cl \in [Clients -> ClientRec] /\ Size \in Nat /\ h[t].got \in Nat /\ h \in [Ids -> ThreadRec]
      /\ h[t].status \in {0, -1} /\ h[t].value \in Seq(Nat)
  <2>1. /\ h[t].got \in Nat /\ h[t].status \in {0, -1} /\ h[t].value \in Seq(Nat) /\ Size \in Nat
    BY <1>2, NetinfdAssumption DEF ThreadRec
  <2>2. n \in Nat /\ n > 0
    BY <2>1
  <2>3. QED
    BY <2>1, <2>2 DEF NLinks, NType
<1>5. /\ cl[s].got \in Nat /\ cl[s].got + down[s] = h[t].got /\ h[t].got < Size
      /\ cl[s].pc \in {"write", "read"} /\ cl[s].pc = "read"
  BY <1>0, <1>2, <1>4 DEF ThreadFits, ClientFits, ClientRec
<1> DEFINE r == WroteOn(h[t], n, h[t].got + n = Size)
<1>6. /\ r \in ThreadRec /\ r.pc = (IF h[t].got + n = Size THEN "over" ELSE "reply")
      /\ r.sock = (IF h[t].got + n = Size THEN None ELSE s) /\ r.status = h[t].status /\ r.value = h[t].value
  BY <1>0, <1>1, <1>2, <1>4, WroteOnIs
<1>7. h'[t] = r /\ \A u \in Ids : u # t => h'[u] = h[u]
  BY <1>3, <1>4
<1> HIDE DEF r
<1>8. \A u \in Ids : h[u].sock = s => u = t
  BY <1>1, <1>2 DEF NLinks, ConnInv, Lone
<1>9. /\ cl'[s].pc = "read" /\ cl'[s].got = cl[s].got /\ cl'[s].req = cl[s].req /\ cl'[s].set = cl[s].set
      /\ h[t].got + n = Size => cl'[s].status = h[t].status /\ cl'[s].value = h[t].value
      /\ \A c \in Clients : c # s => cl'[c] = cl[c]
  <2>1. CASE h[t].got + n = Size
    <3>1. cl' = [cl EXCEPT ![s] = Told(cl[s], h[t].status, h[t].value)]
      BY <1>3, <2>1
    <3>2. cl'[s] = Told(cl[s], h[t].status, h[t].value)
      BY <1>4, <3>1
    <3>3. QED
      BY <1>2, <1>4, <1>5, <3>1, <3>2, ToldIs
  <2>2. CASE h[t].got + n # Size
    BY <1>3, <1>5, <2>2
  <2>3. QED
    BY <2>1, <2>2
<1>10. cl[s].got + down'[s] = h[t].got + n /\ Elsewhere(s)
  BY <1>2, <1>3, <1>4, <1>5, <1>9 DEF Elsewhere
<1>11. ~Answered(s) /\ (Replying(s) <=> h[t].status = 0)
  <2>1. cl[s].got + down[s] # Size
    BY <1>4, <1>5
  <2>2. QED
    BY <1>0, <1>1, <1>8, <2>1 DEF Answered, Replying
<1>12. /\ Answered(s)' <=> h[t].got + n = Size /\ cl'[s].status = 0
       /\ Replying(s)' <=> h[t].got + n # Size /\ h[t].status = 0
  <2>1. Answered(s)' <=> h[t].got + n = Size /\ cl'[s].status = 0
    BY <1>9, <1>10 DEF Answered
  <2>2. \A u \in Ids : h'[u].sock = s => u = t
    BY <1>2, <1>6, <1>7, <1>8
  <2>3. Replying(s)' <=> h[t].got + n # Size /\ h[t].status = 0
    BY <1>2, <1>6, <1>7, <2>2 DEF Replying
  <2>4. QED
    BY <2>1, <2>3
<1>13. (Answered(s)' \/ Replying(s)') <=> (Answered(s) \/ Replying(s))
  BY <1>9, <1>11, <1>12
<1>14. StoredNow(s)' <=> StoredNow(s)
  BY <1>5, <1>9, <1>13 DEF StoredNow
<1>15. \A k \in Keys : LastSet(s, k)' = LastSet(s, k)
  BY <1>9, <1>14 DEF LastSet
<1>16. ThreadTold(t)
  BY DEF DataInv
<1>17. ClientTold(s)'
  <2> SUFFICES ASSUME Setter(s), Answered(s)', cl'[s].req.type = "GET"
               PROVE  Shows(cl[s].req.key, cl[s].set[cl[s].req.key], cl[s].value)'
    BY DEF ClientTold
  <2>1. h[t].got + n = Size
    BY <1>12
  <2>2. Shows(cl[s].req.key, cl[s].set[cl[s].req.key], h[t].value)
    BY <1>0, <1>1, <1>2, <1>9, <1>16 DEF ThreadTold
  <2>3. QED
    BY <1>2, <1>9, <2>1, <2>2 DEF Shows, EntriesOf, Prefixed
<1>18. ThreadTold(t)'
  <2>1. CASE h[t].got + n = Size
    BY <1>6, <1>7, <2>1 DEF ThreadTold
  <2>2. CASE h[t].got + n # Size
    <3>1. h'[t].pc = "reply" /\ h'[t].sock = s /\ h'[t].value = h[t].value /\ Req(t)' = Req(t)
      BY <1>2, <1>6, <1>7, <1>9, <2>2 DEF Req
    <3>2. Shows(Req(t).key, cl[h[t].sock].set[Req(t).key], h[t].value)'
            = Shows(Req(t).key, cl[h[t].sock].set[Req(t).key], h[t].value)
      <4>1. (cl')[h'[t].sock].set = cl[h[t].sock].set
        BY <1>1, <1>9, <3>1
      <4>2. QED
        BY <1>2, <3>1, <4>1 DEF Shows, EntriesOf, Prefixed
    <3>3. QED
      BY <1>0, <1>1, <1>9, <1>16, <3>1, <3>2 DEF ThreadTold
  <2>3. QED
    BY <2>1, <2>2
<1>19. h'[t].sock \in {s, None}
  BY <1>6, <1>7
<1>20. QED
  BY <1>1, <1>2, <1>7, <1>9, <1>10, <1>15, <1>17, <1>18, <1>19, DataKept

\* A GET finds the key's entry, or that there is none.
LEMMA LooksData ==
  ASSUME OneSetter, NLinks, DataInv, NEW t \in Ids, h[t].pc = "entry", Looks(t), UNCHANGED <<cl, up, down>>
  PROVE  DataInv'
<1>1. PICK c \in Clients : c = h[t].sock
  BY ServedRequest
<1>2. /\ h[t] \in ThreadRec /\ Req(t) = cl[c].req /\ Req(t).key \in Keys /\ h[t].ptr \in 0 .. CONFIG_SIZE
      /\ h \in [Ids -> ThreadRec] /\ cl[c] \in ClientRec
  <2>1. h[t] \in ThreadRec /\ Req(t) = cl[c].req /\ Req(t).key \in Keys /\ cl[c] \in ClientRec
    BY <1>1, ServedRequest
  <2>2. QED
    BY <2>1 DEF ThreadRec, NLinks, NType
<1>3. ConfigHashTable \in [1 .. CONFIG_SIZE -> EntryRec] /\ CONFIG_SIZE \in Nat
  BY NetinfdAssumption DEF NLinks, NType
<1>4. h[t].ptr # 0 => ConfigHashTable[h[t].ptr] \in EntryRec
  BY <1>2, <1>3
<1> DEFINE key == Req(t).key
           v == IF h[t].ptr = 0 THEN <<>> ELSE IF ConfigHashTable[h[t].ptr].buse = 0 THEN <<>>
                ELSE ConfigHashTable[h[t].ptr].value
<1>5. v \in Seq(Nat)
  BY <1>4 DEF EntryRec
<1>6. h' = [h EXCEPT ![t] = ReadyWith(h[t], v)] /\ Req(t).type = "GET" /\ UNCHANGED ConfigHashTable
  BY DEF Looks
<1>7. Setter(c) => Shows(key, cl[c].set[key], v)
  <2> SUFFICES ASSUME Setter(c) PROVE Shows(key, cl[c].set[key], v)
    OBVIOUS
  <2>1. h[t].ptr = find_config(key) /\ TableHas(c)
    BY <1>1 DEF DataInv, ThreadTold
  <2>2. LastSet(c, key) = cl[c].set[key]
    BY <1>2, <1>6 DEF LastSet, StoredNow
  <2>3. CASE EntriesOf(key) # {}
    <3>1. h[t].ptr \in EntriesOf(key)
      BY <1>2, <2>1, <2>3, FoundEntry DEF EntriesOf, NLinks
    <3>2. h[t].ptr \in 1 .. CONFIG_SIZE /\ ConfigHashTable[h[t].ptr].buse = 1
      BY <3>1 DEF EntriesOf
    <3>3. h[t].ptr # 0
      BY <1>3, <3>2
    <3>4. v = ConfigHashTable[h[t].ptr].value
      BY <3>2, <3>3
    <3>5. Prefixed(LastSet(c, key), ConfigHashTable[h[t].ptr].value)
      BY <1>2, <2>1, <3>1 DEF TableHas
    <3>6. QED
      BY <2>2, <2>3, <3>4, <3>5 DEF Shows
  <2>4. CASE EntriesOf(key) = {}
    <3>1. h[t].ptr = 0 \/ (h[t].ptr \in 1 .. CONFIG_SIZE /\ ConfigHashTable[h[t].ptr].buse = 0)
      BY <1>2, <2>1, <2>4, FoundEntry DEF EntriesOf, NLinks
    <3>2. v = <<>>
      BY <3>1
    <3>3. QED
      BY <2>4, <3>2 DEF Shows
  <2>5. QED
    BY <2>3, <2>4
<1> HIDE DEF v
<1>8. ReadyWith(h[t], v) \in ThreadRec /\ h'[t] = ReadyWith(h[t], v)
  BY <1>2, <1>5, <1>6, ReadyWithIs
<1>9. h'[t].pc = "reply" /\ h'[t].sock = c /\ h'[t].value = v
  BY <1>1, <1>2, <1>5, <1>8, ReadyWithIs
<1>10. Req(t)' = Req(t)
  BY <1>1, <1>9 DEF Req
<1>11. ThreadTold(t)'
  <2>1. Setter(c) => Shows(Req(t).key, cl[h[t].sock].set[Req(t).key], h[t].value)'
    BY <1>6, <1>7, <1>9, <1>10 DEF Shows, EntriesOf, Prefixed
  <2>2. QED
    BY <1>9, <1>10, <2>1 DEF ThreadTold
<1>12. cl[c].req.type # "SET"
  BY <1>2, <1>6
<1>13. QED
  BY <1>1, <1>6, <1>8, <1>9, <1>11, <1>12, DataServes

\* A SET that finds no room is refused; the others are in the table, before
\* the client knows.
LEMMA SetsData ==
  ASSUME OneSetter, NLinks, DataInv, NEW t \in Ids, h[t].pc = "entry", Sets(t), UNCHANGED <<cl, up, down>>
  PROVE  DataInv'
<1>1. PICK c \in Clients : c = h[t].sock
  BY ServedRequest
<1>2. /\ c # None /\ h[t] \in ThreadRec /\ Req(t) = cl[c].req /\ cl[c].req.key \in Keys /\ h[t].ptr \in 0 .. CONFIG_SIZE
      /\ h \in [Ids -> ThreadRec] /\ cl[c] \in ClientRec /\ cl[c].req \in Requests[c]
      /\ cl[c].pc \in {"write", "read"} /\ ThreadFits(h[t], cl[c], up[c], down[c])
  <2>1. h[t] \in ThreadRec /\ Req(t) = cl[c].req /\ Req(t).key \in Keys /\ cl[c] \in ClientRec /\ cl[c].req \in Requests[c]
        /\ cl[c].pc \in {"write", "read"} /\ c # None /\ ThreadFits(h[t], cl[c], up[c], down[c])
    BY <1>1, ServedRequest
  <2>2. QED
    BY <2>1 DEF ThreadRec, NLinks, NType
<1>3. cl[c].req.type = "SET" /\ Setter(c)
  <2>1. cl[c].req.type \in {"GET", "SET"} /\ cl[c].req.type # "GET"
    BY <1>2 DEF DataInv, ThreadTold, Sets
  <2>2. QED
    BY <1>2, <2>1 DEF Setter
<1>4. ~Answered(c) /\ ~Replying(c)
  <2>1. cl[c].got = 0 /\ down[c] = 0 /\ Size # 0
    BY <1>2, NetinfdAssumption DEF ThreadFits
  <2>2. \A u \in Ids : h[u].sock = c => u = t
    BY <1>1, <1>2 DEF NLinks, ConnInv, Lone
  <2>3. QED
    BY <2>1, <2>2 DEF Answered, Replying
<1>5. \A u \in Ids : u # t => h[u].sock # c /\ h'[u] = h[u]
  BY <1>1, <1>2 DEF NLinks, ConnInv, Lone, Sets
<1> DEFINE key == cl[c].req.key
           i == h[t].ptr
           s == IF i = 0 THEN -1 ELSE 0
<1>6. s \in {0, -1} /\ h' = [h EXCEPT ![t] = Ready(h[t], s)]
  BY DEF Sets
<1>7. h'[t].pc = "reply" /\ h'[t].sock = c /\ h'[t].status = s
  <2> HIDE DEF s
  <2>1. h'[t] = Ready(h[t], s)
    BY <1>2, <1>6
  <2>2. QED
    BY <1>1, <1>2, <1>6, <2>1, ReadyIs
<1>8. ~Answered(c)' /\ (Replying(c)' <=> s = 0) /\ Elsewhere(c)
  BY <1>4, <1>5, <1>7 DEF Answered, Replying, Elsewhere
<1>9. Req(t)' = Req(t)
  BY <1>1, <1>7 DEF Req
<1>10. ThreadTold(t)'
  BY <1>2, <1>3, <1>7, <1>9 DEF ThreadTold
<1>11. ClientTold(c)'
  BY <1>8 DEF ClientTold
<1>12. ~StoredNow(c) /\ (StoredNow(c)' <=> i # 0)
  BY <1>2, <1>3, <1>4, <1>8 DEF StoredNow
<1>13. CASE i = 0
  <2>1. UNCHANGED ConfigHashTable
    BY <1>13 DEF Sets
  <2>2. \A k \in Keys : LastSet(c, k)' = LastSet(c, k)
    BY <1>12, <1>13 DEF LastSet
  <2>3. QED
    BY <1>1, <1>3, <1>5, <1>7, <1>8, <1>10, <1>11, <2>1, <2>2, DataKept
<1>14. CASE i # 0
  <2>1. i \in 1 .. CONFIG_SIZE /\ ConfigHashTable \in [1 .. CONFIG_SIZE -> EntryRec] /\ ConfigHashTable[i] \in EntryRec
    BY <1>2, <1>14, NetinfdAssumption DEF NLinks, NType
  <2>2. PICK e \in Stored(ConfigHashTable[i], key, cl[c].req.value) :
          ConfigHashTable' = [ConfigHashTable EXCEPT ![i] = e]
    BY <1>2, <1>14 DEF Sets
  <2>3. /\ e.buse = 1 /\ Prefixed(cl[c].req.value, e.value)
        /\ ConfigHashTable[i].buse = 0 => e.key \in {key, None}
        /\ ConfigHashTable[i].buse = 1 => e.key = ConfigHashTable[i].key
    <3>1. cl[c].req.value \in Seq(Nat)
      BY <1>2, <1>3, NetinfdAssumption
    <3>2. QED
      BY <1>2, <2>1, <2>2, <3>1, StoredIs DEF Prefixed
  <2>4. ConfigHashTable'[i] = e /\ \A j \in 1 .. CONFIG_SIZE : j # i => ConfigHashTable'[j] = ConfigHashTable[j]
    BY <2>1, <2>2
  <2>5. i = find_config(key)
    BY <1>1, <1>2, <1>3 DEF DataInv, ThreadTold
  <2>6. EntriesOf(key) \subseteq {i} /\ (i \in EntriesOf(key) \/ ConfigHashTable[i].buse = 0)
    <3>1. CASE EntriesOf(key) # {}
      <4>1. i \in EntriesOf(key)
        BY <1>2, <2>5, <3>1, FoundEntry DEF EntriesOf, NLinks
      <4>2. QED
        BY <1>2, <4>1 DEF DataInv, OneEach
    <3>2. CASE EntriesOf(key) = {}
      BY <1>2, <1>14, <2>5, <3>2, FoundEntry DEF EntriesOf, NLinks
    <3>3. QED
      BY <3>1, <3>2
  <2>7. EntriesOf(key)' \subseteq {i} /\ e.key \in {key, None}
    <3>1. e.key \in {key, None}
      BY <2>3, <2>6 DEF EntriesOf
    <3>2. EntriesOf(key)' \subseteq {i}
      BY <2>1, <2>4, <2>6 DEF EntriesOf
    <3>3. QED
      BY <3>1, <3>2
  <2>8. ASSUME NEW k \in Keys, k # key
        PROVE  EntriesOf(k)' = EntriesOf(k) /\ i \notin EntriesOf(k)
    <3>1. i \notin EntriesOf(k)
      BY <2>6, <2>8 DEF EntriesOf
    <3>2. e.key # k
      BY <2>7, <2>8, NoneDiffers DEF NoneIs
    <3>3. \A j \in 1 .. CONFIG_SIZE : j \in EntriesOf(k)' <=> j \in EntriesOf(k)
      BY <2>1, <2>4, <3>1, <3>2 DEF EntriesOf
    <3>4. QED
      BY <3>1, <3>3 DEF EntriesOf
  <2>9. LastSet(c, key)' = cl[c].req.value /\ \A k \in Keys : k # key => LastSet(c, k)' = LastSet(c, k)
    BY <1>12, <1>14 DEF LastSet
  <2>10. OneEach'
    <3> SUFFICES ASSUME NEW k \in Keys
                 PROVE  \A j, l \in EntriesOf(k)' : j = l
      BY DEF OneEach
    <3>1. CASE k = key
      BY <2>7, <3>1
    <3>2. CASE k # key
      BY <2>8, <3>2 DEF DataInv, OneEach
    <3>3. QED
      BY <3>1, <3>2
  <2>11. TableHas(c)'
    <3> SUFFICES ASSUME NEW k \in Keys
                 PROVE  \A j \in EntriesOf(k)' : Prefixed(LastSet(c, k)', ConfigHashTable'[j].value)
      BY DEF TableHas, Prefixed
    <3>1. CASE k = key
      BY <2>3, <2>4, <2>7, <2>9, <3>1
    <3>2. CASE k # key
      <4>1. TableHas(c) /\ EntriesOf(k) \subseteq 1 .. CONFIG_SIZE
        BY <1>3 DEF DataInv, EntriesOf
      <4>2. \A j \in EntriesOf(k) : ConfigHashTable'[j] = ConfigHashTable[j]
        BY <2>4, <2>8, <3>2, <4>1
      <4>3. QED
        BY <2>8, <2>9, <3>2, <4>1, <4>2 DEF TableHas
    <3>3. QED
      BY <3>1, <3>2
  <2>12. ASSUME NEW d \in Clients
         PROVE  Setter(d) => TableHas(d)'
    BY <1>3, <2>11 DEF OneSetter
  <2>13. ASSUME NEW u \in Ids
         PROVE  ThreadTold(u)'
    <3>1. CASE u = t
      BY <1>10, <3>1
    <3>2. CASE u # t
      <4>1. h'[u] = h[u] /\ ThreadTold(u) /\ Req(u)' = Req(u) /\ h[u].sock # c
        BY <1>5, <3>2 DEF DataInv, Req
      <4>2. h[u].pc \in {"entry", "reply"} => ~Setter(h[u].sock)
        <5>1. h[u].pc \in {"entry", "reply"} => h[u].sock \in Clients
          BY ServedRequest
        <5>2. QED
          BY <1>3, <4>1, <5>1 DEF OneSetter
      <4>3. QED
        BY <4>1, <4>2 DEF ThreadTold
    <3>3. QED
      BY <3>1, <3>2
  <2>14. \A d \in Clients : ClientTold(d)'
    BY <1>3, <1>11 DEF ClientTold, OneSetter
  <2>15. QED
    BY <2>10, <2>12, <2>13, <2>14 DEF DataInv
<1>15. QED
  BY <1>13, <1>14

\* The work on an entry keeps the table right.
LEMMA EntryData ==
  ASSUME OneSetter, NLinks, DataInv, NEW t \in Ids, Entry(t)
  PROVE  DataInv'
BY EntryIs, LooksData, SetsData

\* At the start nothing was set and the table is empty.
LEMMA DataStarts == NInit => DataInv
<1> SUFFICES ASSUME NInit PROVE DataInv
  OBVIOUS
<1>1. PICK load \in Loads : cl = [c \in Clients |-> [NoRequest EXCEPT !.left = load[c]]]
  BY DEF NInit
<1>2. /\ h = [t \in Ids |-> NoThread] /\ ConfigHashTable = [i \in 1 .. CONFIG_SIZE |-> FreeEntry]
  BY DEF NInit
<1>3. NoRequest.pc = "idle" /\ NoRequest.set = [k \in Keys |-> <<>>] /\ NoThread.pc = "none" /\ FreeEntry.buse = 0
  BY DEF NoRequest, NoThread, FreeEntry
<1>4. \A c \in Clients : cl[c].pc = "idle" /\ cl[c].set = [k \in Keys |-> <<>>]
  <2> SUFFICES ASSUME NEW c \in Clients PROVE cl[c].pc = "idle" /\ cl[c].set = [k \in Keys |-> <<>>]
    OBVIOUS
  <2>1. cl[c] = [NoRequest EXCEPT !.left = load[c]]
    BY <1>1
  <2>2. QED
    BY <1>3, <2>1 DEF NoRequest
<1>5. \A k \in Keys : EntriesOf(k) = {}
  BY <1>2, <1>3 DEF EntriesOf
<1>6. \A c \in Clients : ~Answered(c) /\ ~StoredNow(c)
  BY <1>4 DEF Answered, StoredNow
<1>7. \A c \in Clients : \A k \in Keys : LastSet(c, k) = <<>>
  BY <1>4, <1>6 DEF LastSet
<1>8. \A t \in Ids : ThreadTold(t)
  BY <1>2, <1>3 DEF ThreadTold
<1>9. QED
  BY <1>4, <1>5, <1>6, <1>7, <1>8 DEF DataInv, OneEach, TableHas, ClientTold

\* A thread begins the work on an entry where it has seen a GET or a SET, and
\* its client asks nothing else meanwhile.
LEMMA KindsStep ==
  ASSUME NLinks, Kinds, NNext
  PROVE  Kinds'
<1>1. ASSUME NEW u \in Ids, h[u].pc = "entry", h'[u].sock = h[u].sock,
             \A c \in Clients : cl[c].pc \in {"write", "read"} => cl'[c].req = cl[c].req
      PROVE  Req(u)'.type \in {"GET", "SET"}
  <2>1. PICK s \in Clients : s = h[u].sock
    BY <1>1, ServedRequest
  <2>2. cl'[s].req = cl[s].req /\ cl[s].req.type \in {"GET", "SET"}
    BY <1>1, <2>1, ServedRequest DEF Kinds
  <2>3. QED
    BY <1>1, <2>1, <2>2 DEF Req
<1>2. ASSUME NEW t \in Ids, UNCHANGED cl, \A u \in Ids : u # t => h'[u] = h[u], h'[t].pc # "entry"
      PROVE  Kinds'
  BY <1>1, <1>2 DEF Kinds
<1>3. ASSUME NEW c \in Clients, ClientCall(c)
      PROVE  Kinds'
  <2>1. PICK type : Connect(c, type)
    BY <1>3 DEF ClientCall, netinfd_get, netinfd_set, netinfd_dhcp, netinfd_ifconf, netinfd_nienable, netinfd_dnslookup
  <2>2. UNCHANGED h /\ cl[c].pc = "idle" /\ \A d \in Clients : d # c => cl'[d] = cl[d]
    BY <2>1 DEF Connect, NLinks, NType
  <2>3. QED
    BY <1>1, <2>2 DEF Kinds
<1>4. ASSUME NEW c \in Clients, Client(c)
      PROVE  Kinds'
  <2>1. UNCHANGED h /\ cl \in [Clients -> ClientRec] /\ cl[c] \in ClientRec
    BY <1>4 DEF Client, safe_write, safe_read, Return, dvars, NLinks, NType
  <2>2. CASE safe_write(c) \/ safe_read(c)
    <3>1. /\ \A d \in Clients : d # c => cl'[d] = cl[d]
          /\ cl'[c].req = cl[c].req
      <4>1. CASE safe_write(c)
        <5>1. PICK n \in 1 .. Size - cl[c].sent :
                     cl' = [cl EXCEPT ![c].sent = @ + n, ![c].pc = IF cl[c].sent + n = Size THEN "read" ELSE @]
          BY <4>1 DEF safe_write
        <5>2. QED
          BY <2>1, <5>1 DEF ClientRec
      <4>2. CASE safe_read(c)
        <5>1. PICK n \in 1 .. down[c] :
                     cl' = [cl EXCEPT ![c].got = @ + n, ![c].pc = IF cl[c].got + n = Size THEN "done" ELSE @]
          BY <4>2 DEF safe_read
        <5>2. QED
          BY <2>1, <5>1 DEF ClientRec
      <4>3. QED
        BY <2>2, <4>1, <4>2
    <3>2. QED
      BY <1>1, <2>1, <3>1 DEF Kinds
  <2>3. CASE Return(c)
    <3>1. cl[c].pc = "done" /\ \A d \in Clients : d # c => cl'[d] = cl[d]
      BY <2>1, <2>3 DEF Return
    <3>2. QED
      BY <1>1, <2>1, <3>1 DEF Kinds
  <2>4. QED
    BY <1>4, <2>2, <2>3 DEF Client
<1>5. CASE Main
  <2>1. UNCHANGED cl /\ h \in [Ids -> ThreadRec]
    BY <1>5 DEF Main, Select, Accept, Create, NLinks, NType
  <2>2. CASE UNCHANGED h
    BY <1>1, <2>1, <2>2 DEF Kinds
  <2>3. ASSUME NEW t \in Ids, h' = [h EXCEPT ![t] = Begun]
        PROVE  Kinds'
    BY <1>2, <2>1, <2>3, BegunIs
  <2>4. QED
    BY <1>5, <2>2, <2>3 DEF Main, Select, Accept, Create, Begun
<1>6. ASSUME NEW t \in Ids, Handler(t) \/ ChildEnds(t)
      PROVE  Kinds'
  <2>1. h \in [Ids -> ThreadRec] /\ h[t] \in ThreadRec /\ acceptsock \in Clients \cup {None}
    BY DEF NLinks, NType
  <2>2. CASE TakeSocket(t)
    <3>1. UNCHANGED cl /\ h' = [h EXCEPT ![t] = Took(h[t], acceptsock)]
      BY <2>2 DEF TakeSocket, svars, Took
    <3>2. QED
      BY <1>2, <2>1, <3>1, TookIs
  <2>3. CASE EarlyReturn(t) \/ Over(t)
    <3>1. UNCHANGED cl /\ h' = [h EXCEPT ![t] = NoThread]
      BY <2>3 DEF EarlyReturn, Over, svars
    <3>2. QED
      BY <1>2, <2>1, <3>1 DEF NoThread
  <2>4. CASE ReadRequest(t)
    <3>1. UNCHANGED cl /\ h[t].pc = "read" /\ \E n \in Nat : h' = [h EXCEPT ![t] = ReadOn(h[t], n)]
      BY <2>4, ReadRequestIs DEF NLinks, NType
    <3>2. QED
      BY <1>2, <2>1, <3>1, ReadOnIs
  <2>5. CASE Serve(t)
    <3>1. h[t].pc = "serve" /\ UNCHANGED cl /\ \A u \in Ids : u # t => h'[u] = h[u]
      BY <2>1, <2>5 DEF Serve
    <3>2. Req(t).type \in {"GET", "SET"} \/ h'[t].pc # "entry"
      BY <2>1, <2>5 DEF Serve, ThreadRec
    <3>3. CASE Req(t).type \in {"GET", "SET"}
      <4>1. h'[t].sock = h[t].sock
        BY <2>1, <2>5, <3>3 DEF Serve, ThreadRec
      <4>2. Req(t)' = Req(t)
        BY <3>1, <4>1 DEF Req
      <4>3. QED
        BY <1>1, <3>1, <3>3, <4>2 DEF Kinds
    <3>4. QED
      BY <1>2, <3>1, <3>2, <3>3
  <2>6. CASE Entry(t)
    <3>1. UNCHANGED cl /\ (Looks(t) \/ Sets(t))
      BY <2>6, EntryIs
    <3>2. h'[t].pc = "reply" /\ \A u \in Ids : u # t => h'[u] = h[u]
      <4>1. PICK r : h' = [h EXCEPT ![t] = r]
                     /\ \/ r = Ready(h[t], IF h[t].ptr = 0 THEN -1 ELSE 0)
                        \/ \E v : r = ReadyWith(h[t], v)
        BY <3>1 DEF Looks, Sets
      <4>2. r.pc = "reply"
        BY <2>1, <4>1 DEF ReadyWith, Ready, ThreadRec
      <4>3. QED
        BY <2>1, <4>1, <4>2
    <3>3. QED
      BY <1>2, <3>1, <3>2
  <2>7. CASE ChildEnds(t) \/ WaitChild(t)
    <3>1. UNCHANGED cl /\ h[t].pc = "wait" /\ Waited(t)
      BY <2>7, WaitedIs
    <3>2. h'[t].pc \in {"wait", "reply"} /\ \A u \in Ids : u # t => h'[u] = h[u]
      BY <2>1, <3>1, WithChildIs, OneRoundIs, ReadyAfterIs DEF Waited
    <3>3. QED
      BY <1>2, <3>1, <3>2
  <2>8. CASE WriteReply(t)
    <3>1. PICK s \in Clients : s = h[t].sock /\ cl[s] \in ClientRec /\ h[t].pc = "reply"
      BY <2>8, WriteReplyIs, ServedRequest
    <3>2. PICK n \in 1 .. Size - h[t].got :
                 /\ h' = [h EXCEPT ![t] = WroteOn(h[t], n, h[t].got + n = Size)]
                 /\ h[t].got + n = Size => cl' = [cl EXCEPT ![s] = Told(cl[s], h[t].status, h[t].value)]
                 /\ h[t].got + n # Size => cl' = cl
      BY <2>8, <3>1, WriteReplyIs
    <3>3. n \in Nat /\ (h[t].got + n = Size) \in BOOLEAN
      BY <2>1, <3>2 DEF ThreadRec
    <3>4. h'[t].pc # "entry" /\ \A u \in Ids : u # t => h'[u] = h[u]
      BY <2>1, <3>1, <3>2, <3>3, WroteOnIs
    <3>5. \A d \in Clients : cl'[d].req = cl[d].req
      <4>1. cl \in [Clients -> ClientRec] /\ h[t].status \in {0, -1} /\ h[t].value \in Seq(Nat)
        BY <2>1 DEF NLinks, NType, ThreadRec
      <4>2. Told(cl[s], h[t].status, h[t].value).req = cl[s].req
        BY <3>1, <4>1, ToldIs
      <4>3. QED
        BY <3>2, <4>1, <4>2
    <3>6. QED
      BY <1>1, <3>4, <3>5 DEF Kinds
  <2>9. QED
    BY <1>6, <2>2, <2>3, <2>4, <2>5, <2>6, <2>7, <2>8 DEF Handler
<1>7. QED
  BY <1>3, <1>4, <1>5, <1>6 DEF NNext

\* The initial states of the daemon.
LEMMA NetinfdStarts == NInit => NInv
<1>1. NInit => Kinds
  BY DEF NInit, Kinds, NoThread
<1>2. QED
  BY <1>1, LinksStart, DataStarts DEF NInv

\* Every step of the daemon or a client keeps the invariant.
LEMMA NetinfdStep == NInv /\ NNext => NInv'
<1> SUFFICES ASSUME NLinks, Kinds, OneSetter => DataInv, NNext
             PROVE  NLinks' /\ Kinds' /\ (OneSetter => DataInv')
  BY DEF NInv, OneSetter, Setter
<1>1. ASSUME NEW c \in Clients, ClientCall(c)
      PROVE  NLinks' /\ (OneSetter => DataInv')
  <2>1. PICK type : Connect(c, type)
    BY <1>1 DEF ClientCall, netinfd_get, netinfd_set, netinfd_dhcp, netinfd_ifconf, netinfd_nienable, netinfd_dnslookup
  <2>2. QED
    BY <2>1, ConnectLinks, ConnectData
<1>2. ASSUME NEW c \in Clients, Client(c)
      PROVE  NLinks' /\ (OneSetter => DataInv')
  BY <1>2, WriteLinks, WriteData, ReadLinks, ReadData, ReturnLinks, ReturnData DEF Client
<1>3. ASSUME Main
      PROVE  NLinks' /\ (OneSetter => DataInv')
  BY <1>3, SelectLinks, AcceptLinks, CreateLinks, MainData DEF Main
<1>4. ASSUME NEW t \in Ids, Handler(t) \/ ChildEnds(t)
      PROVE  NLinks' /\ (OneSetter => DataInv')
  <2>1. CASE Entry(t)
    <3>1. Req(t).type \in {"GET", "SET"}
      BY <2>1 DEF Kinds, Entry
    <3>2. QED
      BY <2>1, <3>1, EntryLinks, EntryData
  <2>2. CASE TakeSocket(t) \/ EarlyReturn(t) \/ ReadRequest(t) \/ Over(t)
    BY <2>2, TakeLinks, EarlyLinks, ReadRequestLinks, OverLinks, ThreadData
  <2>3. CASE Serve(t)
    BY <2>3, ServeLinks, ServeData
  <2>4. CASE ChildEnds(t) \/ WaitChild(t)
    BY <2>4, WaitLinks, WaitData
  <2>5. CASE WriteReply(t)
    BY <2>5, WriteReplyLinks, WriteReplyData
  <2>6. QED
    BY <1>4, <2>1, <2>2, <2>3, <2>4, <2>5 DEF Handler
<1>5. QED
  BY <1>1, <1>2, <1>3, <1>4, KindsStep DEF NNext

\* The three properties of the daemon from its invariant.
LEMMA NetinfdServes == NInv => ConnectionsServed
<1> SUFFICES ASSUME NInv PROVE ConnectionsServed
  OBVIOUS
<1>1. OneThreadPerConnection /\ SlotsNameRunning
  BY LinksServe DEF NInv
<1>2. ASSUME OneSetter, NEW c \in Clients, Setter(c), cl[c].pc = "done", cl[c].req.type = "GET", cl[c].status = 0
      PROVE  Shows(cl[c].req.key, cl[c].set[cl[c].req.key], cl[c].value)
  <2>1. cl[c].got = Size /\ down[c] = 0
    BY <1>2 DEF NInv, NLinks, ConnInv, SidesAgree, ClientFits
  <2>2. Answered(c)
    BY <1>2, <2>1, NetinfdAssumption DEF Answered
  <2>3. QED
    BY <1>2, <2>2 DEF NInv, DataInv, ClientTold
<1>3. GetReturnsLastSet
  BY <1>2 DEF GetReturnsLastSet, Shows
<1>4. QED
  BY <1>1, <1>3 DEF ConnectionsServed

\* The steps of the other parts keep the invariant.
LEMMA NetinfdStays == NInv /\ UNCHANGED nvars => NInv'
<1> SUFFICES ASSUME NInv, UNCHANGED nvars PROVE NInv'
  OBVIOUS
<1>0. UNCHANGED <<cl, backlog, main, lock_thrdParam, acceptsock, NetinfdTd, h, up, down, ConfigHashTable, faults>>
  BY DEF nvars
<1>1. NType'
  BY <1>0 DEF NInv, NLinks, NType
<1>2. LockInv' /\ SlotInv' /\ Lone' /\ (Pending' <=> Pending)
  BY <1>0 DEF NInv, NLinks, LockInv, SlotInv, ConnInv, Lone, Starting, Pending
<1>3. SidesAgree' /\ Queued' /\ Handed'
  BY <1>0, <1>2 DEF NInv, NLinks, ConnInv, SidesAgree, Queued, Handed, Unserved
<1>4. OneSetter => DataInv'
  <2>1. h \in [Ids -> ThreadRec] /\ \A u \in Ids : h'[u] = h[u]
    BY <1>0 DEF NInv, NLinks, NType
  <2>2. 0 \notin Ids
    BY NetinfdAssumption
  <2>3. QED
    BY <1>0, <2>1, <2>2, DataBeyond DEF NInv
<1>5. Kinds'
  BY <1>0 DEF NInv, Kinds, Req
<1>6. QED
  BY <1>1, <1>2, <1>3, <1>4, <1>5 DEF NInv, NLinks, ConnInv, OneSetter, Setter

-----------------------------------------------------------------------------
\* The parts of a behaviour: the steps of one leave the others alone, and the
\* strings of the wire format are the ones a behaviour begins with.
WireInv == part = "wire" => cmd \in Strings /\ priv \in Strings /\ found \in Strings
\* A step is one part's, and leaves the strings of the wire alone.
LEMMA PartsStep ==
  ASSUME [MCNext]_allvars
  PROVE  /\ (part = "netinfd" /\ NNext) \/ UNCHANGED nvars
         /\ [PNext]_ivars
         /\ UNCHANGED <<part, wvars>>
BY DEF MCNext, allvars

\* netinfd serves each connection with one thread, a slot in use names a
\* running thread as long as nothing failed, and netinfd_get returns what this
\* client set last: for every number of clients, slots, keys and entries, every
\* request, size of a structure and number of faults.
THEOREM ConnectionsAreServed == MCSpec => []ConnectionsServed
<1>1. MCInit => NInv
  BY NetinfdStarts DEF MCInit
<1>2. NInv /\ [MCNext]_allvars => NInv'
  BY PartsStep, NetinfdStep, NetinfdStays
<1>3. NInv => ConnectionsServed
  BY NetinfdServes
<1>4. QED
  BY <1>1, <1>2, <1>3, PTL DEF MCSpec

\* A client of ipcd frees exactly the blocks of its request, reports the
\* daemon's success and calls back at most once, whatever step fails; and a
\* request or a reply that fits is read as it was written, for every size of the
\* area and every text.
THEOREM RequestsAreExact == MCSpec => []RequestsExact
<1>1. MCInit => IpcInv /\ WireInv
  BY IpcStarts DEF MCInit, WireInv
<1>2. IpcInv /\ WireInv /\ [MCNext]_allvars => IpcInv' /\ WireInv'
  <2> SUFFICES ASSUME IpcInv, WireInv, [MCNext]_allvars PROVE IpcInv' /\ WireInv'
    OBVIOUS
  <2>1. IpcInv'
    BY PartsStep, IpcStep
  <2>2. WireInv'
    BY PartsStep DEF WireInv, wvars
  <2>3. QED
    BY <2>1, <2>2
<1>3. IpcInv /\ WireInv => RequestsExact
  BY IpcHolds, RequestsArrive, RepliesArrive DEF WireInv, RequestsExact
<1>4. QED
  BY <1>1, <1>2, <1>3, PTL DEF MCSpec
=============================================================================
