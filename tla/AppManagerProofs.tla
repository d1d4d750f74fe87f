-------------------------- MODULE AppManagerProofs --------------------------
(***************************************************************************)
(* Proofs about AppManager, in three parts.  TagInv: the tags of the       *)
(* synchronous calls.  FrontInv: the types of what the callers and the     *)
(* manager's queue hold.  BackInv: the manager and its applications, which *)
(* is inductive on top of FrontInv.                                        *)
(***************************************************************************)
EXTENDS MCAppManager, FiniteSetTheorems, ListProofs

\* NULL_HANDLE is no instance.
LEMMA NullIsNone == 0 \notin Instances
BY DEF Instances

\* The shape of the variables that the argument about tags reads.
AmRecord ==
  am = [at |-> am.at, req |-> am.req, retry |-> am.retry, ok |-> am.ok,
        id |-> am.id, h |-> am.h]

TagType ==
  /\ pc \in [Clients -> {"run", "mtx", "send", "wait", "asleep"}]
  /\ req \in [Clients -> Request]
  /\ calls \in [Clients -> Nat] /\ \A c \in Clients : calls[c] <= MaxCalls[c]
  /\ amb_sem \in Nat
  /\ am_q \in Seq(Request)
  /\ AmRecord /\ am.req \in Request

\* A step of the manager takes a request out of its queue, or works on the
\* one it has, at most putting a message without a tag into its queue, or
\* leaves both alone.
TakesRequest ==
  /\ am_q # <<>> /\ am_q' = Tail(am_q)
  /\ am'.at # "loop" /\ am'.req = Head(am_q)

KeepsRequest ==
  /\ am_q' = am_q \/ (Len(am_q) < AmCap /\ am_q' = Append(am_q, Unknown))
  /\ am.at # "loop" /\ am'.req = am.req

ManagerKeeps ==
  /\ UNCHANGED <<clientVars, amb_sem>>
  /\ AmRecord'
  /\ TakesRequest \/ KeepsRequest

\* Every step of the manager that is not the answer has this form.
LEMMA ManagerShape ==
  ASSUME AmRecord, Manager, ~AmReply
  PROVE  ManagerKeeps
<1> USE DEF Takes, Working, Failed, Finished, AmIdleVars, clientVars, AmRecord
<1>1. CASE AmRegister
  BY <1>1 DEF AmRegister, ManagerKeeps, TakesRequest
<1>2. CASE AmUnknown
  BY <1>2 DEF AmUnknown, ManagerKeeps, TakesRequest
<1>3. CASE AmStart
  BY <1>3 DEF AmStart, WorkOn, ManagerKeeps, TakesRequest
<1>4. CASE AmCreateQueue
  BY <1>4 DEF AmCreateQueue, ManagerKeeps, KeepsRequest
<1>5. CASE AmCreateThread
  BY <1>5 DEF AmCreateThread, ManagerKeeps, KeepsRequest
<1>6. CASE AmSendInit
  BY <1>6 DEF AmSendInit, ManagerKeeps, KeepsRequest
<1>7. CASE AmWaitInit
  BY <1>7 DEF AmWaitInit, AmAwake, ManagerKeeps, KeepsRequest
<1>8. CASE AmExit
  BY <1>8 DEF AmExit, WorkOn, ManagerKeeps, TakesRequest
<1>9. CASE AmSendExit
  BY <1>9 DEF AmSendExit, TryAgain, ManagerKeeps, KeepsRequest
<1>10. CASE AmWaitExit
  BY <1>10 DEF AmWaitExit, AmAwake, ManagerKeeps, KeepsRequest
<1>11. CASE AmDispatch
  BY <1>11 DEF AmDispatch, WorkOn, ManagerKeeps, TakesRequest
<1>12. CASE AmSendMsg
  BY <1>12 DEF AmSendMsg, TryAgain, ManagerKeeps, KeepsRequest
<1>13. CASE AmSendSelf
  BY <1>13 DEF AmSendSelf, TryAgain, ManagerKeeps, KeepsRequest
<1>14. CASE AmBroadcast
  BY <1>14 DEF AmBroadcast, ManagerKeeps, TakesRequest
<1>15. CASE AmCast
  BY <1>15 DEF AmCast, TryAgain, Cast, ManagerKeeps, KeepsRequest
<1>16. QED
  BY <1>1, <1>2, <1>3, <1>4, <1>5, <1>6, <1>7, <1>8, <1>9, <1>10, <1>11,
     <1>12, <1>13, <1>14, <1>15, Zenon DEF Manager

\* At most one thread makes synchronous calls.
OneCaller == \A c, d \in SyncClients : c = d

Waiting(c) == pc[c] \in {"wait", "asleep"}
Tagged(r) == r.tag # NoTag

\* A tag in a request of a call that goes on is the tag of that call, and only
\* a synchronous call waits.
CallInv ==
  \A c \in Clients :
    /\ pc[c] # "run" /\ Tagged(req[c]) =>
         c \in SyncClients /\ req[c].tag = <<c, calls[c]>>
    /\ Waiting(c) => Tagged(req[c])

\* The call of request r waits, and has not been answered.
LiveTag(r) ==
  Tagged(r) => amb_sem = 0 /\ \E c \in SyncClients : r.tag = <<c, calls[c]>> /\ Waiting(c)

\* Of the requests that are not answered at most one has a tag.
RequestInv ==
  /\ \A i \in 1 .. Len(am_q) : LiveTag(am_q[i])
  /\ \A i, j \in 1 .. Len(am_q) : Tagged(am_q[i]) /\ Tagged(am_q[j]) => i = j
  /\ am.at # "loop" => LiveTag(am.req)
  /\ am.at # "loop" /\ Tagged(am.req) => \A i \in 1 .. Len(am_q) : ~Tagged(am_q[i])

\* An answer that is posted is that of a call that waits for it.
PostInv == amb_sem # 0 => amb_sem = 1 /\ \E c \in SyncClients : pc[c] = "wait"

TagInv == TagType /\ CallInv /\ RequestInv /\ PostInv

\* The contents of an unused request are a request.
LEMMA UnknownRequest == Unknown \in Request
<1>1. NoTag \in Tag
  BY Zenon DEF Tag
<1>2. QED
  BY <1>1 DEF Unknown, Request, RequestType

\* No call is made at the start.
LEMMA TagInit == Init => TagInv
<1> SUFFICES ASSUME Init PROVE TagInv
  OBVIOUS
<1>1. TagType
  <2>1. AmRecord /\ am.req = Unknown
    BY DEF Init, AmRecord, Working
  <2>2. am_q \in Seq(Request)
    BY DEF Init
  <2>3. QED
    BY <2>1, <2>2, UnknownRequest, AppManagerAssumption DEF Init, TagType
<1>2. CallInv /\ RequestInv /\ PostInv
  BY AppManagerAssumption DEF Init, CallInv, Waiting, RequestInv, PostInv, Working
<1>3. QED
  BY <1>1, <1>2 DEF TagInv

\* What a call that waits shows of the others.
LEMMA CallerIsAlone ==
  ASSUME OneCaller, TagInv, NEW c \in Clients, pc[c] # "run", Tagged(req[c]), ~Waiting(c)
  PROVE  /\ \A i \in 1 .. Len(am_q) : ~Tagged(am_q[i])
         /\ am.at # "loop" => ~Tagged(am.req)
         /\ amb_sem = 0
<1>1. c \in SyncClients
  BY DEF TagInv, CallInv
<1>2. \A d \in SyncClients : ~Waiting(d)
  BY <1>1 DEF OneCaller
<1>3. QED
  BY <1>2 DEF TagInv, RequestInv, LiveTag, PostInv, Waiting

\* The type of a request that Calls makes.
LEMMA CallsRequest ==
  ASSUME NEW c \in Clients, NEW type \in RequestType, NEW a \in Apps \cup {APP_MNGR_NAME},
         NEW sync, NEW n \in Nat, n < MaxCalls[c]
  PROVE  [type |-> type, app |-> a,
          tag |-> IF sync THEN <<c, n + 1>> ELSE NoTag] \in Request
<1>1. n + 1 \in 1 .. MaxCalls[c]
  BY AppManagerAssumption
<1>2. <<c, n + 1>> \in {c} \X (1 .. MaxCalls[c])
  BY <1>1
<1>3. <<c, n + 1>> \in Tag /\ NoTag \in Tag
  <2>1. {c} \X (1 .. MaxCalls[c]) \in {{d} \X (1 .. MaxCalls[d]) : d \in Clients}
    BY Zenon
  <2>2. QED
    BY <1>2, <2>1, Zenon DEF Tag
<1>4. QED
  BY <1>3 DEF Request

\* A call begins with a tag of its own.
LEMMA TagCalls ==
  ASSUME TagInv, NEW c \in Clients, NEW type \in RequestType,
         NEW a \in Apps \cup {APP_MNGR_NAME}, NEW sync, Calls(c, type, a, sync)
  PROVE  TagInv'
<1> DEFINE r == [type |-> type, app |-> a,
                 tag |-> IF sync THEN <<c, calls[c] + 1>> ELSE NoTag]
<1>1. calls[c] \in Nat /\ calls[c] < MaxCalls[c] /\ pc[c] = "run"
  BY DEF TagInv, TagType, Calls
<1>2. r \in Request
  BY <1>1, CallsRequest
<1>3. sync => c \in SyncClients
  BY DEF Calls
<1>4. r.tag = IF sync THEN <<c, calls[c] + 1>> ELSE NoTag
  OBVIOUS
<1>5. /\ req' = [req EXCEPT ![c] = r]
      /\ calls' = [calls EXCEPT ![c] = calls[c] + 1]
      /\ pc' = [pc EXCEPT ![c] = IF type = "REG" THEN "mtx" ELSE "send"]
      /\ UNCHANGED <<amb_sem, am_q, am>>
  BY DEF Calls, amVars
<1> HIDE DEF r
<1>6. /\ req'[c] = r /\ calls'[c] = calls[c] + 1 /\ pc'[c] \in {"mtx", "send"}
      /\ \A d \in Clients : d # c => req'[d] = req[d] /\ calls'[d] = calls[d] /\ pc'[d] = pc[d]
  BY <1>5 DEF TagInv, TagType
<1>6a. TagType'
  <2>1. calls[c] + 1 \in Nat /\ calls[c] + 1 <= MaxCalls[c]
    BY <1>1, AppManagerAssumption
  <2>2. calls' \in [Clients -> Nat] /\ \A d \in Clients : calls'[d] <= MaxCalls[d]
    BY <1>5, <2>1 DEF TagInv, TagType
  <2>3. /\ pc' \in [Clients -> {"run", "mtx", "send", "wait", "asleep"}]
        /\ req' \in [Clients -> Request]
    BY <1>2, <1>5 DEF TagInv, TagType
  <2>4. AmRecord'
    BY <1>5 DEF TagInv, TagType, AmRecord
  <2>5. QED
    BY <1>5, <2>2, <2>3, <2>4 DEF TagInv, TagType
<1>7. CallInv'
  BY <1>3, <1>4, <1>6 DEF TagInv, CallInv, Waiting, Tagged
<1>8. \A d \in SyncClients : Waiting(d) => Waiting(d)' /\ calls'[d] = calls[d] /\ pc'[d] = pc[d]
  BY <1>1, <1>6, AppManagerAssumption DEF Waiting
<1>9. RequestInv' /\ PostInv'
  BY <1>5, <1>8 DEF TagInv, RequestInv, PostInv, LiveTag, Tagged, Waiting
<1>10. QED
  BY <1>6a, <1>7, <1>9 DEF TagInv

\* Sequences of requests: what Append, Head and Tail leave where.
LEMMA AppendedRequests ==
  ASSUME NEW q \in Seq(Request), NEW r \in Request
  PROVE  /\ Append(q, r) \in Seq(Request) /\ Len(Append(q, r)) = Len(q) + 1
         /\ \A i \in 1 .. Len(q) : Append(q, r)[i] = q[i]
         /\ Append(q, r)[Len(q) + 1] = r
         /\ Len(q) \in Nat
OBVIOUS

\* What is left when the manager takes a request.
LEMMA TakenRequest ==
  ASSUME NEW q \in Seq(Request), q # <<>>
  PROVE  /\ Tail(q) \in Seq(Request) /\ Head(q) = q[1] /\ Head(q) \in Request
         /\ 1 \in 1 .. Len(q)
         /\ \A i \in 1 .. Len(Tail(q)) : i + 1 \in 1 .. Len(q) /\ i + 1 # 1 /\ Tail(q)[i] = q[i + 1]
OBVIOUS

\* A tag stays live while its call goes on waiting and no answer is posted.
LEMMA StaysLive ==
  ASSUME NEW r, amb_sem' = amb_sem, calls' = calls,
         \A d \in SyncClients : Waiting(d) => Waiting(d)',
         LiveTag(r)
  PROVE  LiveTag(r)'
BY DEF LiveTag, Tagged

\* A request with no tag joins the queue.
LEMMA AppendUntagged ==
  ASSUME TagInv, NEW r \in Request, ~Tagged(r), am_q' = Append(am_q, r),
         amb_sem' = amb_sem, calls' = calls,
         \A d \in SyncClients : Waiting(d) => Waiting(d)',
         am'.req = am.req, am'.at # "loop" => am.at # "loop"
  PROVE  RequestInv'
<1>1. am_q \in Seq(Request)
  BY DEF TagInv, TagType
<1>2. \A i \in 1 .. Len(am_q') : (i \in 1 .. Len(am_q) /\ am_q'[i] = am_q[i]) \/ am_q'[i] = r
  BY <1>1, AppendedRequests
<1>3. \A i \in 1 .. Len(am_q) : LiveTag(am_q[i])
  BY DEF TagInv, RequestInv
<1>4. \A x : LiveTag(x) => LiveTag(x)'
  BY StaysLive
<1>5. LiveTag(r)
  BY DEF LiveTag
<1>6. \A i \in 1 .. Len(am_q') : LiveTag(am_q'[i])
  BY <1>2, <1>3, <1>5
<1>7. QED
  BY <1>2, <1>4, <1>6 DEF TagInv, RequestInv, Tagged, LiveTag

\* A client moves: the rest of what the argument reads stays.
LEMMA TagMoves ==
  ASSUME TagInv, NEW c \in Clients, pc[c] # "run", req' = req, calls' = calls,
         pc'[c] \in {"run", "send"} \/ (Waiting(c) /\ pc'[c] = "asleep"),
         \A d \in Clients : d # c => pc'[d] = pc[d]
  PROVE  CallInv'
BY DEF TagInv, CallInv, Waiting, Tagged

\* A client returns from a call that is not synchronous.
LEMMA TagReturns ==
  ASSUME TagInv, NEW c \in Clients, pc' = [pc EXCEPT ![c] = "run"],
         req' = [req EXCEPT ![c] = Unknown], calls' = calls
  PROVE  /\ pc' \in [Clients -> {"run", "mtx", "send", "wait", "asleep"}]
         /\ req' \in [Clients -> Request]
         /\ pc'[c] = "run" /\ \A d \in Clients : d # c => pc'[d] = pc[d]
         /\ CallInv'
<1>1. pc'[c] = "run" /\ \A d \in Clients : d # c => pc'[d] = pc[d] /\ req'[d] = req[d]
  BY DEF TagInv, TagType
<1>2. CallInv'
  BY <1>1 DEF TagInv, CallInv, Waiting, Tagged
<1>3. QED
  BY <1>1, <1>2, UnknownRequest DEF TagInv, TagType

\* Nothing is sent and no call that waits goes on.
LEMMA RequestsStay ==
  ASSUME TagInv, UNCHANGED <<am_q, am, calls, amb_sem>>,
         \A d \in SyncClients : Waiting(d) => Waiting(d)'
  PROVE  RequestInv'
<1>1. \A x : LiveTag(x) => LiveTag(x)'
  BY StaysLive
<1>2. QED
  BY <1>1 DEF TagInv, RequestInv, Tagged, LiveTag

\* A call sends its request; with a tag, it begins to wait.
LEMMA TagSendRequest ==
  ASSUME OneCaller, TagInv, NEW c \in Clients, SendRequest(c)
  PROVE  TagInv'
<1>1. /\ am_q' = Append(am_q, req[c]) /\ pc[c] = "send" /\ req[c] \in Request
      /\ UNCHANGED <<calls, amb_sem, am>>
  BY DEF SendRequest, amVars, TagInv, TagType
<1>2. /\ am_q' \in Seq(Request) /\ AmRecord' /\ am'.req \in Request
      /\ calls' \in [Clients -> Nat] /\ \A d \in Clients : calls'[d] <= MaxCalls[d]
      /\ amb_sem' \in Nat
  BY <1>1, AppendedRequests DEF TagInv, TagType, AmRecord
<1>3. CASE req[c].tag = NoTag
  <2>1. pc' = [pc EXCEPT ![c] = "run"] /\ req' = [req EXCEPT ![c] = Unknown]
    BY <1>3 DEF SendRequest, Return
  <2>2. /\ pc' \in [Clients -> {"run", "mtx", "send", "wait", "asleep"}]
        /\ req' \in [Clients -> Request]
        /\ pc'[c] = "run" /\ \A d \in Clients : d # c => pc'[d] = pc[d]
        /\ CallInv'
    BY <1>1, <2>1, TagReturns
  <2>3. \A d \in SyncClients : (Waiting(d) => Waiting(d)') /\ (pc[d] = "wait" => pc'[d] = "wait")
    BY <1>1, <2>2, AppManagerAssumption DEF Waiting
  <2>4. RequestInv'
    BY <1>1, <1>3, <2>3, AppendUntagged DEF Tagged
  <2>5. PostInv'
    BY <1>1, <2>3 DEF TagInv, PostInv
  <2>6. QED
    BY <1>2, <2>2, <2>4, <2>5 DEF TagInv, TagType
<1>4. CASE req[c].tag # NoTag
  <2>1. pc' = [pc EXCEPT ![c] = "wait"] /\ UNCHANGED req
    BY <1>4 DEF SendRequest
  <2>2. /\ pc' \in [Clients -> {"run", "mtx", "send", "wait", "asleep"}]
        /\ req' \in [Clients -> Request]
        /\ pc'[c] = "wait" /\ \A d \in Clients : d # c => pc'[d] = pc[d]
    BY <2>1 DEF TagInv, TagType
  <2>3. CallInv'
    BY <1>1, <1>4, <2>1, <2>2 DEF TagInv, CallInv, Waiting, Tagged
  <2>4. /\ \A i \in 1 .. Len(am_q) : ~Tagged(am_q[i])
        /\ am.at # "loop" => ~Tagged(am.req)
        /\ amb_sem = 0
    BY <1>1, <1>4, CallerIsAlone DEF Tagged, Waiting
  <2>5. c \in SyncClients /\ req[c].tag = <<c, calls[c]>>
    BY <1>1, <1>4 DEF TagInv, CallInv, Tagged
  <2>6. am_q \in Seq(Request) /\ Len(am_q) \in Nat
    BY DEF TagInv, TagType
  <2>7. \A i \in 1 .. Len(am_q') : (am_q'[i] = req[c] /\ i = Len(am_q) + 1) \/ ~Tagged(am_q'[i])
    BY <1>1, <2>4, <2>6, AppendedRequests
  <2>8. (\A i \in 1 .. Len(am_q) : LiveTag(am_q[i]))'
    BY <1>1, <2>2, <2>4, <2>5, <2>7 DEF LiveTag, Tagged, Waiting
  <2>9. RequestInv'
    BY <1>1, <2>4, <2>7, <2>8 DEF RequestInv, LiveTag, Tagged
  <2>10. PostInv'
    BY <1>1, <2>4 DEF PostInv
  <2>11. QED
    BY <1>2, <2>2, <2>3, <2>9, <2>10 DEF TagInv, TagType
<1>5. QED
  BY <1>3, <1>4

\* What a step that leaves queue, manager and calls alone keeps.
LEMMA TagSame ==
  ASSUME TagInv, UNCHANGED <<am_q, am, calls>>, amb_sem' \in Nat,
         pc' \in [Clients -> {"run", "mtx", "send", "wait", "asleep"}],
         req' \in [Clients -> Request]
  PROVE  TagType'
BY DEF TagInv, TagType, AmRecord

\* The other steps of a call.
LEMMA TagClient ==
  ASSUME OneCaller, TagInv, NEW c \in Clients, Client(c)
  PROVE  TagInv'
<1>1. CASE RegisterLink(c)
  <2>1. /\ pc' = [pc EXCEPT ![c] = "send"] /\ pc[c] = "mtx"
        /\ UNCHANGED <<req, am_q, am, calls, amb_sem>>
    BY <1>1 DEF RegisterLink, amVars
  <2>2. /\ pc' \in [Clients -> {"run", "mtx", "send", "wait", "asleep"}]
        /\ req' \in [Clients -> Request]
        /\ \A d \in Clients : d # c => pc'[d] = pc[d]
        /\ CallInv'
    <3>1. /\ pc' \in [Clients -> {"run", "mtx", "send", "wait", "asleep"}]
          /\ req' \in [Clients -> Request]
          /\ pc'[c] \in {"run", "send"} /\ \A d \in Clients : d # c => pc'[d] = pc[d]
      BY <2>1 DEF TagInv, TagType
    <3>2. QED
      BY <2>1, <3>1, TagMoves
  <2>3. \A d \in SyncClients : (Waiting(d) => Waiting(d)') /\ (pc[d] = "wait" => pc'[d] = "wait")
    BY <2>1, <2>2, AppManagerAssumption DEF Waiting
  <2>4. RequestInv' /\ PostInv'
    BY <2>1, <2>3, RequestsStay DEF TagInv, PostInv
  <2>5. TagType'
    BY <2>1, <2>2, TagSame DEF TagInv, TagType
  <2>6. QED
    BY <2>2, <2>4, <2>5 DEF TagInv
<1>2. CASE SendRequest(c)
  BY <1>2, TagSendRequest
<1>3. CASE RetryRequest(c)
  <2>1. pc[c] = "send" /\ UNCHANGED <<req, am_q, am, calls, amb_sem>>
    BY <1>3 DEF RetryRequest, amVars
  <2>2. CASE pc' = [pc EXCEPT ![c] = "run"]
    <3>2. /\ pc' \in [Clients -> {"run", "mtx", "send", "wait", "asleep"}]
          /\ req' \in [Clients -> Request]
          /\ \A d \in Clients : d # c => pc'[d] = pc[d]
          /\ CallInv'
      <4>1. /\ pc' \in [Clients -> {"run", "mtx", "send", "wait", "asleep"}]
            /\ req' \in [Clients -> Request]
            /\ pc'[c] = "run" /\ \A d \in Clients : d # c => pc'[d] = pc[d]
        BY <2>1, <2>2 DEF TagInv, TagType
      <4>2. QED
        BY <2>1, <4>1, TagMoves
    <3>3. \A d \in SyncClients : (Waiting(d) => Waiting(d)') /\ (pc[d] = "wait" => pc'[d] = "wait")
      BY <2>1, <3>2, AppManagerAssumption DEF Waiting
    <3>4. RequestInv' /\ PostInv'
      BY <2>1, <3>3, RequestsStay DEF TagInv, PostInv
    <3>5. TagType'
      BY <2>1, <3>2, TagSame DEF TagInv, TagType
    <3>6. QED
      BY <3>2, <3>4, <3>5 DEF TagInv
  <2>3. CASE UNCHANGED pc
    BY <2>1, <2>3 DEF TagInv, TagType, AmRecord, CallInv, RequestInv, PostInv, LiveTag,
       Waiting, Tagged
  <2>4. QED
    BY <1>3, <2>2, <2>3 DEF RetryRequest, Return
<1>4. CASE WaitTake(c)
  <2>1. /\ pc' = [pc EXCEPT ![c] = "run"] /\ pc[c] = "wait"
        /\ UNCHANGED <<req, am_q, am, calls>>
        /\ amb_sem > 0 /\ amb_sem' = amb_sem - 1
    BY <1>4 DEF WaitTake, Return, amVars
  <2>2. amb_sem = 1 /\ amb_sem' = 0
    BY <2>1 DEF TagInv, TagType, PostInv
  <2>3. /\ pc' \in [Clients -> {"run", "mtx", "send", "wait", "asleep"}]
        /\ req' \in [Clients -> Request]
        /\ CallInv'
    <3>1. /\ pc' \in [Clients -> {"run", "mtx", "send", "wait", "asleep"}]
          /\ req' \in [Clients -> Request]
          /\ pc'[c] \in {"run", "send"} /\ \A d \in Clients : d # c => pc'[d] = pc[d]
      BY <2>1 DEF TagInv, TagType
    <3>2. QED
      BY <2>1, <3>1, TagMoves
  <2>4. /\ \A i \in 1 .. Len(am_q) : ~Tagged(am_q[i])
        /\ am.at # "loop" => ~Tagged(am.req)
    BY <2>2 DEF TagInv, RequestInv, LiveTag
  <2>5. RequestInv' /\ PostInv'
    BY <2>1, <2>2, <2>4 DEF RequestInv, LiveTag, PostInv, Tagged
  <2>6. TagType'
    BY <2>1, <2>2, <2>3, TagSame
  <2>7. QED
    BY <2>3, <2>5, <2>6 DEF TagInv
<1>5. CASE WaitSleep(c)
  <2>1. /\ pc' = [pc EXCEPT ![c] = "asleep"] /\ pc[c] = "wait" /\ amb_sem = 0
        /\ UNCHANGED <<req, am_q, am, calls, amb_sem>>
    BY <1>5 DEF WaitSleep, amVars
  <2>2. /\ pc' \in [Clients -> {"run", "mtx", "send", "wait", "asleep"}]
        /\ req' \in [Clients -> Request]
        /\ pc'[c] = "asleep" /\ \A d \in Clients : d # c => pc'[d] = pc[d]
        /\ CallInv'
    <3>1. Waiting(c)
      BY <2>1 DEF Waiting
    <3>2. /\ pc' \in [Clients -> {"run", "mtx", "send", "wait", "asleep"}]
          /\ req' \in [Clients -> Request]
          /\ pc'[c] = "asleep" /\ \A d \in Clients : d # c => pc'[d] = pc[d]
      BY <2>1 DEF TagInv, TagType
    <3>3. QED
      BY <2>1, <3>1, <3>2, TagMoves
  <2>3. \A d \in SyncClients : Waiting(d) => Waiting(d)'
    BY <2>1, <2>2, AppManagerAssumption DEF Waiting
  <2>4. RequestInv' /\ PostInv'
    BY <2>1, <2>3, RequestsStay DEF TagInv, PostInv
  <2>5. TagType'
    BY <2>1, <2>2, TagSame DEF TagInv, TagType
  <2>6. QED
    BY <2>2, <2>4, <2>5 DEF TagInv
<1>6. QED
  BY <1>1, <1>2, <1>3, <1>4, <1>5 DEF Client

\* The manager takes a request, or goes on with the one it has.
LEMMA TagManager ==
  ASSUME TagInv, ManagerKeeps
  PROVE  TagInv'
<1>1. UNCHANGED <<pc, req, calls, amb_sem>> /\ AmRecord'
  BY DEF ManagerKeeps, clientVars
<1>2. CallInv' /\ PostInv'
  BY <1>1 DEF TagInv, CallInv, PostInv, Waiting, Tagged
<1>3. am_q \in Seq(Request) /\ am.req \in Request
  BY DEF TagInv, TagType
<1>4. \A d \in SyncClients : Waiting(d) => Waiting(d)'
  BY <1>1 DEF Waiting
<1>5. CASE TakesRequest
  <2>1. /\ am_q # <<>> /\ am_q' = Tail(am_q) /\ am'.req = am_q[1] /\ am'.req \in Request
        /\ am_q' \in Seq(Request)
    BY <1>3, <1>5, TakenRequest DEF TakesRequest
  <2>2. /\ 1 \in 1 .. Len(am_q)
        /\ \A i \in 1 .. Len(am_q') : i + 1 \in 1 .. Len(am_q) /\ i + 1 # 1 /\ am_q'[i] = am_q[i + 1]
    BY <1>3, <2>1, TakenRequest
  <2>3. \A i, j \in 1 .. Len(am_q') : i + 1 = j + 1 => i = j
    OBVIOUS
  <2>4. \A x : LiveTag(x) => LiveTag(x)'
    BY <1>1, <1>4, StaysLive
  <2>5. /\ LiveTag(am_q[1]) /\ \A i \in 1 .. Len(am_q') : LiveTag(am_q'[i])
        /\ \A i, j \in 1 .. Len(am_q') : Tagged(am_q'[i]) /\ Tagged(am_q'[j]) => i = j
        /\ Tagged(am_q[1]) => \A i \in 1 .. Len(am_q') : ~Tagged(am_q'[i])
    BY <2>2, <2>3 DEF TagInv, RequestInv
  <2>6. RequestInv'
    BY <2>1, <2>4, <2>5 DEF RequestInv, LiveTag, Tagged
  <2>7. QED
    BY <1>1, <1>2, <2>1, <2>6 DEF TagInv, TagType
<1>6. CASE KeepsRequest /\ am_q' = am_q
  <2>1. am.at # "loop" /\ am'.req = am.req
    BY <1>6 DEF KeepsRequest
  <2>2. \A x : LiveTag(x) => LiveTag(x)'
    BY <1>1, <1>4, StaysLive
  <2>3. RequestInv'
    BY <1>6, <2>1, <2>2 DEF TagInv, RequestInv, LiveTag, Tagged
  <2>4. QED
    BY <1>1, <1>2, <1>6, <2>1, <2>3 DEF TagInv, TagType
<1>7. CASE KeepsRequest /\ am_q' = Append(am_q, Unknown)
  <2>1. am.at # "loop" /\ am'.req = am.req
    BY <1>7 DEF KeepsRequest
  <2>2. ~Tagged(Unknown)
    BY DEF Tagged, Unknown
  <2>3. RequestInv'
    BY <1>1, <1>4, <1>7, <2>1, <2>2, AppendUntagged, UnknownRequest
  <2>4. am_q' \in Seq(Request)
    BY <1>3, <1>7, AppendedRequests, UnknownRequest
  <2>5. QED
    BY <1>1, <1>2, <2>1, <2>3, <2>4 DEF TagInv, TagType
<1>8. QED
  BY <1>5, <1>6, <1>7 DEF ManagerKeeps, KeepsRequest

\* The answer of the only live tag wakes its call, or finds it not yet asleep.
LEMMA TagReply ==
  ASSUME OneCaller, TagInv, AmReply
  PROVE  TagInv'
<1>1. /\ am.at = "reply" /\ am' = Working("loop", Unknown)
      /\ UNCHANGED <<req, calls, am_q>>
  BY DEF AmReply
<1>2. AmRecord' /\ am'.req = Unknown /\ am'.at = "loop"
  BY <1>1 DEF Working, AmRecord
<1>3. CASE am.req.tag = NoTag
  <2>1. UNCHANGED <<amb_sem, pc>>
    BY <1>3 DEF AmReply
  <2>2. QED
    BY <1>1, <1>2, <2>1, UnknownRequest DEF TagInv, TagType, CallInv, RequestInv, LiveTag,
       PostInv, Waiting, Tagged
<1>4. CASE am.req.tag # NoTag
  <2>1. PICK u \in SyncClients : amb_sem = 0 /\ Waiting(u)
    BY <1>1, <1>4 DEF TagInv, RequestInv, LiveTag, Tagged
  <2>2. \A i \in 1 .. Len(am_q) : ~Tagged(am_q[i])
    BY <1>1, <1>4 DEF TagInv, RequestInv, Tagged
  <2>3. \A c \in Asleep : c = u
    BY DEF Asleep, TagInv, CallInv, Waiting, OneCaller
  <2>4. amb_sem' = 1 /\ Wakes
    BY <1>4, <2>1 DEF AmReply
  <2>5. u \in Clients
    BY AppManagerAssumption
  <2>6. /\ pc' \in [Clients -> {"run", "mtx", "send", "wait", "asleep"}]
        /\ pc'[u] = "wait"
        /\ \A d \in Clients : d # u => pc'[d] = pc[d]
    <3>1. CASE Asleep # {}
      <4>1. pc' = [pc EXCEPT ![u] = "wait"]
        BY <2>1, <2>3, <2>4, <3>1 DEF Wakes
      <4>2. QED
        BY <2>5, <4>1 DEF TagInv, TagType
    <3>2. CASE Asleep = {}
      <4>1. pc' = pc
        BY <2>4, <3>2 DEF Wakes
      <4>2. pc[u] = "wait"
        BY <2>1, <2>5, <3>2 DEF Asleep, Waiting
      <4>3. QED
        BY <4>1, <4>2 DEF TagInv, TagType
    <3>3. QED
      BY <3>1, <3>2
  <2>7. CallInv'
    BY <1>1, <2>1, <2>5, <2>6 DEF TagInv, CallInv, Waiting, Tagged
  <2>8. RequestInv' /\ PostInv'
    BY <1>1, <1>2, <2>2, <2>4, <2>6 DEF RequestInv, LiveTag, PostInv, Tagged
  <2>9. TagType'
    BY <1>1, <1>2, <2>4, <2>6, UnknownRequest DEF TagInv, TagType
  <2>10. QED
    BY <2>7, <2>8, <2>9 DEF TagInv
<1>5. QED
  BY <1>3, <1>4

\* What the message loop of an application leaves alone.
LEMMA AppKeeps ==
  ASSUME NEW h \in Instances, App(h)
  PROVE  UNCHANGED <<clientVars, amb_sem, am_q, amVars>>
BY DEF App, AppInit, AppExit, AppMsg, AppDeleteQueue, AppCleanUp, AppThreadEnds, Handles, Goes

\* TagInv reads these variables only.
LEMMA TagStays ==
  ASSUME TagInv, UNCHANGED <<pc, req, calls, amb_sem, am_q, am>>
  PROVE  TagInv'
BY DEF TagInv, TagType, AmRecord, CallInv, RequestInv, PostInv, LiveTag, Waiting, Tagged

\* The functions of amb.h make calls.
LEMMA TagCalling ==
  ASSUME TagInv, NEW c \in Clients, Calling(c)
  PROVE  TagInv'
<1>1. \A a \in Apps : a \in Apps \cup {APP_MNGR_NAME}
  OBVIOUS
<1>2. APP_MNGR_NAME \in Apps \cup {APP_MNGR_NAME}
  OBVIOUS
<1>3. PICK type \in RequestType, a \in Apps \cup {APP_MNGR_NAME}, sync \in BOOLEAN :
        Calls(c, type, a, sync)
  BY <1>1, <1>2, Zenon DEF Calling, RegisterApp, LifecycleReq, RequestType
<1>4. QED
  BY <1>3, TagCalls

\* TagInv is inductive.
LEMMA TagStep ==
  ASSUME OneCaller, TagInv, [Next]_vars
  PROVE  TagInv'
<1>1. CASE UNCHANGED vars
  BY <1>1, TagStays DEF vars, clientVars, amVars
<1>2. ASSUME NEW c \in Clients, Calling(c) \/ Client(c) PROVE TagInv'
  BY <1>2, TagCalling, TagClient
<1>3. CASE Manager
  <2>1. CASE AmReply
    BY <2>1, TagReply
  <2>2. CASE ~AmReply
    BY <1>3, <2>2, ManagerShape, TagManager DEF TagInv, TagType
  <2>3. QED
    BY <2>1, <2>2
<1>4. ASSUME NEW h \in Instances, App(h) PROVE TagInv'
  BY <1>4, AppKeeps, TagStays DEF clientVars, amVars
<1>5. QED
  BY <1>1, <1>2, <1>3, <1>4 DEF Next

\* TagInv implies the property that the run checks.
LEMMA TagShows == TagInv => TagsAreLive
<1> SUFFICES ASSUME TagInv, NEW r \in Unanswered, r.tag # NoTag
             PROVE  pc[r.tag[1]] \in {"wait", "asleep"} /\ calls[r.tag[1]] = r.tag[2]
  BY DEF TagsAreLive
<1>1. am_q \in Seq(Request)
  BY DEF TagInv, TagType
<1>2. LiveTag(r)
  BY <1>1 DEF TagInv, RequestInv, Unanswered, Range
<1>3. QED
  BY <1>2 DEF LiveTag, Tagged, Waiting

\* While a tag, an address in the frame of a synchronous call of AMB, is in a
\* request that the manager has not answered, that call still waits: for any
\* number of threads, applications and calls, as long as only one of the
\* threads makes synchronous calls (h_g_bin_sema is shared by all of them).
THEOREM TagsLive ==
  ASSUME OneCaller
  PROVE  Spec => []TagsAreLive
<1>1. Init => TagInv
  BY TagInit
<1>2. TagInv /\ [Next]_vars => TagInv'
  BY TagStep
<1>3. TagInv => TagsAreLive
  BY TagShows
<1>4. QED
  BY <1>1, <1>2, <1>3, PTL DEF Spec

-----------------------------------------------------------------------------
(* Types: the callers and the manager's queue.                             *)

\* A registration is that of an application.
IsReg(r) == r.type = "REG" => r.app \in Apps

FrontInv ==
  /\ regs \subseteq Apps
  /\ mtx \subseteq Clients /\ \A c, d \in mtx : c = d
  /\ pc \in [Clients -> {"run", "mtx", "send", "wait", "asleep"}]
  /\ req \in [Clients -> Request]
  /\ retry \in [Clients -> 0 .. MaxRetry]
  /\ calls \in [Clients -> Nat] /\ \A c \in Clients : calls[c] <= MaxCalls[c]
  /\ amb_sem \in Nat
  /\ am_q \in Seq(Request) /\ Len(am_q) <= AmCap
  /\ AmRecord /\ am.req \in Request
  /\ \A c \in Clients : IsReg(req[c]) /\ (pc[c] = "mtx" => req[c].type = "REG")
  /\ \A i \in 1 .. Len(am_q) : IsReg(am_q[i])

\* FrontInv at the start.
LEMMA FrontInit == Init => FrontInv
<1> SUFFICES ASSUME Init PROVE FrontInv
  OBVIOUS
<1>1. AmRecord /\ am.req = Unknown
  BY DEF Init, AmRecord, Working
<1>2. am_q \in Seq(Request) /\ Len(am_q) = 0
  BY DEF Init
<1>3. IsReg(Unknown) /\ 0 \in 0 .. MaxRetry
  BY AppManagerAssumption DEF IsReg, Unknown
<1>4. QED
  BY <1>1, <1>2, <1>3, UnknownRequest, AppManagerAssumption DEF Init, FrontInv

\* A call begins.
LEMMA FrontCalls ==
  ASSUME FrontInv, NEW c \in Clients, NEW type \in RequestType,
         NEW a \in Apps \cup {APP_MNGR_NAME}, NEW sync, type = "REG" => a \in Apps,
         Calls(c, type, a, sync)
  PROVE  FrontInv'
<1> DEFINE r == [type |-> type, app |-> a,
                 tag |-> IF sync THEN <<c, calls[c] + 1>> ELSE NoTag]
<1>1. calls[c] \in Nat /\ calls[c] < MaxCalls[c]
  BY DEF FrontInv, Calls
<1>2. r \in Request
  BY <1>1, CallsRequest
<1>3. r.type = type /\ IsReg(r)
  BY DEF IsReg
<1>4. /\ req' = [req EXCEPT ![c] = r]
      /\ calls' = [calls EXCEPT ![c] = calls[c] + 1]
      /\ pc' = [pc EXCEPT ![c] = IF type = "REG" THEN "mtx" ELSE "send"]
      /\ retry' = [retry EXCEPT ![c] = 0]
      /\ UNCHANGED <<regs, mtx, amb_sem, am_q, am>>
  BY DEF Calls, amVars
<1> HIDE DEF r
<1>5. calls[c] + 1 \in Nat /\ calls[c] + 1 <= MaxCalls[c] /\ 0 \in 0 .. MaxRetry
  BY <1>1, AppManagerAssumption
<1>6. /\ calls' \in [Clients -> Nat] /\ \A d \in Clients : calls'[d] <= MaxCalls[d]
      /\ retry' \in [Clients -> 0 .. MaxRetry]
  BY <1>4, <1>5 DEF FrontInv
<1>7. /\ pc' \in [Clients -> {"run", "mtx", "send", "wait", "asleep"}]
      /\ req' \in [Clients -> Request]
      /\ \A d \in Clients : IsReg(req'[d]) /\ (pc'[d] = "mtx" => req'[d].type = "REG")
  BY <1>2, <1>3, <1>4 DEF FrontInv
<1>8. AmRecord'
  BY <1>4 DEF FrontInv, AmRecord
<1>9. QED
  BY <1>4, <1>6, <1>7, <1>8 DEF FrontInv, IsReg

\* The queue of the manager after a send.
LEMMA FrontAppend ==
  ASSUME FrontInv, NEW r \in Request, IsReg(r), Len(am_q) < AmCap, am_q' = Append(am_q, r)
  PROVE  /\ am_q' \in Seq(Request) /\ Len(am_q') <= AmCap
         /\ \A i \in 1 .. Len(am_q') : IsReg(am_q'[i])
<1>1. am_q \in Seq(Request)
  BY DEF FrontInv
<1>2. /\ am_q' \in Seq(Request) /\ Len(am_q') = Len(am_q) + 1
      /\ Len(am_q) \in Nat
      /\ \A i \in 1 .. Len(am_q') : (i \in 1 .. Len(am_q) /\ am_q'[i] = am_q[i]) \/ am_q'[i] = r
  BY <1>1, AppendedRequests
<1>3. Len(am_q') <= AmCap
  BY <1>2, AppManagerAssumption
<1>4. QED
  BY <1>2, <1>3 DEF FrontInv

\* A call goes on.
LEMMA FrontClient ==
  ASSUME FrontInv, NEW c \in Clients, Client(c)
  PROVE  FrontInv'
<1> USE DEF IsReg, AmRecord
<1>1. CASE RegisterLink(c)
  <2>1. pc[c] = "mtx" /\ req[c].app \in Apps
    BY <1>1 DEF RegisterLink, FrontInv
  <2>2. QED
    BY <1>1, <2>1 DEF RegisterLink, FrontInv, amVars
<1>2. CASE SendRequest(c)
  <2>1. /\ Len(am_q) < AmCap /\ am_q' = Append(am_q, req[c]) /\ req[c] \in Request /\ IsReg(req[c])
    BY <1>2 DEF SendRequest, FrontInv
  <2>2. /\ am_q' \in Seq(Request) /\ Len(am_q') <= AmCap
        /\ \A i \in 1 .. Len(am_q') : IsReg(am_q'[i])
    BY <2>1, FrontAppend
  <2>3. 0 \in 0 .. MaxRetry
    BY AppManagerAssumption
  <2>4. retry' \in [Clients -> 0 .. MaxRetry]
    BY <1>2, <2>3 DEF SendRequest, FrontInv
  <2>5. /\ pc' \in [Clients -> {"run", "mtx", "send", "wait", "asleep"}]
        /\ req' \in [Clients -> Request]
        /\ mtx' \subseteq mtx
        /\ \A d \in Clients : IsReg(req'[d]) /\ (pc'[d] = "mtx" => req'[d].type = "REG")
    <3>1. IsReg(Unknown)
      BY DEF Unknown
    <3>2. /\ pc' = [pc EXCEPT ![c] = "run"] \/ pc' = [pc EXCEPT ![c] = "wait"]
          /\ req' = [req EXCEPT ![c] = Unknown] \/ req' = req
          /\ mtx' \subseteq mtx
      BY <1>2 DEF SendRequest, Return
    <3>3. pc' \in [Clients -> {"run", "mtx", "send", "wait", "asleep"}]
      BY <3>2 DEF FrontInv
    <3>4. req' \in [Clients -> Request]
      BY <3>2, UnknownRequest DEF FrontInv
    <3>5. ASSUME NEW d \in Clients
          PROVE  IsReg(req'[d]) /\ (pc'[d] = "mtx" => req'[d].type = "REG")
      <4>1. CASE d = c
        BY <3>1, <3>2, <4>1 DEF FrontInv
      <4>2. CASE d # c
        BY <3>2, <4>2 DEF FrontInv
      <4>3. QED
        BY <4>1, <4>2
    <3>6. QED
      BY <3>2, <3>3, <3>4, <3>5
  <2>6. QED
    BY <1>2, <2>2, <2>4, <2>5 DEF SendRequest, FrontInv, amVars
<1>3. CASE RetryRequest(c)
  <2>1. 0 \in 0 .. MaxRetry /\ retry[c] \in 0 .. MaxRetry
        /\ (retry[c] # MaxRetry => retry[c] + 1 \in 0 .. MaxRetry)
    BY AppManagerAssumption DEF FrontInv
  <2>2. retry' \in [Clients -> 0 .. MaxRetry]
    BY <1>3, <2>1 DEF RetryRequest, FrontInv
  <2>3. /\ pc' \in [Clients -> {"run", "mtx", "send", "wait", "asleep"}]
        /\ mtx' \subseteq mtx
        /\ \A d \in Clients : pc'[d] = "mtx" => pc[d] = "mtx"
    BY <1>3 DEF RetryRequest, Return, FrontInv
  <2>4. QED
    BY <1>3, <2>2, <2>3 DEF RetryRequest, FrontInv, amVars
<1>4. CASE WaitTake(c)
  <2>1. amb_sem' \in Nat
    BY <1>4 DEF WaitTake, FrontInv
  <2>2. /\ pc' \in [Clients -> {"run", "mtx", "send", "wait", "asleep"}]
        /\ mtx' \subseteq mtx
        /\ \A d \in Clients : pc'[d] = "mtx" => pc[d] = "mtx"
    BY <1>4 DEF WaitTake, Return, FrontInv
  <2>3. QED
    BY <1>4, <2>1, <2>2 DEF WaitTake, FrontInv, amVars
<1>5. CASE WaitSleep(c)
  BY <1>5 DEF WaitSleep, FrontInv, amVars
<1>6. QED
  BY <1>1, <1>2, <1>3, <1>4, <1>5 DEF Client

\* The manager takes a request, or goes on with the one it has.
LEMMA FrontManager ==
  ASSUME FrontInv, ManagerKeeps
  PROVE  FrontInv'
<1>1. UNCHANGED <<regs, mtx, pc, req, retry, calls, amb_sem>> /\ AmRecord'
  BY DEF ManagerKeeps, clientVars
<1>2. am_q \in Seq(Request) /\ am.req \in Request
  BY DEF FrontInv
<1>3. /\ am_q' \in Seq(Request) /\ Len(am_q') <= AmCap /\ am'.req \in Request
      /\ \A i \in 1 .. Len(am_q') : IsReg(am_q'[i])
  <2>1. CASE TakesRequest
    <3>1. /\ am_q' \in Seq(Request) /\ am'.req \in Request
          /\ \A i \in 1 .. Len(am_q') : i + 1 \in 1 .. Len(am_q) /\ am_q'[i] = am_q[i + 1]
      BY <1>2, <2>1, TakenRequest DEF TakesRequest
    <3>2. Len(am_q') <= AmCap
      BY <1>2, <2>1, AppManagerAssumption DEF TakesRequest, FrontInv
    <3>3. QED
      BY <3>1, <3>2 DEF FrontInv
  <2>2. CASE KeepsRequest /\ am_q' = am_q
    BY <2>2 DEF KeepsRequest, FrontInv
  <2>3. CASE KeepsRequest /\ Len(am_q) < AmCap /\ am_q' = Append(am_q, Unknown)
    <3>1. IsReg(Unknown)
      BY DEF IsReg, Unknown
    <3>2. QED
      BY <1>2, <2>3, <3>1, FrontAppend, UnknownRequest DEF KeepsRequest
  <2>4. QED
    BY <2>1, <2>2, <2>3 DEF ManagerKeeps, KeepsRequest
<1>4. QED
  BY <1>1, <1>3 DEF FrontInv, IsReg

\* The manager answers.
LEMMA FrontReply ==
  ASSUME FrontInv, AmReply
  PROVE  FrontInv'
<1>1. AmRecord' /\ am'.req = Unknown
  BY DEF AmReply, Working, AmRecord
<1>2. /\ pc' \in [Clients -> {"run", "mtx", "send", "wait", "asleep"}]
      /\ \A d \in Clients : pc'[d] = "mtx" => pc[d] = "mtx"
      /\ amb_sem' \in Nat
  <2>1. pc' = pc \/ \E c \in Asleep : pc' = [pc EXCEPT ![c] = "wait"]
    BY DEF AmReply, Wakes
  <2>2. amb_sem' = amb_sem \/ amb_sem' = amb_sem + 1
    BY DEF AmReply
  <2>3. amb_sem' \in Nat
    BY <2>2 DEF FrontInv
  <2>4. QED
    BY <2>1, <2>3 DEF FrontInv, Asleep
<1>3. QED
  BY <1>1, <1>2, UnknownRequest DEF AmReply, FrontInv, IsReg

\* FrontInv is inductive.
LEMMA FrontStep ==
  ASSUME FrontInv, [Next]_vars
  PROVE  FrontInv'
<1>1. ASSUME UNCHANGED <<clientVars, amb_sem, am_q, am>> PROVE FrontInv'
  BY <1>1 DEF clientVars, FrontInv, AmRecord, IsReg
<1>2. CASE UNCHANGED vars
  BY <1>1, <1>2 DEF vars, amVars
<1>3. ASSUME NEW c \in Clients, Calling(c) PROVE FrontInv'
  <2>1. \A a \in Apps : a \in Apps \cup {APP_MNGR_NAME}
    OBVIOUS
  <2>2. APP_MNGR_NAME \in Apps \cup {APP_MNGR_NAME} /\ "DISPATCH" # "REG" /\ "BROADCAST" # "REG"
    OBVIOUS
  <2>3. PICK type \in RequestType, a \in Apps \cup {APP_MNGR_NAME}, sync \in BOOLEAN :
          Calls(c, type, a, sync) /\ (type = "REG" => a \in Apps)
    BY <1>3, <2>1, <2>2, Zenon DEF Calling, RegisterApp, LifecycleReq, RequestType
  <2>4. QED
    BY <2>3, FrontCalls
<1>4. ASSUME NEW c \in Clients, Client(c) PROVE FrontInv'
  BY <1>4, FrontClient
<1>5. CASE Manager
  <2>1. CASE AmReply
    BY <2>1, FrontReply
  <2>2. CASE ~AmReply
    BY <1>5, <2>2, ManagerShape, FrontManager DEF FrontInv
  <2>3. QED
    BY <2>1, <2>2
<1>6. ASSUME NEW h \in Instances, App(h) PROVE FrontInv'
  BY <1>1, <1>6, AppKeeps DEF amVars
<1>7. QED
  BY <1>2, <1>3, <1>4, <1>5, <1>6 DEF Next

-----------------------------------------------------------------------------
(* The manager and the applications.                                       *)

\* No application refuses to exit.
ExitsSucceed == ExitResults \subseteq {TRUE}

PlaceType ==
  /\ am.at \in AmPlace /\ am.retry \in 0 .. MaxRetry /\ am.ok \in BOOLEAN
  /\ am.id \in 0 .. Len(as_app_name) /\ am.h \in Instances \cup {0}

NameType ==
  /\ as_app_name \in Seq(Apps) /\ ah_app \in Seq(Instances \cup {0})
  /\ Len(ah_app) = Len(as_app_name)

AppType ==
  /\ app_of \in [Instances -> Apps \cup {APP_MNGR_NAME}]
  /\ queue \in [Instances -> Seq({"INIT", "EXIT", "MSG"})]
  /\ \A h \in Instances : Len(queue[h]) <= AppCap
  /\ queues \subseteq Instances /\ valid \subseteq Instances
  /\ thread \in [Instances -> ThreadPlace]

AnswerType == am_sem \in {0, 1} /\ am_b_ok \in BOOLEAN /\ b_ok \in [Clients -> BOOLEAN]

\* What an instance has, by the place of its thread.
ThreadInv ==
  \A h \in Instances :
    /\ thread[h] = "none" => /\ h \notin valid /\ queue[h] = <<>>
                             /\ h \in queues => am.at = "thread" /\ am.h = h
    /\ thread[h] \in {"loop", "left"} => h \in queues /\ h \in valid
    /\ thread[h] = "no_queue" => h \notin queues
    /\ thread[h] \in {"no_handle", "gone"} => h \notin queues /\ h \notin valid

\* A handle of the manager is that of one application, which runs unless it has
\* just answered; and every application that runs has one.
Waits == am.at \in {"wait_init", "wait_exit"}

KnownInv ==
  /\ \A i \in 1 .. Len(ah_app) : ah_app[i] # 0 =>
       /\ app_of[ah_app[i]] = as_app_name[i]
       /\ thread[ah_app[i]] # "none"
       /\ thread[ah_app[i]] = "loop" \/ (Waits /\ am.id = i /\ am_sem = 1)
  /\ \A i, j \in 1 .. Len(ah_app) : ah_app[i] # 0 /\ ah_app[i] = ah_app[j] => i = j
  /\ \A h \in Instances : thread[h] = "loop" => \E i \in 1 .. Len(ah_app) : ah_app[i] = h

\* What the manager's place says of the application it works on.
Target == ah_app[am.id]

WorkInv ==
  /\ am.at \notin {"loop", "self", "reply"} => am.id \in 1 .. Len(ah_app)
  /\ am.at \in {"create", "thread"} => Target = 0 /\ as_app_name[am.id] = am.req.app
  /\ am.at = "thread" => /\ am.h \in Instances /\ am.h \in queues
                         /\ thread[am.h] = "none" /\ app_of[am.h] = am.req.app
  /\ am.at = "init" => /\ am.h \in Instances /\ Target = am.h
                       /\ thread[am.h] = "loop" /\ queue[am.h] = <<>>
  /\ am.at \in {"exit", "wait_init", "wait_exit", "dispatch"} => Target # 0

\* While the manager waits, its command is the last message of its target, or
\* the answer is posted; and no other application has a command to answer.
Command == IF am.at = "wait_init" THEN "INIT" ELSE "EXIT"

AnswerInv ==
  /\ ~Waits => am_sem = 0
  /\ Waits /\ am_sem = 0 => /\ thread[Target] = "loop" /\ queue[Target] # <<>>
                            /\ queue[Target][Len(queue[Target])] = Command
  /\ Waits /\ am_sem = 1 => (thread[Target] = "loop" <=> am.at = "wait_init" /\ am_b_ok)
  /\ \A h \in Instances : thread[h] = "loop" =>
       \A i \in 1 .. Len(queue[h]) : queue[h][i] # "MSG" =>
         Waits /\ h = Target /\ am_sem = 0 /\ i = Len(queue[h])

BackInv ==
  /\ PlaceType /\ NameType /\ AppType /\ AnswerType
  /\ ThreadInv /\ KnownInv /\ WorkInv /\ AnswerInv

\* BackInv at the start.
LEMMA BackInit == Init => BackInv
<1> SUFFICES ASSUME Init PROVE BackInv
  OBVIOUS
<1>1. am.at = "loop" /\ am.retry = 0 /\ am.ok = TRUE /\ am.id = 0 /\ am.h = 0
  BY DEF Init, Working
<1>2. /\ as_app_name \in Seq(Apps) /\ ah_app \in Seq(Instances \cup {0})
      /\ Len(ah_app) = 0 /\ Len(as_app_name) = 0
  BY DEF Init
<1>3. \A h \in Instances : queue[h] \in Seq({"INIT", "EXIT", "MSG"}) /\ Len(queue[h]) = 0 /\ queue[h] = <<>>
  BY DEF Init
<1>4. PlaceType /\ NameType /\ AnswerType
  <2>1. 0 \in 0 .. MaxRetry
    BY AppManagerAssumption
  <2>2. PlaceType
    <3>1. am.ok \in BOOLEAN
      BY <1>1, Zenon
    <3>2. 0 \in 0 .. Len(as_app_name) /\ "loop" \in AmPlace
      BY <1>2 DEF AmPlace
    <3>3. QED
      BY <1>1, <2>1, <3>1, <3>2, Zenon DEF PlaceType
  <2>3. am_sem \in {0, 1} /\ am_b_ok \in BOOLEAN /\ b_ok \in [Clients -> BOOLEAN]
    BY DEF Init
  <2>4. QED
    BY <1>2, <2>2, <2>3 DEF NameType, AnswerType
<1>5. AppType
  BY <1>3, AppManagerAssumption DEF Init, AppType, ThreadPlace
<1>6. ThreadInv /\ KnownInv /\ WorkInv /\ AnswerInv
  BY <1>1, <1>2, <1>3 DEF Init, ThreadInv, KnownInv, WorkInv, AnswerInv, Waits
<1>7. QED
  BY <1>4, <1>5, <1>6 DEF BackInv

\* The manager's places after a handler's end, and at its begin.
LEMMA Replies ==
  ASSUME NameType', NEW r, NEW ok \in BOOLEAN,
         am' = [Working("reply", r) EXCEPT !.ok = ok]
  PROVE  PlaceType' /\ WorkInv' /\ am'.at = "reply"
<1>1. am'.at = "reply" /\ am'.retry = 0 /\ am'.ok = ok /\ am'.id = 0 /\ am'.h = 0
  BY DEF Working
<1>2. am'.ok \in BOOLEAN
  BY <1>1, Zenon
<1>3. 0 \in 0 .. Len(as_app_name') /\ 0 \in 0 .. MaxRetry
  BY AppManagerAssumption DEF NameType
<1>4. PlaceType'
  BY <1>1, <1>2, <1>3, Zenon DEF PlaceType, AmPlace
<1>5. WorkInv'
  BY <1>1 DEF WorkInv
<1>6. QED
  BY <1>1, <1>4, <1>5

\* A handler that goes on at place p with index n.
LEMMA Begins ==
  ASSUME NameType', NEW p \in AmPlace, NEW r, NEW n \in 0 .. Len(as_app_name'),
         am' = [Working(p, r) EXCEPT !.id = n]
  PROVE  PlaceType' /\ am'.at = p /\ am'.req = r /\ am'.id = n
<1>1. /\ am'.at = p /\ am'.req = r /\ am'.retry = 0 /\ am'.ok = TRUE /\ am'.id = n
      /\ am'.h = 0
  BY DEF Working
<1>2. am'.ok \in BOOLEAN
  BY <1>1, Zenon
<1>3. 0 \in 0 .. MaxRetry
  BY AppManagerAssumption
<1>4. QED
  BY <1>1, <1>2, <1>3, Zenon DEF PlaceType

\* A handler that needs no index.
LEMMA WorkingPlace ==
  ASSUME NameType', NEW p \in AmPlace, NEW r, am' = Working(p, r)
  PROVE  PlaceType' /\ am'.at = p
<1>1. am'.at = p /\ am'.retry = 0 /\ am'.ok = TRUE /\ am'.id = 0 /\ am'.h = 0
  BY DEF Working
<1>2. am'.ok \in BOOLEAN
  BY <1>1, Zenon
<1>3. 0 \in 0 .. MaxRetry /\ 0 \in 0 .. Len(as_app_name')
  BY AppManagerAssumption DEF NameType
<1>4. QED
  BY <1>1, <1>2, <1>3, Zenon DEF PlaceType

\* A step that only moves the manager, and not in or out of a wait.
Quiet == UNCHANGED <<b_ok, as_app_name, ah_app, am_sem, am_b_ok, appVars>>

\* Such a step keeps all but the manager's own place.
LEMMA QuietStep ==
  ASSUME BackInv, Quiet, ~Waits, am.at # "thread", ~Waits'
  PROVE  NameType' /\ AppType' /\ AnswerType' /\ ThreadInv' /\ KnownInv' /\ AnswerInv'
<1>1. UNCHANGED <<b_ok, as_app_name, ah_app, am_sem, am_b_ok, app_of, queue, queues, valid, thread>>
  BY DEF Quiet, appVars
<1>2. NameType' /\ AppType' /\ AnswerType'
  BY <1>1 DEF BackInv, NameType, AppType, AnswerType
<1>3. ThreadInv'
  BY <1>1 DEF BackInv, ThreadInv
<1>4. am_sem = 0
  BY DEF BackInv, AnswerInv
<1>5. KnownInv'
  BY <1>1, <1>4 DEF BackInv, KnownInv
<1>6. AnswerInv'
  BY <1>1, <1>4 DEF BackInv, AnswerInv
<1>7. QED
  BY <1>2, <1>3, <1>5, <1>6

\* A handler that begins with the first of some indices, or fails.
LEMMA WorksOn ==
  ASSUME BackInv, NEW p \in AmPlace, NEW r,
         NEW ids, ids \subseteq 1 .. Len(as_app_name), NameType',
         as_app_name' = as_app_name, am' = WorkOn(p, r, ids)
  PROVE  /\ PlaceType'
         /\ \/ WorkInv' /\ am'.at = "reply"
            \/ am'.at = p /\ am'.req = r /\ am'.id \in ids /\ am'.id = Min(ids)
<1>1. CASE ids = {}
  BY <1>1, Replies DEF WorkOn, Failed
<1>2. CASE ids # {}
  <2>1. ids \in SUBSET Nat
    BY DEF BackInv, NameType
  <2>2. Min(ids) \in ids
    BY <1>2, <2>1, MinIsOne
  <2>3. Min(ids) \in 0 .. Len(as_app_name')
    <3>1. Min(ids) \in 1 .. Len(as_app_name)
      BY <2>2
    <3>2. Len(as_app_name) \in Nat /\ Len(as_app_name') = Len(as_app_name)
      BY DEF BackInv, NameType
    <3>3. QED
      BY <3>1, <3>2
  <2>4. am' = [Working(p, r) EXCEPT !.id = Min(ids)]
    BY <1>2 DEF WorkOn
  <2>5. PlaceType' /\ am'.at = p /\ am'.req = r /\ am'.id = Min(ids)
    BY <2>3, <2>4, Begins
  <2>6. QED
    BY <2>2, <2>5
<1>3. QED
  BY <1>1, <1>2

\* The handlers' begin.
LEMMA BackTakes ==
  ASSUME FrontInv, BackInv, AmUnknown \/ AmStart \/ AmExit \/ AmDispatch \/ AmBroadcast
  PROVE  BackInv'
<1>1. am.at = "loop" /\ Quiet
  BY DEF AmUnknown, AmStart, AmExit, AmDispatch, AmBroadcast, Takes, AmIdleVars, clientVars, Quiet
<1>2. ~Waits /\ am.at # "thread"
  BY <1>1 DEF Waits
<1>3. /\ as_app_name' = as_app_name /\ ah_app' = ah_app /\ NameType'
      /\ Len(as_app_name) \in Nat /\ Len(ah_app) = Len(as_app_name)
  BY <1>1 DEF Quiet, BackInv, NameType
<1>4. DOMAIN as_app_name = 1 .. Len(as_app_name)
  BY DEF BackInv, NameType
<1>5. \A a : Ids(a) \subseteq 1 .. Len(as_app_name) /\ Started(a) \subseteq 1 .. Len(as_app_name)
  BY <1>4 DEF Ids, Started
<1>6. PlaceType' /\ WorkInv' /\ am'.at \in {"reply", "create", "exit", "dispatch", "self", "cast"}
  <2>1. CASE AmUnknown
    BY <1>3, <2>1, Replies DEF AmUnknown, Failed
  <2>2. CASE AmStart
    <3> DEFINE r == Head(am_q)
    <3>1. CASE am' = Failed(r)
      BY <1>3, <3>1, Replies DEF Failed
    <3>2. CASE /\ am' = WorkOn("create", r, Ids(r.app))
               /\ Ids(r.app) = {} \/ ah_app[Min(Ids(r.app))] = 0
      <4>1. /\ PlaceType'
            /\ \/ WorkInv' /\ am'.at = "reply"
               \/ am'.at = "create" /\ am'.req = r /\ am'.id \in Ids(r.app) /\ am'.id = Min(Ids(r.app))
        BY <1>3, <1>5, <3>2, WorksOn DEF AmPlace
      <4>2. CASE am'.at = "create" /\ am'.req = r /\ am'.id \in Ids(r.app) /\ am'.id = Min(Ids(r.app))
        <5>1. am'.id \in 1 .. Len(ah_app') /\ as_app_name[am'.id] = r.app
          BY <1>3, <1>5, <4>2 DEF Ids
        <5>2. ah_app'[am'.id] = 0
          BY <1>3, <3>2, <4>2
        <5>3. QED
          BY <1>3, <4>1, <4>2, <5>1, <5>2 DEF WorkInv, Target
      <4>3. QED
        BY <4>1, <4>2
    <3>3. QED
      BY <2>2, <3>1, <3>2 DEF AmStart
  <2>3. CASE AmExit
    <3>1. /\ PlaceType'
          /\ \/ WorkInv' /\ am'.at = "reply"
             \/ am'.at = "exit" /\ am'.id \in Started(Head(am_q).app)
      BY <1>3, <1>5, <2>3, WorksOn DEF AmExit, AmPlace
    <3>2. CASE am'.at = "exit" /\ am'.id \in Started(Head(am_q).app)
      BY <1>3, <1>5, <3>1, <3>2 DEF WorkInv, Target, Started
    <3>3. QED
      BY <3>1, <3>2
  <2>4. CASE AmDispatch
    <3>1. CASE am' = Working("self", Head(am_q))
      <4>1. "self" \in AmPlace
        BY DEF AmPlace
      <4>2. PlaceType' /\ am'.at = "self"
        BY <1>3, <3>1, <4>1, WorkingPlace
      <4>3. QED
        BY <4>2 DEF WorkInv
    <3>2. CASE am' = WorkOn("dispatch", Head(am_q), Started(Head(am_q).app))
      <4>1. /\ PlaceType'
            /\ \/ WorkInv' /\ am'.at = "reply"
               \/ am'.at = "dispatch" /\ am'.id \in Started(Head(am_q).app)
        BY <1>3, <1>5, <3>2, WorksOn DEF AmPlace
      <4>2. CASE am'.at = "dispatch" /\ am'.id \in Started(Head(am_q).app)
        BY <1>3, <1>5, <4>1, <4>2 DEF WorkInv, Target, Started
      <4>3. QED
        BY <4>1, <4>2
    <3>3. QED
      BY <2>4, <3>1, <3>2 DEF AmDispatch
  <2>5. CASE AmBroadcast
    <3> DEFINE p == IF as_app_name = <<>> THEN "reply" ELSE "cast"
    <3>1. am' = [Working(p, Head(am_q)) EXCEPT !.id = Len(as_app_name)]
      BY <2>5 DEF AmBroadcast
    <3>2. p \in AmPlace /\ Len(as_app_name) \in 0 .. Len(as_app_name')
      BY <1>3 DEF AmPlace
    <3>3. p = "cast" => Len(as_app_name) \in 1 .. Len(ah_app')
      BY <1>3 DEF BackInv, NameType
    <3>4. p \in {"reply", "cast"}
      OBVIOUS
    <3> HIDE DEF p
    <3>5. PlaceType' /\ am'.at = p /\ am'.id = Len(as_app_name)
      BY <1>3, <3>1, <3>2, Begins
    <3>6. QED
      BY <3>3, <3>4, <3>5 DEF WorkInv
  <2>6. QED
    BY <2>1, <2>2, <2>3, <2>4, <2>5
<1>7. ~Waits'
  BY <1>6 DEF Waits
<1>8. QED
  BY <1>1, <1>2, <1>6, <1>7, QuietStep DEF BackInv

\* A full queue is tried again.
LEMMA Retries ==
  ASSUME FrontInv, BackInv, am.retry # MaxRetry, am' = [am EXCEPT !.retry = @ + 1],
         as_app_name' = as_app_name
  PROVE  PlaceType' /\ am'.at = am.at /\ am'.req = am.req /\ am'.id = am.id /\ am'.h = am.h
<1>1. /\ am'.at = am.at /\ am'.req = am.req /\ am'.id = am.id /\ am'.h = am.h
      /\ am'.ok = am.ok /\ am'.retry = am.retry + 1
  BY DEF FrontInv, AmRecord
<1>2. am.retry \in 0 .. MaxRetry
  BY DEF BackInv, PlaceType
<1>3. am.retry + 1 \in 0 .. MaxRetry
  BY <1>2, AppManagerAssumption
<1>4. am.ok \in BOOLEAN /\ am.at \in AmPlace /\ am.id \in 0 .. Len(as_app_name) /\ am.h \in Instances \cup {0}
  BY Zenon DEF BackInv, PlaceType
<1>5. PlaceType'
  BY <1>1, <1>3, <1>4, Zenon DEF PlaceType
<1>6. QED
  BY <1>1, <1>5

\* A step whose handler ends, or that leaves the manager at its place.
LEMMA QuietEnds ==
  ASSUME FrontInv, BackInv, Quiet, ~Waits, am.at # "thread",
         NEW r, NEW ok \in BOOLEAN, am' = [Working("reply", r) EXCEPT !.ok = ok]
  PROVE  BackInv'
<1>1. NameType'
  BY DEF BackInv, NameType, Quiet
<1>2. PlaceType' /\ WorkInv' /\ am'.at = "reply"
  BY <1>1, Replies
<1>3. ~Waits'
  BY <1>2 DEF Waits
<1>4. QED
  BY <1>2, <1>3, QuietStep DEF BackInv

\* A step that only counts a retry.
LEMMA QuietRetries ==
  ASSUME FrontInv, BackInv, Quiet, ~Waits, am.at # "thread",
         am.retry # MaxRetry, am' = [am EXCEPT !.retry = @ + 1]
  PROVE  BackInv'
<1>1. /\ as_app_name' = as_app_name /\ ah_app' = ah_app /\ thread' = thread /\ queue' = queue
      /\ queues' = queues /\ app_of' = app_of
  BY DEF Quiet, appVars
<1>2. PlaceType' /\ am'.at = am.at /\ am'.req = am.req /\ am'.id = am.id /\ am'.h = am.h
  BY <1>1, Retries
<1>3. ~Waits'
  BY <1>2 DEF Waits
<1>4. WorkInv'
  BY <1>1, <1>2 DEF BackInv, WorkInv, Target
<1>5. QED
  BY <1>2, <1>3, <1>4, QuietStep DEF BackInv

\* A message is put into the queue of an application the manager can reach.
PutsMsg(h) ==
  /\ h \in Instances /\ Reachable(h) /\ Put(h, "MSG")
  /\ UNCHANGED <<b_ok, as_app_name, ah_app, am_sem, am_b_ok, app_of, queues, valid, thread>>

\* What Append does to the queue of instance h.
LEMMA PutShape ==
  ASSUME AppType, NEW h \in Instances, NEW m \in {"INIT", "EXIT", "MSG"}, Put(h, m)
  PROVE  /\ queue' \in [Instances -> Seq({"INIT", "EXIT", "MSG"})]
         /\ \A g \in Instances : g # h => queue'[g] = queue[g]
         /\ Len(queue[h]) \in Nat
         /\ Len(queue'[h]) = Len(queue[h]) + 1 /\ queue'[h][Len(queue[h]) + 1] = m
         /\ queue'[h] # <<>>
         /\ \A i \in 1 .. Len(queue[h]) : queue'[h][i] = queue[h][i]
<1>1. queue[h] \in Seq({"INIT", "EXIT", "MSG"})
  BY DEF AppType
<1>2. /\ queue'[h] = Append(queue[h], m) /\ \A g \in Instances : g # h => queue'[g] = queue[g]
      /\ queue' = [queue EXCEPT ![h] = Append(queue[h], m)]
  BY DEF AppType, Put
<1>3. Append(queue[h], m) \in Seq({"INIT", "EXIT", "MSG"})
  BY <1>1
<1>4. queue' \in [Instances -> Seq({"INIT", "EXIT", "MSG"})]
  BY <1>2, <1>3 DEF AppType
<1>5. QED
  BY <1>1, <1>2, <1>4

\* A message disturbs no wait.
LEMMA PutsMsgStep ==
  ASSUME BackInv, NEW h, PutsMsg(h), ~Waits, am.at # "thread", ~Waits'
  PROVE  NameType' /\ AppType' /\ AnswerType' /\ ThreadInv' /\ KnownInv' /\ AnswerInv'
<1>1. /\ h \in Instances /\ h \in valid /\ Len(queue[h]) < AppCap /\ Put(h, "MSG")
      /\ UNCHANGED <<b_ok, as_app_name, ah_app, am_sem, am_b_ok, app_of, queues, valid, thread>>
  BY DEF PutsMsg, Reachable
<1>2. /\ queue' \in [Instances -> Seq({"INIT", "EXIT", "MSG"})]
      /\ \A g \in Instances : g # h => queue'[g] = queue[g]
      /\ Len(queue[h]) \in Nat
      /\ Len(queue'[h]) = Len(queue[h]) + 1 /\ queue'[h][Len(queue[h]) + 1] = "MSG"
      /\ \A i \in 1 .. Len(queue[h]) : queue'[h][i] = queue[h][i]
  BY <1>1, PutShape DEF BackInv
<1>3. AppType'
  <2>1. Len(queue'[h]) <= AppCap
    BY <1>1, <1>2, AppManagerAssumption
  <2>2. QED
    BY <1>1, <1>2, <2>1 DEF BackInv, AppType
<1>4. NameType' /\ AnswerType'
  BY <1>1 DEF BackInv, NameType, AnswerType
<1>5. thread[h] # "none"
  BY <1>1 DEF BackInv, ThreadInv
<1>6. ThreadInv'
  BY <1>1, <1>2, <1>5 DEF BackInv, ThreadInv
<1>7. am_sem = 0
  BY DEF BackInv, AnswerInv
<1>8. KnownInv'
  BY <1>1, <1>7 DEF BackInv, KnownInv
<1>9. \A g \in Instances : thread[g] = "loop" => \A i \in 1 .. Len(queue[g]) : queue[g][i] = "MSG"
  BY DEF BackInv, AnswerInv
<1>10. \A i \in 1 .. Len(queue'[h]) : i \in 1 .. Len(queue[h]) \/ i = Len(queue[h]) + 1
  BY <1>2
<1>11. \A g \in Instances : thread[g] = "loop" => \A i \in 1 .. Len(queue'[g]) : queue'[g][i] = "MSG"
  BY <1>2, <1>9, <1>10
<1>12. AnswerInv'
  BY <1>1, <1>7, <1>11 DEF AnswerInv
<1>13. QED
  BY <1>3, <1>4, <1>6, <1>8, <1>12

\* _am_reg_app: a name is added, with no handle.
LEMMA BackRegister ==
  ASSUME FrontInv, BackInv, AmRegister
  PROVE  BackInv'
<1>1. /\ am.at = "loop" /\ am_q # <<>> /\ Head(am_q).type = "REG"
      /\ as_app_name' = Append(as_app_name, Head(am_q).app)
      /\ ah_app' = Append(ah_app, 0)
      /\ am' = Working("reply", Head(am_q))
      /\ UNCHANGED <<b_ok, am_sem, am_b_ok, app_of, queue, queues, valid, thread>>
  BY DEF AmRegister, Takes, AmIdleVars, clientVars, appVars
<1>2. Head(am_q).app \in Apps
  <2>1. am_q \in Seq(Request)
    BY DEF FrontInv
  <2>2. Head(am_q) = am_q[1] /\ 1 \in 1 .. Len(am_q)
    BY <1>1, <2>1, TakenRequest
  <2>3. QED
    BY <1>1, <2>2 DEF FrontInv, IsReg
<1>3. /\ NameType' /\ Len(ah_app) \in Nat /\ Len(ah_app') = Len(ah_app) + 1
      /\ \A i \in 1 .. Len(ah_app) : ah_app'[i] = ah_app[i] /\ as_app_name'[i] = as_app_name[i]
      /\ ah_app'[Len(ah_app) + 1] = 0
  BY <1>1, <1>2 DEF BackInv, NameType
<1>4. \A i \in 1 .. Len(ah_app') : ah_app'[i] # 0 =>
        i \in 1 .. Len(ah_app) /\ ah_app'[i] = ah_app[i] /\ as_app_name'[i] = as_app_name[i]
  BY <1>3
<1>5. "reply" \in AmPlace
  BY DEF AmPlace
<1>6. PlaceType' /\ am'.at = "reply"
  BY <1>1, <1>3, <1>5, WorkingPlace
<1>7. WorkInv' /\ ~Waits' /\ ~Waits
  BY <1>1, <1>6 DEF WorkInv, Waits
<1>8. AppType' /\ AnswerType' /\ am_sem = 0
  BY <1>1, <1>7 DEF BackInv, AppType, AnswerType, AnswerInv
<1>9. ThreadInv'
  BY <1>1 DEF BackInv, ThreadInv
<1>10. KnownInv'
  <2>1. \A i \in 1 .. Len(ah_app) : i \in 1 .. Len(ah_app')
    BY <1>3
  <2>2. /\ \A i \in 1 .. Len(ah_app) : ah_app[i] # 0 =>
             /\ app_of[ah_app[i]] = as_app_name[i]
             /\ thread[ah_app[i]] = "loop"
        /\ \A i, j \in 1 .. Len(ah_app) : ah_app[i] # 0 /\ ah_app[i] = ah_app[j] => i = j
        /\ \A h \in Instances : thread[h] = "loop" => \E i \in 1 .. Len(ah_app) : ah_app[i] = h
    BY <1>7 DEF BackInv, KnownInv
  <2>3. \A h \in Instances : thread[h] = "loop" => \E i \in 1 .. Len(ah_app') : ah_app'[i] = h
    BY <1>3, <2>1, <2>2
  <2>4. \A i \in 1 .. Len(ah_app') : ah_app'[i] # 0 =>
          app_of[ah_app'[i]] = as_app_name'[i] /\ thread[ah_app'[i]] = "loop"
    BY <1>4, <2>2
  <2>5. \A i, j \in 1 .. Len(ah_app') : ah_app'[i] # 0 /\ ah_app'[i] = ah_app'[j] => i = j
    BY <1>4, <2>2
  <2>6. app_of' = app_of /\ thread' = thread
    BY <1>1
  <2>7. QED
    BY <2>3, <2>4, <2>5, <2>6 DEF KnownInv
<1>11. AnswerInv'
  BY <1>1, <1>7, <1>8 DEF BackInv, AnswerInv
<1>12. QED
  BY <1>3, <1>6, <1>7, <1>8, <1>9, <1>10, <1>11 DEF BackInv

\* The notify function.
LEMMA BackReply ==
  ASSUME FrontInv, BackInv, AmReply
  PROVE  BackInv'
<1>1. /\ am.at = "reply" /\ am' = Working("loop", Unknown)
      /\ UNCHANGED <<as_app_name, ah_app, am_sem, am_b_ok, app_of, queue, queues, valid, thread>>
  BY DEF AmReply, appVars
<1>2. b_ok' \in [Clients -> BOOLEAN]
  <2>1. am.ok \in BOOLEAN /\ b_ok \in [Clients -> BOOLEAN]
    BY DEF BackInv, PlaceType, AnswerType
  <2>2. b_ok' = b_ok \/ b_ok' = [b_ok EXCEPT ![am.req.tag[1]] = am.ok]
    BY DEF AmReply
  <2>3. QED
    BY <2>1, <2>2
<1>3. NameType' /\ "loop" \in AmPlace
  BY <1>1 DEF BackInv, NameType, AmPlace
<1>4. PlaceType' /\ am'.at = "loop"
  BY <1>1, <1>3, WorkingPlace
<1>5. WorkInv' /\ ~Waits' /\ ~Waits
  BY <1>1, <1>4 DEF WorkInv, Waits
<1>6. AppType' /\ AnswerType' /\ am_sem = 0
  BY <1>1, <1>2, <1>5 DEF BackInv, AppType, AnswerType, AnswerInv
<1>7. ThreadInv'
  BY <1>1 DEF BackInv, ThreadInv
<1>8. KnownInv'
  BY <1>1, <1>5 DEF BackInv, KnownInv
<1>9. AnswerInv'
  BY <1>1, <1>5, <1>6 DEF BackInv, AnswerInv
<1>10. QED
  BY <1>3, <1>4, <1>5, <1>6, <1>7, <1>8, <1>9 DEF BackInv

\* _am_dispatch_msg, to the manager itself.
LEMMA BackSendSelf ==
  ASSUME FrontInv, BackInv, AmSendSelf
  PROVE  BackInv'
<1>1. am.at = "self" /\ Quiet
  BY DEF AmSendSelf, AmIdleVars, clientVars, Quiet
<1>2. ~Waits /\ am.at # "thread"
  BY <1>1 DEF Waits
<1>3. CASE am' = Finished(TRUE) \/ am' = Finished(FALSE)
  BY <1>1, <1>2, <1>3, QuietEnds DEF Finished
<1>4. CASE am.retry # MaxRetry /\ am' = [am EXCEPT !.retry = @ + 1]
  BY <1>1, <1>2, <1>4, QuietRetries
<1>5. QED
  BY <1>3, <1>4 DEF AmSendSelf, TryAgain

\* _am_dispatch_msg, to an application.
LEMMA BackSendMsg ==
  ASSUME FrontInv, BackInv, AmSendMsg
  PROVE  BackInv'
<1>1. am.at = "dispatch" /\ ~Waits /\ am.at # "thread"
  BY DEF AmSendMsg, Waits
<1>2. CASE UNCHANGED queue /\ am' = TryAgain(Finished(FALSE))
  <2>1. Quiet
    BY <1>2 DEF AmSendMsg, clientVars, Quiet, appVars
  <2>2. CASE am' = Finished(FALSE)
    BY <1>1, <2>1, <2>2, QuietEnds DEF Finished
  <2>3. CASE am.retry # MaxRetry /\ am' = [am EXCEPT !.retry = @ + 1]
    BY <1>1, <2>1, <2>3, QuietRetries
  <2>4. QED
    BY <1>2, <2>2, <2>3 DEF TryAgain
<1>3. CASE Reachable(Target) /\ Put(Target, "MSG") /\ am' = Finished(TRUE)
  <2>1. Target \in Instances
    BY <1>1 DEF BackInv, WorkInv, NameType, Target
  <2>2. PutsMsg(Target)
    BY <1>3, <2>1 DEF AmSendMsg, PutsMsg, clientVars
  <2>3. NameType'
    BY <2>2 DEF BackInv, NameType, PutsMsg
  <2>4. PlaceType' /\ WorkInv' /\ am'.at = "reply"
    BY <1>3, <2>3, Replies DEF Finished
  <2>5. ~Waits'
    BY <2>4 DEF Waits
  <2>6. QED
    BY <1>1, <2>2, <2>4, <2>5, PutsMsgStep DEF BackInv
<1>4. QED
  BY <1>2, <1>3 DEF AmSendMsg, Target

\* _am_broadcast_msg, one application.
LEMMA BackCast ==
  ASSUME FrontInv, BackInv, AmCast
  PROVE  BackInv'
<1>1. am.at = "cast" /\ ~Waits /\ am.at # "thread"
  BY DEF AmCast, Waits
<1>2. /\ am.id \in 1 .. Len(ah_app) /\ Target \in Instances \cup {0}
      /\ Len(as_app_name) \in Nat /\ Len(as_app_name) = Len(ah_app)
  BY <1>1 DEF BackInv, WorkInv, NameType, Target
<1>3. as_app_name' = as_app_name /\ ah_app' = ah_app
  BY DEF AmCast
<1>4. ASSUME NEW ok \in BOOLEAN, am' = Cast(am.id - 1, ok)
      PROVE  PlaceType' /\ WorkInv' /\ ~Waits'
  <2> DEFINE n == am.id - 1
             p == IF n = 0 THEN "reply" ELSE "cast"
  <2>1. n \in 0 .. Len(as_app_name') /\ (n # 0 => n \in 1 .. Len(ah_app'))
    BY <1>2, <1>3
  <2>2. p \in {"reply", "cast"} /\ (p = "cast" => n # 0)
    OBVIOUS
  <2>3. am' = [am EXCEPT !.at = p, !.id = n, !.ok = ok, !.retry = 0]
    BY <1>4 DEF Cast
  <2> HIDE DEF n, p
  <2>4. am'.at = p /\ am'.id = n /\ am'.ok = ok /\ am'.retry = 0 /\ am'.h = am.h
    BY <2>3 DEF FrontInv, AmRecord
  <2>5. am'.ok \in BOOLEAN
    BY <2>4, Zenon
  <2>6. 0 \in 0 .. MaxRetry /\ am.h \in Instances \cup {0} /\ p \in AmPlace
    BY <2>2, AppManagerAssumption DEF BackInv, PlaceType, AmPlace
  <2>7. PlaceType'
    BY <2>1, <2>4, <2>5, <2>6, Zenon DEF PlaceType
  <2>8. WorkInv' /\ ~Waits'
    BY <2>1, <2>2, <2>4 DEF WorkInv, Waits
  <2>9. QED
    BY <2>7, <2>8
<1>5. am.ok \in BOOLEAN
  BY DEF BackInv, PlaceType
<1>6. CASE UNCHANGED queue
  <2>1. Quiet
    BY <1>6 DEF AmCast, clientVars, Quiet, appVars
  <2>2. ASSUME NEW ok \in BOOLEAN, am' = Cast(am.id - 1, ok) PROVE BackInv'
    BY <1>1, <1>4, <2>1, <2>2, QuietStep DEF BackInv
  <2>3. CASE am' = Cast(am.id - 1, am.ok)
    BY <1>5, <2>2, <2>3
  <2>4. CASE am' = TryAgain(Cast(am.id - 1, FALSE))
    <3>1. CASE am' = Cast(am.id - 1, FALSE)
      BY <2>2, <3>1
    <3>2. CASE am.retry # MaxRetry /\ am' = [am EXCEPT !.retry = @ + 1]
      BY <1>1, <2>1, <3>2, QuietRetries
    <3>3. QED
      BY <2>4, <3>1, <3>2 DEF TryAgain
  <2>5. CASE am' = Cast(am.id - 1, TRUE)
    BY <2>2, <2>5
  <2>6. QED
    BY <1>6, <2>3, <2>4, <2>5 DEF AmCast
<1>7. CASE Target # 0 /\ Reachable(Target) /\ Put(Target, "MSG") /\ am' = Cast(am.id - 1, TRUE)
  <2>1. PutsMsg(Target)
    BY <1>2, <1>7 DEF AmCast, PutsMsg, clientVars
  <2>2. PlaceType' /\ WorkInv' /\ ~Waits'
    BY <1>4, <1>7
  <2>3. QED
    BY <1>1, <2>1, <2>2, PutsMsgStep DEF BackInv
<1>8. QED
  BY <1>6, <1>7 DEF AmCast, Target

\* _app_start: the queue, of an instance no handle is of.
LEMMA BackCreateQueue ==
  ASSUME FrontInv, BackInv, AmCreateQueue
  PROVE  BackInv'
<1>1. /\ am.at = "create" /\ ~Waits /\ am.at # "thread"
      /\ UNCHANGED <<b_ok, as_app_name, ah_app, am_sem, am_b_ok, queue, valid, thread>>
  BY DEF AmCreateQueue, Waits, clientVars
<1>2. CASE am' = Finished(FALSE) /\ UNCHANGED <<app_of, queues>>
  <2>1. Quiet
    BY <1>1, <1>2 DEF Quiet, appVars
  <2>2. QED
    BY <1>1, <1>2, <2>1, QuietEnds DEF Finished
<1>3. ASSUME NEW h \in Instances, thread[h] = "none",
             am' = [am EXCEPT !.at = "thread", !.h = h],
             app_of' = [app_of EXCEPT ![h] = am.req.app],
             queues' = queues \cup {h}
      PROVE  BackInv'
  <2>1. /\ am'.at = "thread" /\ am'.h = h /\ am'.req = am.req /\ am'.id = am.id
        /\ am'.ok = am.ok /\ am'.retry = am.retry
    BY <1>3 DEF FrontInv, AmRecord
  <2>2. PlaceType'
    BY <1>1, <1>3, <2>1, Zenon DEF BackInv, PlaceType, AmPlace
  <2>3. ~Waits' /\ am_sem = 0
    BY <1>1, <2>1 DEF Waits, BackInv, AnswerInv
  <2>4. NameType' /\ AnswerType'
    BY <1>1 DEF BackInv, NameType, AnswerType
  <2>5. am.req.app \in Apps \cup {APP_MNGR_NAME}
    BY DEF FrontInv, Request
  <2>6. /\ app_of' \in [Instances -> Apps \cup {APP_MNGR_NAME}]
        /\ app_of'[h] = am.req.app /\ \A g \in Instances : g # h => app_of'[g] = app_of[g]
    BY <1>3, <2>5 DEF BackInv, AppType
  <2>7. AppType'
    BY <1>1, <1>3, <2>6 DEF BackInv, AppType
  <2>8. ThreadInv'
    BY <1>1, <1>3, <2>1 DEF BackInv, ThreadInv
  <2>9. \A i \in 1 .. Len(ah_app) : ah_app[i] # 0 => ah_app[i] # h /\ ah_app[i] \in Instances
    BY <1>3 DEF BackInv, KnownInv, NameType
  <2>10. KnownInv'
    BY <1>1, <2>3, <2>6, <2>9 DEF BackInv, KnownInv
  <2>11. WorkInv'
    BY <1>1, <1>3, <2>1, <2>6 DEF BackInv, WorkInv, Target
  <2>12. AnswerInv'
    BY <1>1, <2>3 DEF BackInv, AnswerInv
  <2>13. QED
    BY <2>2, <2>4, <2>7, <2>8, <2>10, <2>11, <2>12 DEF BackInv
<1>4. QED
  BY <1>2, <1>3 DEF AmCreateQueue

\* The new handle is not 0 and the manager's handles are sequences of them.
LEMMA HandleStored ==
  ASSUME NameType, NEW n \in 1 .. Len(ah_app), NEW h \in Instances \cup {0},
         ah_app' = [ah_app EXCEPT ![n] = h]
  PROVE  /\ ah_app' \in Seq(Instances \cup {0}) /\ Len(ah_app') = Len(ah_app)
         /\ ah_app'[n] = h
         /\ \A i \in 1 .. Len(ah_app) : i # n => ah_app'[i] = ah_app[i]
BY DEF NameType

\* _app_start: the handle and the thread, or neither.
LEMMA BackCreateThread ==
  ASSUME FrontInv, BackInv, AmCreateThread
  PROVE  BackInv'
<1>1. /\ am.at = "thread" /\ ~Waits
      /\ UNCHANGED <<b_ok, as_app_name, am_sem, am_b_ok, app_of, queue>>
  BY DEF AmCreateThread, Waits, clientVars
<1>2. /\ am.id \in 1 .. Len(ah_app) /\ Target = 0 /\ as_app_name[am.id] = am.req.app
      /\ am.h \in Instances /\ am.h \in queues
      /\ thread[am.h] = "none" /\ app_of[am.h] = am.req.app
  BY <1>1 DEF BackInv, WorkInv
<1>3. queue[am.h] = <<>> /\ am.h \notin valid
  BY <1>2 DEF BackInv, ThreadInv
<1>4. \A i \in 1 .. Len(ah_app) : ah_app[i] # 0 => ah_app[i] # am.h /\ ah_app[i] \in Instances
  BY <1>2 DEF BackInv, KnownInv, NameType
<1>5. am_sem = 0
  BY <1>1 DEF BackInv, AnswerInv
<1>6. AnswerType'
  BY <1>1 DEF BackInv, AnswerType
<1>7. CASE /\ am' = Finished(FALSE) /\ queues' = queues \ {am.h}
           /\ thread' = [thread EXCEPT ![am.h] = "gone"]
           /\ UNCHANGED <<ah_app, valid>>
  <2>1. /\ thread' \in [Instances -> ThreadPlace] /\ thread'[am.h] = "gone"
        /\ \A g \in Instances : g # am.h => thread'[g] = thread[g]
    BY <1>2, <1>7 DEF BackInv, AppType, ThreadPlace
  <2>2. NameType' /\ AppType'
    BY <1>1, <1>7, <2>1 DEF BackInv, NameType, AppType
  <2>3. PlaceType' /\ WorkInv' /\ am'.at = "reply"
    BY <1>7, <2>2, Replies DEF Finished
  <2>4. ~Waits'
    BY <2>3 DEF Waits
  <2>5. ThreadInv'
    BY <1>1, <1>2, <1>3, <1>7, <2>1 DEF BackInv, ThreadInv
  <2>6. KnownInv'
    BY <1>1, <1>4, <1>5, <1>7, <2>1 DEF BackInv, KnownInv
  <2>7. AnswerInv'
    BY <1>1, <1>5, <2>1, <2>4 DEF BackInv, AnswerInv
  <2>8. QED
    BY <1>6, <2>2, <2>3, <2>5, <2>6, <2>7 DEF BackInv
<1>8. CASE /\ am' = [am EXCEPT !.at = "init"] /\ valid' = valid \cup {am.h}
           /\ ah_app' = [ah_app EXCEPT ![am.id] = am.h]
           /\ thread' = [thread EXCEPT ![am.h] = "loop"]
           /\ UNCHANGED queues
  <2>1. /\ thread' \in [Instances -> ThreadPlace] /\ thread'[am.h] = "loop"
        /\ \A g \in Instances : g # am.h => thread'[g] = thread[g]
    BY <1>2, <1>8 DEF BackInv, AppType, ThreadPlace
  <2>2. /\ ah_app' \in Seq(Instances \cup {0}) /\ Len(ah_app') = Len(ah_app)
        /\ ah_app'[am.id] = am.h
        /\ \A i \in 1 .. Len(ah_app) : i # am.id => ah_app'[i] = ah_app[i]
    BY <1>2, <1>8, HandleStored DEF BackInv
  <2>3. NameType' /\ AppType'
    BY <1>1, <1>2, <1>8, <2>1, <2>2 DEF BackInv, NameType, AppType
  <2>4. /\ am'.at = "init" /\ am'.h = am.h /\ am'.id = am.id
        /\ am'.ok = am.ok /\ am'.retry = am.retry
    BY <1>8 DEF FrontInv, AmRecord
  <2>5. PlaceType'
    BY <1>1, <2>4, Zenon DEF BackInv, PlaceType, AmPlace
  <2>6. ~Waits'
    BY <2>4 DEF Waits
  <2>7. ThreadInv'
    BY <1>1, <1>2, <1>3, <1>8, <2>1 DEF BackInv, ThreadInv
  <2>8. KnownInv'
    <3>1. \A i \in 1 .. Len(ah_app') : ah_app'[i] # 0 =>
            \/ i = am.id /\ ah_app'[i] = am.h
            \/ i # am.id /\ ah_app'[i] = ah_app[i] /\ ah_app[i] # 0 /\ ah_app[i] # am.h
               /\ ah_app[i] \in Instances
      BY <1>4, <2>2
    <3>2. \A i \in 1 .. Len(ah_app') : ah_app'[i] # 0 =>
            app_of[ah_app'[i]] = as_app_name[i] /\ thread'[ah_app'[i]] = "loop"
      <4>1. \A i \in 1 .. Len(ah_app) : ah_app[i] # 0 =>
              app_of[ah_app[i]] = as_app_name[i] /\ thread[ah_app[i]] = "loop"
        BY <1>1 DEF BackInv, KnownInv
      <4>2. QED
        BY <1>2, <2>1, <2>2, <3>1, <4>1
    <3>3. \A i, j \in 1 .. Len(ah_app') : ah_app'[i] # 0 /\ ah_app'[i] = ah_app'[j] => i = j
      <4>1. \A i, j \in 1 .. Len(ah_app) : ah_app[i] # 0 /\ ah_app[i] = ah_app[j] => i = j
        BY DEF BackInv, KnownInv
      <4>2. QED
        BY <2>2, <3>1, <4>1
    <3>4. \A g \in Instances : thread'[g] = "loop" => \E i \in 1 .. Len(ah_app') : ah_app'[i] = g
      <4>1. \A g \in Instances : thread[g] = "loop" => \E i \in 1 .. Len(ah_app) : ah_app[i] = g
        BY DEF BackInv, KnownInv
      <4>2. ASSUME NEW g \in Instances, thread'[g] = "loop"
            PROVE  \E i \in 1 .. Len(ah_app') : ah_app'[i] = g
        <5>1. CASE g = am.h
          BY <1>2, <2>2, <5>1
        <5>2. CASE g # am.h
          <6>1. PICK i \in 1 .. Len(ah_app) : ah_app[i] = g
            BY <2>1, <4>1, <4>2, <5>2
          <6>2. i # am.id
            BY <1>2, <6>1, NullIsNone DEF Target
          <6>3. QED
            BY <2>2, <6>1, <6>2
        <5>3. QED
          BY <5>1, <5>2
      <4>3. QED
        BY <4>2
    <3>5. QED
      BY <1>1, <3>2, <3>3, <3>4 DEF KnownInv
  <2>9. WorkInv'
    BY <1>1, <1>2, <1>3, <2>1, <2>2, <2>4 DEF WorkInv, Target
  <2>10. AnswerInv'
    <3>1. \A g \in Instances : thread[g] = "loop" => \A i \in 1 .. Len(queue[g]) : queue[g][i] = "MSG"
      BY <1>1 DEF BackInv, AnswerInv
    <3>2. Len(queue[am.h]) = 0
      BY <1>3
    <3>3. \A g \in Instances : thread'[g] = "loop" => \A i \in 1 .. Len(queue[g]) : queue[g][i] = "MSG"
      BY <2>1, <3>1, <3>2
    <3>4. QED
      BY <1>1, <1>5, <2>6, <3>3 DEF AnswerInv
  <2>11. QED
    BY <1>6, <2>3, <2>5, <2>7, <2>8, <2>9, <2>10 DEF BackInv
<1>9. QED
  BY <1>7, <1>8 DEF AmCreateThread

\* The manager gives its target a command and begins to wait.
LEMMA Asks ==
  ASSUME BackInv, ~Waits, am.at # "thread", am.id \in 1 .. Len(ah_app),
         Target \in Instances, thread[Target] = "loop", Len(queue[Target]) < AppCap,
         NEW m \in {"INIT", "EXIT"}, Put(Target, m), Command' = m, Waits', am'.id = am.id,
         am_b_ok' = FALSE,
         UNCHANGED <<b_ok, as_app_name, ah_app, am_sem, app_of, queues, valid, thread>>
  PROVE  /\ NameType' /\ AppType' /\ AnswerType'
         /\ ThreadInv' /\ KnownInv' /\ WorkInv' /\ AnswerInv'
<1> DEFINE h == Target
<1>1. Target' = h
  BY DEF Target
<1>2. /\ h \in Instances /\ thread[h] = "loop" /\ Len(queue[h]) < AppCap /\ Put(h, m)
  OBVIOUS
<1>3. h # 0
  BY <1>2, NullIsNone
<1> HIDE DEF h
<1>4. /\ queue' \in [Instances -> Seq({"INIT", "EXIT", "MSG"})]
      /\ \A g \in Instances : g # h => queue'[g] = queue[g]
      /\ Len(queue[h]) \in Nat
      /\ Len(queue'[h]) = Len(queue[h]) + 1 /\ queue'[h][Len(queue[h]) + 1] = m
      /\ queue'[h] # <<>>
      /\ \A i \in 1 .. Len(queue[h]) : queue'[h][i] = queue[h][i]
  BY <1>2, PutShape DEF BackInv
<1>5. AppType'
  <2>1. Len(queue'[h]) <= AppCap
    BY <1>2, <1>4, AppManagerAssumption
  <2>2. QED
    BY <1>2, <1>4, <2>1 DEF BackInv, AppType
<1>6. NameType'
  BY DEF BackInv, NameType
<1>7. AnswerType'
  BY DEF BackInv, AnswerType
<1>8. am_sem = 0
  BY DEF BackInv, AnswerInv
<1>9. ThreadInv'
  BY <1>2, <1>4 DEF BackInv, ThreadInv
<1>10. KnownInv'
  BY <1>8 DEF BackInv, KnownInv
<1>11. WorkInv'
  BY <1>1, <1>3 DEF WorkInv, Waits
<1>12. AnswerInv'
  <2>1. \A g \in Instances : thread[g] = "loop" => \A i \in 1 .. Len(queue[g]) : queue[g][i] = "MSG"
    BY DEF BackInv, AnswerInv
  <2>2. \A i \in 1 .. Len(queue'[h]) : i \in 1 .. Len(queue[h]) \/ i = Len(queue'[h])
    BY <1>4
  <2>3. \A g \in Instances : thread[g] = "loop" =>
          \A i \in 1 .. Len(queue'[g]) : queue'[g][i] # "MSG" => g = h /\ i = Len(queue'[g])
    BY <1>2, <1>4, <2>1, <2>2
  <2>4. thread' = thread /\ am_sem' = 0
    BY <1>8
  <2>5. queue'[h][Len(queue'[h])] = m /\ queue'[h] # <<>>
    BY <1>4
  <2>6. QED
    BY <1>1, <1>2, <2>3, <2>4, <2>5 DEF AnswerInv
<1>13. QED
  BY <1>5, <1>6, <1>7, <1>9, <1>10, <1>11, <1>12

\* _am_start_app asks for pf_init.
LEMMA BackSendInit ==
  ASSUME FrontInv, BackInv, AmSendInit
  PROVE  BackInv'
<1>1. /\ am.at = "init" /\ ~Waits /\ am.at # "thread" /\ Put(am.h, "INIT")
      /\ am' = [am EXCEPT !.at = "wait_init"] /\ am_b_ok' = FALSE
      /\ UNCHANGED <<b_ok, as_app_name, ah_app, am_sem, app_of, queues, valid, thread>>
  BY DEF AmSendInit, Waits, clientVars
<1>2. /\ am.id \in 1 .. Len(ah_app) /\ Target = am.h /\ am.h \in Instances
      /\ thread[am.h] = "loop" /\ queue[am.h] = <<>>
  BY <1>1 DEF BackInv, WorkInv
<1>3. Len(queue[am.h]) < AppCap
  BY <1>2, AppManagerAssumption
<1>4. /\ am'.at = "wait_init" /\ am'.h = am.h /\ am'.id = am.id
      /\ am'.ok = am.ok /\ am'.retry = am.retry
  BY <1>1 DEF FrontInv, AmRecord
<1>5. PlaceType'
  BY <1>1, <1>4, Zenon DEF BackInv, PlaceType, AmPlace
<1>6. Waits' /\ Command' = "INIT"
  BY <1>4 DEF Waits, Command
<1>7. QED
  BY <1>1, <1>2, <1>3, <1>4, <1>5, <1>6, Asks DEF BackInv

\* _am_exit_app asks for pf_exit.
LEMMA BackSendExit ==
  ASSUME FrontInv, BackInv, AmSendExit
  PROVE  BackInv'
<1>1. /\ am.at = "exit" /\ ~Waits /\ am.at # "thread"
      /\ UNCHANGED <<b_ok, as_app_name, ah_app, am_sem, app_of, queues, valid, thread>>
  BY DEF AmSendExit, Waits, clientVars
<1>2. CASE UNCHANGED <<queue, am_b_ok>> /\ am' = TryAgain(Finished(FALSE))
  <2>1. Quiet
    BY <1>1, <1>2 DEF Quiet, appVars
  <2>2. CASE am' = Finished(FALSE)
    BY <1>1, <2>1, <2>2, QuietEnds DEF Finished
  <2>3. CASE am.retry # MaxRetry /\ am' = [am EXCEPT !.retry = @ + 1]
    BY <1>1, <2>1, <2>3, QuietRetries
  <2>4. QED
    BY <1>2, <2>2, <2>3 DEF TryAgain
<1>3. CASE /\ Reachable(Target) /\ Put(Target, "EXIT") /\ am_b_ok' = FALSE
           /\ am' = [am EXCEPT !.at = "wait_exit", !.retry = 0]
  <2>1. am.id \in 1 .. Len(ah_app) /\ Target # 0
    BY <1>1 DEF BackInv, WorkInv
  <2>2. Target \in Instances /\ thread[Target] = "loop"
    BY <1>1, <2>1 DEF BackInv, KnownInv, NameType, Target
  <2>3. Len(queue[Target]) < AppCap
    BY <1>3 DEF Reachable
  <2>4. /\ am'.at = "wait_exit" /\ am'.h = am.h /\ am'.id = am.id
        /\ am'.ok = am.ok /\ am'.retry = 0
    BY <1>3 DEF FrontInv, AmRecord
  <2>5. 0 \in 0 .. MaxRetry
    BY AppManagerAssumption
  <2>6. PlaceType'
    BY <1>1, <2>4, <2>5, Zenon DEF BackInv, PlaceType, AmPlace
  <2>7. Waits' /\ Command' = "EXIT"
    BY <2>4 DEF Waits, Command
  <2>8. QED
    BY <1>1, <1>3, <2>1, <2>2, <2>3, <2>4, <2>6, <2>7, Asks DEF BackInv
<1>4. QED
  BY <1>2, <1>3 DEF AmSendExit, Target

\* A wait of the manager is over: its target's handle is kept if that runs.
LEMMA BackAwake ==
  ASSUME FrontInv, BackInv, AmWaitInit \/ AmWaitExit
  PROVE  BackInv'
<1>1. /\ Waits /\ am_sem > 0 /\ am_sem' = am_sem - 1
      /\ UNCHANGED <<b_ok, as_app_name, am_b_ok, app_of, queue, queues, valid, thread>>
  BY DEF AmWaitInit, AmWaitExit, AmAwake, Waits, clientVars, appVars
<1>2. am_sem = 1 /\ am_sem' = 0
  BY <1>1 DEF BackInv, AnswerType
<1>3. am.id \in 1 .. Len(ah_app) /\ Target # 0 /\ am.at # "thread"
  BY <1>1 DEF BackInv, WorkInv, Waits
<1>4. am' = Finished(TRUE) \/ am' = Finished(am_b_ok)
  BY DEF AmWaitInit, AmWaitExit
<1>5. am_b_ok \in BOOLEAN
  BY DEF BackInv, AnswerType
<1>6. AppType' /\ AnswerType'
  BY <1>1, <1>2 DEF BackInv, AppType, AnswerType
<1>7. ThreadInv'
  BY <1>1, <1>3 DEF BackInv, ThreadInv
<1>8. \/ ah_app' = ah_app /\ thread[Target] = "loop"
      \/ ah_app' = [ah_app EXCEPT ![am.id] = 0] /\ thread[Target] # "loop"
  BY <1>1, <1>2 DEF AmWaitInit, AmWaitExit, AmAwake, Forget, BackInv, AnswerInv
<1>9. /\ ah_app' \in Seq(Instances \cup {0}) /\ Len(ah_app') = Len(ah_app)
      /\ \A i \in 1 .. Len(ah_app) : i # am.id => ah_app'[i] = ah_app[i]
      /\ \/ ah_app'[am.id] = Target /\ thread[Target] = "loop"
         \/ ah_app'[am.id] = 0 /\ thread[Target] # "loop"
  <2>1. CASE ah_app' = ah_app /\ thread[Target] = "loop"
    BY <2>1 DEF BackInv, NameType, Target
  <2>2. CASE ah_app' = [ah_app EXCEPT ![am.id] = 0] /\ thread[Target] # "loop"
    BY <1>3, <2>2, HandleStored DEF BackInv
  <2>3. QED
    BY <1>8, <2>1, <2>2
<1>10. NameType'
  BY <1>1, <1>9 DEF BackInv, NameType
<1>11. PlaceType' /\ WorkInv' /\ am'.at = "reply"
  BY <1>4, <1>5, <1>10, Replies DEF Finished
<1>12. ~Waits'
  BY <1>11 DEF Waits
<1>13. KnownInv'
  <2>1. \A i \in 1 .. Len(ah_app') : ah_app'[i] # 0 => ah_app'[i] = ah_app[i] /\ i \in 1 .. Len(ah_app)
    BY <1>9 DEF Target
  <2>2. \A i \in 1 .. Len(ah_app') : ah_app'[i] # 0 =>
          app_of[ah_app'[i]] = as_app_name[i] /\ thread[ah_app'[i]] = "loop"
    BY <1>9, <2>1 DEF BackInv, KnownInv, Target
  <2>3. \A i, j \in 1 .. Len(ah_app') : ah_app'[i] # 0 /\ ah_app'[i] = ah_app'[j] => i = j
    BY <2>1 DEF BackInv, KnownInv
  <2>4. \A g \in Instances : thread[g] = "loop" => \E i \in 1 .. Len(ah_app') : ah_app'[i] = g
    BY <1>9 DEF BackInv, KnownInv, Target
  <2>5. QED
    BY <1>1, <2>2, <2>3, <2>4 DEF KnownInv
<1>14. AnswerInv'
  <2>1. \A g \in Instances : thread[g] = "loop" => \A i \in 1 .. Len(queue[g]) : queue[g][i] = "MSG"
    BY <1>2 DEF BackInv, AnswerInv
  <2>2. QED
    BY <1>1, <1>2, <1>12, <2>1 DEF AnswerInv
<1>15. QED
  BY <1>6, <1>7, <1>10, <1>11, <1>13, <1>14 DEF BackInv

\* What Tail leaves of a sequence.
LEMMA TailShape ==
  ASSUME NEW S, NEW q \in Seq(S), q # <<>>
  PROVE  /\ Tail(q) \in Seq(S)
         /\ Head(q) = q[1] /\ 1 \in 1 .. Len(q) /\ Len(q) \in Nat /\ Len(Tail(q)) = Len(q) - 1
         /\ \A i \in 1 .. Len(Tail(q)) : i + 1 \in 1 .. Len(q) /\ Tail(q)[i] = q[i + 1]
         /\ Len(Tail(q)) # 0 => Tail(q) # <<>>
<1>1. Len(q) \in Nat /\ Len(q) # 0
  OBVIOUS
<1>2. Tail(q) \in Seq(S) /\ Head(q) = q[1] /\ Len(Tail(q)) = Len(q) - 1
  OBVIOUS
<1>3. \A i \in 1 .. Len(Tail(q)) : Tail(q)[i] = q[i + 1]
  OBVIOUS
<1>4. Len(Tail(q)) # 0 => Tail(q) # <<>>
  BY EmptySeq, Zenon
<1>5. 1 \in 1 .. Len(q) /\ \A i \in 1 .. Len(Tail(q)) : i + 1 \in 1 .. Len(q)
  BY <1>1, <1>2
<1>6. QED
  BY <1>1, <1>2, <1>3, <1>4, <1>5

\* What Handles does to the queue of instance h.
LEMMA HandlesShape ==
  ASSUME AppType, NEW h \in Instances, queue[h] # <<>>, queue' = [queue EXCEPT ![h] = Tail(@)]
  PROVE  /\ queue' \in [Instances -> Seq({"INIT", "EXIT", "MSG"})]
         /\ \A g \in Instances : g # h => queue'[g] = queue[g]
         /\ Head(queue[h]) = queue[h][1] /\ 1 \in 1 .. Len(queue[h])
         /\ Len(queue[h]) \in Nat /\ Len(queue'[h]) = Len(queue[h]) - 1
         /\ \A i \in 1 .. Len(queue'[h]) : i + 1 \in 1 .. Len(queue[h]) /\ queue'[h][i] = queue[h][i + 1]
         /\ Len(queue'[h]) # 0 => queue'[h] # <<>>
         /\ \A g \in Instances : Len(queue'[g]) <= AppCap
<1>1. queue[h] \in Seq({"INIT", "EXIT", "MSG"}) /\ Len(queue[h]) <= AppCap
  BY DEF AppType
<1>2. /\ queue'[h] = Tail(queue[h]) /\ \A g \in Instances : g # h => queue'[g] = queue[g]
      /\ queue' = [queue EXCEPT ![h] = Tail(queue[h])]
  BY DEF AppType
<1>3. Tail(queue[h]) \in Seq({"INIT", "EXIT", "MSG"})
  BY <1>1
<1>4. queue' \in [Instances -> Seq({"INIT", "EXIT", "MSG"})]
  BY <1>2, <1>3 DEF AppType
<1>5. /\ Head(queue[h]) = queue[h][1] /\ 1 \in 1 .. Len(queue[h])
      /\ Len(queue[h]) \in Nat /\ Len(queue'[h]) = Len(queue[h]) - 1
      /\ \A i \in 1 .. Len(queue'[h]) : i + 1 \in 1 .. Len(queue[h]) /\ queue'[h][i] = queue[h][i + 1]
      /\ Len(queue'[h]) # 0 => queue'[h] # <<>>
  <2> DEFINE q == queue[h]
             u == queue'[h]
  <2>1. q \in Seq({"INIT", "EXIT", "MSG"}) /\ q # <<>> /\ u = Tail(q)
    BY <1>1, <1>2
  <2> HIDE DEF q, u
  <2>2. /\ Head(q) = q[1] /\ 1 \in 1 .. Len(q) /\ Len(q) \in Nat /\ Len(u) = Len(q) - 1
        /\ \A i \in 1 .. Len(u) : i + 1 \in 1 .. Len(q) /\ u[i] = q[i + 1]
        /\ Len(u) # 0 => u # <<>>
    BY <2>1, TailShape
  <2>3. QED
    BY <2>2 DEF q, u
<1>6. Len(queue'[h]) <= AppCap
  BY <1>1, <1>5, AppManagerAssumption
<1>7. QED
  BY <1>2, <1>4, <1>5, <1>6 DEF AppType

\* The manager and its names stay; an application moves.
LEMMA AppStays ==
  ASSUME BackInv, UNCHANGED <<b_ok, am, as_app_name, ah_app>>
  PROVE  PlaceType' /\ NameType'
BY DEF BackInv, PlaceType, NameType

\* An application answers a command: it is the one the manager waits for.
LEMMA Answers ==
  ASSUME BackInv, NEW h \in Instances, NEW m \in {"INIT", "EXIT"}, Handles(h, m)
  PROVE  Waits /\ h = Target /\ am_sem = 0 /\ Len(queue[h]) = 1 /\ m = Command
<1>1. thread[h] = "loop" /\ queue[h] # <<>> /\ Head(queue[h]) = m
      /\ queue' = [queue EXCEPT ![h] = Tail(@)]
  BY DEF Handles
<1>2. queue[h][1] = m /\ 1 \in 1 .. Len(queue[h])
  BY <1>1, HandlesShape DEF BackInv
<1>3. Waits /\ h = Target /\ am_sem = 0 /\ 1 = Len(queue[h])
  BY <1>1, <1>2 DEF BackInv, AnswerInv
<1>4. queue[Target][Len(queue[Target])] = Command
  BY <1>3 DEF BackInv, AnswerInv
<1>5. QED
  BY <1>2, <1>3, <1>4

\* INIT or EXIT is handled and answered.
LEMMA BackAnswers ==
  ASSUME BackInv, NEW h \in Instances, NEW m \in {"INIT", "EXIT"}, Handles(h, m),
         NEW ok \in BOOLEAN, Notifies(ok), NEW p \in {"loop", "left"},
         thread' = [thread EXCEPT ![h] = p], p = "loop" <=> m = "INIT" /\ ok
  PROVE  BackInv'
<1>1. Waits /\ h = Target /\ am_sem = 0 /\ Len(queue[h]) = 1 /\ m = Command
  BY Answers
<1>2. /\ thread[h] = "loop" /\ queue[h] # <<>> /\ queue' = [queue EXCEPT ![h] = Tail(@)]
      /\ UNCHANGED <<b_ok, am, as_app_name, ah_app, app_of, queues, valid>>
      /\ am_sem' = am_sem + 1 /\ am_b_ok' = ok
  BY DEF Handles, Notifies, clientVars, amVars
<1>3. /\ queue' \in [Instances -> Seq({"INIT", "EXIT", "MSG"})]
      /\ \A g \in Instances : g # h => queue'[g] = queue[g]
      /\ Len(queue'[h]) = Len(queue[h]) - 1
      /\ \A g \in Instances : Len(queue'[g]) <= AppCap
  BY <1>2, HandlesShape DEF BackInv
<1>4. /\ thread' \in [Instances -> ThreadPlace] /\ thread'[h] = p
      /\ \A g \in Instances : g # h => thread'[g] = thread[g]
  BY DEF BackInv, AppType, ThreadPlace
<1>5. am_sem' = 1 /\ Len(queue'[h]) = 0
  BY <1>1, <1>2, <1>3
<1>6. PlaceType' /\ NameType'
  BY <1>2, AppStays
<1>7. AppType' /\ AnswerType'
  BY <1>2, <1>3, <1>4, <1>5 DEF BackInv, AppType, AnswerType
<1>8. ThreadInv'
  BY <1>2, <1>3, <1>4 DEF BackInv, ThreadInv
<1>9. am.id \in 1 .. Len(ah_app) /\ am.at # "init" /\ am.at # "thread" /\ Target # 0
  BY <1>1 DEF BackInv, WorkInv, Waits
<1>10. KnownInv'
  <2>1. \A i \in 1 .. Len(ah_app) : ah_app[i] # 0 =>
          /\ app_of[ah_app[i]] = as_app_name[i] /\ thread[ah_app[i]] = "loop"
          /\ ah_app[i] \in Instances /\ (ah_app[i] = h => i = am.id)
    BY <1>1, <1>9 DEF BackInv, KnownInv, NameType, Target
  <2>2. \A i \in 1 .. Len(ah_app) : ah_app[i] # 0 =>
          /\ app_of[ah_app[i]] = as_app_name[i] /\ thread'[ah_app[i]] # "none"
          /\ thread'[ah_app[i]] = "loop" \/ i = am.id
    BY <1>4, <2>1
  <2>3. /\ \A i, j \in 1 .. Len(ah_app) : ah_app[i] # 0 /\ ah_app[i] = ah_app[j] => i = j
        /\ \A g \in Instances : thread'[g] = "loop" => \E i \in 1 .. Len(ah_app) : ah_app[i] = g
    BY <1>2, <1>4 DEF BackInv, KnownInv
  <2>4. /\ Waits' /\ am'.id = am.id /\ ah_app' = ah_app /\ as_app_name' = as_app_name
        /\ app_of' = app_of
    BY <1>1, <1>2 DEF Waits
  <2>5. \A i \in 1 .. Len(ah_app') : ah_app'[i] # 0 =>
          /\ app_of'[ah_app'[i]] = as_app_name'[i] /\ thread'[ah_app'[i]] # "none"
          /\ thread'[ah_app'[i]] = "loop" \/ (Waits' /\ am'.id = i /\ am_sem' = 1)
    BY <1>5, <2>2, <2>4
  <2>6. QED
    BY <2>3, <2>4, <2>5 DEF KnownInv
<1>11. WorkInv'
  BY <1>2, <1>9 DEF BackInv, WorkInv, Target
<1>12. AnswerInv'
  <2>1. Waits' /\ Target' = h /\ (am.at = "wait_init" <=> m = "INIT")
    BY <1>1, <1>2 DEF Waits, Target, Command
  <2>2. \A g \in Instances : thread'[g] = "loop" => \A i \in 1 .. Len(queue'[g]) : queue'[g][i] = "MSG"
    <3>1. \A g \in Instances : g # h /\ thread[g] = "loop" =>
            \A i \in 1 .. Len(queue[g]) : queue[g][i] = "MSG"
      BY <1>1 DEF BackInv, AnswerInv
    <3>2. QED
      BY <1>3, <1>4, <1>5, <3>1
  <2>3. thread'[Target'] = "loop" <=> am'.at = "wait_init" /\ am_b_ok'
    <3>1. thread'[Target'] = p /\ am'.at = am.at /\ am_b_ok' = ok
      BY <1>2, <1>4, <2>1
    <3>2. QED
      BY <2>1, <3>1, Zenon
  <2>4. QED
    BY <1>5, <2>1, <2>2, <2>3 DEF AnswerInv
<1>13. QED
  BY <1>6, <1>7, <1>8, <1>10, <1>11, <1>12 DEF BackInv

\* A message is handled; a command behind it stays the last.
LEMMA BackAppMsg ==
  ASSUME BackInv, NEW h \in Instances, AppMsg(h)
  PROVE  BackInv'
<1>1. /\ thread[h] = "loop" /\ queue[h] # <<>> /\ queue' = [queue EXCEPT ![h] = Tail(@)]
      /\ Head(queue[h]) = "MSG"
      /\ UNCHANGED <<b_ok, am, as_app_name, ah_app, am_sem, am_b_ok, app_of, queues, valid, thread>>
  BY DEF AppMsg, Handles, clientVars, amVars
<1>2. /\ queue' \in [Instances -> Seq({"INIT", "EXIT", "MSG"})]
      /\ \A g \in Instances : g # h => queue'[g] = queue[g]
      /\ queue[h][1] = "MSG"
      /\ Len(queue[h]) \in Nat /\ Len(queue'[h]) = Len(queue[h]) - 1
      /\ \A i \in 1 .. Len(queue'[h]) : i + 1 \in 1 .. Len(queue[h]) /\ queue'[h][i] = queue[h][i + 1]
      /\ Len(queue'[h]) # 0 => queue'[h] # <<>>
      /\ 1 \in 1 .. Len(queue[h])
      /\ \A g \in Instances : Len(queue'[g]) <= AppCap
  BY <1>1, HandlesShape DEF BackInv
<1>3. PlaceType' /\ NameType'
  BY <1>1, AppStays
<1>4. AppType' /\ AnswerType'
  BY <1>1, <1>2 DEF BackInv, AppType, AnswerType
<1>5. ThreadInv'
  BY <1>1, <1>2 DEF BackInv, ThreadInv
<1>6. KnownInv'
  BY <1>1 DEF BackInv, KnownInv, Waits
<1>7. WorkInv'
  BY <1>1, <1>2 DEF BackInv, WorkInv, Target
<1>8. AnswerInv'
  <2>1. Waits' = Waits /\ Target' = Target /\ Command' = Command
    BY <1>1 DEF Waits, Target, Command
  <2>2. \A g \in Instances : thread[g] = "loop" =>
          \A i \in 1 .. Len(queue'[g]) : queue'[g][i] # "MSG" =>
            Waits /\ g = Target /\ am_sem = 0 /\ i = Len(queue'[g])
    <3>1. ASSUME NEW i \in 1 .. Len(queue'[h]), queue'[h][i] # "MSG"
          PROVE  Waits /\ h = Target /\ am_sem = 0 /\ i = Len(queue'[h])
      <4>1. i + 1 \in 1 .. Len(queue[h]) /\ queue[h][i + 1] # "MSG"
        BY <1>2, <3>1
      <4>2. Waits /\ h = Target /\ am_sem = 0 /\ i + 1 = Len(queue[h])
        BY <1>1, <4>1 DEF BackInv, AnswerInv
      <4>3. QED
        BY <1>2, <4>2
    <3>2. \A g \in Instances : g # h /\ thread[g] = "loop" =>
            \A i \in 1 .. Len(queue'[g]) : queue'[g][i] # "MSG" =>
              Waits /\ g = Target /\ am_sem = 0 /\ i = Len(queue'[g])
      BY <1>2 DEF BackInv, AnswerInv
    <3>3. QED
      BY <3>1, <3>2
  <2>3. Waits /\ am_sem = 0 => /\ thread[Target] = "loop" /\ queue'[Target] # <<>>
                              /\ queue'[Target][Len(queue'[Target])] = Command
    <3> SUFFICES ASSUME Waits, am_sem = 0
                 PROVE  /\ thread[Target] = "loop" /\ queue'[Target] # <<>>
                        /\ queue'[Target][Len(queue'[Target])] = Command
      OBVIOUS
    <3>1. /\ thread[Target] = "loop" /\ queue[Target] # <<>>
          /\ queue[Target][Len(queue[Target])] = Command
      BY DEF BackInv, AnswerInv
    <3>2. CASE Target = h
      <4>1. Command # "MSG"
        BY DEF Command
      <4>2. Len(queue[h]) # 1
        BY <1>2, <3>1, <3>2, <4>1
      <4>3. Len(queue'[h]) \in 1 .. Len(queue'[h]) /\ Len(queue'[h]) + 1 = Len(queue[h])
        BY <1>2, <4>2
      <4>4. queue'[h][Len(queue'[h])] = queue[h][Len(queue[h])] /\ queue'[h] # <<>>
        BY <1>2, <4>3
      <4>5. QED
        BY <3>1, <3>2, <4>4
    <3>3. CASE Target # h
      <4>1. Target \in Instances
        BY DEF BackInv, WorkInv, NameType, Waits, Target
      <4>2. QED
        BY <1>2, <3>1, <3>3, <4>1
    <3>4. QED
      BY <3>2, <3>3
  <2>4. /\ ~Waits => am_sem = 0
        /\ Waits /\ am_sem = 1 =>
             (thread[Target] = "loop" <=> (am.at = "wait_init" /\ am_b_ok))
    BY DEF BackInv, AnswerInv
  <2>5. QED
    BY <1>1, <2>1, <2>2, <2>3, <2>4 DEF AnswerInv
<1>9. QED
  BY <1>3, <1>4, <1>5, <1>6, <1>7, <1>8 DEF BackInv

\* Out of the message loop: an instance that has left gives back what it has.
LEMMA BackGoes ==
  ASSUME BackInv, NEW h \in Instances, AppDeleteQueue(h) \/ AppCleanUp(h) \/ AppThreadEnds(h)
  PROVE  BackInv'
<1>1. /\ thread[h] \in {"left", "no_queue", "no_handle"}
      /\ thread'[h] \in {"no_queue", "no_handle", "gone"}
      /\ thread' \in [Instances -> ThreadPlace]
      /\ \A g \in Instances : g # h => thread'[g] = thread[g]
      /\ UNCHANGED <<b_ok, am, as_app_name, ah_app, am_sem, am_b_ok, app_of>>
  BY DEF AppDeleteQueue, AppCleanUp, AppThreadEnds, Goes, BackInv, AppType, ThreadPlace,
     clientVars, amVars
<1>2. /\ queue' \in [Instances -> Seq({"INIT", "EXIT", "MSG"})]
      /\ \A g \in Instances : g # h => queue'[g] = queue[g]
      /\ \A g \in Instances : Len(queue'[g]) <= AppCap
  <2>1. CASE queue' = [queue EXCEPT ![h] = <<>>]
    <3>1. <<>> \in Seq({"INIT", "EXIT", "MSG"}) /\ Len(<<>>) <= AppCap
      BY AppManagerAssumption
    <3>2. QED
      BY <2>1, <3>1 DEF BackInv, AppType
  <2>2. CASE queue' = queue
    BY <2>2 DEF BackInv, AppType
  <2>3. QED
    BY <2>1, <2>2 DEF AppDeleteQueue, AppCleanUp, AppThreadEnds
<1>3. PlaceType' /\ NameType'
  BY <1>1, AppStays
<1>4. /\ queues' \subseteq queues /\ valid' \subseteq valid
      /\ \A g \in Instances : g # h => (g \in queues' <=> g \in queues) /\ (g \in valid' <=> g \in valid)
  BY DEF AppDeleteQueue, AppCleanUp, AppThreadEnds
<1>5. AppType' /\ AnswerType'
  BY <1>1, <1>2, <1>4 DEF BackInv, AppType, AnswerType
<1>6. ThreadInv'
  <2>1. /\ thread'[h] = "no_queue" => h \notin queues'
        /\ thread'[h] \in {"no_handle", "gone"} => h \notin queues' /\ h \notin valid'
    BY DEF AppDeleteQueue, AppCleanUp, AppThreadEnds, Goes, BackInv, ThreadInv, AppType
  <2>2. QED
    BY <1>1, <1>2, <1>4, <2>1 DEF BackInv, ThreadInv
<1>7. \A g \in Instances : /\ thread'[g] = "loop" <=> thread[g] = "loop"
                          /\ thread'[g] = "none" <=> thread[g] = "none"
  BY <1>1
<1>8. \A i \in 1 .. Len(ah_app) : ah_app[i] # 0 => ah_app[i] \in Instances
  BY DEF BackInv, NameType
<1>9. KnownInv'
  BY <1>1, <1>7, <1>8 DEF BackInv, KnownInv, Waits
<1>10. WorkInv'
  <2>1. \A g \in Instances : thread[g] = "none" \/ thread[g] = "loop" =>
          g # h /\ queue'[g] = queue[g] /\ (g \in queues => g \in queues')
    BY <1>1, <1>2, <1>4
  <2>2. QED
    BY <1>1, <1>7, <2>1 DEF BackInv, WorkInv, Target
<1>11. AnswerInv'
  <2>1. Waits' = Waits /\ Target' = Target /\ Command' = Command
    BY <1>1 DEF Waits, Target, Command
  <2>2. Waits => Target \in Instances
    BY DEF BackInv, WorkInv, NameType, Waits, Target
  <2>3. \A g \in Instances : thread[g] = "loop" => queue'[g] = queue[g]
    BY <1>1, <1>2
  <2>4. QED
    BY <1>1, <1>7, <2>1, <2>2, <2>3 DEF BackInv, AnswerInv
<1>12. QED
  BY <1>3, <1>5, <1>6, <1>9, <1>10, <1>11 DEF BackInv

\* The steps of an application.
LEMMA BackApp ==
  ASSUME ExitsSucceed, BackInv, NEW h \in Instances, App(h)
  PROVE  BackInv'
<1>1. ASSUME NEW ok \in BOOLEAN, AppInit(h, ok) PROVE BackInv'
  <2> DEFINE p == IF ok THEN "loop" ELSE "left"
  <2>1. Handles(h, "INIT") /\ Notifies(ok) /\ thread' = [thread EXCEPT ![h] = p]
    BY <1>1 DEF AppInit
  <2>2. p \in {"loop", "left"} /\ (p = "loop" <=> "INIT" = "INIT" /\ ok)
    OBVIOUS
  <2> HIDE DEF p
  <2>3. QED
    BY <2>1, <2>2, BackAnswers
<1>2. ASSUME NEW ok \in ExitResults, AppExit(h, ok) PROVE BackInv'
  <2>1. ok = TRUE
    BY <1>2 DEF ExitsSucceed
  <2>2. Handles(h, "EXIT") /\ Notifies(TRUE) /\ thread' = [thread EXCEPT ![h] = "left"]
    BY <1>2, <2>1 DEF AppExit
  <2>3. "left" = "loop" <=> "EXIT" = "INIT" /\ TRUE
    OBVIOUS
  <2>4. QED
    BY <2>2, <2>3, BackAnswers
<1>3. CASE AppMsg(h)
  BY <1>3, BackAppMsg
<1>4. CASE AppDeleteQueue(h) \/ AppCleanUp(h) \/ AppThreadEnds(h)
  BY <1>4, BackGoes
<1>5. QED
  BY <1>1, <1>2, <1>3, <1>4 DEF App

\* The callers change nothing of the manager's and the applications'.
LEMMA BackStays ==
  ASSUME BackInv, UNCHANGED <<amVars, am_sem, am_b_ok, appVars>>, b_ok' \in [Clients -> BOOLEAN]
  PROVE  BackInv'
<1>1. UNCHANGED <<am, as_app_name, ah_app, am_sem, am_b_ok, app_of, queue, queues, valid, thread>>
  BY DEF amVars, appVars
<1>2. PlaceType' /\ NameType' /\ AppType' /\ AnswerType'
  BY <1>1 DEF BackInv, PlaceType, NameType, AppType, AnswerType
<1>3. ThreadInv' /\ KnownInv'
  BY <1>1 DEF BackInv, ThreadInv, KnownInv, Waits
<1>4. WorkInv' /\ AnswerInv'
  BY <1>1 DEF BackInv, WorkInv, AnswerInv, Waits, Target, Command
<1>5. QED
  BY <1>2, <1>3, <1>4 DEF BackInv

\* BackInv is inductive where FrontInv holds.
LEMMA BackStep ==
  ASSUME ExitsSucceed, FrontInv, BackInv, [Next]_vars
  PROVE  BackInv'
<1>1. b_ok \in [Clients -> BOOLEAN]
  BY DEF BackInv, AnswerType
<1>2. CASE UNCHANGED vars
  BY <1>1, <1>2, BackStays DEF vars, clientVars
<1>3. ASSUME NEW c \in Clients, Calling(c) PROVE BackInv'
  <2>1. ASSUME NEW type, NEW a, NEW sync, Calls(c, type, a, sync) PROVE BackInv'
    <3>1. b_ok' \in [Clients -> BOOLEAN]
      BY <1>1, <2>1 DEF Calls
    <3>2. UNCHANGED <<amVars, am_sem, am_b_ok, appVars>>
      BY <2>1 DEF Calls
    <3>3. QED
      BY <3>1, <3>2, BackStays
  <2>2. \E type, a, sync : Calls(c, type, a, sync)
    BY <1>3, Zenon DEF Calling, RegisterApp, LifecycleReq
  <2>3. QED
    BY <2>1, <2>2
<1>4. ASSUME NEW c \in Clients, Client(c) PROVE BackInv'
  <2>1. b_ok' \in [Clients -> BOOLEAN]
    <3>1. b_ok' = b_ok \/ b_ok' = [b_ok EXCEPT ![c] = FALSE]
      BY <1>4 DEF Client, RegisterLink, SendRequest, RetryRequest, WaitTake, WaitSleep
    <3>2. QED
      BY <1>1, <3>1
  <2>2. UNCHANGED <<amVars, am_sem, am_b_ok, appVars>>
    BY <1>4 DEF Client, RegisterLink, SendRequest, RetryRequest, WaitTake, WaitSleep
  <2>3. QED
    BY <2>1, <2>2, BackStays
<1>5. CASE Manager
  BY <1>5, BackTakes, BackRegister, BackCreateQueue, BackCreateThread, BackSendInit,
     BackAwake, BackSendExit, BackSendMsg, BackSendSelf, BackCast, BackReply, Zenon DEF Manager
<1>6. ASSUME NEW h \in Instances, App(h) PROVE BackInv'
  BY <1>6, BackApp
<1>7. QED
  BY <1>2, <1>3, <1>4, <1>5, <1>6 DEF Next

-----------------------------------------------------------------------------
\* The invariants imply the properties that the run checks.
LEMMA TypesShow == FrontInv /\ BackInv => TypeOK
<1> SUFFICES ASSUME FrontInv, BackInv PROVE TypeOK
  OBVIOUS
<1>1. am \in AmState
  <2>1. /\ am.at \in AmPlace /\ am.req \in Request /\ am.retry \in 0 .. MaxRetry
        /\ am.ok \in BOOLEAN /\ am.h \in Instances \cup {0}
    BY DEF FrontInv, BackInv, PlaceType
  <2>2. am.id \in Nat
    BY DEF BackInv, PlaceType, NameType
  <2>3. [at |-> am.at, req |-> am.req, retry |-> am.retry, ok |-> am.ok,
         id |-> am.id, h |-> am.h] \in AmState
    BY <2>1, <2>2, Zenon DEF AmState
  <2>4. QED
    BY <2>3 DEF FrontInv, AmRecord
<1>2. am.id <= Len(as_app_name)
  BY DEF BackInv, PlaceType, NameType
<1>3. am_sem \in Nat
  BY DEF BackInv, AnswerType
<1>4. QED
  BY <1>1, <1>2, <1>3, Zenon DEF TypeOK, FrontInv, BackInv, NameType, AppType, AnswerType

\* KnownInv and ThreadInv: handles are good, and no application is lost.
LEMMA KnownShows == BackInv => HandlesAreUsable /\ NoOrphan
<1> SUFFICES ASSUME BackInv PROVE HandlesAreUsable /\ NoOrphan
  OBVIOUS
<1>1. DOMAIN ah_app = 1 .. Len(ah_app) /\ \A i \in 1 .. Len(ah_app) : ah_app[i] \in Instances \cup {0}
  BY DEF BackInv, NameType
<1>2. HandlesAreUsable
  BY <1>1 DEF HandlesAreUsable, Awaits, BackInv, KnownInv, ThreadInv, Waits
<1>3. NoOrphan
  BY <1>1 DEF NoOrphan, Range, BackInv, KnownInv
<1>4. QED
  BY <1>2, <1>3

\* AnswerInv: the wait and its answer.
LEMMA AnswersShow == BackInv => EachWaitHasOneAnswer
<1> SUFFICES ASSUME BackInv PROVE EachWaitHasOneAnswer
  OBVIOUS
<1>1. \A h \in Instances : DOMAIN queue[h] = 1 .. Len(queue[h])
  BY DEF BackInv, AppType
<1>2. queues \subseteq Instances
  BY DEF BackInv, AppType
<1>3. \A h \in Asked : Waits /\ am_sem = 0 /\ h = Target
  BY <1>1, <1>2 DEF Asked, BackInv, AnswerInv
<1>4. am_sem \in {0, 1} /\ (~Waits => am_sem = 0)
  BY DEF BackInv, AnswerType, AnswerInv
<1>5. CASE Waits /\ am_sem = 0
  <2>1. Target \in Instances /\ thread[Target] = "loop" /\ queue[Target] # <<>>
        /\ queue[Target][Len(queue[Target])] = Command
    BY <1>5 DEF BackInv, WorkInv, NameType, AnswerInv, Waits, Target
  <2>2. Target \in queues
    BY <2>1 DEF BackInv, ThreadInv
  <2>3. Len(queue[Target]) \in DOMAIN queue[Target]
    <3>1. queue[Target] \in Seq({"INIT", "EXIT", "MSG"})
      BY <2>1 DEF BackInv, AppType
    <3>2. QED
      BY <2>1, <3>1
  <2>4. Command # "MSG"
    BY DEF Command
  <2>5. Target \in Asked
    BY <2>1, <2>2, <2>3, <2>4 DEF Asked
  <2>6. Asked = {Target}
    BY <1>3, <2>5
  <2>7. Cardinality(Asked) = 1
    BY <2>6, FS_Singleton
  <2>8. QED
    BY <1>5, <2>7 DEF EachWaitHasOneAnswer, Waits
<1>6. CASE ~(Waits /\ am_sem = 0)
  <2>1. Asked = {}
    BY <1>3, <1>6
  <2>2. Cardinality(Asked) = 0
    BY <2>1, FS_EmptySet
  <2>3. QED
    BY <1>4, <1>6, <2>2 DEF EachWaitHasOneAnswer, Waits
<1>7. QED
  BY <1>5, <1>6

\* The inductive invariant of the manager and the applications.
LEMMA AppManagerIs ==
  ASSUME ExitsSucceed
  PROVE  Spec => [](FrontInv /\ BackInv)
<1>1. Init => FrontInv /\ BackInv
  BY FrontInit, BackInit
<1>2. FrontInv /\ BackInv /\ [Next]_vars => (FrontInv /\ BackInv)'
  BY FrontStep, BackStep
<1>3. QED
  BY <1>1, <1>2, PTL DEF Spec

\* The types; the handle that the manager has of an application (ah_app) is
\* good for sending unless it waits for that application's answer; and every
\* application whose message loop runs has such a handle: for any number of
\* callers, applications and calls and any capacities, as long as pf_exit does
\* not refuse.
THEOREM ManagerKnows ==
  ASSUME ExitsSucceed
  PROVE  Spec => []ManagerKnowsApps
<1>1. FrontInv /\ BackInv => ManagerKnowsApps
  BY TypesShow, KnownShows DEF ManagerKnowsApps
<1>2. QED
  BY <1>1, AppManagerIs, PTL

\* Each wait of the manager on t_g_am.h_bin_sema is ended by exactly one
\* answer, INIT or EXIT still in the queue of an application that reads it or
\* the posted semaphore, and none is on its way while it does not wait.
THEOREM WaitsAnswered ==
  ASSUME ExitsSucceed
  PROVE  Spec => []EachWaitHasOneAnswer
<1>1. FrontInv /\ BackInv => EachWaitHasOneAnswer
  BY AnswersShow
<1>2. QED
  BY <1>1, AppManagerIs, PTL
=============================================================================
