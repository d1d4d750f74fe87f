----------------------------- MODULE AppManager -----------------------------
(***************************************************************************)
(* The application framework under am/: threads that call the AMB interface*)
(* (amb.c), the Application Manager's thread (am.c), which serves their    *)
(* requests one at a time, and the applications' threads, each running the *)
(* message loop of appman.c inside an execution environment (aee.c).       *)
(*                                                                         *)
(* The framework's pieces that have modules of their own appear here as    *)
(* what those modules show: a message queue is a bounded sequence, h_bin_  *)
(* sema, on which only the manager waits, is a counter.  h_g_bin_sema is   *)
(* shared by all callers of AMB, so its sleepers are kept apart, as in     *)
(* Sema: u_sema_unlock wakes one of them only when the value becomes 1.    *)
(*                                                                         *)
(* Every call of u_app_start makes a new instance, whose number stands for *)
(* its AEE handle, its message queue and its thread; 0 is NULL_HANDLE.  An *)
(* application's name is also the name of its queue and of its thread.     *)
(***************************************************************************)
EXTENDS Integers, Sequences, FiniteSets, FiniteSetsExt, SequencesExt

CONSTANTS
  Apps,         \* application names
  APP_MNGR_NAME,\* the manager's own name, as a receiver of a message
  Clients,      \* threads that call AMB and are not served by it
  SyncClients,  \* those of them that also make synchronous calls
  NoTag,        \* a NULL pv_tag
  AmCap,        \* the capacity of the manager's queue
  AppCap,       \* the capacity of an application's queue
  MaxRetry,     \* MSGQ_RETRY_TIMES
  ExitResults,  \* what pf_exit may return: TRUE is AEER_OK
  MaxCalls      \* bound: how many AMB calls each client makes

ASSUME AppManagerAssumption ==
  /\ SyncClients \subseteq Clients
  /\ AmCap \in Nat \ {0} /\ AppCap \in Nat \ {0}
  /\ APP_MNGR_NAME \notin Apps
  /\ MaxRetry \in Nat /\ MaxCalls \in [Clients -> Nat]
  /\ ExitResults \subseteq BOOLEAN

AllCalls == MapThenSumSet(LAMBDA c : MaxCalls[c], Clients)
Instances == 1 .. AllCalls

\* PAUSE stands for the requests the manager does not know: PAUSE, RESUME, and
\* a message for the manager itself.
RequestType == {"START", "EXIT", "PAUSE", "REG", "DISPATCH", "BROADCAST"}

\* The tag &b_ok of a synchronous call lives on its caller's stack.
Tag == {NoTag} \cup UNION {{c} \X (1 .. MaxCalls[c]) : c \in Clients}
Request == [type : RequestType, app : Apps \cup {APP_MNGR_NAME}, tag : Tag]

\* A message for the manager itself, and the contents of an unused request.
Unknown == [type |-> "PAUSE", app |-> APP_MNGR_NAME, tag |-> NoTag]

VARIABLES
  regs,      \* pt_g_regs: the applications with registration information
  mtx,       \* who has h_g_mtx_sema ({} or one client)
  pc,        \* pc[c]: where client c is in its call
  req,       \* req[c]: the request c is sending
  retry,     \* retry[c]: ui4_retry of c's call
  b_ok,      \* b_ok[c]: the result of c's call
  calls,     \* calls[c]: calls c made
  amb_sem,   \* the value of h_g_bin_sema
  am_q,      \* the manager's message queue
  am,        \* the manager: where it is, its request, ui4_retry, its result,
             \* ui4_app_id and the instance it is making
  as_app_name, \* the names in the order of their REG requests
  ah_app,    \* their instances: 0 for an application that is not started
  am_sem,    \* the value of t_g_am.h_bin_sema
  am_b_ok,   \* the manager's b_ok, written by the application it waits for
  app_of,    \* app_of[h]: the name of instance h
  queue,     \* queue[h]: the message queue of instance h
  queues,    \* the instances whose queue exists
  valid,     \* the instances whose AEE handle is valid
  thread     \* thread[h]: where the thread of instance h is

clientVars == <<regs, mtx, pc, req, retry, b_ok, calls>>
amVars == <<am, as_app_name, ah_app>>
appVars == <<app_of, queue, queues, valid, thread>>
vars == <<clientVars, amb_sem, am_q, amVars, am_sem, am_b_ok, appVars>>

Working(at, r) ==
  [at |-> at, req |-> r, retry |-> 0, ok |-> TRUE, id |-> 0, h |-> 0]

\* The manager is started and has run _am_app_init_fct.
Init ==
  /\ regs = {} /\ mtx = {}
  /\ pc = [c \in Clients |-> "run"]
  /\ req = [c \in Clients |-> Unknown]
  /\ retry = [c \in Clients |-> 0]
  /\ b_ok = [c \in Clients |-> TRUE]
  /\ calls = [c \in Clients |-> 0]
  /\ amb_sem = 0
  /\ am_q = <<>>
  /\ am = Working("loop", Unknown)
  /\ as_app_name = <<>> /\ ah_app = <<>>
  /\ am_sem = 0 /\ am_b_ok = FALSE
  /\ app_of = [h \in Instances |-> APP_MNGR_NAME]
  /\ queue = [h \in Instances |-> <<>>]
  /\ queues = {} /\ valid = {}
  /\ thread = [h \in Instances |-> "none"]

-----------------------------------------------------------------------------
\* AMB, in the thread of client c.  A call that is refused (AMBR_INV_ARG,
\* AMBR_NOT_AUTHORIZED, AMBR_BE_REGISTERED) changes nothing.
Calls(c, type, a, sync) ==
  /\ pc[c] = "run"
  /\ calls[c] < MaxCalls[c]
  /\ sync => c \in SyncClients
  /\ calls' = [calls EXCEPT ![c] = @ + 1]
  /\ req' = [req EXCEPT ![c] =
       [type |-> type, app |-> a,
        tag |-> IF sync THEN <<c, calls[c] + 1>> ELSE NoTag]]
  /\ retry' = [retry EXCEPT ![c] = 0]
  /\ b_ok' = [b_ok EXCEPT ![c] = TRUE]
  /\ pc' = [pc EXCEPT ![c] = IF type = "REG" THEN "mtx" ELSE "send"]
  /\ UNCHANGED <<regs, mtx, amb_sem, am_q, amVars, am_sem, am_b_ok, appVars>>

LifecycleReq(c, type, a, sync) == a \in regs /\ Calls(c, type, a, sync)

\* u_amb_register_app: the test for the name comes before the mutex.
RegisterApp(c, a) == a \notin regs /\ Calls(c, "REG", a, TRUE)

RegisterLink(c) ==
  /\ pc[c] = "mtx"
  /\ mtx = {}
  /\ mtx' = {c}
  /\ regs' = regs \cup {req[c].app}
  /\ pc' = [pc EXCEPT ![c] = "send"]
  /\ UNCHANGED <<req, retry, b_ok, calls, amb_sem, am_q, amVars, am_sem,
                 am_b_ok, appVars>>

\* The call returns, out of _SYNC_END if it was a registration.
Return(c) ==
  /\ pc' = [pc EXCEPT ![c] = "run"]
  /\ mtx' = mtx \ {c}

\* _amb_send_request_to_am: send, then wait if the call is synchronous; when
\* the manager's queue is full, try again a few times.
\* Mutant of SendRequest: _WAIT is missing.
SendRequestNoWait(c) ==
  /\ pc[c] = "send"
  /\ Len(am_q) < AmCap
  /\ am_q' = Append(am_q, req[c])
  /\ Return(c)
  /\ UNCHANGED <<regs, req, retry, b_ok, calls, amb_sem, amVars, am_sem,
                 am_b_ok, appVars>>

SendRequest(c) ==
  /\ pc[c] = "send"
  /\ Len(am_q) < AmCap
  /\ am_q' = Append(am_q, req[c])
  /\ IF req[c].tag = NoTag
     THEN Return(c) /\ req' = [req EXCEPT ![c] = Unknown]
     ELSE pc' = [pc EXCEPT ![c] = "wait"] /\ UNCHANGED <<mtx, req>>
  /\ retry' = [retry EXCEPT ![c] = 0]
  /\ UNCHANGED <<regs, b_ok, calls, amb_sem, amVars, am_sem, am_b_ok, appVars>>

RetryRequest(c) ==
  /\ pc[c] = "send"
  /\ Len(am_q) = AmCap
  /\ IF retry[c] = MaxRetry
     THEN /\ Return(c)
          /\ retry' = [retry EXCEPT ![c] = 0]
          /\ b_ok' = [b_ok EXCEPT ![c] = FALSE]
     ELSE /\ retry' = [retry EXCEPT ![c] = @ + 1]
          /\ UNCHANGED <<pc, mtx, b_ok>>
  /\ UNCHANGED <<regs, req, calls, amb_sem, am_q, amVars, am_sem, am_b_ok,
                 appVars>>

\* u_sema_lock(h_g_bin_sema)
WaitTake(c) ==
  /\ pc[c] = "wait"
  /\ amb_sem > 0
  /\ amb_sem' = amb_sem - 1
  /\ Return(c)
  /\ UNCHANGED <<regs, req, retry, b_ok, calls, am_q, amVars, am_sem, am_b_ok,
                 appVars>>

WaitSleep(c) ==
  /\ pc[c] = "wait"
  /\ amb_sem = 0
  /\ pc' = [pc EXCEPT ![c] = "asleep"]
  /\ UNCHANGED <<regs, mtx, req, retry, b_ok, calls, amb_sem, am_q, amVars,
                 am_sem, am_b_ok, appVars>>

-----------------------------------------------------------------------------
\* The manager's message loop takes a request and handles it to its end before
\* it takes the next one.  A handler's result goes to AmReply.
Takes(type) ==
  /\ am.at = "loop"
  /\ am_q # <<>>
  /\ Head(am_q).type = type
  /\ am_q' = Tail(am_q)

Failed(r) == [Working("reply", r) EXCEPT !.ok = FALSE]
Finished(ok) == [Working("reply", am.req) EXCEPT !.ok = ok]

AmIdleVars == <<clientVars, amb_sem, am_sem, am_b_ok, appVars>>

AmRegister ==
  /\ Takes("REG")
  /\ as_app_name' = Append(as_app_name, Head(am_q).app)
  /\ ah_app' = Append(ah_app, 0)
  /\ am' = Working("reply", Head(am_q))
  /\ UNCHANGED AmIdleVars

AmUnknown ==
  /\ Takes("PAUSE")
  /\ am' = Failed(Head(am_q))
  /\ UNCHANGED <<as_app_name, ah_app, AmIdleVars>>

\* The manager's indices of a name, and those of them with an instance.
Ids(a) == {i \in DOMAIN as_app_name : as_app_name[i] = a}
Started(a) == {i \in Ids(a) : ah_app[i] # 0}

\* The handler of request r goes on at "at" with the first of the ids.
WorkOn(at, r, ids) == IF ids = {} THEN Failed(r)
                      ELSE [Working(at, r) EXCEPT !.id = Min(ids)]

\* _am_start_app
AmStart ==
  /\ Takes("START")
  /\ LET r == Head(am_q) IN
       am' = IF r.app \in regs /\ (Ids(r.app) = {} \/ ah_app[Min(Ids(r.app))] = 0)
             THEN WorkOn("create", r, Ids(r.app))
             ELSE Failed(r)
  /\ UNCHANGED <<as_app_name, ah_app, AmIdleVars>>

\* _app_start: x_msg_q_create fails while a queue of that name exists.  A new
\* instance has the first number that is free.
NamedQueue(a) == \E h \in queues : app_of[h] = a

AmCreateQueue ==
  /\ am.at = "create"
  /\ IF NamedQueue(am.req.app)
     THEN am' = Finished(FALSE) /\ UNCHANGED <<app_of, queues>>
     ELSE \E h \in Instances :
            /\ thread[h] = "none" /\ \A f \in 1 .. h - 1 : thread[f] # "none"
            /\ am' = [am EXCEPT !.at = "thread", !.h = h]
            /\ app_of' = [app_of EXCEPT ![h] = am.req.app]
            /\ queues' = queues \cup {h}
  /\ UNCHANGED <<clientVars, amb_sem, am_q, as_app_name, ah_app, am_sem,
                 am_b_ok, queue, valid, thread>>

\* u_aee_create: a handle, then u_thread_create, which fails while a thread of
\* that name exists; handle and queue are given back then.
Exists(h) == thread[h] \notin {"none", "gone"}
NamedThread(a) == \E h \in Instances : Exists(h) /\ app_of[h] = a

AmCreateThread ==
  /\ am.at = "thread"
  /\ IF NamedThread(am.req.app)
     THEN /\ am' = Finished(FALSE)
          /\ queues' = queues \ {am.h}
          /\ thread' = [thread EXCEPT ![am.h] = "gone"]
          /\ UNCHANGED <<ah_app, valid>>
     ELSE /\ am' = [am EXCEPT !.at = "init"]
          /\ valid' = valid \cup {am.h}
          /\ ah_app' = [ah_app EXCEPT ![am.id] = am.h]
          /\ thread' = [thread EXCEPT ![am.h] = "loop"]
          /\ UNCHANGED queues
  /\ UNCHANGED <<clientVars, amb_sem, am_q, as_app_name, am_sem, am_b_ok,
                 app_of, queue>>

Put(h, command) == queue' = [queue EXCEPT ![h] = Append(@, command)]

AmSendInit ==
  /\ am.at = "init"
  /\ Put(am.h, "INIT")
  /\ am' = [am EXCEPT !.at = "wait_init"]
  /\ am_b_ok' = FALSE
  /\ UNCHANGED <<clientVars, amb_sem, am_q, as_app_name, ah_app, am_sem,
                 app_of, queues, valid, thread>>

\* _WAIT (t_g_am.h_bin_sema) is over.
AmAwake(at) ==
  /\ am.at = at
  /\ am_sem > 0
  /\ am_sem' = am_sem - 1
  /\ UNCHANGED <<clientVars, amb_sem, am_q, as_app_name, am_b_ok, appVars>>

Forget == ah_app' = [ah_app EXCEPT ![am.id] = 0]

\* Mutant of AmWaitInit: the handle of a failed start is kept.
AmWaitInitKeeps ==
  /\ AmAwake("wait_init")
  /\ am' = Finished(am_b_ok)
  /\ UNCHANGED ah_app

AmWaitInit ==
  /\ AmAwake("wait_init")
  /\ am' = Finished(am_b_ok)
  /\ IF am_b_ok THEN UNCHANGED ah_app ELSE Forget

-----------------------------------------------------------------------------
\* u_app_exit and u_app_send_msg by the manager: look the handle up, find its
\* queue, send; a full queue is tried again after a delay.
Reachable(h) == h \in valid /\ Len(queue[h]) < AppCap
TryAgain(next) ==
  IF am.retry = MaxRetry THEN next ELSE [am EXCEPT !.retry = @ + 1]

\* _am_exit_app
AmExit ==
  /\ Takes("EXIT")
  /\ am' = WorkOn("exit", Head(am_q), Started(Head(am_q).app))
  /\ UNCHANGED <<as_app_name, ah_app, AmIdleVars>>

AmSendExit ==
  /\ am.at = "exit"
  /\ IF Reachable(ah_app[am.id])
     THEN /\ Put(ah_app[am.id], "EXIT")
          /\ am' = [am EXCEPT !.at = "wait_exit", !.retry = 0]
          /\ am_b_ok' = FALSE
     ELSE /\ am' = TryAgain(Finished(FALSE))
          /\ UNCHANGED <<queue, am_b_ok>>
  /\ UNCHANGED <<clientVars, amb_sem, am_q, as_app_name, ah_app, am_sem,
                 app_of, queues, valid, thread>>

AmWaitExit ==
  /\ AmAwake("wait_exit")
  /\ am' = Finished(TRUE)
  /\ Forget

\* _am_dispatch_msg.  A message for the manager goes into its own queue, which
\* nobody empties while it tries.
AmDispatch ==
  /\ Takes("DISPATCH")
  /\ LET r == Head(am_q) IN
       am' = IF r.app = APP_MNGR_NAME THEN Working("self", r)
             ELSE WorkOn("dispatch", r, Started(r.app))
  /\ UNCHANGED <<as_app_name, ah_app, AmIdleVars>>

AmSendMsg ==
  /\ am.at = "dispatch"
  /\ IF Reachable(ah_app[am.id])
     THEN Put(ah_app[am.id], "MSG") /\ am' = Finished(TRUE)
     ELSE am' = TryAgain(Finished(FALSE)) /\ UNCHANGED queue
  /\ UNCHANGED <<clientVars, amb_sem, am_q, as_app_name, ah_app, am_sem,
                 am_b_ok, app_of, queues, valid, thread>>

AmSendSelf ==
  /\ am.at = "self"
  /\ IF Len(am_q) < AmCap
     THEN am_q' = Append(am_q, Unknown) /\ am' = Finished(TRUE)
     ELSE am' = TryAgain(Finished(FALSE)) /\ UNCHANGED am_q
  /\ UNCHANGED <<as_app_name, ah_app, AmIdleVars>>

\* _am_broadcast_msg: from the last name to the first; an application that is
\* not started only costs the delays.  The result is that of the last send.
Cast(n, ok) == [am EXCEPT !.at = IF n = 0 THEN "reply" ELSE "cast",
                          !.id = n, !.ok = ok, !.retry = 0]

AmBroadcast ==
  /\ Takes("BROADCAST")
  /\ am' = [Working(IF as_app_name = <<>> THEN "reply" ELSE "cast", Head(am_q))
              EXCEPT !.id = Len(as_app_name)]
  /\ UNCHANGED <<as_app_name, ah_app, AmIdleVars>>

AmCast ==
  /\ am.at = "cast"
  /\ LET h == ah_app[am.id] IN
       CASE h = 0 -> am' = Cast(am.id - 1, am.ok) /\ UNCHANGED queue
         [] h # 0 /\ Reachable(h) ->
              Put(h, "MSG") /\ am' = Cast(am.id - 1, TRUE)
         [] OTHER ->
              am' = TryAgain(Cast(am.id - 1, FALSE)) /\ UNCHANGED queue
  /\ UNCHANGED <<clientVars, amb_sem, am_q, as_app_name, ah_app, am_sem,
                 am_b_ok, app_of, queues, valid, thread>>

\* The notify function: a tag gets the result and its caller is woken.
Asleep == {c \in Clients : pc[c] = "asleep"}

Wakes == IF amb_sem + 1 = 1 /\ Asleep # {}
         THEN \E c \in Asleep : pc' = [pc EXCEPT ![c] = "wait"]
         ELSE UNCHANGED pc

\* Mutant of AmReply: the result is not looked at.
AmReplyAlwaysOk ==
  /\ am.at = "reply"
  /\ am' = Working("loop", Unknown)
  /\ IF am.req.tag = NoTag THEN UNCHANGED <<amb_sem, pc>>
     ELSE amb_sem' = amb_sem + 1 /\ Wakes
  /\ UNCHANGED <<regs, mtx, req, retry, b_ok, calls, am_q, as_app_name, ah_app,
                 am_sem, am_b_ok, appVars>>

\* Mutant of AmReply: no _CONTINUE after a failure.
AmReplyOnlyOk ==
  /\ am.at = "reply"
  /\ am' = Working("loop", Unknown)
  /\ IF am.req.tag = NoTag \/ ~am.ok THEN UNCHANGED <<amb_sem, pc>>
     ELSE amb_sem' = amb_sem + 1 /\ Wakes
  /\ UNCHANGED <<regs, mtx, req, retry, b_ok, calls, am_q, as_app_name, ah_app,
                 am_sem, am_b_ok, appVars>>

AmReply ==
  /\ am.at = "reply"
  /\ am' = Working("loop", Unknown)
  /\ IF am.req.tag = NoTag
     THEN UNCHANGED <<b_ok, amb_sem, pc>>
     ELSE /\ b_ok' = [b_ok EXCEPT ![am.req.tag[1]] = am.ok]
          /\ amb_sem' = amb_sem + 1
          /\ Wakes
  /\ UNCHANGED <<regs, mtx, req, retry, calls, am_q, as_app_name, ah_app,
                 am_sem, am_b_ok, appVars>>

-----------------------------------------------------------------------------
\* appman_main of instance h: the message loop.
Handles(h, command) ==
  /\ thread[h] = "loop"
  /\ queue[h] # <<>>
  /\ Head(queue[h]) = command
  /\ queue' = [queue EXCEPT ![h] = Tail(@)]
  /\ UNCHANGED <<clientVars, amb_sem, am_q, amVars, app_of, queues, valid>>

Notifies(ok) == am_b_ok' = ok /\ am_sem' = am_sem + 1

\* Mutant of AppInit: a failed pf_init is not notified.
AppInitSilent(h, ok) ==
  /\ Handles(h, "INIT")
  /\ IF ok THEN Notifies(ok) ELSE UNCHANGED <<am_sem, am_b_ok>>
  /\ thread' = [thread EXCEPT ![h] = IF ok THEN "loop" ELSE "left"]

AppInit(h, ok) ==
  /\ Handles(h, "INIT")
  /\ Notifies(ok)
  /\ thread' = [thread EXCEPT ![h] = IF ok THEN "loop" ELSE "left"]

AppExit(h, ok) ==
  /\ Handles(h, "EXIT")
  /\ Notifies(ok)
  /\ thread' = [thread EXCEPT ![h] = IF ok THEN "left" ELSE "loop"]

AppMsg(h) ==
  /\ Handles(h, "MSG")
  /\ UNCHANGED <<am_sem, am_b_ok, thread>>

\* Out of the loop: the queue goes, then aee_clean_up frees the handle, then
\* the thread's name becomes free.
Goes(h, from, to) ==
  /\ thread[h] = from
  /\ thread' = [thread EXCEPT ![h] = to]
  /\ UNCHANGED <<clientVars, amb_sem, am_q, amVars, am_sem, am_b_ok, app_of>>

AppDeleteQueue(h) ==
  /\ Goes(h, "left", "no_queue")
  /\ queues' = queues \ {h}
  /\ queue' = [queue EXCEPT ![h] = <<>>]
  /\ UNCHANGED valid

AppCleanUp(h) ==
  /\ Goes(h, "no_queue", "no_handle")
  /\ valid' = valid \ {h}
  /\ UNCHANGED <<queue, queues>>

AppThreadEnds(h) ==
  /\ Goes(h, "no_handle", "gone")
  /\ UNCHANGED <<queue, queues, valid>>

-----------------------------------------------------------------------------
Client(c) ==
  RegisterLink(c) \/ SendRequest(c) \/ RetryRequest(c) \/ WaitTake(c)
    \/ WaitSleep(c)

Manager ==
  \/ AmRegister \/ AmUnknown \/ AmStart \/ AmCreateQueue \/ AmCreateThread \/ AmSendInit
  \/ AmWaitInit \/ AmExit \/ AmSendExit \/ AmWaitExit \/ AmDispatch
  \/ AmSendMsg \/ AmSendSelf \/ AmBroadcast \/ AmCast \/ AmReply

App(h) ==
  \/ \E ok \in BOOLEAN : AppInit(h, ok)
  \/ \E ok \in ExitResults : AppExit(h, ok)
  \/ AppMsg(h) \/ AppDeleteQueue(h) \/ AppCleanUp(h) \/ AppThreadEnds(h)

\* The functions of amb.h.
Calling(c) ==
  \/ \E a \in Apps :
       \/ RegisterApp(c, a)
       \/ \E sync \in BOOLEAN, type \in {"START", "EXIT"} :
            LifecycleReq(c, type, a, sync)
       \/ LifecycleReq(c, "PAUSE", a, FALSE)
       \/ LifecycleReq(c, "DISPATCH", a, FALSE)
  \/ Calls(c, "DISPATCH", APP_MNGR_NAME, FALSE)
  \/ \E sync \in BOOLEAN : Calls(c, "BROADCAST", APP_MNGR_NAME, sync)

Next ==
  \/ \E c \in Clients : Calling(c) \/ Client(c)
  \/ Manager
  \/ \E h \in Instances : App(h)

Spec == Init /\ [][Next]_vars

\* Every thread is scheduled and the handlers of the applications return.
LiveSpec ==
  /\ Spec
  /\ \A c \in Clients : WF_vars(Client(c))
  /\ WF_vars(Manager)
  /\ \A h \in Instances : WF_vars(App(h))

-----------------------------------------------------------------------------
AmPlace == {"loop", "create", "thread", "init", "wait_init", "exit",
            "wait_exit", "dispatch", "self", "cast", "reply"}
ThreadPlace == {"none", "loop", "left", "no_queue", "no_handle", "gone"}

AmState == [at : AmPlace, req : Request, retry : 0 .. MaxRetry, ok : BOOLEAN,
            id : Nat, h : Instances \cup {0}]

TypeOK ==
  /\ regs \subseteq Apps
  /\ mtx \subseteq Clients /\ \A c, d \in mtx : c = d
  /\ pc \in [Clients -> {"run", "mtx", "send", "wait", "asleep"}]
  /\ req \in [Clients -> Request]
  /\ retry \in [Clients -> 0 .. MaxRetry]
  /\ b_ok \in [Clients -> BOOLEAN]
  /\ calls \in [Clients -> Nat] /\ \A c \in Clients : calls[c] <= MaxCalls[c]
  /\ amb_sem \in Nat
  /\ am_q \in Seq(Request) /\ Len(am_q) <= AmCap
  /\ am \in AmState /\ am.id <= Len(as_app_name)
  /\ as_app_name \in Seq(Apps) /\ ah_app \in Seq(Instances \cup {0})
  /\ Len(ah_app) = Len(as_app_name)
  /\ am_sem \in Nat /\ am_b_ok \in BOOLEAN
  /\ app_of \in [Instances -> Apps \cup {APP_MNGR_NAME}]
  /\ queue \in [Instances -> Seq({"INIT", "EXIT", "MSG"})]
  /\ \A h \in Instances : Len(queue[h]) <= AppCap
  /\ queues \subseteq Instances /\ valid \subseteq Instances
  /\ thread \in [Instances -> ThreadPlace]

\* "wait until Application Manager processes this message": a synchronous call
\* of AMB does not return before the manager has answered it.  While the tag
\* of a call, an address in its caller's frame, is in a request the manager
\* has not answered, that very call is still waiting.
Unanswered == Range(am_q) \cup (IF am.at = "loop" THEN {} ELSE {am.req})

TagsAreLive ==
  \A r \in Unanswered :
    r.tag # NoTag =>
      pc[r.tag[1]] \in {"wait", "asleep"} /\ calls[r.tag[1]] = r.tag[2]

\* The handle the manager keeps for an application is good for sending: its
\* AEE handle is valid and its queue exists, unless the manager is waiting for
\* that application to answer INIT or EXIT.
Awaits(i) == am.at \in {"wait_init", "wait_exit"} /\ am.id = i

HandlesAreUsable ==
  \A i \in DOMAIN ah_app :
    ah_app[i] # 0 /\ ~Awaits(i) =>
      /\ ah_app[i] \in valid \cap queues
      /\ thread[ah_app[i]] = "loop"
      /\ app_of[ah_app[i]] = as_app_name[i]

\* Each wait of the manager is ended by exactly one answer: while it waits,
\* one answer is on its way (an INIT or EXIT the application has still to read
\* from an existing queue, or a posted semaphore), and otherwise none.
Asked == {h \in queues : thread[h] = "loop" /\
                         \E i \in DOMAIN queue[h] : queue[h][i] # "MSG"}

EachWaitHasOneAnswer ==
  am_sem + Cardinality(Asked) =
    IF am.at \in {"wait_init", "wait_exit"} THEN 1 ELSE 0

\* The manager loses sight of no application: one that runs its message loop
\* is one the manager has a handle for.
NoOrphan ==
  \A h \in Instances : thread[h] = "loop" => h \in Range(ah_app)

\* When a synchronous start has returned AMBR_OK, its application runs, until
\* its caller asks for something else.
StartedMeansRunning ==
  \A c \in Clients :
    pc[c] = "run" /\ b_ok[c] /\ req[c].type = "START" /\ req[c].tag # NoTag =>
      \E i \in Started(req[c].app) : thread[ah_app[i]] = "loop"

\* Every synchronous call of AMB returns.
SyncCallsReturn ==
  \A c \in SyncClients : pc[c] # "run" ~> pc[c] = "run"
=============================================================================
