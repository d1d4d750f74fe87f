------------------------------ MODULE MCHandle ------------------------------
(* Small programs on the handle library for TLC: on its table of records, on *)
(* one link structure, the execution environments, which are handles, the    *)
(* list of their message queues, the messages to an application, the         *)
(* program's start, and a main program that starts and exits two             *)
(* applications.  Each behaviour is about one.                               *)
EXTENDS Handle

CONSTANTS ta, tb, NoTag,
          StartTable, StartFaults,                 \* see Start
          EnvNames, MaxEnv, EnvDepth, EnvUsers,    \* see Aee
          LinkHandles, LinkDepth, LinkSteps,       \* see HandleLink
          QueueUsers, QueueNames, MaxQueues,       \* see MsgQList
          Senders, Lengths, MAX_USR_MSG_LEN, MaxMsgSize, MsgCount, MaxSends, SendFaults  \* see AppSend

\* Two threads allocate and free, from callbacks too, and make the array grow under each
\* other's calls; two threads link to an auxiliary list whose head stays; one thread does
\* all of it and frees heads and by type.
MCSetups ==
    {[threads |-> {ta, tb}, total |-> 3, live |-> 2, ops |-> {"set", "heads", "freehead", "nested"}],
     [threads |-> {ta, tb}, total |-> 5, live |-> 3, ops |-> {"heads", "aux"}],
     [threads |-> {ta}, total |-> 3, live |-> 3,
      ops |-> {"heads", "freehead", "aux", "nested", "autofree"}]}

VARIABLES part, ctrl, pt_h_link, stack, steps, l_aborted,
          obj, pt_aees, valid, thr, msg, cre, own, sec, touched,
          regs, mtx, pc, req, retry, b_ok, calls, amb_sem, am_q, am, as_app_name, ah_app, am_sem, am_b_ok,
          app_of, queue, queues, usable, thread,
          q_obj, s_msg_q_list, user, refs, q_wild,
          main, mgr, st_ok, frame, sema, made, inbox, i, outcome, st_wild, s_faults,
          snd, parts, block, asked, mq, msgbuf, handled, n_faults

L == INSTANCE HandleLink WITH N <- LinkHandles, MaxDepth <- LinkDepth, MaxSteps <- LinkSteps, aborted <- l_aborted
E == INSTANCE Aee WITH Names <- EnvNames, MaxDepth <- EnvDepth, Users <- EnvUsers
P == INSTANCE AppManager WITH
       Apps <- {"a", "b"}, APP_MNGR_NAME <- "AM", Clients <- {"main"}, SyncClients <- {"main"},
       AmCap <- 2, AppCap <- 1, MaxRetry <- 1, ExitResults <- BOOLEAN, MaxCalls <- [c \in {"main"} |-> 4],
       valid <- usable
Q == INSTANCE MsgQList WITH Users <- QueueUsers, Names <- QueueNames, queue <- q_obj, wild <- q_wild
D == INSTANCE AppSend WITH MaxFaults <- SendFaults
S == INSTANCE Start WITH Table <- StartTable, MaxFaults <- StartFaults, b_ok <- st_ok, wild <- st_wild

ASSUME AeeAssumption == E!AeeAssumption
ASSUME LinkAssumption == L!LinkAssumption
ASSUME QueueAssumption == Q!QueueAssumption
ASSUME SendAssumption == D!SendAssumption

evars == <<obj, pt_aees, valid, thr, msg, cre, own, sec, touched>>
lvars == <<ctrl, pt_h_link, stack, steps, l_aborted>>
pvars == <<regs, mtx, pc, req, retry, b_ok, calls, amb_sem, am_q, am, as_app_name, ah_app, am_sem, am_b_ok,
           app_of, queue, queues, usable, thread>>
qvars == <<q_obj, s_msg_q_list, user, refs, q_wild>>
tvars == <<main, mgr, st_ok, frame, sema, made, inbox, i, outcome, st_wild, s_faults>>
dvars == <<snd, parts, block, asked, mq, msgbuf, handled, n_faults>>
allvars == <<part, vars, lvars, evars, pvars, qvars, tvars, dvars>>

MCInit ==
    /\ part \in {"table", "list", "environments", "main", "queues", "start", "send"}
    /\ Init /\ L!LInit /\ E!EInit /\ P!Init /\ Q!QInit /\ S!TInit /\ D!DInit
    /\ part # "table" => setup.threads = {ta}
MCNext ==
    \/ part = "table" /\ Next /\ UNCHANGED <<part, lvars, evars, pvars, qvars, tvars, dvars>>
    \/ part = "list" /\ L!LNext /\ UNCHANGED <<part, vars, evars, pvars, qvars, tvars, dvars>>
    \/ part = "environments" /\ E!ENext /\ UNCHANGED <<part, vars, lvars, pvars, qvars, tvars, dvars>>
    \/ part = "main" /\ P!Next /\ UNCHANGED <<part, vars, lvars, evars, qvars, tvars, dvars>>
    \/ part = "queues" /\ Q!QNext /\ UNCHANGED <<part, vars, lvars, evars, pvars, tvars, dvars>>
    \/ part = "start" /\ S!TNext /\ UNCHANGED <<part, vars, lvars, evars, pvars, qvars, dvars>>
    \/ part = "send" /\ D!DNext /\ UNCHANGED <<part, vars, lvars, evars, pvars, qvars, tvars>>
MCSpec ==
    /\ MCInit /\ [][MCNext]_allvars
    /\ WF_pvars(part = "main" /\ P!Client("main"))
    /\ WF_pvars(part = "main" /\ P!Manager)
    /\ \A h \in 1..4 : WF_pvars(part = "main" /\ P!App(h))
    /\ WF_tvars(part = "start" /\ main # "aborted" /\ S!Main)
    /\ WF_tvars(part = "start" /\ main # "aborted" /\ S!Manager)

\* See HandleLink: whatever callbacks link, delink and free, the list of a link
\* structure is exact, handle_parse goes on with a record that is still on it,
\* and visits each handle that stays exactly once.
ListExact == L!ListExact /\ L!NextStaysLinked /\ L!ParseVisitsAll
\* See Aee: the list names the running environments, each name once, no freed
\* environment is read or written, and a parent is a live environment.
EnvironmentsLive == E!EnvironmentsListed /\ E!NoUseAfterFree /\ E!ParentsLive
\* See AppManager: an application that was started runs.
StartedMeansRunning == P!StartedMeansRunning
\* See MsgQList and AppSend: the list of queues is a ring of those that were
\* added and keeps a queue as long as it has a user; a handler is called with
\* what one caller sent, and a message's copy is freed on every path.
MessagesWhole == /\ Q!RingExact /\ Q!ReferencesKeep
                 /\ D!HandlerGetsTheCall /\ D!CopyReturned
\* See Start: applications are registered after the manager is set up, the
\* deleted semaphore is not touched, and the program aborts only when
\* something failed.
StartOrdered == S!ManagerFirst /\ S!NoTouchAfterDelete /\ S!AbortMeansFault
\* See AppManager and Start: synchronous calls of AMB return, and main reaches
\* its loop.
CallsEnd == /\ part = "main" => P!SyncCallsReturn
            /\ part = "start" => S!StartEnds
=============================================================================
