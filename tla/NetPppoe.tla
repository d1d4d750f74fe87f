------------------------------- MODULE NetPppoe -------------------------------
(***************************************************************************)
(* PPPoE in mw/linux_c_api/c_mt_lx_net_cfg.c: pppoe_config holds the       *)
(* strings and the callback of the last start; c_pppoe_start and           *)
(* c_pppoe_restart leave the script to ipcd_exec_async, whose thread comes *)
(* to _c_pppoe_start_notify_callback when it has ended.  No lock: one      *)
(* application thread calls start, stop and restart, the threads of ipcd   *)
(* read the callback.                                                      *)
(***************************************************************************)
EXTENDS Integers, Sequences

CONSTANTS Fns,         \* callbacks
          MaxOps       \* bound on the calls

NULL == "null"
Strings == {"ifname", "username", "password"}

VARIABLES cfg,         \* pppoe_config: the strings that are allocated and cb_fn
          app,         \* the call of the application: "idle" or the callback being started
          jobs,        \* the commands given to ipcd_exec_async
          told,        \* calls of the callbacks: [fn, of]
          crash,       \* a NULL pointer was used
          ops

pvars == <<cfg, app, jobs, told, crash, ops>>

PInit == /\ cfg = [strings |-> {}, fn |-> NULL] /\ app = NULL /\ jobs = <<>> /\ told = {} /\ crash = FALSE /\ ops = 0

cleanup_pppoe_conf == [strings |-> {}, fn |-> NULL]

\* A callback that was tested before and is used behind a cleanup.
Overtaken == [i \in DOMAIN jobs |-> IF jobs[i].at # "done" THEN [jobs[i] EXCEPT !.kept = FALSE] ELSE jobs[i]]

\* c_pppoe_start begins with the cleanup ...
Start(fn) ==
    /\ app = NULL /\ ops < MaxOps /\ ops' = ops + 1 /\ app' = fn
    /\ cfg' = cleanup_pppoe_conf /\ jobs' = Overtaken
    /\ UNCHANGED <<told, crash>>

\* ... a malloc fails: of the first two strings, NET_FAILED with what was
\* allocated freed; of the password, the test is of the user name and strncpy
\* gets NULL ...
NoMemory ==
    /\ app # NULL /\ app' = NULL
    /\ crash' \in {crash, TRUE}
    /\ UNCHANGED <<cfg, jobs, told, ops>>

Job(fn) == [at |-> "script", event |-> NULL, fn |-> fn, kept |-> TRUE]

\* ... or the strings and the callback are stored and the command given away
\* (a failure of ipcd_exec_async is not looked at).
Fill ==
    /\ app # NULL /\ app' = NULL
    /\ cfg' = [strings |-> Strings, fn |-> app]
    /\ jobs' \in {jobs, Append(jobs, Job(app))}
    /\ UNCHANGED <<told, crash, ops>>

c_pppoe_stop ==
    /\ app = NULL /\ ops < MaxOps /\ ops' = ops + 1
    /\ cfg' = cleanup_pppoe_conf /\ jobs' = Overtaken
    /\ UNCHANGED <<app, told, crash>>

\* NET_FAILED without a callback.
c_pppoe_restart ==
    /\ app = NULL /\ cfg.fn # NULL /\ ops < MaxOps /\ ops' = ops + 1
    /\ jobs' \in {jobs, Append(jobs, Job(cfg.fn))}
    /\ UNCHANGED <<cfg, app, told, crash>>

\* ipcd ends the command and calls back (external).
Ended(i) ==
    /\ jobs[i].at = "script"
    /\ \E e \in {"SUCESS", "FAILED"} : jobs' = [jobs EXCEPT ![i].at = "event", ![i].event = e]
    /\ UNCHANGED <<cfg, app, told, crash, ops>>

\* _c_pppoe_start_notify_callback: IPCD_EXEC_FAILED breaks without a word, a
\* success tests the callback ...
Event(i) ==
    /\ jobs[i].at = "event"
    /\ jobs' = [jobs EXCEPT ![i].at = IF jobs[i].event = "SUCESS" /\ cfg.fn # NULL THEN "call" ELSE "done"]
    /\ UNCHANGED <<cfg, app, told, crash, ops>>

\* ... and then reads it again for the call.
CallBack(i) ==
    /\ jobs[i].at = "call" /\ jobs' = [jobs EXCEPT ![i].at = "done"]
    /\ IF cfg.fn = NULL THEN crash' = TRUE /\ UNCHANGED told
       ELSE told' = told \union {[fn |-> cfg.fn, of |-> i]} /\ UNCHANGED crash
    /\ UNCHANGED <<cfg, app, ops>>

PNext == /\ ~crash
         /\ \/ \E fn \in Fns : Start(fn)
            \/ NoMemory \/ Fill \/ c_pppoe_stop \/ c_pppoe_restart
            \/ \E i \in DOMAIN jobs : Ended(i) \/ Event(i) \/ CallBack(i)
PFair == /\ WF_pvars(~crash /\ (NoMemory \/ Fill))
         /\ \A i \in 1..MaxOps : WF_pvars(~crash /\ i \in DOMAIN jobs /\ (Ended(i) \/ Event(i) \/ CallBack(i)))

-----------------------------------------------------------------------------
\* A callback that is set comes with all three strings, which c_pppoe_restart
\* formats without a test.
ConfigWhole == cfg.fn # NULL => cfg.strings = Strings

\* A script that succeeds and is not overtaken is told to the application.
SuccessIsTold ==
    []<>(crash \/ \A i \in DOMAIN jobs :
             jobs[i].event = "SUCESS" => ~jobs[i].kept \/ [fn |-> jobs[i].fn, of |-> i] \in told)
=============================================================================
