------------------------------- MODULE NetJob -------------------------------
(***************************************************************************)
(* The jobs of mw/linux_c_api/c_mt_lx_net_cfg.c that run in a thread of    *)
(* their own, each behind one BOOL that says its thread runs:              *)
(*   "speed"  c_net_get_ni_speed        "cmd"   c_net_ip_conflict          *)
(*   "host"   c_net_gethostbyname*      "addr"  c_net_dns_lookup           *)
(*   "ping"   c_net_pinghostbyname      "conn"  c_net_test_connection_async*)
(* A call of host, addr or ping polls the BOOL until the thread is done or *)
(* its time is over and takes the answer from a global; the others call    *)
(* back.  The BOOLs are read and written without a lock, so that each      *)
(* access is a step.  The threads have fixed names: u_thread_create says   *)
(* OSR_EXIST while an earlier one is still on the list.                    *)
(***************************************************************************)
EXTENDS Integers, Sequences

CONSTANTS Callers,     \* threads that call
          Urls,        \* hosts, interfaces or addresses asked for
          MaxCalls     \* bound on the calls

VARIABLES kind,        \* the kind that is called
          fg,          \* its fg_*_thread_running
          res,         \* pt_hostnet, answer, ping_host_result: the url it is for
          worker,      \* its thread
          call,        \* the call each caller is in
          alone,       \* the program: one call at a time
          low,         \* heap addresses fit an int
          stuck,       \* a failure left the BOOL set
          accepted, told,   \* callbacks due and made, by caller
          calls        \* counts the calls, for the bound

jvars == <<kind, fg, res, worker, call, alone, low, stuck, accepted, told, calls>>

Kinds == {"speed", "cmd", "host", "addr", "ping", "conn"}
Waiting == {"host", "addr", "ping"}       \* the caller waits for the answer
Allocating == {"speed", "conn"}           \* the thread is handed a pointer
Null == "null"                            \* NULL, NET_FAILED

NoWorker == [at |-> "none", url |-> Null, by |-> Null]
Idle == [at |-> "idle", url |-> Null, joined |-> FALSE, got |-> Null]

JInit == /\ kind \in Kinds /\ fg = FALSE /\ res = Null /\ worker = NoWorker
         /\ call = [c \in Callers |-> Idle]
         /\ alone \in BOOLEAN /\ low \in BOOLEAN /\ stuck = FALSE
         /\ accepted = [c \in Callers |-> 0] /\ told = [c \in Callers |-> 0] /\ calls = 0

Goto(c, at) == call' = [call EXCEPT ![c].at = at]
\* The call returns v.
Return(c, v) == call' = [call EXCEPT ![c].at = "idle", ![c].got = v]

-----------------------------------------------------------------------------
\* A call begins.  c_net_dns_lookup first clears the answer.
Call(c, u) ==
    /\ call[c].at = "idle" /\ calls < MaxCalls /\ calls' = calls + 1
    /\ alone => \A d \in Callers : call[d].at = "idle"
    /\ kind \notin Waiting => u = CHOOSE x \in Urls : TRUE     \* the others do not tell them apart
    /\ call' = [call EXCEPT ![c] = [Idle EXCEPT !.at = "test", !.url = u]]
    /\ res' = IF kind = "addr" THEN Null ELSE res
    /\ UNCHANGED <<kind, fg, worker, alone, low, stuck, accepted, told>>

\* The BOOL is read.  When the thread runs, a waiting call waits for it, a
\* speed call is called back with the speed of last time, the others return
\* NET_OK and are never called back.
Test(c) ==
    /\ call[c].at = "test"
    /\ IF ~fg THEN Goto(c, "claim")
       ELSE IF kind \in Waiting THEN call' = [call EXCEPT ![c].at = "wait", ![c].joined = TRUE]
       ELSE Return(c, Null)
    /\ IF fg /\ kind = "speed"
       THEN accepted' = [accepted EXCEPT ![c] = @ + 1] /\ told' = [told EXCEPT ![c] = @ + 1]
       ELSE UNCHANGED <<accepted, told>>
    /\ UNCHANGED <<kind, calls, fg, res, worker, alone, low, stuck>>

\* The BOOL is set; c_net_pinghostbyname also clears its result.
Claim(c) ==
    /\ call[c].at = "claim" /\ Goto(c, "create")
    /\ fg' = TRUE
    /\ res' = IF kind = "ping" THEN Null ELSE res
    /\ UNCHANGED <<kind, calls, worker, alone, low, stuck, accepted, told>>

\* malloc fails: NET_FAILED, and the BOOL stays set.
AllocFails(c) ==
    /\ call[c].at = "create"
    /\ Return(c, Null) /\ stuck' = TRUE
    /\ UNCHANGED <<kind, calls, fg, res, worker, alone, low, accepted, told>>

\* u_thread_create makes the thread; a waiting call then waits.
Create(c) ==
    /\ call[c].at = "create" /\ worker.at = "none"
    /\ worker' = [at |-> "work", url |-> call[c].url, by |-> c]
    /\ IF kind \in Waiting THEN Goto(c, "wait") /\ UNCHANGED accepted
       ELSE Return(c, Null) /\ accepted' = [accepted EXCEPT ![c] = @ + 1]
    /\ UNCHANGED <<kind, calls, fg, res, alone, low, stuck, told>>

\* u_thread_create fails: an older thread of that name has not left the list
\* yet, or there are no resources.  The BOOL is reset whoever had set it.
CreateFails(c) ==
    /\ call[c].at = "create" /\ Return(c, Null)
    /\ fg' = FALSE
    /\ UNCHANGED <<kind, calls, res, worker, alone, low, stuck, accepted, told>>

\* Mutant of WaitEnds: there is no bound on the polls.
WaitEndsFlag(c) ==
    /\ call[c].at = "wait" /\ ~fg /\ Goto(c, "look")
    /\ UNCHANGED <<kind, calls, fg, res, worker, alone, low, stuck, accepted, told>>

\* The polling loop ends because the BOOL is FALSE or its count is over.
WaitEnds(c) ==
    /\ call[c].at = "wait" /\ Goto(c, "look")
    /\ UNCHANGED <<kind, calls, fg, res, worker, alone, low, stuck, accepted, told>>

\* Mutant of Look: the answer is taken although the thread still runs.
LookAnyway(c) ==
    /\ call[c].at = "look"
    /\ LET v == res IN
       IF kind = "addr" /\ v # Null THEN call' = [call EXCEPT ![c].at = "use", ![c].got = v]
       ELSE Return(c, v)
    /\ UNCHANGED <<kind, calls, fg, res, worker, alone, low, stuck, accepted, told>>

\* The BOOL is read again: NULL if it is set, else the global.
Look(c) ==
    /\ call[c].at = "look"
    /\ LET v == IF fg THEN Null ELSE res IN
       IF kind = "addr" /\ v # Null THEN call' = [call EXCEPT ![c].at = "use", ![c].got = v]
       ELSE Return(c, v)
    /\ UNCHANGED <<kind, calls, fg, res, worker, alone, low, stuck, accepted, told>>

\* c_net_dns_lookup prints the list and frees what the global names by then,
\* unless a thread runs again.
DnsFree(c) ==
    /\ call[c].at = "use" /\ Goto(c, "idle")
    /\ res' = IF fg THEN res ELSE Null
    /\ UNCHANGED <<kind, calls, fg, worker, alone, low, stuck, accepted, told>>

-----------------------------------------------------------------------------
\* The threads.  Three write the answer; getaddrinfo leaves it alone when it
\* fails.
Answers(k, failed) ==
    /\ kind = k /\ worker.at = "work"
    /\ worker' = [worker EXCEPT !.at = "clear"]
    /\ res' \in {worker.url, failed}
    /\ UNCHANGED <<kind, calls, fg, call, alone, low, stuck, accepted, told>>

host_mon_thread == Answers("host", Null)
ping_host_thread == Answers("ping", Null)
addrinfo_mon_thread == Answers("addr", res)

\* The others do their work and call back, before the BOOL is reset.
CallsBack(k) ==
    /\ kind = k /\ worker.at = "work"
    /\ told' = [told EXCEPT ![worker.by] = @ + 1]
    /\ worker' = [worker EXCEPT !.at = "clear"]
    /\ UNCHANGED <<kind, calls, fg, res, call, alone, low, stuck, accepted>>

\* Two of them are handed a pointer to their request and read an int of it:
\* where an address does not fit, the thread uses what is not its request.
\* It is not followed from there.
GoesAstray(k) ==
    /\ kind = k /\ worker.at = "work" /\ ~low
    /\ worker' = [worker EXCEPT !.at = "astray"] /\ stuck' = TRUE
    /\ UNCHANGED <<kind, calls, fg, res, call, alone, low, accepted, told>>

net_cmd_thread == CallsBack("cmd")
c_net_get_ni_speed_thread == (low /\ CallsBack("speed")) \/ GoesAstray("speed")
c_net_test_connection_thread == (low /\ CallsBack("conn")) \/ GoesAstray("conn")

\* /proc/net/dev does not open: the speed thread ends, the BOOL stays set.
SpeedFails ==
    /\ kind = "speed" /\ worker.at = "work" /\ low
    /\ worker' = [worker EXCEPT !.at = "leave"]
    /\ stuck' = TRUE
    /\ accepted' = [accepted EXCEPT ![worker.by] = @ - 1]
    /\ UNCHANGED <<kind, calls, fg, res, call, alone, low, told>>

\* The BOOL is reset, then the thread ends and leaves the list of threads.
Clear ==
    /\ worker.at = "clear"
    /\ fg' = FALSE
    /\ worker' = [worker EXCEPT !.at = "leave"]
    /\ UNCHANGED <<kind, calls, res, call, alone, low, stuck, accepted, told>>

Leave ==
    /\ worker.at = "leave" /\ worker' = NoWorker
    /\ UNCHANGED <<kind, calls, fg, res, call, alone, low, stuck, accepted, told>>

-----------------------------------------------------------------------------
\* The steps of each function that is called.
Starts(c) == Test(c) \/ Claim(c) \/ Create(c) \/ CreateFails(c)
Waits(c) == WaitEnds(c) \/ Look(c)

c_net_get_ni_speed(c) == kind = "speed" /\ (Starts(c) \/ AllocFails(c))
c_net_ip_conflict(c) == kind = "cmd" /\ Starts(c)
c_net_test_connection_async(c) == kind = "conn" /\ (Starts(c) \/ AllocFails(c))
c_net_gethostbyname(c) == kind = "host" /\ (Starts(c) \/ Waits(c))
c_net_pinghostbyname(c) == kind = "ping" /\ (Starts(c) \/ Waits(c))
c_net_dns_lookup(c) == kind = "addr" /\ (Starts(c) \/ Waits(c) \/ DnsFree(c))

CallerStep(c) ==
    \/ c_net_get_ni_speed(c) \/ c_net_ip_conflict(c) \/ c_net_test_connection_async(c)
    \/ c_net_gethostbyname(c) \/ c_net_pinghostbyname(c) \/ c_net_dns_lookup(c)
Work == \/ host_mon_thread \/ ping_host_thread \/ addrinfo_mon_thread
        \/ net_cmd_thread \/ c_net_get_ni_speed_thread \/ c_net_test_connection_thread
WorkerStep == Work \/ Clear \/ Leave

JNext == \/ \E c \in Callers : \/ \E u \in Urls : Call(c, u)
                               \/ CallerStep(c)
         \/ WorkerStep
         \/ SpeedFails

\* Callers and threads are scheduled, a script and a connection test end; a
\* look-up or a ping need not.
JFair == (\A c \in Callers : WF_jvars(CallerStep(c))) /\ WF_jvars(kind \notin Waiting /\ WorkerStep)

-----------------------------------------------------------------------------
Starting == \E c \in Callers : call[c].at = "create"

\* When calls do not overlap, a job's BOOL is set exactly while its thread runs
\* or is being started, or for ever after one of the failures that return
\* without resetting it or a thread that went astray: a timed-out call, a thread that is late or a creation
\* that fails never leaves it wrong.
FlagNamesThread ==
    alone /\ ~stuck => (fg <=> (worker.at \in {"work", "clear"} \/ Starting))

\* When calls do not overlap, only a call of host or ping that found the thread
\* of an earlier, timed-out call running can return the answer of that call's
\* host.  (A failing look-up of addr leaves what a late thread stored.)
WrongAnswerOnlyJoined ==
    alone /\ kind # "addr" => \A c \in Callers :
        call[c].at = "idle" /\ call[c].got # Null /\ call[c].got # call[c].url => call[c].joined

\* Every call returns, even when the answer never comes: with a bounded number
\* of calls, again and again none is under way.
LookupsReturn == []<>(\A c \in Callers : call[c].at = "idle")

\* A request that a thread was started for, or a speed request that found one,
\* is called back in the end, if the thread found its request.
AcceptedIsTold == []<>(worker.at = "astray" \/ \A c \in Callers : told[c] = accepted[c])
=============================================================================
