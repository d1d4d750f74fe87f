----------------------------- MODULE NetConnect -----------------------------
(***************************************************************************)
(* c_net_test_connection and c_net_proxy_connection of                     *)
(* mw/linux_c_api/c_mt_lx_net_cfg.c: timed_tcp_test over IPv4 and, when it *)
(* fails, timed_tcp_test_v6, whose c_net_getaddrinfo leaves the look-up to *)
(* a thread and polls a flag in its own stack frame for 30 seconds.  A     *)
(* thread that is later writes into the frame of a call that has returned, *)
(* which is the frame of the caller's next call when it is made from the   *)
(* same place.  One caller makes the calls one after the other.            *)
(***************************************************************************)
EXTENDS Integers, Sequences

CONSTANTS Urls,        \* names
          Polls,       \* polls of the flag (300)
          MaxTests     \* bound on the calls

None == "none"         \* no text

VARIABLES test,        \* the call
          frame,       \* in_data and ipv6 in the frame of c_net_getaddrinfo
          lookups,     \* the GetaddrFn threads that were made
          open,        \* sockets of the call that are open
          tests

tvars == <<test, frame, lookups, open, tests>>

NoTest == [at |-> "idle", url |-> None, polls |-> 0, conn |-> "none", addr |-> None,
           ret |-> 0, v6 |-> FALSE, stale |-> FALSE, excused |-> FALSE]
TInit == /\ test = NoTest /\ frame = [url |-> None, flag |-> 0, text |-> None]
         /\ lookups = <<>> /\ open = 0 /\ tests = 0

Fail == -1
Late == \E i \in DOMAIN lookups : lookups[i].at # "done"

\* A call for a name: timed_tcp_test makes its socket first.
Start(url) ==
    /\ test.at = "idle" /\ tests < MaxTests /\ tests' = tests + 1
    /\ test' = [NoTest EXCEPT !.at = "socket", !.url = url, !.stale = Late]
    /\ UNCHANGED <<frame, lookups, open>>

\* No socket: IPv6 is tried next, or the call fails.
NoSocket ==
    /\ test.at = "socket"
    /\ test' = IF test.v6 THEN [test EXCEPT !.at = "idle", !.ret = Fail] ELSE [test EXCEPT !.at = "lookup", !.v6 = TRUE]
    /\ UNCHANGED <<frame, lookups, open, tests>>

\* socket; the address of IPv4 is a number or comes from c_net_gethostbyname.
Socket ==
    /\ test.at = "socket" /\ open' = open + 1
    /\ test' = [test EXCEPT !.at = "connect", !.addr = IF test.v6 THEN @ ELSE test.url]
    /\ UNCHANGED <<frame, lookups, tests>>

\* The test over one family fails: close, then IPv6 or the end.
Failed(r) ==
    /\ test' = IF r.v6 THEN [r EXCEPT !.at = "idle", !.ret = Fail] ELSE [r EXCEPT !.at = "lookup", !.v6 = TRUE, !.conn = "none", !.excused = FALSE]
    /\ open' = open - 1

\* c_net_gethostbyname fails, behind socket.
NoHost == test.at = "connect" /\ ~test.v6 /\ Failed(test) /\ UNCHANGED <<frame, lookups, tests>>

\* connect without blocking: in progress or made at once.
Connect ==
    /\ test.at = "connect"
    /\ \E c \in {"pending", "made"} : test' = [test EXCEPT !.at = "select", !.conn = c]
    /\ UNCHANGED <<frame, lookups, open, tests>>

\* connect fails at once (no route): only IPv6 looks at its result.
ConnectFails ==
    /\ test.at = "connect"
    /\ IF test.v6 THEN Failed(test)
       ELSE test' = [test EXCEPT !.at = "select", !.conn = "failed", !.excused = TRUE] /\ UNCHANGED open
    /\ UNCHANGED <<frame, lookups, tests>>

\* The peer accepts or refuses.
Answer ==
    /\ test.at = "select" /\ test.conn = "pending"
    /\ \E c \in {"made", "refused"} : test' = [test EXCEPT !.conn = c]
    /\ UNCHANGED <<frame, lookups, open, tests>>

Succeed == test' = [test EXCEPT !.at = "idle", !.ret = 0] /\ open' = open - 1

\* select says the socket can be written and SO_ERROR is 0: also for a socket
\* whose connect failed at once, and for one still in progress if select fails.
Ready ==
    /\ test.at = "select" /\ test.conn \in {"made", "failed"} /\ Succeed
    /\ UNCHANGED <<frame, lookups, tests>>
SelectFails ==
    /\ test.at = "select" /\ test.conn = "pending"
    /\ test' = [test EXCEPT !.at = "idle", !.ret = 0, !.excused = TRUE] /\ open' = open - 1
    /\ UNCHANGED <<frame, lookups, tests>>

\* SO_ERROR is set, or the time is over.
Refused == test.at = "select" /\ test.conn = "refused" /\ Failed(test) /\ UNCHANGED <<frame, lookups, tests>>
TimeOut == test.at = "select" /\ test.conn \in {"pending", "failed"} /\ Failed(test) /\ UNCHANGED <<frame, lookups, tests>>

\* timed_tcp_test_v6 of a number: no look-up.
Number ==
    /\ test.at = "lookup" /\ test' = [test EXCEPT !.at = "socket", !.addr = test.url]
    /\ UNCHANGED <<frame, lookups, open, tests>>

\* c_net_getaddrinfo: the frame is set and the thread made (its failure is not
\* looked at).
Lookup ==
    /\ test.at = "lookup"
    /\ frame' = [url |-> test.url, flag |-> 0, text |-> None]
    /\ test' = [test EXCEPT !.at = "poll", !.polls = Polls]
    /\ \/ lookups' = Append(lookups, [at |-> "made", url |-> None])
       \/ UNCHANGED lookups
    /\ UNCHANGED <<open, tests>>

\* Mutant of Poll: the polls are not counted.
PollForever ==
    /\ test.at = "poll" /\ frame.flag # 0
    /\ test' = IF frame.flag = 1 THEN [test EXCEPT !.at = "socket", !.addr = frame.text]
               ELSE [test EXCEPT !.at = "idle", !.ret = Fail]
    /\ UNCHANGED <<frame, lookups, open, tests>>

\* One poll.  ERROR_RET takes both failures.
Poll ==
    /\ test.at = "poll"
    /\ test' = IF frame.flag = 1 THEN [test EXCEPT !.at = "socket", !.addr = frame.text]
               ELSE IF frame.flag = -1 \/ test.polls = 1 THEN [test EXCEPT !.at = "idle", !.ret = Fail]
               ELSE [test EXCEPT !.polls = @ - 1]
    /\ UNCHANGED <<frame, lookups, open, tests>>

\* GetaddrFn reads the name in the frame when it begins ...
Begin(i) ==
    /\ lookups[i].at = "made"
    /\ lookups' = [lookups EXCEPT ![i] = [at |-> "asking", url |-> frame.url]]
    /\ UNCHANGED <<test, frame, open, tests>>

\* Mutant of Found: the flag is set before the text is written.
FoundEarly(i) ==
    \/ /\ lookups[i].at = "asking"
       /\ lookups' = [lookups EXCEPT ![i].at = "written"] /\ frame' = [frame EXCEPT !.flag = 1]
       /\ UNCHANGED <<test, open, tests>>
    \/ /\ lookups[i].at = "written"
       /\ lookups' = [lookups EXCEPT ![i].at = "done"] /\ frame' = [frame EXCEPT !.text = lookups[i].url]
       /\ UNCHANGED <<test, open, tests>>

\* ... and writes the text, then the flag, wherever the frame is now.
Found(i) ==
    \/ /\ lookups[i].at = "asking"
       /\ lookups' = [lookups EXCEPT ![i].at = "written"] /\ frame' = [frame EXCEPT !.text = lookups[i].url]
       /\ UNCHANGED <<test, open, tests>>
    \/ /\ lookups[i].at = "written"
       /\ lookups' = [lookups EXCEPT ![i].at = "done"] /\ frame' = [frame EXCEPT !.flag = 1]
       /\ UNCHANGED <<test, open, tests>>

NotFound(i) ==
    /\ lookups[i].at = "asking"
    /\ lookups' = [lookups EXCEPT ![i].at = "done"] /\ frame' = [frame EXCEPT !.flag = -1]
    /\ UNCHANGED <<test, open, tests>>

Thread(i) == Begin(i) \/ Found(i) \/ NotFound(i)
Caller == NoSocket \/ Socket \/ NoHost \/ Connect \/ ConnectFails \/ Ready \/ SelectFails \/ Refused \/ TimeOut
          \/ Number \/ Lookup \/ Poll

TNext == \/ \E url \in Urls : Start(url)
         \/ Caller \/ Answer
         \/ \E i \in DOMAIN lookups : Thread(i)

\* The caller goes on; the peer and the name server need not answer.
TFair == WF_tvars(Caller)

-----------------------------------------------------------------------------
\* NET_OK means that a connection was made, over one family or the other.  The
\* exceptions are a failing select, and a connect over IPv4 that fails at once:
\* timed_tcp_test does not look at its result and finds SO_ERROR cleared.
OkIsConnected == test.at = "idle" /\ test.ret = 0 /\ test.url # None => test.conn = "made" \/ test.excused

\* A call that has returned left no socket open, whichever family failed where.
TestsClose == test.at = "idle" => open = 0

\* IPv6 connects to the address of the name asked for, whole, if no look-up of
\* an earlier call was still running.
OwnAddress == test.at = "connect" /\ test.v6 => test.addr = test.url \/ test.stale

\* Every test returns, whether the name server and the peer answer or not.
TestsReturn == (test.at # "idle") ~> (test.at = "idle")
=============================================================================
