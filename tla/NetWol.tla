------------------------------- MODULE NetWol -------------------------------
(***************************************************************************)
(* The life of the wake-on-LAN listener of                                 *)
(* mw/linux_c_api/c_mt_lx_net_cfg.c: magic_packet_monitor_thread reads raw *)
(* packets while fg_wol_thread_running is set and calls back for a magic   *)
(* packet (NetText); c_net_start_wol_thread makes it inside u_crit,        *)
(* c_net_stop_wol_thread resets the BOOL and does not wait.                *)
(***************************************************************************)
EXTENDS Integers, Sequences

CONSTANTS Tries,       \* attempts to create the thread (100)
          MaxCalls     \* bound on the calls

VARIABLES low,         \* heap addresses fit an int
          fg,          \* fg_wol_thread_running
          wol,         \* the thread and its wol_req
          starter,     \* the call of c_net_start_wol_thread in u_crit
          reqs,        \* WOL_REQ_T blocks: "live" or "freed"
          stopping,    \* stop was called and no start after it
          lost,        \* the starter set the BOOL again after the stop
          overtaken,   \* the thread had ended when the starter set the BOOL
          badfree,     \* a freed block was used or freed
          wcalls

wvars == <<low, fg, wol, starter, reqs, stopping, lost, overtaken, badfree, wcalls>>

NoThread == [at |-> "none", req |-> 0]
Idle == [at |-> "idle", req |-> 0, tries |-> 0]

WInit == /\ low \in BOOLEAN /\ fg = FALSE /\ wol = NoThread /\ starter = Idle /\ reqs = <<>>
         /\ stopping = FALSE /\ lost = FALSE /\ overtaken = FALSE /\ badfree = FALSE /\ wcalls = 0

Free(r) == reqs' = [reqs EXCEPT ![r] = "freed"] /\ badfree' = (badfree \/ reqs[r] = "freed")

\* c_net_start_wol_thread: the request is allocated (a bad name or no memory:
\* nothing happens), u_crit is entered.
Start ==
    /\ starter.at = "idle" /\ wcalls < MaxCalls /\ wcalls' = wcalls + 1
    /\ reqs' = Append(reqs, "live")
    /\ starter' = [at |-> "test", req |-> Len(reqs) + 1, tries |-> Tries]
    /\ stopping' = FALSE
    /\ UNCHANGED <<low, fg, wol, lost, overtaken, badfree>>

\* NET_OK and nothing else when the BOOL is set.
Test ==
    /\ starter.at = "test"
    /\ IF fg THEN Free(starter.req) /\ starter' = Idle
       ELSE starter' = [starter EXCEPT !.at = "try"] /\ UNCHANGED <<reqs, badfree>>
    /\ UNCHANGED <<low, fg, wol, stopping, lost, overtaken, wcalls>>

\* An attempt sets the BOOL first ...
Attempt ==
    /\ starter.at = "try" /\ fg' = TRUE
    /\ starter' = [starter EXCEPT !.at = "create", !.tries = @ - 1]
    /\ UNCHANGED <<low, wol, reqs, stopping, lost, overtaken, badfree, wcalls>>

\* ... makes the thread ...
Create ==
    /\ starter.at = "create" /\ wol.at = "none"
    /\ wol' = [at |-> "open", req |-> starter.req]
    /\ starter' = [starter EXCEPT !.at = "set"]
    /\ UNCHANGED <<low, fg, reqs, stopping, lost, overtaken, badfree, wcalls>>

\* ... or not, because the last one has not left: the BOOL is reset and tried
\* again; after the last attempt the request is freed.
CreateFails ==
    /\ starter.at = "create" /\ fg' = FALSE
    /\ IF starter.tries > 0 THEN starter' = [starter EXCEPT !.at = "try"] /\ UNCHANGED <<reqs, badfree>>
       ELSE starter' = Idle /\ Free(starter.req)
    /\ UNCHANGED <<low, wol, stopping, lost, overtaken, wcalls>>

\* The BOOL is set once more after the thread was made.
SetAgain ==
    /\ starter.at = "set" /\ fg' = TRUE /\ starter' = Idle
    /\ lost' = (lost \/ ~fg) /\ overtaken' = (overtaken \/ wol.at \in {"none", "leave"})
    /\ UNCHANGED <<low, wol, reqs, stopping, badfree, wcalls>>

\* c_net_stop_wol_thread takes no lock.
Stop ==
    /\ wcalls < MaxCalls /\ wcalls' = wcalls + 1
    /\ fg' = FALSE /\ stopping' = (starter.at = "idle")
    /\ UNCHANGED <<low, wol, starter, reqs, lost, overtaken, badfree>>

-----------------------------------------------------------------------------
\* The thread is handed a pointer to its request and reads an int of it: where
\* an address does not fit, it uses and frees what is not its request, and is
\* not followed.  Else it opens its socket and sets the interface; failing, it
\* ends.
Open ==
    /\ wol.at = "open"
    /\ \E to \in IF low THEN {"loop", "end"} ELSE {"astray"} : wol' = [wol EXCEPT !.at = to]
    /\ UNCHANGED <<low, fg, starter, reqs, stopping, lost, overtaken, badfree, wcalls>>

\* while (fg_wol_thread_running), one second or one packet at a time.
Poll ==
    /\ wol.at = "loop" /\ wol' = [wol EXCEPT !.at = IF fg THEN "loop" ELSE "end"]
    /\ UNCHANGED <<low, fg, starter, reqs, stopping, lost, overtaken, badfree, wcalls>>

\* A magic packet: the callback is called, and the thread ends.
Wake ==
    /\ wol.at = "loop" /\ wol' = [wol EXCEPT !.at = "end"]
    /\ badfree' = (badfree \/ reqs[wol.req] = "freed")
    /\ UNCHANGED <<low, fg, starter, reqs, stopping, lost, overtaken, wcalls>>

\* The request is freed, then the BOOL reset, then the thread leaves the list.
End ==
    /\ wol.at = "end" /\ Free(wol.req) /\ wol' = [wol EXCEPT !.at = "reset"]
    /\ UNCHANGED <<low, fg, starter, stopping, lost, overtaken, wcalls>>

Reset ==
    /\ wol.at = "reset" /\ fg' = FALSE /\ wol' = [wol EXCEPT !.at = "leave"]
    /\ UNCHANGED <<low, starter, reqs, stopping, lost, overtaken, badfree, wcalls>>

Leave ==
    /\ wol.at = "leave" /\ wol' = NoThread
    /\ UNCHANGED <<low, fg, starter, reqs, stopping, lost, overtaken, badfree, wcalls>>

StarterStep == Test \/ Attempt \/ Create \/ CreateFails \/ SetAgain
ThreadStep == Open \/ Poll \/ Wake \/ End \/ Reset \/ Leave
WNext == Start \/ Stop \/ StarterStep \/ ThreadStep

\* The starter and the thread are scheduled; select returns after a second.
WFair == WF_wvars(StarterStep) /\ WF_wvars(Open \/ Poll \/ End \/ Reset \/ Leave)

-----------------------------------------------------------------------------
\* Each request block has one owner, the call or the thread, which frees it
\* once: neither the paths that do not start a thread nor the thread leak it,
\* unless the thread cannot find it.
RequestOwned ==
    /\ ~badfree
    /\ \A r \in DOMAIN reqs : reqs[r] = "live" =>
           (starter.at # "idle" /\ starter.req = r) \/ (wol.req = r /\ wol.at \in {"open", "loop", "end", "astray"})
    /\ wol.at = "astray" => ~low

\* The BOOL is set only while a thread works or is being made, unless the thread
\* had ended before its starter set it again.
WolFlagIsThread ==
    ~overtaken /\ starter.at \notin {"create", "set"} /\ fg => wol.at \notin {"none", "leave"}

\* A stop ends the thread, unless a starter that was not finished set the BOOL
\* again, a new start came or the thread did not find its request.
StopEnds == stopping ~> (wol.at \in {"none", "astray"} \/ ~stopping \/ lost)
=============================================================================
