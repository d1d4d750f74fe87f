------------------------------ MODULE NiMonitor ------------------------------
(***************************************************************************)
(* The interface monitor of mw/linux_c_api/c_mt_lx_net_cfg.c: a list of    *)
(* clients' callbacks (pt_lx_ni_monitor_list_root) that ni_mon_thread      *)
(* walks inside u_crit every 500 ms, calling the callbacks there.          *)
(* c_net_ni_reg_ev_notify and c_net_ni_unreg_ev_notify read the root       *)
(* before they enter u_crit; c_net_ip_config marks an item inside it,      *)
(* dhcp_mon_thread and the setters of IPv6 addresses without it.  One      *)
(* interface.                                                              *)
(***************************************************************************)
EXTENDS Integers, Sequences, SequencesExt, FiniteSets

CONSTANTS Threads,     \* threads that call
          Callbacks,   \* pf_notify
          MaxItems,    \* bound on the registrations
          MaxCalls,    \* bound on the calls
          MaxFlips     \* bound on the changes of the link

VARIABLES order,       \* the list: its items, the root first
          item,        \* NI_LX_MONITOR_LIST_T, by item
          freed,       \* items that were freed
          created,     \* fg_NiMonitor_Thrd_Create
          mon,         \* ni_mon_thread: the items it still visits
          crit,        \* u_crit is taken by ni_mon_thread
          thr,         \* the call each thread is in
          link,        \* IFF_RUNNING
          calls, flips,
          heard,       \* the last of PLUGIN, UNPLUG each callback was told
          again,       \* a callback was told the same twice
          late,        \* UNPLUG items entered after their client was told PLUGIN
          raced,       \* calls overlapped, or a callback unregistered itself
          uaf,         \* a freed item was used
          ownedEnds    \* every u_crit_end was made by the owner

mvars == <<order, item, freed, created, mon, crit, thr, link, calls, flips,
           heard, again, late, raced, uaf, ownedEnds>>

Changes == {"IP_CHANGED", "IPV6_CHANGED"}
Events == {"PLUGIN", "UNPLUG"} \union Changes
None == 0
Idle == [at |-> "idle", ev |-> "PLUGIN", cb |-> "none", from |-> None, new |-> None]

Root == IF order = <<>> THEN None ELSE order[1]
\* The items from p on, as a walk that starts at pointer p meets them.
From(p) == IF p \notin Range(order) THEN <<>>
           ELSE SubSeq(order, CHOOSE i \in DOMAIN order : order[i] = p, Len(order))
Matches(i, ev, cb) == item[i].ev = ev /\ item[i].cb = cb
\* The place of the first item of s that waits for ev; 0 is none.
FirstFor(s, ev) == SelectInSeq(s, LAMBDA i : item[i].ev = ev)
\* The place of the first that is ev's and cb's.
FirstOf(s, ev, cb) == SelectInSeq(s, LAMBDA i : Matches(i, ev, cb))

MInit == /\ order = <<>> /\ item = <<>> /\ freed = {} /\ created = FALSE
         /\ mon = [at |-> "none", todo |-> <<>>] /\ crit = FALSE
         /\ thr = [t \in Threads |-> Idle]
         /\ link = FALSE /\ calls = 0 /\ flips = 0
         /\ heard = [c \in Callbacks |-> "none"] /\ again = FALSE /\ late = {}
         /\ raced = FALSE /\ uaf = FALSE /\ ownedEnds = TRUE

Client(t, at) == thr' = [thr EXCEPT ![t].at = at]
Begin(t, at) ==
    /\ thr[t].at = "idle" /\ calls < MaxCalls /\ calls' = calls + 1
    /\ raced' = (raced \/ \E u \in Threads : thr[u].at # "idle")

-----------------------------------------------------------------------------
\* c_net_ni_reg_ev_notify: the monitor is started by the first call ...
Reg(t, ev, cb) ==
    /\ Begin(t, "create")
    /\ thr' = [thr EXCEPT ![t] = [Idle EXCEPT !.at = IF created THEN "regroot" ELSE "create", !.ev = ev, !.cb = cb]]
    /\ UNCHANGED <<order, item, freed, created, mon, crit, link, flips, heard, again, late, uaf, ownedEnds>>

\* ... or the call fails: a thread of that name exists, or none can be made.
CreateMonitor(t) ==
    /\ thr[t].at = "create"
    /\ \/ /\ mon.at = "none" /\ mon' = [mon EXCEPT !.at = "sleep"]
          /\ created' = TRUE /\ Client(t, "regroot")
       \/ Client(t, "idle") /\ UNCHANGED <<mon, created>>
    /\ UNCHANGED <<order, item, freed, crit, link, calls, flips, heard, again, late, raced, uaf, ownedEnds>>

\* The root is read before u_crit is entered (registering, unregistering).
ReadRoot(t) ==
    /\ thr[t].at \in {"regroot", "unregroot"}
    /\ thr' = [thr EXCEPT ![t].at = IF @ = "regroot" THEN "regfind" ELSE "unregfind", ![t].from = Root]
    /\ UNCHANGED <<order, item, freed, created, mon, crit, link, calls, flips, heard, again, late, raced, uaf, ownedEnds>>

\* Inside u_crit an equal registration is looked for; it makes the call succeed.
RegFind(t) ==
    /\ thr[t].at = "regfind" /\ ~crit
    /\ uaf' = (uaf \/ thr[t].from \in freed)
    /\ Client(t, IF \E i \in Range(From(thr[t].from)) : Matches(i, thr[t].ev, thr[t].cb) THEN "idle" ELSE "insert")
    /\ UNCHANGED <<order, item, freed, created, mon, crit, link, calls, flips, heard, again, late, raced, ownedEnds>>

\* The item becomes the root; UNPLUG and IP_CHANGED wait to be activated, the
\* others are due at once.
RegInsert(t) ==
    /\ thr[t].at = "insert" /\ ~crit /\ Len(item) < MaxItems
    /\ item' = Append(item, [ev |-> thr[t].ev, cb |-> thr[t].cb, need |-> thr[t].ev \notin {"UNPLUG", "IP_CHANGED"}])
    /\ order' = <<Len(item) + 1>> \o order
    /\ late' = IF thr[t].ev = "UNPLUG" /\ heard[thr[t].cb] = "PLUGIN" THEN late \union {Len(item) + 1} ELSE late
    /\ Client(t, "idle")
    /\ UNCHANGED <<freed, created, mon, crit, link, calls, flips, heard, again, raced, uaf, ownedEnds>>

\* malloc fails: NET_NI_ALLOC_MEM_FAILED.
RegFails(t) ==
    /\ thr[t].at = "insert" /\ Client(t, "idle")
    /\ UNCHANGED <<order, item, freed, created, mon, crit, link, calls, flips, heard, again, late, raced, uaf, ownedEnds>>

\* c_net_ni_unreg_ev_notify does nothing before the monitor was started.
Unreg(t, ev, cb) ==
    /\ Begin(t, "unregroot") /\ created
    /\ thr' = [thr EXCEPT ![t] = [Idle EXCEPT !.at = "unregroot", !.ev = ev, !.cb = cb]]
    /\ UNCHANGED <<order, item, freed, created, mon, crit, link, flips, heard, again, late, uaf, ownedEnds>>

\* Unlinking what the walk from the root that was read found: an item that is
\* not the root now and was the first of the walk has no predecessor.
Unlink(t) ==
    LET walk == From(thr[t].from)
        k == FirstOf(walk, thr[t].ev, thr[t].cb)
    IN  IF k = 0 THEN Client(t, "idle") /\ UNCHANGED <<order, heard>> /\ uaf' = (uaf \/ thr[t].from \in freed)
        ELSE /\ thr' = [thr EXCEPT ![t].at = "free", ![t].new = walk[k]]
             /\ order' = RemoveFirst(order, walk[k])
             /\ uaf' = (uaf \/ (k = 1 /\ walk[k] # Root))
             /\ heard' = IF thr[t].ev = "PLUGIN" THEN [heard EXCEPT ![thr[t].cb] = "none"] ELSE heard

\* Mutant of UnregFind: u_crit is not entered.
UnregFindUnlocked(t) ==
    /\ thr[t].at = "unregfind" /\ Unlink(t)
    /\ UNCHANGED <<item, freed, created, mon, crit, link, calls, flips, again, late, raced, ownedEnds>>

UnregFind(t) ==
    /\ thr[t].at = "unregfind" /\ ~crit /\ Unlink(t)
    /\ UNCHANGED <<item, freed, created, mon, crit, link, calls, flips, again, late, raced, ownedEnds>>

\* The item is freed after u_crit was left.
UnregFree(t) ==
    /\ thr[t].at = "free" /\ Client(t, "idle") /\ freed' = freed \union {thr[t].new}
    /\ UNCHANGED <<order, item, created, mon, crit, link, calls, flips, heard, again, late, raced, uaf, ownedEnds>>

-----------------------------------------------------------------------------
\* c_net_ip_config, its script done, activates the first IP_CHANGED item inside
\* u_crit and leaves u_crit in the loop and again after it.
IpConfigMarks(t) ==
    /\ Begin(t, "idle") /\ ~crit
    /\ LET k == FirstFor(order, "IP_CHANGED")
       IN  IF k = 0 THEN UNCHANGED <<item, ownedEnds>>
           ELSE item' = [item EXCEPT ![order[k]].need = TRUE] /\ ownedEnds' = FALSE
    /\ UNCHANGED <<order, freed, created, mon, crit, thr, link, flips, heard, again, late, uaf>>

\* dhcp_mon_thread and whoever sets or deletes an IPv6 address walk the list
\* without u_crit ...
Walks(t, ev) ==
    /\ Begin(t, "mark")
    /\ LET k == FirstFor(order, ev)
       IN  thr' = IF k = 0 THEN thr ELSE [thr EXCEPT ![t] = [Idle EXCEPT !.at = "mark", !.from = order[k]]]
    /\ UNCHANGED <<order, item, freed, created, mon, crit, link, flips, heard, again, late, uaf, ownedEnds>>

\* ... and mark the item they came to.
Marks(t) ==
    /\ thr[t].at = "mark" /\ Client(t, "idle")
    /\ item' = [item EXCEPT ![thr[t].from].need = TRUE] /\ uaf' = (uaf \/ thr[t].from \in freed)
    /\ UNCHANGED <<order, freed, created, mon, crit, link, calls, flips, heard, again, late, raced, ownedEnds>>

-----------------------------------------------------------------------------
\* ni_mon_thread wakes up and enters u_crit.
PassBegins ==
    /\ mon.at = "sleep" /\ ~crit /\ crit' = TRUE
    /\ mon' = [at |-> "pass", todo |-> order]
    /\ UNCHANGED <<order, item, freed, created, thr, link, calls, flips, heard, again, late, raced, uaf, ownedEnds>>

PassEnds ==
    /\ mon.at = "pass" /\ mon.todo = <<>> /\ crit' = FALSE
    /\ mon' = [mon EXCEPT !.at = "sleep"]
    /\ UNCHANGED <<order, item, freed, created, thr, link, calls, flips, heard, again, late, raced, uaf, ownedEnds>>

Due(i) == item[i].need /\ CASE item[i].ev = "PLUGIN" -> link [] item[i].ev = "UNPLUG" -> ~link [] OTHER -> TRUE

\* What a notification activates: PLUGIN the first UNPLUG item, UNPLUG every
\* PLUGIN item that waits.
Rearm(i) ==
    IF item[i].ev = "PLUGIN"
    THEN LET k == FirstFor(order, "UNPLUG") IN IF k = 0 THEN {} ELSE {order[k]}
    ELSE IF item[i].ev = "UNPLUG" THEN {j \in Range(order) : item[j].ev = "PLUGIN"}
    ELSE {}

\* The items once i was notified.
Notified(i) == [j \in DOMAIN item |-> [item[j] EXCEPT !.need = IF j = i THEN FALSE ELSE @ \/ j \in Rearm(i)]]

\* The walk comes to its next item.  The flag is written after the callback,
\* which may have unregistered, and so freed, the item.
Visit ==
    /\ mon.at = "pass" /\ mon.todo # <<>>
    /\ LET i == Head(mon.todo) IN
       /\ mon' = [mon EXCEPT !.todo = Tail(@)]
       /\ IF ~Due(i) THEN UNCHANGED <<item, order, freed, heard, again, raced>> /\ uaf' = (uaf \/ i \in freed)
          ELSE /\ item' = Notified(i)
               /\ heard' = IF item[i].ev \in Changes THEN heard ELSE [heard EXCEPT ![item[i].cb] = item[i].ev]
               /\ again' = (again \/ heard[item[i].cb] = item[i].ev)
               /\ \/ UNCHANGED <<order, freed, raced>> /\ uaf' = (uaf \/ i \in freed)
                  \/ /\ i \notin freed /\ freed' = freed \union {i} /\ order' = RemoveFirst(order, i)
                     /\ raced' = TRUE /\ uaf' = TRUE
    /\ UNCHANGED <<created, crit, thr, link, calls, flips, late, ownedEnds>>

\* The cable is plugged in or out.
LinkChanges ==
    /\ flips < MaxFlips /\ flips' = flips + 1 /\ link' = ~link
    /\ UNCHANGED <<order, item, freed, created, mon, crit, thr, calls, heard, again, late, raced, uaf, ownedEnds>>

-----------------------------------------------------------------------------
ThreadStep(t) == \/ CreateMonitor(t) \/ ReadRoot(t) \/ RegFind(t) \/ RegInsert(t) \/ RegFails(t)
                 \/ UnregFind(t) \/ UnregFree(t) \/ Marks(t)
MonitorStep == PassBegins \/ Visit \/ PassEnds

MNext == \/ \E t \in Threads : \/ \E e \in Events, c \in Callbacks : Reg(t, e, c) \/ Unreg(t, e, c)
                               \/ ThreadStep(t) \/ IpConfigMarks(t) \/ \E e \in Changes : Walks(t, e)
         \/ MonitorStep \/ LinkChanges

\* The monitor thread is an endless loop; a call that began goes on.
MFair == WF_mvars(MonitorStep) /\ \A t \in Threads : WF_mvars(ThreadStep(t))

-----------------------------------------------------------------------------
\* While calls do not overlap and no callback unregisters itself, nothing uses
\* an item that c_net_ni_unreg_ev_notify freed, or unlinks through a missing
\* predecessor, although roots are read outside u_crit and the monitor may be
\* anywhere in its pass.
NoUseAfterFree == ~raced => ~uaf

\* While calls do not overlap, a callback is on the list once per event: it is
\* never called twice for one change.
RegisteredOnce == ~raced =>
    \A i, j \in Range(order) : item[i].ev = item[j].ev /\ item[i].cb = item[j].cb => i = j

\* A client that is alone hears of PLUGIN and UNPLUG in turn, whatever the link
\* does between two passes and whatever it registers again.
InTurn == ~raced /\ Cardinality(Callbacks) = 1 => ~again

On(c, ev) == \E i \in Range(order) \ late : Matches(i, ev, c)
Watched(c) == ~raced /\ Cardinality(Callbacks) = 1 /\ On(c, "PLUGIN") /\ On(c, "UNPLUG")

\* A client that is alone and asked for UNPLUG before it was told PLUGIN learns
\* of each state of the link that lasts.
LinkIsReported ==
    \A c \in Callbacks :
        /\ (Watched(c) /\ link) ~> (~Watched(c) \/ ~link \/ heard[c] = "PLUGIN")
        /\ (Watched(c) /\ ~link /\ heard[c] = "PLUGIN") ~> (~Watched(c) \/ link \/ heard[c] = "UNPLUG")

\* u_crit_end asserts that its caller is inside u_crit (os_pthread_crit.c):
\* c_net_ip_config calls it a second time when it found an item.
CritEndsByOwner == ownedEnds
=============================================================================
