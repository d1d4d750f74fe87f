------------------------------ MODULE NetScript ------------------------------
(***************************************************************************)
(* The scripts mw/linux_c_api/c_mt_lx_net_cfg.c runs in child processes,   *)
(* in the build without netinfd:                                           *)
(*   "ip"   c_net_ip_config          "dns"  c_net_clean_dns_cache          *)
(*   "dhcp" dhcp_mon_thread          these take any child in wait()        *)
(*   "auto" c_net_autoip_config      waitpid() of its own child            *)
(*   "ntp"  ntp_mon_thread           system(), likewise its own            *)
(* wait() in one thread takes the exit status another thread waits for, and*)
(* so does the loop of the program's main, which reaps whatever ended.     *)
(* The rest is the control of the DHCP client: c_dhcpc_start, restart,     *)
(* notify_restart, and c_time_sync.                                        *)
(***************************************************************************)
EXTENDS Integers, FiniteSets

CONSTANTS Running,     \* the sets of scripts a behaviour may run
          Callbacks,   \* x_dhcpc_nfy_fct
          Tries,       \* i4_time, the attempts to create the thread (100)
          MaxCalls,    \* bound on the calls
          MaxFaults    \* bound on failing forks and thread creations

VARIABLES used,        \* the scripts this behaviour runs, and main's loop
          kid,         \* the child of each script: "none", "run" or its status
          act,         \* how far each caller or thread is
          fg,          \* fg_dhcp_thread_running
          listed,      \* DHCPMON, NTPMON on the list of threads
          client,      \* the call of the DHCP client that is in u_crit
          due,         \* restarts in system(), before u_crit
          saved,       \* t_lx_dhcp_monitor_g.pf_notify
          latest,      \* the callback given last
          crossed,     \* it was written beside the call that is in u_crit
          unsaved,     \* it was not saved, or that call saved its own
          overtaken,   \* a DHCP thread ended before its creator set the BOOL
          made, told,  \* DHCP threads made and their callbacks
          ready,       \* fg_ntp_sync_ready
          calls, faults

svars == <<used, kid, act, fg, listed, client, due, saved, latest, crossed, unsaved, overtaken, made, told, ready, calls, faults>>

Scripts == {"ip", "dns", "dhcp", "auto", "ntp"}
Anychild == {"ip", "dns", "dhcp"}         \* wait()
Statuses == {"ok", "bad", "noexec"}
\* A child whose execv fails exits with 0 or, in "auto" and the shell, not.
Zero(a, s) == s = "ok" \/ (s = "noexec" /\ a \in Anychild)

NotCalled == [at |-> "idle", res |-> "none", own |-> "none", stolen |-> FALSE, nofork |-> FALSE,
              cmd |-> "none", cb |-> "none"]
NoCall == [at |-> "idle", cmd |-> "none", cb |-> "none", tries |-> 0]

SInit == /\ used \in Running /\ kid = [a \in Scripts |-> "none"] /\ act = [a \in Scripts |-> NotCalled]
         /\ fg = FALSE /\ listed = {} /\ client = NoCall /\ due = 0
         /\ saved = "none" /\ latest = "none" /\ crossed = FALSE /\ unsaved = FALSE /\ overtaken = FALSE
         /\ made = 0 /\ told = 0 /\ ready = FALSE /\ calls = 0 /\ faults = 0

dvars == <<fg, client, due, saved, latest, crossed, unsaved, overtaken, made>>    \* the DHCP client's control

Called == calls < MaxCalls /\ calls' = calls + 1
Begins(a, cmd, cb) == act' = [act EXCEPT ![a] = [NotCalled EXCEPT !.at = "fork", !.cmd = cmd, !.cb = cb]]

-----------------------------------------------------------------------------
\* c_net_ip_config, c_net_clean_dns_cache, c_net_autoip_config are called.
Call(a) ==
    /\ a \in used \intersect {"ip", "dns", "auto"} /\ act[a].at = "idle" /\ Called
    /\ Begins(a, "none", "none")
    /\ UNCHANGED <<used, kid, listed, dvars, told, ready, faults>>

\* c_time_sync: once the time was set the callback is called at once; else a
\* thread is made, unless the last one is still on the list.
TimeSync ==
    /\ "ntp" \in used /\ Called
    /\ IF ready THEN act' = [act EXCEPT !["ntp"].res = "OK"] /\ UNCHANGED listed
       ELSE IF "ntp" \in listed THEN UNCHANGED <<act, listed>>
       ELSE Begins("ntp", "none", "none") /\ listed' = listed \union {"ntp"}
    /\ UNCHANGED <<used, kid, dvars, told, ready, faults>>

Fork(a) ==
    /\ act[a].at = "fork"
    /\ kid' = [kid EXCEPT ![a] = "run"] /\ act' = [act EXCEPT ![a].at = "wait"]
    /\ UNCHANGED <<used, listed, dvars, told, ready, calls, faults>>

\* The caller is done: c_net_ip_config's result, or the callback's argument.
\* A DHCP thread calls back before it resets the BOOL.
Done(a, ok, own) ==
    /\ act' = [act EXCEPT ![a].at = IF a = "dhcp" THEN "reset" ELSE IF a = "ntp" THEN "leave" ELSE "idle",
                          ![a].res = IF ok THEN "OK" ELSE "FAILED", ![a].own = own]
    /\ told' = IF a = "dhcp" THEN told + 1 ELSE told
    /\ ready' = IF a = "ntp" THEN ok ELSE ready

\* fork fails: c_net_ip_config still says NET_OK, c_net_autoip_config and
\* system fail, dhcp_mon_thread tries again.
ForkFails(a) ==
    /\ act[a].at = "fork" /\ faults < MaxFaults /\ faults' = faults + 1
    /\ IF a = "dhcp" THEN UNCHANGED <<act, told, ready>>
       ELSE /\ act' = [act EXCEPT ![a].at = IF a = "ntp" THEN "leave" ELSE "idle", ![a].nofork = TRUE,
                                  ![a].res = IF a \in {"ip", "dns"} THEN "OK" ELSE "FAILED"]
            /\ ready' = IF a = "ntp" THEN FALSE ELSE ready
            /\ UNCHANGED told
    /\ UNCHANGED <<used, kid, listed, dvars, calls>>

\* A script ends.
KidEnds(a) ==
    /\ kid[a] = "run" /\ \E s \in Statuses : kid' = [kid EXCEPT ![a] = s]
    /\ UNCHANGED <<used, act, listed, dvars, told, ready, calls, faults>>

Zombie(b) == kid[b] \in Statuses

\* Mutant of TakesOther: the first child that ends is taken for the own one.
TakesOtherAsOwn(a, b) ==
    /\ act[a].at = "wait" /\ a \in Anychild /\ b # a /\ Zombie(b)
    /\ kid' = [kid EXCEPT ![b] = "none"] /\ Done(a, Zero(b, kid[b]), "none")
    /\ UNCHANGED <<used, listed, dvars, calls, faults>>

\* wait() returns the child of another thread, which is lost for that thread;
\* the loop goes on.
TakesOther(a, b) ==
    /\ act[a].at = "wait" /\ a \in Anychild /\ b # a /\ Zombie(b)
    /\ kid' = [kid EXCEPT ![b] = "none"] /\ act' = [act EXCEPT ![b].stolen = TRUE]
    /\ UNCHANGED <<used, listed, dvars, told, ready, calls, faults>>

\* The program's last loop, main of appmainprog.c, takes any child that ended.
MainReaps(b) ==
    /\ "main" \in used /\ Zombie(b)
    /\ kid' = [kid EXCEPT ![b] = "none"] /\ act' = [act EXCEPT ![b].stolen = TRUE]
    /\ UNCHANGED <<used, listed, dvars, told, ready, calls, faults>>

\* wait() or waitpid() returns the own child.
TakesOwn(a) ==
    /\ act[a].at = "wait" /\ Zombie(a)
    /\ kid' = [kid EXCEPT ![a] = "none"] /\ Done(a, Zero(a, kid[a]) \/ a = "dns", kid[a])
    /\ UNCHANGED <<used, listed, dvars, calls, faults>>

\* There is no child to wait for: c_net_ip_config takes it for success, the
\* others for failure.
NoChild(a) ==
    /\ act[a].at = "wait" /\ IF a \in Anychild THEN \A b \in Scripts : kid[b] = "none" ELSE kid[a] = "none"
    /\ Done(a, a \in {"ip", "dns"}, "none")
    /\ UNCHANGED <<used, kid, listed, dvars, calls, faults>>

-----------------------------------------------------------------------------
\* A call of the DHCP client enters u_crit and reads the BOOL.
Enters(cmd, cb) ==
    /\ client.at = "idle"
    /\ client' = [at |-> IF fg THEN "save" ELSE "try", cmd |-> cmd, cb |-> cb, tries |-> Tries]
    /\ UNCHANGED <<used, kid, act, fg, listed, saved, crossed, overtaken, made, told, ready, faults>>

\* The second that c_dhcpc_start waits for a running thread changes nothing.
c_dhcpc_start(fn) ==
    /\ "dhcp" \in used /\ Called /\ Enters("start", fn)
    /\ latest' = fn /\ unsaved' = FALSE /\ UNCHANGED due

\* c_dhcpc_restart first runs a command ...
c_dhcpc_restart ==
    /\ "dhcp" \in used /\ Called /\ due' = due + 1
    /\ UNCHANGED <<used, kid, act, fg, listed, client, saved, latest, crossed, unsaved, overtaken, made, told, ready, faults>>

\* ... and c_dhcpc_notify_restart writes the saved callback before that, whoever
\* is in u_crit.
c_dhcpc_notify_restart(fn) ==
    /\ "dhcp" \in used /\ Called /\ due' = due + 1
    /\ saved' = fn /\ latest' = fn /\ crossed' = (client.at # "idle") /\ unsaved' = FALSE
    /\ UNCHANGED <<used, kid, act, fg, listed, client, overtaken, made, told, ready, faults>>

\* In u_crit the callback of a restart is what is saved by then.
RestartEnters ==
    /\ due > 0 /\ due' = due - 1 /\ Enters("restart", saved)
    /\ UNCHANGED <<latest, unsaved, calls>>

\* An attempt fails: the last DHCPMON is on the list, or there are no resources.
TryFails ==
    /\ client.at = "try"
    /\ \/ "dhcp" \in listed /\ UNCHANGED faults
       \/ faults < MaxFaults /\ faults' = faults + 1
    /\ client' = [client EXCEPT !.tries = @ - 1, !.at = IF @ = "try" /\ client.tries = 1 THEN "giveup" ELSE @]
    /\ UNCHANGED <<used, kid, act, fg, listed, due, saved, latest, crossed, unsaved, overtaken, made, told, ready, calls>>

TryCreates ==
    /\ client.at = "try" /\ "dhcp" \notin listed
    /\ listed' = listed \union {"dhcp"} /\ Begins("dhcp", client.cmd, client.cb) /\ made' = made + 1
    /\ client' = [client EXCEPT !.tries = @ - 1, !.at = "set"]
    /\ UNCHANGED <<used, kid, fg, due, saved, latest, crossed, unsaved, overtaken, told, ready, calls, faults>>

\* The BOOL is set after the thread was made; it may have ended by then.
SetFlag ==
    /\ client.at = "set" /\ fg' = TRUE /\ client' = [client EXCEPT !.at = "save"]
    /\ overtaken' = (overtaken \/ act["dhcp"].at \in {"leave", "idle"})
    /\ UNCHANGED <<used, kid, act, listed, due, saved, latest, crossed, unsaved, made, told, ready, calls, faults>>

\* The request is saved for the next restart if i4_time > 0: not when every
\* attempt failed, nor when the last one succeeded.
Save ==
    /\ client.at \in {"save", "giveup"} /\ client' = NoCall /\ crossed' = FALSE
    /\ LET over == client.at = "giveup" \/ client.tries = 0
       IN  /\ saved' = IF over THEN saved ELSE client.cb
           /\ unsaved' = (unsaved \/ IF crossed THEN ~over ELSE over /\ client.cmd = "start")
    /\ UNCHANGED <<used, kid, act, fg, listed, due, latest, overtaken, made, told, ready, calls, faults>>

\* The DHCP thread resets the BOOL; then it ends and leaves the list.
ThreadResets ==
    /\ act["dhcp"].at = "reset" /\ act' = [act EXCEPT !["dhcp"].at = "leave"] /\ fg' = FALSE
    /\ UNCHANGED <<used, kid, listed, client, due, saved, latest, crossed, unsaved, overtaken, made, told, ready, calls, faults>>

ThreadLeaves(a) ==
    /\ act[a].at = "leave" /\ act' = [act EXCEPT ![a].at = "idle"] /\ listed' = listed \ {a}
    /\ UNCHANGED <<used, kid, dvars, told, ready, calls, faults>>

-----------------------------------------------------------------------------
Step(a) == \/ Fork(a) \/ ForkFails(a) \/ (\E b \in Scripts : TakesOther(a, b)) \/ TakesOwn(a) \/ NoChild(a)
           \/ (a = "dhcp" /\ ThreadResets) \/ ThreadLeaves(a)
ClientStep == RestartEnters \/ TryFails \/ TryCreates \/ SetFlag \/ Save
ClientCalls == \/ \E c \in Callbacks : c_dhcpc_start(c) \/ c_dhcpc_notify_restart(c)
               \/ c_dhcpc_restart

SNext == \/ \E a \in Scripts : Call(a) \/ Step(a) \/ KidEnds(a) \/ MainReaps(a)
         \/ TimeSync \/ ClientCalls \/ ClientStep

\* Threads are scheduled, and every script ends.
SFair == /\ \A a \in Scripts : WF_svars(Step(a)) /\ WF_svars(KidEnds(a))
         /\ WF_svars(ClientStep)

-----------------------------------------------------------------------------
\* A result tells how the caller's own script ended, whatever children of other
\* threads wait() returned in between.  The exceptions are the code's: a status
\* that another thread took or a fork that failed is success for
\* c_net_ip_config and failure for the others.
ResultIsOwn ==
    \A a \in Scripts \ {"dns"} :
        /\ act[a].res = "OK" => Zero(a, act[a].own) \/ (a = "ip" /\ (act[a].stolen \/ act[a].nofork))
        /\ act[a].res = "FAILED" => \/ act[a].own \in Statuses /\ ~Zero(a, act[a].own)
                                    \/ a # "ip" /\ (act[a].stolen \/ act[a].nofork)

\* The BOOL of the DHCP client is set exactly while its thread works, unless the
\* thread ended before its creator set the BOOL, which then stays set.
DhcpFlagIsThread ==
    ~overtaken /\ client.at # "set" => (fg <=> act["dhcp"].at \in {"fork", "wait", "reset"})

\* Every DHCP thread calls back once, and has done so before another is made.
DhcpToldOnce == made = told + (IF act["dhcp"].at \in {"fork", "wait"} THEN 1 ELSE 0)

\* A restart calls back the client that gave its callback last, unless that call
\* made its thread with its last attempt or not at all, or the callback was
\* written while another call was in u_crit, which then saved its own.
RestartTellsLatest ==
    client.at = "idle" /\ ~unsaved => saved = latest

\* Every call and thread ends although each may lose its child to another: none
\* waits for ever as long as scripts end.  (The calls are bounded, so that all
\* of them have ended again and again.)
ScriptsReturn == []<>(\A a \in Scripts : act[a].at = "idle")
=============================================================================
