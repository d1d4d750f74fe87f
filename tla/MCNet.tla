------------------------------- MODULE MCNet -------------------------------
(* The threads of c_mt_lx_net_cfg.c for TLC: the interface monitor, the jobs *)
(* behind a BOOL, the scripts with the DHCP client, and wake on LAN.  Each   *)
(* behaviour is about one of them.                                           *)
EXTENDS NiMonitor

CONSTANTS JobCallers, JobUrls, JobCalls,                                    \* see NetJob
          ScriptSets, ScriptClients, ScriptTries, ScriptCalls, ScriptFaults, \* see NetScript
          WolTries, WolCalls                                                \* see NetWol

VARIABLES part,
          kind, jfg, res, worker, call, alone, low, stuck, accepted, jtold, jcalls,
          used, kid, act, sfg, listed, client, due, saved, latest, crossed, unsaved, sovertaken, made, stold, ready, scalls, faults,
          wfg, wol, starter, reqs, stopping, lost, wovertaken, badfree, wcalls

J == INSTANCE NetJob WITH Callers <- JobCallers, Urls <- JobUrls, MaxCalls <- JobCalls,
                          fg <- jfg, told <- jtold, calls <- jcalls

\* Of the scripts, the pairs that take each other's children.
MCRunning == {{"ip", "dns"}, {"ip", "dhcp"}, {"auto", "ntp", "ip"}, {"auto", "ip", "main"}}
S == INSTANCE NetScript WITH Running <- ScriptSets, Callbacks <- ScriptClients, Tries <- ScriptTries,
                             MaxCalls <- ScriptCalls, MaxFaults <- ScriptFaults,
                             fg <- sfg, overtaken <- sovertaken, told <- stold, calls <- scalls

W == INSTANCE NetWol WITH Tries <- WolTries, MaxCalls <- WolCalls,
                          fg <- wfg, overtaken <- wovertaken

jvars == <<kind, jfg, res, worker, call, alone, low, stuck, accepted, jtold, jcalls>>
svars == <<used, kid, act, sfg, listed, client, due, saved, latest, crossed, unsaved, sovertaken, made, stold, ready, scalls, faults>>
wvars == <<low, wfg, wol, starter, reqs, stopping, lost, wovertaken, badfree, wcalls>>
allvars == <<part, mvars, jvars, svars, wvars>>

ASSUME NetAssumption == WolTries \in Nat /\ ScriptTries \in Nat /\ IsFiniteSet(Callbacks)

MCInit == /\ part \in {"monitor", "jobs", "scripts", "wol"}
          /\ MInit
          /\ J!JInit /\ (part # "jobs" => kind = "host" /\ alone)
          /\ S!SInit /\ (part # "scripts" => used = {"ip", "dns"})
          /\ W!WInit
          /\ low \/ part = "wol" \/ (part = "jobs" /\ kind \in J!Allocating)

\* The monitor is followed until calls overlap or a callback unregisters itself:
\* its properties promise nothing from there on.
MCNext == \/ part = "monitor" /\ ~raced /\ MNext /\ UNCHANGED <<part, jvars, svars, wvars>>
          \/ part = "jobs" /\ J!JNext /\ UNCHANGED <<part, mvars, svars, wvars>>
          \/ part = "scripts" /\ S!SNext /\ UNCHANGED <<part, mvars, jvars, wvars>>
          \/ part = "wol" /\ W!WNext /\ UNCHANGED <<part, mvars, jvars, svars>>

\* In a part that is not followed nothing is enabled: its fairness asks nothing.
MCSpec == MCInit /\ [][MCNext]_allvars /\ MFair /\ J!JFair /\ S!SFair /\ W!WFair

\* See NiMonitor: no registration is used after it was freed, one is registered
\* once, and plug and unplug are told in turn.
MonitorExact == NoUseAfterFree /\ RegisteredOnce /\ InTurn
\* See NetJob and NetWol: a BOOL is set exactly while its thread runs, only a
\* call that joined an older one gets another host's answer, and a request block
\* is freed once.
JobsExact == /\ J!FlagNamesThread /\ J!WrongAnswerOnlyJoined
             /\ W!WolFlagIsThread /\ W!RequestOwned
\* See NetScript: a result is that of the caller's own script, the BOOL of the
\* DHCP client is set exactly while its thread works, and each of its threads
\* calls back once, after a restart who asked last.
ScriptsExact == S!ResultIsOwn /\ S!DhcpFlagIsThread /\ S!DhcpToldOnce /\ S!RestartTellsLatest
\* See the modules: a change of the link is reported, look-ups and scripts
\* return, an accepted request is called back, and a stop ends the thread.
RequestsEnd == /\ LinkIsReported /\ J!LookupsReturn /\ J!AcceptedIsTold
               /\ S!ScriptsReturn /\ W!StopEnds
=============================================================================
