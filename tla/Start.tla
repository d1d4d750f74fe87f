------------------------------- MODULE Start -------------------------------
(***************************************************************************)
(* The start of the program, appmainprog.c: main initialises the libraries,*)
(* x_appl_init starts the Application Manager and waits on a semaphore     *)
(* until app_mngr_nfy_fct, in the manager's thread, has told how           *)
(* _am_app_init_fct ended; then main registers and starts the applications *)
(* of app_to_reg one after the other.  The semaphore and the structure     *)
(* with b_ok are x_appl_init's: the semaphore is deleted and the structure *)
(* leaves the stack while the manager's thread may still be in             *)
(* u_sema_unlock.  What AMB does with the calls is AppManager's subject.   *)
(***************************************************************************)
EXTENDS Integers, Sequences

CONSTANTS Table,       \* app_to_reg: how many applications
          MaxFaults    \* bound on allocations that fail

VARIABLES main,        \* where the main thread is
          mgr,         \* where the manager's thread is
          b_ok,        \* t_app_mngr_init_seq.b_ok
          frame,       \* t_app_mngr_init_seq is on the stack
          sema,        \* h_sema: its state, value, mutex and sleeper
          made,        \* what the main thread and the manager have set up
          inbox,       \* the manager's message queue
          i,           \* index into app_to_reg
          outcome,     \* what became of each application
          wild,        \* freed or dead memory was used
          s_faults

tvars == <<main, mgr, b_ok, frame, sema, made, inbox, i, outcome, wild, s_faults>>

Libraries == <<"os_thread_init", "aee_init", "u_handle_usr_init">>
\* In the order of u_amb_init and _am_app_init_fct.
AmbParts == <<"h_g_am", "h_g_mtx_sema", "h_g_bin_sema">>
AmParts == <<"h_mtx_sema", "h_bin_sema">>
Parts == AmbParts \o AmParts
Elements(s) == {s[n] : n \in DOMAIN s}

TInit == /\ main = "libraries" /\ mgr = "none" /\ b_ok = FALSE /\ frame = FALSE
         /\ sema = [state |-> "none", value |-> 0, mutex |-> "free", asleep |-> FALSE]
         /\ made = {} /\ inbox = <<>> /\ i = 0 /\ outcome = <<>> /\ wild = FALSE /\ s_faults = 0

Fault == s_faults < MaxFaults /\ s_faults' = s_faults + 1
\* A semaphore that is there is used, or one that is gone.
Uses(live) == wild' = (wild \/ ~live)
Live == sema.state = "live"

-----------------------------------------------------------------------------
\* main: a library is initialised, or CHECK_ASSERT aborts.
InitLibrary ==
    /\ main = "libraries"
    /\ LET n == CHOOSE k \in DOMAIN Libraries : Libraries[k] \notin made /\ \A j \in 1..(k - 1) : Libraries[j] \in made
       IN  \/ /\ made' = made \union {Libraries[n]} /\ main' = IF n = Len(Libraries) THEN "sema" ELSE main
              /\ UNCHANGED s_faults
           \/ Fault /\ main' = "aborted" /\ UNCHANGED made
    /\ UNCHANGED <<mgr, b_ok, frame, sema, inbox, i, outcome, wild>>

\* x_appl_init: u_sema_create.
CreateSema ==
    /\ main = "sema"
    /\ \/ main' = "am_init" /\ sema' = [sema EXCEPT !.state = "live"] /\ frame' = TRUE /\ UNCHANGED s_faults
       \/ Fault /\ main' = "aborted" /\ UNCHANGED <<sema, frame>>
    /\ UNCHANGED <<mgr, b_ok, made, inbox, i, outcome, wild>>

\* u_am_init: t_g_am, the manager's half of Parts, is reset, and b_ok.
u_am_init ==
    /\ main = "am_init" /\ main' = "start" /\ b_ok' = FALSE /\ made' = made \ Elements(AmParts)
    /\ UNCHANGED <<mgr, frame, sema, inbox, i, outcome, wild, s_faults>>

\* u_app_start: the manager's queue and thread, or x_appl_init aborts.
u_app_start ==
    /\ main = "start"
    /\ \/ main' = "send" /\ mgr' = "receive" /\ UNCHANGED s_faults
       \/ Fault /\ main' = "aborted" /\ UNCHANGED mgr
    /\ UNCHANGED <<b_ok, frame, sema, made, inbox, i, outcome, wild>>

\* u_app_start's last step: the message INIT with app_mngr_nfy_fct and its tag.
SendInit ==
    /\ main = "send" /\ main' = "lock" /\ inbox' = Append(inbox, "INIT")
    /\ UNCHANGED <<mgr, b_ok, frame, sema, made, i, outcome, wild, s_faults>>

\* u_sema_lock: with the mutex the value is read; 0 means to sleep.  (The value is
\* raised with the mutex held until the signal, so a spurious wake-up sees 0.)
LockSleeps ==
    /\ main = "lock" /\ sema.mutex = "free" /\ sema.value = 0
    /\ main' = "asleep" /\ sema' = [sema EXCEPT !.asleep = TRUE] /\ Uses(Live)
    /\ UNCHANGED <<mgr, b_ok, frame, made, inbox, i, outcome, s_faults>>

LockTakes ==
    /\ \/ main = "lock"
       \/ main = "asleep" /\ ~sema.asleep
    /\ sema.mutex = "free" /\ sema.value > 0
    /\ main' = "check" /\ sema' = [sema EXCEPT !.value = @ - 1] /\ Uses(Live)
    /\ UNCHANGED <<mgr, b_ok, frame, made, inbox, i, outcome, s_faults>>

\* x_appl_init aborts unless the manager started.
CheckOk ==
    /\ main = "check" /\ main' = IF b_ok THEN "delete" ELSE "aborted"
    /\ UNCHANGED <<mgr, b_ok, frame, sema, made, inbox, i, outcome, wild, s_faults>>

\* u_sema_delete: a mutex that is held cannot be destroyed, and ASSERT aborts;
\* then x_appl_init returns.
u_sema_delete ==
    /\ main = "delete"
    /\ IF sema.mutex = "free"
       THEN main' = "register" /\ sema' = [sema EXCEPT !.state = "freed"] /\ frame' = FALSE
       ELSE main' = "aborted" /\ UNCHANGED <<sema, frame>>
    /\ UNCHANGED <<mgr, b_ok, made, inbox, i, outcome, wild, s_faults>>

\* The next application is registered; if AMB refuses it is left out.
Register ==
    /\ main = "register"
    /\ IF i = Table THEN main' = "reap" /\ UNCHANGED <<i, outcome>>
       ELSE \/ main' = "sync_start" /\ UNCHANGED <<i, outcome>>
            \/ main' = main /\ i' = i + 1 /\ outcome' = Append(outcome, "refused")
    /\ UNCHANGED <<mgr, b_ok, frame, sema, made, inbox, wild, s_faults>>

\* u_amb_sync_start_app returns; whatever it says, the next one follows.
SyncStart ==
    /\ main = "sync_start" /\ main' = "register" /\ i' = i + 1
    /\ \E o \in {"started", "failed"} : outcome' = Append(outcome, o)
    /\ UNCHANGED <<mgr, b_ok, frame, sema, made, inbox, wild, s_faults>>

-----------------------------------------------------------------------------
\* The manager's loop takes INIT.
Receive ==
    /\ mgr = "receive" /\ inbox # <<>> /\ inbox' = Tail(inbox) /\ mgr' = "init"
    /\ UNCHANGED <<main, b_ok, frame, sema, made, i, outcome, wild, s_faults>>

\* RET_ON_ERR: the next part that is not there yet is made, or it cannot be and
\* the caller returns.  The macro's message evaluates its argument once more,
\* be it one part or all of u_amb_init, so that they may be there in the end.
Make(list, whole, next) ==
    /\ LET n == CHOOSE k \in DOMAIN list : list[k] \notin made /\ \A j \in 1..(k - 1) : list[j] \in made
       IN  \/ /\ made' = made \union {list[n]} /\ mgr' = IF n = Len(list) THEN next ELSE mgr
              /\ UNCHANGED s_faults
           \/ /\ Fault /\ mgr' = "nfy_failed"
              /\ \E again \in {{}, {list[n]}, whole} : made' = made \union again
    /\ UNCHANGED <<main, b_ok, frame, sema, inbox, i, outcome, wild>>

\* _am_app_init_fct calls u_amb_init first: the manager's handle and AMB's two
\* semaphores; what was made before a failure stays.
u_amb_init == mgr = "init" /\ Make(AmbParts, Elements(AmbParts), "am_init")

\* Then it makes its own semaphores.
AmInit == mgr = "am_init" /\ Make(AmParts, {}, "nfy_ok")

\* app_mngr_nfy_fct with INIT_OK or INIT_FAILED.
app_mngr_nfy_fct ==
    /\ mgr \in {"nfy_ok", "nfy_failed"} /\ mgr' = "unlock" /\ Uses(frame)
    /\ b_ok' = IF mgr = "nfy_ok" THEN TRUE ELSE b_ok
    /\ UNCHANGED <<main, frame, sema, made, inbox, i, outcome, s_faults>>

\* u_sema_unlock: the mutex is taken and the value raised ...
UnlockRaises ==
    /\ mgr = "unlock" /\ sema.mutex = "free" /\ mgr' = "signal" /\ Uses(frame /\ Live)
    /\ sema' = [sema EXCEPT !.mutex = "mgr", !.value = @ + 1]
    /\ UNCHANGED <<main, b_ok, frame, made, inbox, i, outcome, s_faults>>

\* Mutant of UnlockSignals: the mutex is given back first.
UnlockSignalsLate ==
    \/ /\ mgr = "signal" /\ sema.mutex = "mgr" /\ sema' = [sema EXCEPT !.mutex = "free"] /\ Uses(Live)
       /\ UNCHANGED <<main, mgr, b_ok, frame, made, inbox, i, outcome, s_faults>>
    \/ /\ mgr = "signal" /\ sema.mutex = "free" /\ mgr' = "release" /\ Uses(Live)
       /\ sema' = [sema EXCEPT !.asleep = FALSE]
       /\ UNCHANGED <<main, b_ok, frame, made, inbox, i, outcome, s_faults>>

\* ... the sleeper signalled ...
UnlockSignals ==
    /\ mgr = "signal" /\ mgr' = "release" /\ Uses(Live) /\ sema' = [sema EXCEPT !.asleep = FALSE]
    /\ UNCHANGED <<main, b_ok, frame, made, inbox, i, outcome, s_faults>>

\* ... and the mutex given back.  After a failed init the thread ends.
UnlockReleases ==
    /\ mgr = "release" /\ mgr' = IF b_ok THEN "loop" ELSE "ended"
    /\ sema' = [sema EXCEPT !.mutex = "free"] /\ Uses(Live)
    /\ UNCHANGED <<main, b_ok, frame, made, inbox, i, outcome, s_faults>>

-----------------------------------------------------------------------------
Main == \/ InitLibrary \/ CreateSema \/ u_am_init \/ u_app_start \/ SendInit \/ LockSleeps \/ LockTakes
        \/ CheckOk \/ u_sema_delete \/ Register \/ SyncStart
Manager == Receive \/ u_amb_init \/ AmInit \/ app_mngr_nfy_fct \/ UnlockRaises \/ UnlockSignals \/ UnlockReleases
\* An aborted process does nothing.
TNext == main # "aborted" /\ (Main \/ Manager)

\* Both threads are scheduled.
TFair == WF_tvars(main # "aborted" /\ Main) /\ WF_tvars(main # "aborted" /\ Manager)

-----------------------------------------------------------------------------
\* Applications are registered only when the manager is there with everything
\* AMB and it need, and every application before this one had its turn.
ManagerFirst ==
    main \in {"register", "sync_start", "reap"} =>
        /\ Elements(Libraries) \union Elements(Parts) \subseteq made /\ Len(outcome) = i
        /\ main = "reap" => i = Table

\* The manager's thread touches neither the deleted semaphore nor x_appl_init's
\* dead frame, whenever main runs on; and the semaphore can be deleted.
NoTouchAfterDelete == ~wild /\ (main = "delete" => sema.mutex = "free")

\* The program aborts only if something could not be had: no order of the two
\* threads makes a manager that started look like one that did not.
AbortMeansFault == main = "aborted" => s_faults > 0

\* Main gets to its last loop or aborts: the one notification is not lost.
StartEnds == <>(main \in {"reap", "aborted"})
=============================================================================
