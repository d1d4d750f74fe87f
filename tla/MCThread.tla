------------------------------ MODULE MCThread ------------------------------
(* The critical section, small programs on the thread library, and timers,  *)
(* for TLC.  Each behaviour is about one of them.                           *)
EXTENDS CritSection, Thread, Timer

VARIABLE part

\* "once2" is started with a longer delay than the others.
MCDelays == [t \in Timers |-> IF t = "once2" THEN {2} ELSE {1}]

ASSUME ThreadAssumptions == ThreadAssumption /\ TimerAssumption

allvars == <<part, vars, tvars, mvars>>

MCInit ==
    /\ part \in {"crit", "threads", "timers"} /\ Init /\ TInit /\ MInit
    /\ part # "threads" => serial

CritStep == part = "crit" /\ Next /\ UNCHANGED <<part, tvars, mvars>>
ThreadsStep == part = "threads" /\ TNext /\ UNCHANGED <<part, vars, mvars>>
TimersStep == part = "timers" /\ MNext /\ UNCHANGED <<part, vars, tvars>>
TimersDone == part = "timers" /\ now = MaxTime /\ proc.at \in {"wait", "timedwait"} /\ UNCHANGED allvars
MCNext == CritStep \/ ThreadsStep \/ TimersStep \/ TimersDone

MCSpec ==
    /\ MCInit /\ [][MCNext]_allvars
    /\ WF_tvars(part = "threads" /\ Reaper)
    /\ \A i \in Ids : WF_tvars(part = "threads" /\ Ends(i))
    /\ WF_mvars(part = "timers" /\ TimerProc)
    /\ WF_mvars(part = "timers" /\ Tick)

\* See Thread: a thread is on the list once, a signal hands the reaper a thread
\* that has ended and is not yet freed, the private data of a thread is deleted once, and priorities that
\* are read back keep their order.
ThreadsEndOnce == /\ ListedOnce /\ ReaperHasAThread /\ PrivateDataDeletedOnce
                  /\ part = "threads" /\ s_thread_list = <<>> /\ reaper = "start" => PrioritiesKeepOrder
\* See Thread: a record is freed after its thread has ended and was joined, every
\* thread that ends while no other does is reaped, and so is the one in the slot
\* when exits overlap, unless a spurious wake-up led the reaper astray.
ExitsReaped == /\ FreedAfterEnd
               /\ part = "threads" => EveryExitReaped
\* See Timer: whatever happens during a callback, the list stays sorted, an
\* argument block is freed once and not used after it, and a one-shot timer
\* sends one message per start, from a copy of its arguments.
TimersExact == TimersSorted /\ ArgsOwned /\ OneMessagePerStart /\ CopyForOneShot
=============================================================================
