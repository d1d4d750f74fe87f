------------------------------- MODULE Timer -------------------------------
(***************************************************************************)
(* The timers of timerd/_timer.c: the list of armed timers, sorted by      *)
(* expiry, and the thread TimerProc that calls the expired ones back.      *)
(* What happens under s_timer_list_mutex is one action; the callback and   *)
(* u_timer_stop's last lines run outside it.                               *)
(*                                                                         *)
(* A block of callback arguments (pt_args) is the number of the            *)
(* u_timer_start that allocated it; 0 is NULL.  "stops" counts the calls of *)
(* u_timer_stop of a timer that have given the mutex back and have not yet *)
(* written its abstime; "spoilt" is a mark of the model: such a write came *)
(* after another call had armed the timer again, or freed it.              *)
(***************************************************************************)
EXTENDS Integers, Sequences, SequencesExt, FiniteSets

CONSTANTS Timers,     \* the timers
          Repeating,  \* those started with X_TIMER_FLAG_REPEAT
          Delays,     \* per timer, the delays given to u_timer_start
          MaxTime,    \* bound on the clock
          MaxStarts   \* bound on the calls of u_timer_start

\* _timer_start refuses a delay of 0 (OSR_INV_ARG).
TimerAssumption ==
    /\ MaxStarts \in Nat
    /\ \A t \in Timers : Delays[t] \subseteq Nat \ {0}

VARIABLES now,           \* CLOCK_MONOTONIC
          tm,            \* the OS_TIMER_LIGHT_T records
          s_timer_list,
          proc,          \* TimerProc: its place and locals
          blocks,        \* blocks[n]: the pt_args block of start n
          starts, sent   \* number of starts; messages sent, per start

mvars == <<now, tm, s_timer_list, proc, blocks, starts, sent>>

NoArgs == 0
Once(t) == tm[t].interval = 0
Armed(t) == t \in Range(s_timer_list)

\* os_timer_init and u_timer_create.
MInit ==
    /\ now = 0
    /\ tm = [t \in Timers |-> [abstime |-> 0, interval |-> 0, pt_args |-> NoArgs,
                               pf_callback |-> FALSE, place |-> "unused",
                               stops |-> 0, spoilt |-> FALSE]]
    /\ s_timer_list = <<>>
    /\ proc = [at |-> "scan", abstime |-> 0, timer |-> {}, pargs |-> NoArgs, until |-> 0]
    /\ blocks = [n \in 1..MaxStarts |-> "none"]
    /\ starts = 0
    /\ sent = [n \in 1..MaxStarts |-> 0]

time_before(x, y) == x < y

\* timer_list_add: before the first timer that expires later.
timer_list_add(list, at, t) ==
    LET later == {n \in DOMAIN list : time_before(at[t], at[list[n]])}
        place == IF later = {} THEN Len(list) + 1 ELSE Min(later)
    IN InsertAt(list, place, t)

Abstimes == [t \in Timers |-> tm[t].abstime]
Without(t) == RemoveFirst(s_timer_list, t)

\* Mutant of ArgsAfterRemove: the pointer to the freed block stays.
ArgsAfterRemoveKept(t) == tm[t].pt_args

\* timer_list_remove frees the arguments of a one-shot timer (FREE_SAFE) ...
ArgsAfterRemove(t) == IF Once(t) THEN NoArgs ELSE tm[t].pt_args

\* ... so that this is what it does to the blocks.
BlocksAfterRemove(t) ==
    IF Once(t) /\ tm[t].pt_args # NoArgs
    THEN [blocks EXCEPT ![tm[t].pt_args] = IF @ = "live" THEN "freed" ELSE "twice"]
    ELSE blocks


\* pthread_cond_signal(&s_timer_list_cond).
Signal == IF proc.at \in {"wait", "timedwait"} THEN [proc EXCEPT !.at = "scan", !.until = 0] ELSE proc

\* The mutex is free whenever TimerProc is not between its wake-up and its
\* next wait or callback.
MutexFree == proc.at # "loop"

\* u_timer_start and _timer_start: a timer that is armed is removed first.
u_timer_start(t, delay) ==
    /\ MutexFree /\ starts < MaxStarts /\ now + delay < MaxTime
    /\ tm[t].place # "deleted"
    /\ LET n == starts + 1
           freed == IF Armed(t) THEN BlocksAfterRemove(t) ELSE blocks
           timer == [abstime |-> now + delay, pt_args |-> n, pf_callback |-> TRUE, place |-> "used",
                     interval |-> IF t \in Repeating THEN delay ELSE 0,
                     stops |-> tm[t].stops, spoilt |-> FALSE]
       IN /\ tm' = [tm EXCEPT ![t] = timer]
          /\ blocks' = [freed EXCEPT ![n] = "live"]
          /\ s_timer_list' = timer_list_add(Without(t), [Abstimes EXCEPT ![t] = now + delay], t)
          /\ starts' = n
    /\ proc' = Signal
    /\ UNCHANGED <<now, sent>>

\* u_timer_stop under the mutex; a timer that is not armed stays as it is.
u_timer_stop(t) ==
    /\ MutexFree /\ Armed(t)
    /\ tm' = [tm EXCEPT ![t].pt_args = ArgsAfterRemove(t), ![t].stops = @ + 1]
    /\ blocks' = BlocksAfterRemove(t)
    /\ s_timer_list' = Without(t)
    /\ proc' = Signal
    /\ UNCHANGED <<now, starts, sent>>

\* u_timer_stop after the mutex: abstime becomes the time that was left, even
\* when another thread has started the timer again, whose place in the list it
\* does not change, or deleted it, whose record is then written after its end.
StopRest(t) ==
    /\ tm[t].stops > 0
    /\ tm' = [tm EXCEPT ![t].stops = @ - 1, ![t].abstime = @ - now,
                        ![t].spoilt = @ \/ Armed(t) \/ tm[t].place = "deleted"]
    /\ UNCHANGED <<now, s_timer_list, proc, blocks, starts, sent>>

\* u_timer_delete.  Its caller sees to it that TimerProc is not about to call
\* the timer back: the code does not, and would read a freed record.
u_timer_delete(t) ==
    /\ MutexFree /\ tm[t].place = "used" /\ t \notin proc.timer
    /\ IF Armed(t)
       THEN /\ blocks' = BlocksAfterRemove(t) /\ s_timer_list' = Without(t) /\ proc' = Signal
       ELSE UNCHANGED <<blocks, s_timer_list, proc>>
    /\ tm' = [tm EXCEPT ![t].place = "deleted", ![t].pt_args = NoArgs]
    /\ UNCHANGED <<now, starts, sent>>

-----------------------------------------------------------------------------
\* TimerProc: out of its wait, with the mutex, it reads the clock; with no
\* timer armed it waits again.
Wake ==
    /\ \/ proc.at = "scan"
       \/ proc.at = "timedwait" /\ now >= proc.until
    /\ proc' = IF s_timer_list = <<>> THEN [proc EXCEPT !.at = "wait", !.until = 0]
               ELSE [proc EXCEPT !.at = "loop", !.until = 0, !.abstime = now]
    /\ UNCHANGED <<now, tm, s_timer_list, blocks, starts, sent>>

\* The first timer expired before the clock was read.
Due == s_timer_list # <<>> /\ time_before(tm[Head(s_timer_list)].abstime, proc.abstime)

\* The arguments of a one-shot timer are copied, for timer_list_remove frees
\* them.
Copied(t) == IF Once(t) THEN tm[t].pt_args ELSE NoArgs

\* The first timer leaves the list; a repeating one is put back one interval
\* later.
Expire ==
    /\ proc.at = "loop" /\ Due
    /\ LET t == Head(s_timer_list)
       IN /\ proc' = [proc EXCEPT !.at = "callback", !.timer = {t}, !.pargs = Copied(t)]
          /\ blocks' = BlocksAfterRemove(t)
          /\ tm' = [tm EXCEPT ![t].pt_args = ArgsAfterRemove(t), ![t].abstime = @ + tm[t].interval]
          /\ s_timer_list' =
               IF Once(t) THEN Without(t)
               ELSE timer_list_add(Without(t), [Abstimes EXCEPT ![t] = @ + tm[t].interval], t)
    /\ UNCHANGED <<now, starts, sent>>

\* Outside the mutex TimerProc reads the timer again to choose the arguments,
\* and _os_timer_cb_fct sends the application's message.
Args(t) == IF Once(t) THEN proc.pargs ELSE tm[t].pt_args

Callback ==
    /\ proc.at = "callback"
    /\ \E t \in proc.timer : sent' = IF Args(t) = NoArgs THEN sent ELSE [sent EXCEPT ![Args(t)] = @ + 1]
    /\ proc' = [proc EXCEPT !.at = "loop", !.timer = {}, !.pargs = NoArgs]
    /\ UNCHANGED <<now, tm, s_timer_list, blocks, starts>>

\* No timer is due: wait for the first one's time, or start over.
Wait ==
    /\ proc.at = "loop" /\ ~Due
    /\ proc' = IF s_timer_list = <<>> THEN [proc EXCEPT !.at = "scan", !.abstime = 0]
               ELSE [proc EXCEPT !.at = "timedwait", !.abstime = 0, !.until = tm[Head(s_timer_list)].abstime]
    /\ UNCHANGED <<now, tm, s_timer_list, blocks, starts, sent>>

Tick ==
    /\ now < MaxTime /\ now' = now + 1
    /\ UNCHANGED <<tm, s_timer_list, proc, blocks, starts, sent>>

TimerProc == Wake \/ Expire \/ Callback \/ Wait

MNext ==
    \/ TimerProc \/ Tick
    \/ \E t \in Timers :
         \/ \E d \in Delays[t] : u_timer_start(t, d)
         \/ u_timer_stop(t) \/ StopRest(t) \/ u_timer_delete(t)

\* Time goes on, and TimerProc, which has the highest priority, is scheduled.
MFairness == WF_mvars(TimerProc) /\ WF_mvars(Tick)

MSpec == MInit /\ [][MNext]_mvars /\ MFairness

-----------------------------------------------------------------------------
\* The list holds no timer twice nor a deleted one, whatever starts, stops,
\* deletions and expiries interleave with a callback, and every timer is behind
\* none that expires later: one whose time a late u_timer_stop has overwritten
\* in the list (spoilt) loses its own place but never holds up another.
TimersSorted ==
    /\ \A m, n \in DOMAIN s_timer_list : m < n =>
         /\ ~tm[s_timer_list[n]].spoilt => tm[s_timer_list[m]].abstime <= tm[s_timer_list[n]].abstime
         /\ s_timer_list[m] # s_timer_list[n]
    /\ \A t \in Range(s_timer_list) : tm[t].place = "used"

\* A timer's argument block is freed at most once, and a timer never points to
\* a freed one, so that neither TimerProc nor the next start touches it.
ArgsOwned ==
    /\ \A n \in 1..MaxStarts : blocks[n] # "twice"
    /\ \A t \in Timers : tm[t].pt_args # NoArgs => blocks[tm[t].pt_args] = "live"

\* A one-shot timer sends at most one message per start, with the arguments of
\* that start, even when it is restarted while it is called back.
OneMessagePerStart ==
    \A n \in 1..MaxStarts : \A t \in Timers \ Repeating :
        tm[t].pt_args = n \/ (t \in proc.timer /\ proc.pargs = n) => sent[n] = 0

\* TimerProc dereferences pargs only when it holds a copy (a timer is always
\* started with the same flag).
CopyForOneShot ==
    proc.at = "callback" => \A t \in proc.timer : Once(t) => proc.pargs # NoArgs

\* No timer is called back before its time.
NotBeforeItsTime ==
    [][\A t \in Timers : proc'.timer = {t} /\ proc.timer = {} => now > tm[t].abstime]_mvars

\* An armed one-shot timer is called back, stopped or deleted (it is restarted
\* a bounded number of times): TimerProc never sleeps past it.
ArmedExpires == \A t \in Timers \ Repeating : Armed(t) ~> ~Armed(t)
=============================================================================
