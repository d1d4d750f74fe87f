---------------------------- MODULE CritSection ----------------------------
(***************************************************************************)
(* The process-wide critical section of mw/os_pthread/os_pthread_crit.c,   *)
(* u_crit_start and u_crit_end.  It nests: a thread that is already inside *)
(* only counts.  Whether it is inside is read from s_crit.thread without   *)
(* the mutex, which is why the steps around the mutex are modelled apart.  *)
(***************************************************************************)
EXTENDS Integers

CONSTANTS Threads,  \* the threads of the process
          Nobody,   \* INVALID_PTHREAD_T
          MaxNest   \* bound: how deep a thread nests (i2_selfcount is an INT16)

ASSUME CritAssumption == Nobody \notin Threads /\ MaxNest \in Nat \ {0}

VARIABLES mutex,         \* who has the pthread mutex
          thread,        \* s_crit.thread
          i2_selfcount,  \* s_crit.i2_selfcount
          pc,            \* pc[t]: where t is in its call
          depth          \* depth[t]: starts of t not yet ended; also the level
                         \* u_crit_start returned to it last

vars == <<mutex, thread, i2_selfcount, pc, depth>>

Place == {"run", "lock", "owner", "unlock"}
Goto(t, place) == pc' = [pc EXCEPT ![t] = place]

Init ==
  /\ mutex = Nobody
  /\ thread = Nobody
  /\ i2_selfcount = 0
  /\ pc = [t \in Threads |-> "run"]
  /\ depth = [t \in Threads |-> 0]

\* i2_selfcount++ and return it.
CountIn(t) ==
  /\ i2_selfcount' = i2_selfcount + 1
  /\ depth' = [depth EXCEPT ![t] = @ + 1]

\* u_crit_start: the unlocked test; then pthread_mutex_lock; then the record.
StartNested(t) ==
  /\ pc[t] = "run"
  /\ thread = t
  /\ i2_selfcount < MaxNest
  /\ CountIn(t)
  /\ UNCHANGED <<mutex, thread, pc>>

StartOutside(t) ==
  /\ pc[t] = "run"
  /\ thread # t
  /\ Goto(t, "lock")
  /\ UNCHANGED <<mutex, thread, i2_selfcount, depth>>

StartLock(t) ==
  /\ pc[t] = "lock"
  /\ mutex = Nobody
  /\ mutex' = t
  /\ Goto(t, "owner")
  /\ UNCHANGED <<thread, i2_selfcount, depth>>

StartRecord(t) ==
  /\ pc[t] = "owner"
  /\ thread' = t
  /\ CountIn(t)
  /\ Goto(t, "run")
  /\ UNCHANGED mutex

\* Mutants of End: the section is opened one level early; the mutex is given
\* back while s_crit.thread still names the thread.
EndEarly(t) ==
  /\ pc[t] = "run"
  /\ depth[t] > 0
  /\ i2_selfcount' = i2_selfcount - 1
  /\ depth' = [depth EXCEPT ![t] = @ - 1]
  /\ IF i2_selfcount - 1 <= 1
     THEN thread' = Nobody /\ Goto(t, "unlock")
     ELSE UNCHANGED <<thread, pc>>
  /\ UNCHANGED mutex

EndStaleOwner(t) ==
  /\ pc[t] = "run"
  /\ depth[t] > 0
  /\ i2_selfcount' = i2_selfcount - 1
  /\ depth' = [depth EXCEPT ![t] = @ - 1]
  /\ IF i2_selfcount - 1 = 0 THEN Goto(t, "unlock") ELSE UNCHANGED pc
  /\ UNCHANGED <<mutex, thread>>

\* u_crit_end by a thread that is inside; its two ASSERTs are EndAssertsHold.
End(t) ==
  /\ pc[t] = "run"
  /\ depth[t] > 0
  /\ i2_selfcount' = i2_selfcount - 1
  /\ depth' = [depth EXCEPT ![t] = @ - 1]
  /\ IF i2_selfcount - 1 = 0
     THEN thread' = Nobody /\ Goto(t, "unlock")
     ELSE UNCHANGED <<thread, pc>>
  /\ UNCHANGED mutex

EndUnlock(t) ==
  /\ pc[t] = "unlock"
  /\ mutex' = Nobody
  /\ Goto(t, "run")
  /\ UNCHANGED <<thread, i2_selfcount, depth>>

Next ==
  \E t \in Threads :
    \/ StartNested(t) \/ StartOutside(t) \/ StartLock(t) \/ StartRecord(t)
    \/ End(t) \/ EndUnlock(t)

Spec == Init /\ [][Next]_vars

-----------------------------------------------------------------------------
TypeOK ==
  /\ mutex \in Threads \cup {Nobody}
  /\ thread \in Threads \cup {Nobody}
  /\ i2_selfcount \in 0 .. MaxNest
  /\ pc \in [Threads -> Place]
  /\ depth \in [Threads -> 0 .. MaxNest]

\* One thread at a time is inside a critical section.
MutualExclusion ==
  \A t, u \in Threads : depth[t] > 0 /\ depth[u] > 0 => t = u

\* The ASSERTs of u_crit_end never fire: the thread that ends a section is
\* s_crit.thread, and s_crit.i2_selfcount is the level it was given.
EndAssertsHold ==
  \A t \in Threads : depth[t] > 0 => thread = t /\ i2_selfcount = depth[t]
=============================================================================
