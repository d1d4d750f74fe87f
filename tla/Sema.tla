-------------------------------- MODULE Sema --------------------------------
(***************************************************************************)
(* One semaphore of mw/os_pthread/os_pthread_sema.c: u_sema_create,        *)
(* u_sema_lock, u_sema_lock_timeout, u_sema_unlock, for the three types.   *)
(*                                                                         *)
(* ui4_value is only touched under the semaphore's mutex, but the field    *)
(* `thread' (and, for a MUTEX, i2_selfcount) is read and written outside   *)
(* it.  So each call is a few steps: the unlocked test of `thread', the    *)
(* part under the mutex up to its end or to pthread_cond_wait, and the     *)
(* unlocked write of `thread' that follows it or goes before it.           *)
(***************************************************************************)
EXTENDS Integers

CONSTANTS
  Lockers, Unlockers,  \* the threads that call u_sema_lock, u_sema_unlock
  Creator,             \* the thread that called u_sema_create
  Nobody,              \* INVALID_PTHREAD_T
  e_type,              \* "BINARY", "MUTEX" or "COUNTING"
  ui4_init_value,      \* the value given to u_sema_create
  MaxValue,            \* bound: on ui4_value, for the types nobody owns
  MaxNest              \* bound: how often the owner of a MUTEX locks it again

Threads == Lockers \cup Unlockers

\* What the constants are.
SemaAssumption ==
  /\ Nobody \notin Threads
  /\ Creator \in Threads
  /\ e_type \in {"BINARY", "MUTEX", "COUNTING"}
  /\ ui4_init_value \in Nat
  /\ e_type # "COUNTING" => ui4_init_value \in {0, 1}   \* else OSR_INV_ARG
  /\ MaxValue \in Nat
  /\ MaxNest \in Nat

\* u_sema_lock(WAIT), u_sema_lock(NOWAIT), u_sema_lock_timeout(0) and
\* u_sema_lock_timeout of a positive time.
Option == {"WAIT", "NOWAIT", "POLL", "TIMED"}

VARIABLES
  ui4_value,
  thread,        \* who is recorded as the owner
  i2_selfcount,  \* how often the owner of a MUTEX has locked it
  pc,            \* pc[t]: where t is in its call
  option,        \* option[t]: how t called lock
  holds,         \* holds[t]: locks of a MUTEX granted to t and not given back
  ret            \* ret[t]: what t's last call returned

vars == <<ui4_value, thread, i2_selfcount, pc, option, holds, ret>>

\* A call's places: before the mutex, in cond_wait, out of cond_wait, after
\* ui4_value-- and before the write of `thread', after the write of `thread'
\* and before ui4_value++.
Place == {"idle", "enter", "asleep", "woken", "taken", "released"}

Goto(t, place) == pc' = [pc EXCEPT ![t] = place]
Returns(t, code) == ret' = [ret EXCEPT ![t] = code]

-----------------------------------------------------------------------------
\* u_sema_create: a MUTEX created locked belongs to its creator.
CreatedLocked == e_type = "MUTEX" /\ ui4_init_value = 0

Init ==
  /\ ui4_value = ui4_init_value
  /\ thread = IF CreatedLocked THEN Creator ELSE Nobody
  /\ i2_selfcount = IF CreatedLocked THEN 1 ELSE 0
  /\ pc = [t \in Threads |-> "idle"]
  /\ option = [t \in Threads |-> "WAIT"]
  /\ holds = [t \in Threads |-> IF CreatedLocked /\ t = Creator THEN 1 ELSE 0]
  /\ ret = [t \in Threads |-> "none"]

-----------------------------------------------------------------------------
\* Lock, the unlocked test of a MUTEX's owner: the owner only counts.
LockAgain(t) ==
  /\ pc[t] = "idle"
  /\ e_type = "MUTEX"
  /\ thread = t
  /\ i2_selfcount < MaxNest
  /\ i2_selfcount' = i2_selfcount + 1
  /\ holds' = [holds EXCEPT ![t] = @ + 1]
  /\ Returns(t, "OSR_OK")
  /\ UNCHANGED <<ui4_value, thread, pc, option>>

LockEnter(t, opt) ==
  /\ pc[t] = "idle"
  /\ e_type = "MUTEX" => thread # t
  /\ Goto(t, "enter")
  /\ option' = [option EXCEPT ![t] = opt]
  /\ UNCHANGED <<ui4_value, thread, i2_selfcount, holds, ret>>

\* Mutant of LockTake: `if' for `while', a woken thread does not look again.
LockTakeUnchecked(t) ==
  /\ pc[t] = "woken" \/ (pc[t] = "enter" /\ ui4_value > 0)
  /\ ui4_value' = ui4_value - 1
  /\ Goto(t, "taken")
  /\ UNCHANGED <<thread, i2_selfcount, option, holds, ret>>

\* Lock, under the mutex: take a unit, or return, or wait for one.
LockTake(t) ==
  /\ pc[t] \in {"enter", "woken"}
  /\ ui4_value > 0
  /\ ui4_value' = ui4_value - 1
  /\ Goto(t, "taken")
  /\ UNCHANGED <<thread, i2_selfcount, option, holds, ret>>

LockGiveUp(t) ==
  /\ pc[t] \in {"enter", "woken"}
  /\ ui4_value = 0
  /\ option[t] \in {"NOWAIT", "POLL"}
  /\ Goto(t, "idle")
  /\ Returns(t, IF option[t] = "NOWAIT" THEN "OSR_WOULD_BLOCK" ELSE "OSR_TIMEOUT")
  /\ UNCHANGED <<ui4_value, thread, i2_selfcount, option, holds>>

LockWait(t) ==
  /\ pc[t] \in {"enter", "woken"}
  /\ ui4_value = 0
  /\ option[t] \in {"WAIT", "TIMED"}
  /\ Goto(t, "asleep")
  /\ UNCHANGED <<ui4_value, thread, i2_selfcount, option, holds, ret>>

\* Mutant of LockDone: the owner's first lock is not counted.
LockDoneUncounted(t) ==
  /\ pc[t] = "taken"
  /\ thread' = t
  /\ holds' = [holds EXCEPT ![t] = IF e_type = "MUTEX" THEN @ + 1 ELSE @]
  /\ Goto(t, "idle")
  /\ Returns(t, "OSR_OK")
  /\ UNCHANGED <<ui4_value, i2_selfcount, option>>

\* Lock, after the mutex: record the owner and return.
LockDone(t) ==
  /\ pc[t] = "taken"
  /\ thread' = t
  /\ IF e_type = "MUTEX"
     THEN /\ i2_selfcount' = i2_selfcount + 1
          /\ holds' = [holds EXCEPT ![t] = @ + 1]
     ELSE UNCHANGED <<i2_selfcount, holds>>
  /\ Goto(t, "idle")
  /\ Returns(t, "OSR_OK")
  /\ UNCHANGED <<ui4_value, option>>

\* pthread_cond_timedwait returned ETIMEDOUT.
TimeOut(t) ==
  /\ pc[t] = "asleep"
  /\ option[t] = "TIMED"
  /\ Goto(t, "idle")
  /\ Returns(t, "OSR_TIMEOUT")
  /\ UNCHANGED <<ui4_value, thread, i2_selfcount, option, holds>>

\* pthread_cond_wait may return without a signal.
SpuriousWake(t) ==
  /\ pc[t] = "asleep"
  /\ Goto(t, "woken")
  /\ UNCHANGED <<ui4_value, thread, i2_selfcount, option, holds, ret>>

-----------------------------------------------------------------------------
\* Unlock of a MUTEX: only its owner may, and only the last level opens it.
UnlockRefused(t) ==
  /\ pc[t] = "idle"
  /\ e_type = "MUTEX"
  /\ thread # t
  /\ Returns(t, "OSR_FAIL")
  /\ UNCHANGED <<ui4_value, thread, i2_selfcount, pc, option, holds>>

UnlockNested(t) ==
  /\ pc[t] = "idle"
  /\ e_type = "MUTEX"
  /\ thread = t
  /\ i2_selfcount - 1 # 0
  /\ i2_selfcount' = i2_selfcount - 1
  /\ holds' = [holds EXCEPT ![t] = @ - 1]
  /\ Returns(t, "OSR_OK")
  /\ UNCHANGED <<ui4_value, thread, pc, option>>

UnlockLast(t) ==
  /\ pc[t] = "idle"
  /\ e_type = "MUTEX"
  /\ thread = t
  /\ i2_selfcount - 1 = 0
  /\ i2_selfcount' = 0
  /\ thread' = Nobody
  /\ holds' = [holds EXCEPT ![t] = @ - 1]
  /\ Goto(t, "released")
  /\ UNCHANGED <<ui4_value, option, ret>>

\* Unlock of a BINARY or COUNTING semaphore: any thread may.
UnlockAny(t) ==
  /\ pc[t] = "idle"
  /\ e_type # "MUTEX"
  /\ thread' = Nobody
  /\ Goto(t, "released")
  /\ UNCHANGED <<ui4_value, i2_selfcount, option, holds, ret>>

\* Unlock, under the mutex: ui4_value++, and pthread_cond_signal only when
\* that makes it 1.
Signalled(u, t) ==
  pc' = [pc EXCEPT ![t] = "idle", ![u] = "woken"]

\* Mutant of UnlockPost: the signal is sent when the value was 1 already.
UnlockPostLate(t) ==
  /\ pc[t] = "released"
  /\ e_type # "MUTEX" => ui4_value < MaxValue
  /\ ui4_value' = ui4_value + 1
  /\ LET asleep == {u \in Threads : pc[u] = "asleep"} IN
       IF ui4_value = 1 /\ asleep # {}
       THEN \E u \in asleep : Signalled(u, t)
       ELSE Goto(t, "idle")
  /\ Returns(t, "OSR_OK")
  /\ UNCHANGED <<thread, i2_selfcount, option, holds>>

UnlockPost(t) ==
  /\ pc[t] = "released"
  /\ e_type # "MUTEX" => ui4_value < MaxValue
  /\ ui4_value' = ui4_value + 1
  /\ LET asleep == {u \in Threads : pc[u] = "asleep"} IN
       IF ui4_value + 1 = 1 /\ asleep # {}
       THEN \E u \in asleep : Signalled(u, t)
       ELSE Goto(t, "idle")
  /\ Returns(t, "OSR_OK")
  /\ UNCHANGED <<thread, i2_selfcount, option, holds>>

-----------------------------------------------------------------------------
Lock(t) ==
  \/ LockAgain(t)
  \/ \E opt \in Option : LockEnter(t, opt)
  \/ LockTake(t)
  \/ LockGiveUp(t)
  \/ LockWait(t)
  \/ LockDone(t)
  \/ TimeOut(t)
  \/ SpuriousWake(t)

Unlock(t) ==
  \/ UnlockRefused(t)
  \/ UnlockNested(t)
  \/ UnlockLast(t)
  \/ UnlockAny(t)
  \/ UnlockPost(t)

Next == (\E t \in Lockers : Lock(t)) \/ (\E t \in Unlockers : Unlock(t))

Spec == Init /\ [][Next]_vars

\* A call under way is finished by a fair scheduler; nobody has to start one.
Continues(t) ==
  \/ LockTake(t) \/ LockGiveUp(t) \/ LockWait(t) \/ LockDone(t) \/ UnlockPost(t)

LiveSpec == Spec /\ \A t \in Threads : WF_vars(Continues(t))

-----------------------------------------------------------------------------
TypeOK ==
  /\ ui4_value \in Nat
  /\ thread \in Threads \cup {Nobody}
  /\ i2_selfcount \in Int
  /\ pc \in [Threads -> Place]
  /\ option \in [Threads -> Option]
  /\ holds \in [Threads -> Int]
  /\ ret \in [Threads -> {"none", "OSR_OK", "OSR_FAIL", "OSR_WOULD_BLOCK",
                          "OSR_TIMEOUT"}]

\* A MUTEX has one holder, although u_sema_lock and u_sema_unlock read and
\* write its owner outside the pthread mutex.
MutualExclusion ==
  e_type = "MUTEX" =>
    \A t, u \in Threads : holds[t] > 0 /\ holds[u] > 0 => t = u

\* The holder of a MUTEX is always recorded as its owner, with the number of
\* locks it must give back: its unlock is never refused with OSR_FAIL, its own
\* second lock never blocks, and its last unlock opens the semaphore.
HolderIsOwner ==
  e_type = "MUTEX" =>
    \A t \in Threads : holds[t] > 0 => thread = t /\ i2_selfcount = holds[t]

\* The signal u_sema_unlock sends only when ui4_value becomes 1 is enough:
\* whenever a unit is free and a thread sleeps, some thread has been woken and
\* has still to look.
NoLostWakeup ==
  ui4_value > 0 /\ (\E t \in Threads : pc[t] = "asleep")
    => \E u \in Threads : pc[u] = "woken"

\* A post reaches the thread it is meant for: when a thread sleeps in
\* u_sema_lock and another is inside u_sema_unlock, the sleeper gets a unit (or
\* its time is up).  Meant for semaphores with one waiter, the way the
\* framework uses a BINARY one to wait for a reply.
PostIsDelivered ==
  \A t \in Lockers, p \in Unlockers :
    (pc[t] = "asleep" /\ pc[p] = "released") ~> (pc[t] \in {"taken", "idle"})
=============================================================================
