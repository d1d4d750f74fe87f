------------------------------- MODULE RwLock -------------------------------
(***************************************************************************)
(* One multiple-reader single-writer lock of mw/rwlock/rwl_api.c:          *)
(* u_rwl_read_lock, u_rwl_write_lock, u_rwl_release_lock, u_rwl_delete_lock*)
(* and the deferred _free_rwlock_resource.                                 *)
(*                                                                         *)
(* Everything between u_crit_start and u_crit_end is one action: the       *)
(* critical section excludes (CritSection).  What the code does after      *)
(* u_crit_end is a step of its own: waiting on one of the two binary       *)
(* semaphores, unlocking it for a waiter, the woken writer's second        *)
(* critical section, and freeing the object.  A lock is handed over: the   *)
(* releaser counts the waiter in before it unlocks the semaphore.          *)
(*                                                                         *)
(* A call that returns without touching the lock (RWLR_WOULD_BLOCK,        *)
(* RWLR_DELETE_IN_PROGRESS, RWLR_INVALID_HANDLE) is a stuttering step.     *)
(***************************************************************************)
EXTENDS Integers, Sequences, FiniteSets

CONSTANTS
  Readers, Writers, Deleters,  \* which threads read-lock, write-lock, delete
  Nobody,                      \* NULL_HANDLE
  MaxHold,                     \* bound: locks one thread holds at once
  MaxCalls                     \* bound: lock calls each thread makes

Threads == Readers \cup Writers \cup Deleters

\* A process has finitely many threads, and no thread has the null handle.
RwLockAssumption ==
  IsFiniteSet(Threads) /\ Nobody \notin Threads /\ MaxCalls \in Nat

VARIABLES
  rw,      \* the MRSW_LOCK_T: its five counters, h_wr_thread and b_del_flag
  sem_rd,  \* the value of h_sem_wait_rd
  sem_wr,  \* the value of h_sem_wait_wr
  valid,   \* the handle still names the lock
  freed,   \* the semaphores and the object are gone
  pc,      \* pc[t]: where t is in its call
  held,    \* held[t]: the locks t was told it has, in the order it got them
  calls    \* calls[t]: lock calls t made

MRSW_LOCK_T ==
  [wr_access : Nat, wr_wait : Nat, rd_access : Nat, rd_wait : Nat,
   rd_inside_wr : Nat, h_wr_thread : Threads \cup {Nobody}, b_del_flag : BOOLEAN]

vars == <<rw, sem_rd, sem_wr, valid, freed, pc, held, calls>>

Place == {"run", "wait_rd", "wait_wr", "own", "post_rd", "post_wr",
          "free", "dispose"}
Goto(t, place) == pc' = [pc EXCEPT ![t] = place]
Gets(t, kind) == held' = [held EXCEPT ![t] = Append(@, kind)]
Kinds(t) == {held[t][i] : i \in DOMAIN held[t]}

Init ==
  /\ rw = [wr_access |-> 0, wr_wait |-> 0, rd_access |-> 0, rd_wait |-> 0,
           rd_inside_wr |-> 0, h_wr_thread |-> Nobody, b_del_flag |-> FALSE]
  /\ sem_rd = 0 /\ sem_wr = 0
  /\ valid = TRUE /\ freed = FALSE
  /\ pc = [t \in Threads |-> "run"]
  /\ held = [t \in Threads |-> <<>>]
  /\ calls = [t \in Threads |-> 0]

\* The handle is valid and no delete is in progress.
Usable == valid /\ ~rw.b_del_flag

\* The four counters that keep the object alive.
Idle(l) == l.wr_access = 0 /\ l.wr_wait = 0 /\ l.rd_access = 0 /\ l.rd_wait = 0

\* Callers lock again only inside a write lock, and write-lock again only if
\* they hold no read lock inside it: the nesting the comments provide for.
MayLock(t, kind) ==
  /\ pc[t] = "run"
  /\ calls[t] < MaxCalls
  /\ \/ held[t] = <<>>
     \/ /\ "W" \in Kinds(t) /\ Len(held[t]) < MaxHold
        /\ (kind = "W" => "R" \notin Kinds(t))
  /\ calls' = [calls EXCEPT ![t] = @ + 1]

-----------------------------------------------------------------------------
\* u_rwl_read_lock
\* Mutant of ReadIsFree: a writer inside is overlooked.
ReadIsFreeNoWriter == rw.rd_wait = 0 /\ rw.wr_wait = 0

ReadIsFree == rw.wr_access = 0 /\ rw.rd_wait = 0 /\ rw.wr_wait = 0

ReadLock(t) ==
  /\ MayLock(t, "R")
  /\ Usable
  /\ \/ /\ ReadIsFree
        /\ rw' = [rw EXCEPT !.rd_access = @ + 1]
        /\ Gets(t, "R")
        /\ UNCHANGED pc
     \/ /\ ~ReadIsFree /\ rw.h_wr_thread = t
        /\ rw' = [rw EXCEPT !.rd_inside_wr = @ + 1]
        /\ Gets(t, "R")
        /\ UNCHANGED pc
     \/ /\ ~ReadIsFree /\ rw.h_wr_thread # t
        /\ rw' = [rw EXCEPT !.rd_wait = @ + 1]
        /\ Goto(t, "wait_rd")
        /\ UNCHANGED held
  /\ UNCHANGED <<sem_rd, sem_wr, valid, freed>>

\* u_sema_lock(h_sem_wait_rd) returned: the releaser has counted t in already.
ReadGranted(t) ==
  /\ pc[t] = "wait_rd"
  /\ sem_rd > 0
  /\ sem_rd' = sem_rd - 1
  /\ Gets(t, "R")
  /\ Goto(t, "run")
  /\ UNCHANGED <<rw, sem_wr, valid, freed, calls>>

-----------------------------------------------------------------------------
\* u_rwl_write_lock
WriteIsFree == Idle(rw)
WriteIsMine(t) ==
  /\ rw.rd_access = 0 /\ rw.rd_inside_wr = 0
  /\ rw.wr_access > 0 /\ rw.h_wr_thread = t

WriteLock(t) ==
  /\ MayLock(t, "W")
  /\ Usable
  /\ \/ /\ WriteIsFree
        /\ rw' = [rw EXCEPT !.wr_access = @ + 1, !.h_wr_thread = t]
        /\ Gets(t, "W")
        /\ UNCHANGED pc
     \/ /\ ~WriteIsFree /\ WriteIsMine(t)
        /\ rw' = [rw EXCEPT !.wr_access = @ + 1]
        /\ Gets(t, "W")
        /\ UNCHANGED pc
     \/ /\ ~WriteIsFree /\ ~WriteIsMine(t)
        /\ rw' = [rw EXCEPT !.wr_wait = @ + 1]
        /\ Goto(t, "wait_wr")
        /\ UNCHANGED held
  /\ UNCHANGED <<sem_rd, sem_wr, valid, freed>>

WriteGranted(t) ==
  /\ pc[t] = "wait_wr"
  /\ sem_wr > 0
  /\ sem_wr' = sem_wr - 1
  /\ Goto(t, "own")
  /\ UNCHANGED <<rw, sem_rd, valid, freed, held, calls>>

\* The woken writer enters the critical section again to name itself.
WriteOwn(t) ==
  /\ pc[t] = "own"
  /\ rw' = [rw EXCEPT !.h_wr_thread = t]
  /\ Gets(t, "W")
  /\ Goto(t, "run")
  /\ UNCHANGED <<sem_rd, sem_wr, valid, freed, calls>>

-----------------------------------------------------------------------------
\* u_rwl_release_lock by a thread that holds a lock.  The ABORTs at its start
\* are the subject of NoAbort.
Releases(t) ==
  /\ pc[t] = "run"
  /\ held[t] # <<>>
  /\ valid
  /\ held' = [held EXCEPT ![t] = SubSeq(@, 1, Len(@) - 1)]
  /\ UNCHANGED <<sem_rd, sem_wr, valid, freed, calls>>

ReleaseInside(t) ==
  /\ Releases(t)
  /\ rw.rd_inside_wr > 0
  /\ rw' = [rw EXCEPT !.rd_inside_wr = @ - 1]
  /\ UNCHANGED pc

\* After the last critical section: the copied state decides about freeing.
Leave(t, l) == Goto(t, IF l.b_del_flag /\ Idle(l) THEN "free" ELSE "run")

ReleaseRead(t) ==
  /\ Releases(t)
  /\ rw.rd_inside_wr = 0 /\ rw.rd_access > 0
  /\ LET l == [rw EXCEPT !.rd_access = @ - 1] IN
     \/ /\ l.rd_wait > 0 /\ l.rd_access = 0
        /\ rw' = [l EXCEPT !.rd_wait = @ - 1, !.rd_access = @ + 1]
        /\ Goto(t, "post_rd")
     \/ /\ l.rd_wait = 0 /\ l.rd_access = 0 /\ l.wr_wait > 0
        /\ rw' = [l EXCEPT !.wr_wait = @ - 1, !.wr_access = @ + 1]
        /\ Goto(t, "post_wr")
     \/ /\ l.rd_access > 0 \/ (l.rd_wait = 0 /\ l.wr_wait = 0)
        /\ rw' = l
        /\ Leave(t, l)

\* Mutants of ReleaseWrite: every release of a nested lock hands it over; waiting
\* readers are forgotten.
ReleaseWriteEach(t) ==
  /\ Releases(t)
  /\ rw.rd_inside_wr = 0 /\ rw.rd_access = 0 /\ rw.wr_access > 0
  /\ LET l == [rw EXCEPT !.wr_access = @ - 1] IN
     \/ /\ l.wr_wait > 0
        /\ rw' = [l EXCEPT !.wr_wait = @ - 1, !.wr_access = @ + 1]
        /\ Goto(t, "post_wr")
     \/ /\ l.wr_wait = 0
        /\ rw' = l
        /\ Leave(t, l)

ReleaseWriteNoReaders(t) ==
  /\ Releases(t)
  /\ rw.rd_inside_wr = 0 /\ rw.rd_access = 0 /\ rw.wr_access > 0
  /\ LET l == [rw EXCEPT !.wr_access = @ - 1,
                         !.h_wr_thread = IF rw.wr_access = 1 THEN Nobody ELSE @] IN
     \/ /\ l.wr_access = 0 /\ l.wr_wait > 0
        /\ rw' = [l EXCEPT !.wr_wait = @ - 1, !.wr_access = @ + 1,
                           !.h_wr_thread = t]
        /\ Goto(t, "post_wr")
     \/ /\ l.wr_access > 0 \/ l.wr_wait = 0
        /\ rw' = l
        /\ Leave(t, l)

ReleaseWrite(t) ==
  /\ Releases(t)
  /\ rw.rd_inside_wr = 0 /\ rw.rd_access = 0 /\ rw.wr_access > 0
  /\ LET l == [rw EXCEPT !.wr_access = @ - 1,
                         !.h_wr_thread = IF rw.wr_access = 1 THEN Nobody ELSE @] IN
     \/ /\ l.wr_access = 0 /\ l.wr_wait > 0
        /\ rw' = [l EXCEPT !.wr_wait = @ - 1, !.wr_access = @ + 1,
                           !.h_wr_thread = t]
        /\ Goto(t, "post_wr")
     \/ /\ l.wr_access = 0 /\ l.wr_wait = 0 /\ l.rd_wait > 0
        /\ rw' = [l EXCEPT !.rd_wait = @ - 1, !.rd_access = @ + 1]
        /\ Goto(t, "post_rd")
     \/ /\ l.wr_access > 0 \/ (l.wr_wait = 0 /\ l.rd_wait = 0)
        /\ rw' = l
        /\ Leave(t, l)

\* u_sema_unlock for the waiter that was counted in.
Post(t) ==
  /\ \/ pc[t] = "post_rd" /\ sem_rd' = sem_rd + 1 /\ UNCHANGED sem_wr
     \/ pc[t] = "post_wr" /\ sem_wr' = sem_wr + 1 /\ UNCHANGED sem_rd
  /\ Goto(t, "run")
  /\ UNCHANGED <<rw, valid, freed, held, calls>>

-----------------------------------------------------------------------------
\* u_rwl_delete_lock, and _free_rwlock_resource by whoever was last: first the
\* handle goes, then the semaphores and the object.
Delete(t) ==
  /\ pc[t] = "run"
  /\ Usable
  /\ rw' = [rw EXCEPT !.b_del_flag = TRUE]
  /\ Goto(t, IF Idle(rw) THEN "free" ELSE "run")
  /\ UNCHANGED <<sem_rd, sem_wr, valid, freed, held, calls>>

\* The handle library asks before it frees the handle: only that of a lock marked
\* for deletion goes.  What u_handle_free returns is ignored.
rwl_handle_cb == rw.b_del_flag

FreeHandle(t) ==
  /\ pc[t] = "free"
  /\ valid' = (valid /\ ~rwl_handle_cb)
  /\ Goto(t, "dispose")
  /\ UNCHANGED <<rw, sem_rd, sem_wr, freed, held, calls>>

FreeObject(t) ==
  /\ pc[t] = "dispose"
  /\ freed' = TRUE
  /\ Goto(t, "run")
  /\ UNCHANGED <<rw, sem_rd, sem_wr, valid, held, calls>>

-----------------------------------------------------------------------------
\* The two questions callers ask, each in a critical section: does anybody read,
\* and does the calling thread write?
rwl_read_lock_grabbed == valid /\ (rw.rd_access > 0 \/ rw.rd_inside_wr > 0)

u_rwl_write_lock_grabbed(t) == valid /\ rw.h_wr_thread = t /\ rw.wr_access > 0

-----------------------------------------------------------------------------
Continue(t) ==
  \/ ReadGranted(t) \/ WriteGranted(t) \/ WriteOwn(t)
  \/ ReleaseInside(t) \/ ReleaseRead(t) \/ ReleaseWrite(t)
  \/ Post(t) \/ FreeHandle(t) \/ FreeObject(t)

Next ==
  \/ \E t \in Readers : ReadLock(t)
  \/ \E t \in Writers : WriteLock(t)
  \/ \E t \in Deleters : Delete(t)
  \/ \E t \in Threads : Continue(t)

Spec == Init /\ [][Next]_vars

\* A thread releases what it holds and finishes the call it is in; nobody has
\* to lock again.
LiveSpec == Spec /\ \A t \in Threads : WF_vars(Continue(t))

-----------------------------------------------------------------------------
TypeOK ==
  /\ rw \in MRSW_LOCK_T
  /\ sem_rd \in Nat /\ sem_wr \in Nat
  /\ valid \in BOOLEAN /\ freed \in BOOLEAN
  /\ pc \in [Threads -> Place]
  /\ held \in [Threads -> Seq({"R", "W"})]
  /\ calls \in [Threads -> 0 .. MaxCalls]

At(place) == {t \in Threads : pc[t] = place}
NumAt == [place \in Place |-> Cardinality(At(place))]

\* The locks that were given and not released: the i-th one of thread t.
Granted == UNION {{t} \X DOMAIN held[t] : t \in Threads}

\* The ABORTs of u_rwl_release_lock are never reached: readers and writers are
\* never counted in together, and a read lock inside a write lock implies that
\* write lock.
NoAbort ==
  /\ ~(rw.rd_access > 0 /\ rw.wr_access > 0)
  /\ rw.rd_inside_wr > 0 => rw.wr_access > 0

\* Every lock a thread was given, and every lock on its way to a waiter, is
\* counted exactly once: releasing them all takes the lock back to idle.
Accounting ==
  /\ rw.rd_access + rw.rd_inside_wr + rw.wr_access =
       Cardinality(Granted) + NumAt["post_rd"] + NumAt["post_wr"]
         + sem_rd + sem_wr + NumAt["own"]
  /\ rw.rd_wait + NumAt["post_rd"] + sem_rd
       = NumAt["wait_rd"]
  /\ rw.wr_wait + NumAt["post_wr"] + sem_wr
       = NumAt["wait_wr"]

\* Nobody waits for a lock that nobody has: while a thread is counted as
\* waiting, another holds the lock or is about to get it.
WaitersHaveHolder ==
  rw.rd_wait + rw.wr_wait > 0 => rw.rd_access + rw.wr_access > 0

\* At most one hand-over is on its way, so the two semaphores stay binary.
OneHandOver ==
  NumAt["post_rd"] + NumAt["post_wr"] + sem_rd + sem_wr <= 1

\* A deferred delete waits for the last user: nothing is freed twice, and no
\* thread that holds the lock, waits on its semaphores or is about to unlock
\* one finds them freed, and no handle leads to a freed lock.
NoUseAfterFree ==
  /\ Cardinality(At("free") \cup At("dispose")) <= 1
  /\ At("free") # {} => valid
  /\ (At("free") \cup At("dispose") # {} \/ ~valid) =>
       \A t \in Threads :
         held[t] = <<>> /\ pc[t] \in {"run", "free", "dispose"}
  /\ freed => At("dispose") = {} /\ ~valid

\* "Once this API returnes, the component database is locked for write
\* operations": while a thread has the write lock, no other thread has a lock.
MutualExclusion ==
  \A t, u \in Threads : t # u /\ "W" \in Kinds(t) => held[u] = <<>>

\* "The API returns TRUE, if one or more threads have the read lock" (or one is on
\* its way to a waiter), and "TRUE only if the current thread has acquired the
\* write lock": with one writer both answers are exact at every moment, also
\* between a hand-over and the waiter's return, and while a delete is pending.
GrabbedIsExact ==
  /\ rwl_read_lock_grabbed <=>
       \/ \E t \in Threads : "R" \in Kinds(t)
       \/ At("post_rd") # {} \/ sem_rd > 0
  /\ \A t \in Threads : pc[t] = "run" => (u_rwl_write_lock_grabbed(t) <=> "W" \in Kinds(t))

\* Every thread that waits for the lock gets it, if holders release it and the
\* threads make finitely many calls.
WaitersAreServed ==
  \A t \in Threads : pc[t] \in {"wait_rd", "wait_wr", "own"} ~> held[t] # <<>>
=============================================================================
