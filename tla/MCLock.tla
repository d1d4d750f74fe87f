------------------------------- MODULE MCLock -------------------------------
(* Small semaphores and read-write locks for TLC: threads on a MUTEX; one   *)
(* waiter and its posters on a BINARY semaphore, the way the framework      *)
(* signals with it; threads that read, write and delete a read-write lock;  *)
(* and one with a single writer.                                            *)
EXTENDS RwLock

CONSTANTS Creator,                 \* of the semaphore; also the single writer
          e_type, ui4_init_value, MaxValue, MaxNest,    \* see Sema
          ManyHold, ManyCalls      \* bounds, with several writers

VARIABLES part, ui4_value, thread, i2_selfcount, spc, option, holds, ret

M == INSTANCE Sema WITH Lockers <- Threads, Unlockers <- Threads, pc <- spc
Bin == INSTANCE Sema WITH Lockers <- {Creator}, Unlockers <- Threads \ {Creator}, e_type <- "BINARY",
                          ui4_init_value <- 0, MaxValue <- 3, MaxNest <- 1, pc <- spc

ASSUME LockAssumption == RwLockAssumption /\ Creator \in Writers
ASSUME SemaAssumption == M!SemaAssumption

svars == <<ui4_value, thread, i2_selfcount, spc, option, holds, ret>>
allvars == <<part, vars, svars>>

\* Bound: with several writers fewer calls and fewer nested locks.
Bounded == \A t \in Threads : Len(held'[t]) <= ManyHold /\ calls'[t] <= ManyCalls
\* Only w write-locks.
OneWrites(w) == \/ \E t \in Readers : ReadLock(t)
                \/ WriteLock(w)
                \/ \E t \in Deleters : Delete(t)
                \/ \E t \in Threads : Continue(t)

MCInit == /\ part \in {"mutex", "binary", "rw", "one"}
          /\ IF part = "binary" THEN Bin!Init ELSE M!Init
          /\ Init
MCNext == \/ part = "mutex" /\ M!Next /\ UNCHANGED <<part, vars>>
          \/ part = "binary" /\ Bin!Next /\ UNCHANGED <<part, vars>>
          \/ part = "rw" /\ Next /\ Bounded /\ UNCHANGED <<part, svars>>
          \/ part = "one" /\ OneWrites(Creator) /\ UNCHANGED <<part, svars>>
MCSpec == /\ MCInit /\ [][MCNext]_allvars
          /\ \A t \in Threads : /\ WF_svars(part = "binary" /\ Bin!Continues(t))
                                /\ WF_vars(part = "one" /\ Continue(t))

\* See Sema: a MUTEX has one holder, who is recorded as its owner with the number
\* of locks to give back, and no thread sleeps on while it is free.
OneHolder == M!MutualExclusion
HolderIsOwner == M!HolderIsOwner
NoLostWakeup == M!NoLostWakeup
\* See RwLock: every lock that is held or handed over is counted once, somebody
\* waits only for a lock that somebody has, the last release hands it to one
\* class of waiters, the ABORTs of u_rwl_release_lock are not reached, and a
\* deferred delete waits for the last user.
RwCountsExact == TypeOK /\ NoAbort /\ Accounting /\ WaitersHaveHolder /\ OneHandOver /\ NoUseAfterFree
\* See RwLock: a single writer excludes the readers, and the questions who has
\* the lock are answered exactly.
OneWriterExcludes == part = "one" => MutualExclusion /\ GrabbedIsExact
\* See Sema and RwLock: a post reaches the thread that waits on a BINARY
\* semaphore, and with a single writer every waiter gets the read-write lock.
EveryWaiterIsServed == /\ part = "binary" => Bin!PostIsDelivered
                       /\ part = "one" => WaitersAreServed
\* See RwLock: a writer has the lock alone, as the comment of u_rwl_write_lock
\* says; with several writers the code breaks it.
WriterIsAlone == part = "rw" => MutualExclusion
=============================================================================
