------------------------------- MODULE Thread -------------------------------
(***************************************************************************)
(* The thread library of mw/os_pthread/os_pthread_thread.c: the list of    *)
(* threads, suspend and resume, private keys, and the exit of a thread:    *)
(* the key destructor takes it off the list and hands it to the reaper     *)
(* thread, through a slot that holds one thread.                           *)
(*                                                                         *)
(* What the code does under s_thread_list_mutex held for writing is one    *)
(* action.  s_exitReaper.mutex is held by the reaper from its wake-up to   *)
(* its next wait ("join"), and inside SignalReaper, which is one action.   *)
(***************************************************************************)
EXTENDS Integers, Sequences, SequencesExt, FiniteSets

CONSTANTS Names,        \* names of threads, cut to THREAD_NAME_LEN
          Keys,         \* keys of private data
          MaxThreads,   \* bound on the records allocated
          Busy          \* bound: the threads that suspend and have private data

ThreadAssumption == MaxThreads \in Nat

VARIABLES th,             \* the OS_THREAD_LIGHT_T records, by allocation
          s_thread_list,
          thread_exit,    \* s_exitReaper.thread_exit, 0 for NULL
          reaper,         \* where ExitReaperProc is
          serial,         \* the program: a thread ends only when no other does
          deleted         \* deleted[i][k]: calls of pf_pvt_del for key k of i

tvars == <<th, s_thread_list, thread_exit, reaper, serial, deleted>>

Ids == 1..MaxThreads
NoName == "none"          \* the empty name of an upgraded thread

\* Places of a thread: "out" before it is created, "proc" at the start of
\* ThreadProc, "wait" and "woken" in u_thread_suspend, "exit" in the key
\* destructor, "unlisted" before SignalReaper, "ended" after it, "joined" when
\* the pthread is at its end, "freed" when its record is freed.
Alive(i) == th[i].place \in {"run", "wait", "woken"}
Ending(i) == th[i].place \in {"exit", "unlisted", "ended", "joined"}

NewThread(name, joined, place) ==
    [name |-> name, z_stack_size |-> joined, place |-> place, suspend |-> FALSE, pt_pvt |-> <<>>]

\* os_thread_init, InitReaper.
TInit ==
    /\ th = [i \in Ids |-> NewThread(NoName, FALSE, "out")]
    /\ s_thread_list = <<>>
    /\ thread_exit = 0
    /\ reaper = "start" /\ serial \in BOOLEAN
    /\ deleted = [i \in Ids |-> [k \in Keys |-> 0]]

Fresh == {i \in Ids : th[i].place = "out" /\ \A j \in Ids : j < i => th[j].place # "out"}
Move(i, place) == th' = [th EXCEPT ![i].place = place]

-----------------------------------------------------------------------------
thread_list_add(i) == s_thread_list' = Append(s_thread_list, i)
thread_list_remove(i) == s_thread_list' = RemoveFirst(s_thread_list, i)
thread_find_handle(h) == h \in Range(s_thread_list)

thread_find_obj(name) == \E i \in Range(s_thread_list) : th[i].name = name

\* u_thread_create: OSR_EXIST when a listed thread has the name, OSR_FAIL when
\* pthread_create fails (both leave nothing); else the thread is on the list
\* before anyone can look.
u_thread_create(name) ==
    /\ ~thread_find_obj(name)
    /\ \E i \in Fresh :
         /\ th' = [th EXCEPT ![i] = NewThread(name, TRUE, "proc")]
         /\ thread_list_add(i)
    /\ UNCHANGED <<serial, thread_exit, reaper, deleted>>

\* u_thread_create_cli: the same body.
u_thread_create_cli(name) == u_thread_create(name)

\* ThreadProc up to the thread's function.
ThreadProc(i) ==
    /\ th[i].place = "proc" /\ Move(i, "run")
    /\ UNCHANGED <<serial, s_thread_list, thread_exit, reaper, deleted>>

\* ThreadUpgrade, from u_thread_self in a thread that the library did not
\* create: no name, and no stack size, so that the reaper will not join it.
ThreadUpgrade ==
    /\ \E i \in Fresh : th' = [th EXCEPT ![i] = NewThread(NoName, FALSE, "run")] /\ thread_list_add(i)
    /\ UNCHANGED <<serial, thread_exit, reaper, deleted>>

\* u_thread_self: a thread the library does not know is upgraded.
u_thread_self == ThreadUpgrade

u_thread_suspend(i) ==
    /\ th[i].place = "run" /\ i \in Busy
    /\ th' = [th EXCEPT ![i].suspend = TRUE, ![i].place = "wait"]
    /\ UNCHANGED <<serial, s_thread_list, thread_exit, reaper, deleted>>

\* Out of pthread_cond_wait, resumed or, as nothing is tested, by a spurious
\* wake-up.
SuspendEnd(i) ==
    /\ th[i].place \in {"wait", "woken"}
    /\ th' = [th EXCEPT ![i].suspend = FALSE, ![i].place = "run"]
    /\ UNCHANGED <<serial, s_thread_list, thread_exit, reaper, deleted>>

\* u_thread_resume of a handle, which may be that of a thread that has ended.
u_thread_resume(h) ==
    /\ thread_find_handle(h)
    /\ th[h].suspend
    /\ th' = [th EXCEPT ![h].place = "woken"]
    /\ UNCHANGED <<serial, s_thread_list, thread_exit, reaper, deleted>>

-----------------------------------------------------------------------------
(* Private data, a list of keys that only the thread itself touches         *)

thread_find_pvt_key(i, k) == k \in Range(th[i].pt_pvt)

u_thread_set_pvt(i, k) ==
    /\ th[i].place = "run" /\ i \in Busy /\ ~thread_find_pvt_key(i, k)
    /\ deleted[i][k] = 0                      \* bound: a key is set once
    /\ th' = [th EXCEPT ![i].pt_pvt = Append(@, k)]
    /\ UNCHANGED <<serial, s_thread_list, thread_exit, reaper, deleted>>

\* u_thread_del_pvt_impl: unlinked, then pf_pvt_del is called.
u_thread_del_pvt_impl(i, k) ==
    /\ deleted' = [deleted EXCEPT ![i][k] = @ + 1]
    /\ th' = [th EXCEPT ![i].pt_pvt = RemoveFirst(@, k)]

u_thread_del_pvt(i, k) ==
    /\ th[i].place = "run" /\ thread_find_pvt_key(i, k)
    /\ u_thread_del_pvt_impl(i, k)
    /\ UNCHANGED <<serial, s_thread_list, thread_exit, reaper>>

-----------------------------------------------------------------------------
(* The end of a thread                                                      *)

\* u_thread_exit, or the return of the thread's function: pthread_exit.
u_thread_exit(i) ==
    /\ th[i].place = "run"
    /\ serial => reaper = "wait" /\ \A j \in Ids : ~Ending(j)
    /\ Move(i, "exit")
    /\ UNCHANGED <<serial, s_thread_list, thread_exit, reaper, deleted>>

\* thread_key_destructor: each private entry from the first on ...
DestroyPvt(i) ==
    /\ th[i].place = "exit" /\ th[i].pt_pvt # <<>>
    /\ u_thread_del_pvt_impl(i, Head(th[i].pt_pvt))
    /\ UNCHANGED <<serial, s_thread_list, thread_exit, reaper>>

\* Mutant of MayLeave: the thread leaves the list with private data left.
MayLeaveEarly(i) == TRUE

\* ... `while (pt_thread->pt_pvt != NULL)' ...
MayLeave(i) == th[i].pt_pvt = <<>>

\* ... then off the list ...
Unlist(i) ==
    /\ th[i].place = "exit" /\ MayLeave(i)
    /\ Move(i, "unlisted") /\ thread_list_remove(i)
    /\ UNCHANGED <<serial, thread_exit, reaper, deleted>>

\* Mutant of SignalReaper: the reaper is signalled without its slot being set.
SignalReaperBare(i) ==
    /\ th[i].place = "unlisted" /\ reaper \notin {"join", "stale"}
    /\ reaper' = IF reaper = "wait" THEN "woken" ELSE reaper
    /\ Move(i, "ended")
    /\ UNCHANGED <<serial, s_thread_list, thread_exit, deleted>>

\* ... then SignalReaper, under the reaper's mutex.
SignalReaper(i) ==
    /\ th[i].place = "unlisted" /\ reaper \notin {"join", "stale"}
    /\ thread_exit' = i
    /\ reaper' = IF reaper = "wait" THEN "woken" ELSE reaper
    /\ Move(i, "ended")
    /\ UNCHANGED <<serial, s_thread_list, deleted>>

\* ExitReaperProc: the mutex and the first wait, ...
ReaperWait ==
    /\ reaper = "start" /\ reaper' = "wait"
    /\ UNCHANGED <<serial, th, s_thread_list, thread_exit, deleted>>

\* ... a wake-up that nobody signalled, which the loop does not tell apart, ...
ReaperSpurious ==
    /\ reaper = "wait" /\ reaper' = "astray"
    /\ UNCHANGED <<serial, th, s_thread_list, thread_exit, deleted>>

\* The slot holds a thread that has ended and is not yet freed.
SlotHasAThread == thread_exit # 0 /\ th[thread_exit].place \in {"ended", "joined"}

\* ... the mutex, taken again, and the slot.  After a signal it is taken as it
\* is; astray the reaper may find a thread there, or NULL, on which the ASSERT
\* fails, or one that it has freed and now joins and frees again ("stale": what
\* follows is not defined, and the reaper is not followed further).
ReaperWake ==
    /\ \/ reaper = "woken" /\ reaper' = "join"
       \/ reaper = "astray" /\ reaper' = IF SlotHasAThread THEN "join" ELSE "stale"
    /\ UNCHANGED <<serial, th, s_thread_list, thread_exit, deleted>>

\* pthread_join returns when the thread is past its destructors.
Joined(i) == th[i].z_stack_size => th[i].place = "joined"

\* The thread itself comes to its end.
ThreadEnd(i) ==
    /\ th[i].place = "ended" /\ Move(i, "joined")
    /\ UNCHANGED <<serial, s_thread_list, thread_exit, reaper, deleted>>

\* ... the join, the release, and the next wait.
ReaperFree ==
    /\ reaper = "join" /\ thread_exit # 0 /\ Joined(thread_exit)
    /\ Move(thread_exit, "freed")
    /\ reaper' = "wait"
    /\ UNCHANGED <<serial, s_thread_list, thread_exit, deleted>>

-----------------------------------------------------------------------------
(* Priorities.  1 to 254 of the library, the first being the highest, are 99 *)
(* to 1 of the scheduler.  A thread's scheduling parameters are the system's:*)
(* functions of them, under the list's lock.  Nothing else depends on them.  *)

from_sched_priority(sched_priority) == (((100 - sched_priority) * 256) \div 100) % 256

to_sched_priority(ui1_priority) ==
    LET p == 100 - (ui1_priority * 100) \div 256
    IN IF p < 1 THEN 1 ELSE IF p > 99 THEN 99 ELSE p

\* h names a thread or not; a policy without priorities takes none of 1 to 99.
u_thread_set_pri(listed, real_time, sched_priority, ui1_new_pri) ==
    LET ret == CASE ui1_new_pri \notin 1..254 -> "OSR_INV_ARG"
                 [] ui1_new_pri \in 1..254 /\ ~listed -> "OSR_INV_HANDLE"
                 [] OTHER -> IF real_time THEN "OSR_OK" ELSE "OSR_FAIL"
    IN [ret |-> ret, sched |-> IF ret = "OSR_OK" THEN to_sched_priority(ui1_new_pri) ELSE sched_priority]

\* The priority, or 0 with OSR_INV_HANDLE.
u_thread_get_pri(listed, sched_priority) ==
    IF listed THEN from_sched_priority(sched_priority) ELSE 0

-----------------------------------------------------------------------------
Program ==
    \/ \E name \in Names : u_thread_create(name) \/ u_thread_create_cli(name)
    \/ u_thread_self
    \/ \E i \in Ids :
         \/ u_thread_suspend(i) \/ u_thread_resume(i) \/ u_thread_exit(i)
         \/ \E k \in Keys : u_thread_set_pvt(i, k) \/ u_thread_del_pvt(i, k)

Reaper == ReaperWait \/ ReaperWake \/ ReaperFree
Ends(i) == DestroyPvt(i) \/ Unlist(i) \/ SignalReaper(i) \/ ThreadEnd(i)

\* Every thread has ended, or sleeps until it is resumed, or waits for a mutex
\* the reaper does not give back: the model's bound.
AllDone == reaper = "stale" \/ \A i \in Ids : th[i].place \in {"wait", "ended", "joined", "freed"}

TNext ==
    \/ Program \/ Reaper \/ ReaperSpurious
    \/ \E i \in Ids : ThreadProc(i) \/ SuspendEnd(i) \/ Ends(i)
    \/ AllDone /\ UNCHANGED tvars

\* The reaper and every thread that ends are scheduled.
TFairness == WF_tvars(Reaper) /\ \A i \in Ids : WF_tvars(Ends(i))

TSpec == TInit /\ [][TNext]_tvars /\ TFairness

-----------------------------------------------------------------------------
\* The list holds every thread from its creation until its destructor has
\* removed it, once, and no two of its named threads have one name: what
\* u_thread_create checks and adds is not split by another creation or exit.
ListedOnce ==
    /\ \A i \in Ids : i \in Range(s_thread_list) <=> Alive(i) \/ th[i].place \in {"proc", "exit"}
    /\ \A m, n \in DOMAIN s_thread_list :
         LET i == s_thread_list[m]
             j == s_thread_list[n]
         IN m # n => i # j /\ (th[i].name = th[j].name => th[i].name = NoName)

\* When the reaper was signalled, or has a thread to join, its slot holds a
\* thread that has ended and is not yet freed, however exits and spurious
\* wake-ups overlap.  Only a wake-up that nobody signalled can find nothing
\* there, or a record that was freed already, never a thread that still runs.
ReaperHasAThread ==
    /\ reaper \in {"woken", "join"} => SlotHasAThread
    /\ reaper = "stale" => thread_exit = 0 \/ th[thread_exit].place = "freed"

\* A record is freed by the reaper only after the thread has ended, when it is
\* one that can be joined.
FreedAfterEnd ==
    [][\A i \in Ids : th[i].place # "freed" /\ th'[i].place = "freed" /\ th[i].z_stack_size
            => th[i].place = "joined"]_tvars

\* Each private entry's pf_pvt_del runs once, while the thread is still on the
\* list: whoever finds the thread there finds what it owns.
PrivateDataDeletedOnce ==
    \A i \in Ids : \A k \in Keys :
        /\ deleted[i][k] <= 1
        /\ thread_find_pvt_key(i, k) =>
             deleted[i][k] = 0 /\ i \in Range(s_thread_list)

\* The 254 priorities share the scheduler's 99, so what is read back is seldom
\* what was set, but it is one that may be set again, it is off by at most three
\* and never on the other side of another thread's, and set again it raises the
\* thread by at most one of the 99 steps: priorities that are saved and restored
\* keep threads in their order.
PrioritiesKeepOrder ==
    LET Set(p) == u_thread_set_pri(TRUE, TRUE, 0, p)
        Read(p) == u_thread_get_pri(TRUE, Set(p).sched)
    IN /\ \A p \in 1..254 : /\ Set(p).sched \in 1..99
                           /\ Read(p) \in (p - 3)..(p + 1)
                           /\ Set(Read(p)).ret = "OSR_OK"
                           /\ Set(Read(p)).sched - Set(p).sched \in {0, 1}
       /\ \A p \in 1..253 : Set(p).sched >= Set(p + 1).sched /\ Read(p) <= Read(p + 1)
       /\ \A p \in 1..99 : \E q \in 1..254 : Set(q).sched = p

\* A thread that ends while the reaper waits and no other thread ends (serial)
\* is reaped, its record freed; when exits overlap a thread may be overwritten
\* in the slot and is then never joined, but each signal the reaper gets frees
\* the thread that is in the slot, unless another takes its place.  Both hold
\* unless a spurious wake-up has led the reaper astray.
EveryExitReaped ==
    \A i \in Ids :
      /\ serial /\ th[i].place = "exit" ~> th[i].place = "freed" \/ reaper = "stale"
      /\ reaper = "woken" /\ thread_exit = i ~> th[i].place = "freed" \/ thread_exit # i
=============================================================================
