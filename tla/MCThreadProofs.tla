--------------------------- MODULE MCThreadProofs ---------------------------
(***************************************************************************)
(* Proofs about CritSection for any set of threads and any nesting, about  *)
(* Thread for any number of threads, names and keys, and about Timer for   *)
(* any number of timers and of starts, and any delays but 0; and what they *)
(* show of the program of MCThread, which is one of the three.             *)
(***************************************************************************)
EXTENDS MCThread, ListProofs

\* Who has the mutex, whether recorded in s_crit.thread already or not.
InCS(t) == depth[t] > 0 \/ pc[t] \in {"owner", "unlock"}

\* The inductive invariant: the mutex belongs to the one thread inside, and
\* s_crit.thread names a thread exactly while that thread's count is positive.
MutexHeld == \A t \in Threads : InCS(t) <=> mutex = t
Record ==
  \A t \in Threads :
    /\ depth[t] >= 0
    /\ depth[t] > 0 => thread = t /\ i2_selfcount = depth[t] /\ pc[t] = "run"
    /\ thread = t => depth[t] > 0
NobodyCounts == thread = Nobody => i2_selfcount = 0

CritInv == TypeOK /\ MutexHeld /\ Record /\ NobodyCounts

\* The critical section's invariant holds of every behaviour.
THEOREM CritInvariant == Spec => []CritInv
<1> USE CritAssumption DEF CritInv, TypeOK, MutexHeld, Record, NobodyCounts, InCS, Place, Goto
<1>1. Init => CritInv
  BY DEF Init
<1>2. CritInv /\ [Next]_vars => CritInv'
  <2> SUFFICES ASSUME CritInv, [Next]_vars PROVE CritInv'
    OBVIOUS
  <2>1. ASSUME NEW t \in Threads, StartNested(t) PROVE CritInv'
    BY <2>1 DEF StartNested, CountIn
  <2>2. ASSUME NEW t \in Threads, StartOutside(t) PROVE CritInv'
    BY <2>2 DEF StartOutside
  <2>3. ASSUME NEW t \in Threads, StartLock(t) PROVE CritInv'
    BY <2>3 DEF StartLock
  <2>4. ASSUME NEW t \in Threads, StartRecord(t) PROVE CritInv'
    <3>1. mutex = t /\ depth[t] = 0 /\ \A u \in Threads \ {t} : ~InCS(u)
      BY <2>4 DEF StartRecord
    <3>2. thread = Nobody
      BY <3>1
    <3>3. QED
      BY <2>4, <3>1, <3>2 DEF StartRecord, CountIn
  <2>5. ASSUME NEW t \in Threads, End(t) PROVE CritInv'
    BY <2>5 DEF End
  <2>6. ASSUME NEW t \in Threads, EndUnlock(t) PROVE CritInv'
    BY <2>6 DEF EndUnlock
  <2>7. CASE UNCHANGED vars
    BY <2>7 DEF vars
  <2>8. QED
    BY <2>1, <2>2, <2>3, <2>4, <2>5, <2>6, <2>7 DEF Next
<1>3. QED
  BY <1>1, <1>2, PTL DEF Spec

\* One thread at a time is between u_crit_start and u_crit_end.
THEOREM CritExcludes == Spec => []MutualExclusion
<1>1. CritInv => MutualExclusion
  BY DEF CritInv, MutexHeld, InCS, MutualExclusion, TypeOK
<1>2. QED
  BY <1>1, CritInvariant, PTL

\* The two ASSERTs of u_crit_end hold whenever a thread inside calls it.
THEOREM CritAssertsHold == Spec => []EndAssertsHold
<1>1. CritInv => EndAssertsHold
  BY DEF CritInv, Record, EndAssertsHold
<1>2. QED
  BY <1>1, CritInvariant, PTL

-----------------------------------------------------------------------------
ThreadPlace == {"out", "proc", "run", "wait", "woken", "exit", "unlisted", "ended", "joined", "freed"}

ReaperPlace == {"start", "wait", "woken", "astray", "join", "stale"}

OS_THREAD_LIGHT_T ==
  [name : Names \cup {NoName}, z_stack_size : BOOLEAN, place : ThreadPlace, suspend : BOOLEAN,
   pt_pvt : Seq(Keys)]

ThreadType ==
  /\ th \in [Ids -> OS_THREAD_LIGHT_T]
  /\ s_thread_list \in Seq(Ids)
  /\ thread_exit \in Ids \cup {0}
  /\ reaper \in ReaperPlace
  /\ serial \in BOOLEAN
  /\ deleted \in [Ids -> [Keys -> Nat]]

\* The list holds the threads that have been created and have not yet been
\* through their destructor, once; a name is given once.
Listed(i) == th[i].place \in {"proc", "run", "wait", "woken", "exit"}

ThreadListInv ==
  /\ Distinct(s_thread_list)
  /\ \A i \in Ids : i \in Range(s_thread_list) <=> Listed(i)
  /\ \A i, j \in Ids :
       Listed(i) /\ Listed(j) /\ i # j /\ th[i].name = th[j].name => th[i].name = NoName

\* Only a thread that sleeps in u_thread_suspend, or is on its way out of it, can
\* be resumed: a handle that is kept too long wakes nobody up.
SuspendInv == \A i \in Ids : th[i].suspend => th[i].place \in {"wait", "woken"}

\* The slot, once it holds a thread, holds one that has ended.
SlotInv == thread_exit # 0 => th[thread_exit].place \in {"ended", "joined", "freed"}

\* A thread's private entries have different keys, none of them deleted, and only
\* a thread on the list has any.
PvtInv ==
  \A i \in Ids :
    /\ Distinct(th[i].pt_pvt)
    /\ \A k \in Keys : deleted[i][k] <= 1
    /\ \A k \in Range(th[i].pt_pvt) : deleted[i][k] = 0 /\ Listed(i)

ThreadInv == ThreadType /\ ThreadListInv /\ SuspendInv /\ ReaperHasAThread /\ SlotInv /\ PvtInv

\* os_thread_init leaves an empty list and no thread to reap.
LEMMA ThreadStarts ==
  ASSUME ThreadAssumption, TInit
  PROVE  ThreadInv
<1>1. Ids \subseteq Nat \ {0}
  BY DEF ThreadAssumption, Ids
<1>2. \A i \in Ids : th[i] = NewThread(NoName, FALSE, "out")
  BY DEF TInit
<1>3. <<>> \in Seq(Keys) /\ <<>> \in Seq(Ids) /\ Distinct(<<>>) /\ Range(<<>>) = {}
  BY DEF Distinct, Range
<1>4. ThreadType
  BY <1>3 DEF TInit, ThreadType, OS_THREAD_LIGHT_T, NewThread, ThreadPlace, ReaperPlace
<1>5. ThreadListInv
  BY <1>2, <1>3 DEF TInit, ThreadListInv, Listed, NewThread
<1>6. SuspendInv /\ ReaperHasAThread /\ SlotInv
  BY <1>2 DEF TInit, SuspendInv, ReaperHasAThread, SlotInv, NewThread
<1>7. PvtInv
  BY <1>2, <1>3 DEF TInit, PvtInv, Listed, NewThread
<1>8. QED
  BY <1>4, <1>5, <1>6, <1>7 DEF ThreadInv

\* A thread is created, or upgraded: its record is fresh and it joins the list.
LEMMA Created ==
  ASSUME ThreadAssumption, ThreadInv, NEW i \in Fresh, NEW name \in Names \cup {NoName},
         NEW joined \in BOOLEAN, NEW place \in {"proc", "run"},
         \/ name = NoName
         \/ ~thread_find_obj(name),
         th' = [th EXCEPT ![i] = NewThread(name, joined, place)],
         thread_list_add(i), UNCHANGED <<serial, thread_exit, reaper, deleted>>
  PROVE  ThreadInv'
<1> USE DEF ThreadInv
<1>1. /\ i \in Ids /\ th[i].place = "out" /\ i \notin Range(s_thread_list)
      /\ th'[i] = NewThread(name, joined, place)
      /\ \A j \in Ids \ {i} : th'[j] = th[j]
  BY DEF Fresh, ThreadListInv, Listed, ThreadType
<1>2. /\ s_thread_list' \in Seq(Ids) /\ Distinct(s_thread_list')
      /\ Range(s_thread_list') = Range(s_thread_list) \cup {i}
  BY <1>1, Appended DEF ThreadType, ThreadListInv, thread_list_add
<1>3. <<>> \in Seq(Keys) /\ Distinct(<<>>) /\ Range(<<>>) = {}
  BY DEF Distinct, Range
<1>4. ThreadType'
  <2>1. NewThread(name, joined, place) \in OS_THREAD_LIGHT_T
    BY <1>3 DEF NewThread, OS_THREAD_LIGHT_T, ThreadPlace
  <2>2. QED
    BY <1>2, <2>1 DEF ThreadType
<1>5. ThreadListInv'
  <2>1. \A j \in Ids : j \in Range(s_thread_list') <=> Listed(j)'
    BY <1>1, <1>2 DEF Listed, ThreadListInv, NewThread
  <2>2. ASSUME NEW j \in Ids, Listed(j), th[j].name = name PROVE name = NoName
    BY <2>2 DEF thread_find_obj, ThreadListInv
  <2>3. QED
    BY <1>1, <1>2, <2>1, <2>2 DEF Listed, ThreadListInv, NewThread
<1>6. SuspendInv'
  BY <1>1 DEF SuspendInv, NewThread
<1>7. ReaperHasAThread' /\ SlotInv'
  BY <1>1 DEF ReaperHasAThread, SlotHasAThread, SlotInv, ThreadType
<1>8. PvtInv'
  BY <1>1, <1>3 DEF PvtInv, NewThread, Listed, ThreadType
<1>9. QED
  BY <1>4, <1>5, <1>6, <1>7, <1>8

\* Thread i is in another place, or is marked or unmarked as suspended; nothing
\* else of it changes, and no other thread does.
Becomes(i, place, susp) ==
  /\ \A j \in Ids \ {i} : th'[j] = th[j]
  /\ th' \in [Ids -> OS_THREAD_LIGHT_T]
  /\ th'[i].place = place /\ th'[i].suspend = susp
  /\ th'[i].name = th[i].name /\ th'[i].pt_pvt = th[i].pt_pvt

\* A thread goes on to another place while it stays on the list, or off it, with
\* the private entries it had.
LEMMA Moved ==
  ASSUME ThreadInv, NEW i \in Ids, NEW place \in ThreadPlace, NEW susp \in BOOLEAN,
         Becomes(i, place, susp),
         Listed(i) <=> place \in {"proc", "run", "wait", "woken", "exit"},
         susp => place \in {"wait", "woken"},
         UNCHANGED <<serial, s_thread_list, deleted>>,
         thread_exit' \in Ids \cup {0}, reaper' \in ReaperPlace,
         ReaperHasAThread', SlotInv'
  PROVE  ThreadInv'
<1> USE DEF ThreadInv
<1>1. /\ \A j \in Ids \ {i} : th'[j] = th[j]
      /\ th'[i].place = place /\ th'[i].suspend = susp
      /\ \A j \in Ids : th'[j].name = th[j].name /\ th'[j].pt_pvt = th[j].pt_pvt
      /\ \A j \in Ids : Listed(j)' <=> Listed(j)
  BY DEF Becomes, Listed
<1>2. ThreadType'
  BY DEF ThreadType, Becomes
<1>3. ThreadListInv'
  BY <1>1 DEF ThreadListInv
<1>4. SuspendInv'
  BY <1>1 DEF SuspendInv
<1>5. PvtInv'
  BY <1>1 DEF PvtInv
<1>6. QED
  BY <1>2, <1>3, <1>4, <1>5

\* Move as Moved has it.
LEMMA MoveRecord ==
  ASSUME ThreadInv, NEW i \in Ids, NEW place \in ThreadPlace, Move(i, place)
  PROVE  Becomes(i, place, th[i].suspend) /\ th[i].suspend \in BOOLEAN
<1>1. th \in [Ids -> OS_THREAD_LIGHT_T] /\ th[i] \in OS_THREAD_LIGHT_T
  BY DEF ThreadInv, ThreadType
<1>2. th'[i] = [th[i] EXCEPT !.place = place] /\ \A j \in Ids \ {i} : th'[j] = th[j]
  BY <1>1 DEF Move
<1>3. /\ th'[i] \in OS_THREAD_LIGHT_T /\ th'[i].place = place /\ th'[i].suspend = th[i].suspend
      /\ th'[i].name = th[i].name /\ th'[i].pt_pvt = th[i].pt_pvt /\ th[i].suspend \in BOOLEAN
  BY <1>1, <1>2 DEF OS_THREAD_LIGHT_T
<1>4. th' \in [Ids -> OS_THREAD_LIGHT_T]
  BY <1>1, <1>3 DEF Move
<1>5. QED
  BY <1>2, <1>3, <1>4 DEF Becomes

\* The reaper's slot is untouched and the thread in it did not leave its end.
LEMMA ReaperKeeps ==
  ASSUME ThreadInv, NEW i \in Ids, th[i].place \notin {"ended", "joined", "freed"},
         \A j \in Ids \ {i} : th'[j] = th[j], UNCHANGED <<thread_exit, reaper>>
  PROVE  /\ ReaperHasAThread' /\ SlotInv'
         /\ thread_exit' \in Ids \cup {0} /\ reaper' \in ReaperPlace
BY DEF ThreadInv, ReaperHasAThread, SlotHasAThread, SlotInv, ThreadType

\* A thread runs, sleeps and is resumed.
LEMMA ThreadRuns ==
  ASSUME ThreadInv, NEW i \in Ids,
         ThreadProc(i) \/ u_thread_suspend(i) \/ SuspendEnd(i) \/ u_thread_resume(i) \/ u_thread_exit(i)
  PROVE  ThreadInv'
<1>1. UNCHANGED <<serial, s_thread_list, thread_exit, reaper, deleted>>
  BY DEF ThreadProc, u_thread_suspend, SuspendEnd, u_thread_resume, u_thread_exit
<1>2. th \in [Ids -> OS_THREAD_LIGHT_T] /\ th[i] \in OS_THREAD_LIGHT_T
  BY DEF ThreadInv, ThreadType
<1>3. PICK place \in {"run", "wait", "woken", "exit"}, susp \in BOOLEAN :
        /\ Listed(i) /\ (susp => place \in {"wait", "woken"})
        /\ Becomes(i, place, susp)
  <2> USE <1>2 DEF ThreadInv, SuspendInv, Listed, OS_THREAD_LIGHT_T
  <2>1. CASE ThreadProc(i)
    <3>1. Move(i, "run") /\ th[i].place = "proc" /\ th[i].suspend = FALSE
      BY <2>1 DEF ThreadProc
    <3>2. QED
      BY <3>1, MoveRecord DEF ThreadPlace
  <2>2. CASE u_thread_suspend(i)
    <3>1. /\ th'[i] = [th[i] EXCEPT !.suspend = TRUE, !.place = "wait"] /\ Listed(i)
          /\ \A j \in Ids \ {i} : th'[j] = th[j]
      BY <2>2 DEF u_thread_suspend
    <3>2. /\ th'[i] \in OS_THREAD_LIGHT_T /\ th'[i].place = "wait" /\ th'[i].suspend = TRUE
          /\ th'[i].name = th[i].name /\ th'[i].pt_pvt = th[i].pt_pvt
      BY <3>1 DEF ThreadPlace
    <3>3. th' \in [Ids -> OS_THREAD_LIGHT_T]
      BY <2>2, <3>2 DEF u_thread_suspend
    <3>4. QED
      BY <3>1, <3>2, <3>3 DEF Becomes
  <2>3. CASE SuspendEnd(i)
    <3>1. /\ th'[i] = [th[i] EXCEPT !.suspend = FALSE, !.place = "run"] /\ Listed(i)
          /\ \A j \in Ids \ {i} : th'[j] = th[j]
      BY <2>3 DEF SuspendEnd
    <3>2. /\ th'[i] \in OS_THREAD_LIGHT_T /\ th'[i].place = "run" /\ th'[i].suspend = FALSE
          /\ th'[i].name = th[i].name /\ th'[i].pt_pvt = th[i].pt_pvt
      BY <3>1 DEF ThreadPlace
    <3>3. th' \in [Ids -> OS_THREAD_LIGHT_T]
      BY <2>3, <3>2 DEF SuspendEnd
    <3>4. QED
      BY <3>1, <3>2, <3>3 DEF Becomes
  <2>4. CASE u_thread_resume(i)
    <3>1. Move(i, "woken") /\ th[i].suspend = TRUE
      BY <2>4 DEF u_thread_resume, Move
    <3>2. QED
      BY <3>1, MoveRecord DEF ThreadPlace
  <2>5. CASE u_thread_exit(i)
    <3>1. Move(i, "exit") /\ th[i].place = "run" /\ th[i].suspend = FALSE
      BY <2>5 DEF u_thread_exit
    <3>2. QED
      BY <3>1, MoveRecord DEF ThreadPlace
  <2>6. QED
    BY <2>1, <2>2, <2>3, <2>4, <2>5
<1>4. th[i].place \notin {"ended", "joined", "freed"} /\ \A j \in Ids \ {i} : th'[j] = th[j]
  BY <1>2, <1>3 DEF Listed, Becomes
<1>5. QED
  BY <1>1, <1>3, <1>4, ReaperKeeps, Moved DEF ThreadPlace

\* A private entry is added.
LEMMA PvtAdded ==
  ASSUME ThreadInv, NEW i \in Ids, NEW k \in Keys, u_thread_set_pvt(i, k)
  PROVE  ThreadInv'
<1> DEFINE pvt == th[i].pt_pvt
<1>1. th[i] \in OS_THREAD_LIGHT_T /\ pvt \in Seq(Keys) /\ Distinct(pvt) /\ k \notin Range(pvt)
  BY DEF ThreadInv, ThreadType, OS_THREAD_LIGHT_T, PvtInv, u_thread_set_pvt, thread_find_pvt_key
<1>2. /\ Append(pvt, k) \in Seq(Keys) /\ Distinct(Append(pvt, k))
      /\ Range(Append(pvt, k)) = Range(pvt) \cup {k}
  BY <1>1, Appended
<1>3. /\ \A j \in Ids \ {i} : th'[j] = th[j]
      /\ th'[i] = [th[i] EXCEPT !.pt_pvt = Append(pvt, k)]
      /\ th' = [th EXCEPT ![i] = th'[i]]
  BY DEF ThreadInv, ThreadType, u_thread_set_pvt
<1>4. /\ th'[i] \in OS_THREAD_LIGHT_T /\ th'[i].place = th[i].place /\ th'[i].name = th[i].name
      /\ th'[i].suspend = th[i].suspend /\ th'[i].pt_pvt = Append(pvt, k)
  BY <1>1, <1>2, <1>3 DEF OS_THREAD_LIGHT_T
<1>5. th[i].place = "run" /\ deleted[i][k] = 0
      /\ UNCHANGED <<serial, s_thread_list, thread_exit, reaper, deleted>>
  BY DEF u_thread_set_pvt
<1> HIDE DEF pvt
<1>6. /\ \A j \in Ids : Listed(j)' <=> Listed(j)
      /\ \A j \in Ids : /\ th'[j].name = th[j].name /\ th'[j].place = th[j].place
                       /\ th'[j].suspend = th[j].suspend
  BY <1>3, <1>4 DEF Listed
<1>7. ThreadType'
  BY <1>3, <1>4, <1>5 DEF ThreadInv, ThreadType
<1>8. ThreadListInv' /\ SuspendInv' /\ ReaperHasAThread' /\ SlotInv'
  <2>1. ThreadListInv'
    BY <1>5, <1>6 DEF ThreadInv, ThreadListInv, u_thread_set_pvt
  <2>2. SuspendInv'
    BY <1>6 DEF ThreadInv, SuspendInv
  <2>3. ReaperHasAThread' /\ SlotInv'
    BY <1>5, <1>6 DEF ThreadInv, ReaperHasAThread, SlotHasAThread, SlotInv, ThreadType
  <2>4. QED
    BY <2>1, <2>2, <2>3
<1>9. PvtInv'
  <2>1. ASSUME NEW j \in Ids \ {i}
        PROVE  /\ Distinct(th'[j].pt_pvt)
               /\ \A x \in Keys : deleted'[j][x] <= 1
               /\ \A x \in Range(th'[j].pt_pvt) : deleted'[j][x] = 0 /\ Listed(j)'
    BY <1>3, <1>5, <1>6 DEF ThreadInv, PvtInv
  <2>2. \A x \in Keys : deleted'[i][x] <= 1
    BY <1>5 DEF ThreadInv, PvtInv
  <2>3. \A x \in Range(pvt) : deleted[i][x] = 0
    BY DEF ThreadInv, PvtInv, pvt
  <2>4. Listed(i)'
    BY <1>5, <1>6 DEF Listed
  <2>5. \A x \in Range(th'[i].pt_pvt) : deleted'[i][x] = 0
    BY <1>2, <1>4, <1>5, <2>3
  <2>6. Distinct(th'[i].pt_pvt)
    BY <1>2, <1>4
  <2>7. QED
    BY <2>1, <2>2, <2>4, <2>5, <2>6 DEF PvtInv
<1>10. QED
  BY <1>7, <1>8, <1>9 DEF ThreadInv

\* A private entry is deleted, by the thread or by its destructor.
LEMMA PvtDeleted ==
  ASSUME ThreadInv, NEW i \in Ids, NEW k \in Keys, k \in Range(th[i].pt_pvt),
         u_thread_del_pvt_impl(i, k), UNCHANGED <<serial, s_thread_list, thread_exit, reaper>>
  PROVE  ThreadInv'
<1> DEFINE pvt == th[i].pt_pvt
<1>1. th[i] \in OS_THREAD_LIGHT_T /\ pvt \in Seq(Keys) /\ Distinct(pvt)
  BY DEF ThreadInv, ThreadType, OS_THREAD_LIGHT_T, PvtInv
<1>2. /\ RemoveFirst(pvt, k) \in Seq(Keys) /\ Distinct(RemoveFirst(pvt, k))
      /\ Range(RemoveFirst(pvt, k)) = Range(pvt) \ {k}
  BY <1>1, Unlinked
<1>3. /\ \A j \in Ids \ {i} : th'[j] = th[j]
      /\ th'[i] = [th[i] EXCEPT !.pt_pvt = RemoveFirst(pvt, k)]
      /\ th' = [th EXCEPT ![i] = th'[i]]
  BY DEF ThreadInv, ThreadType, u_thread_del_pvt_impl
<1>4. /\ th'[i] \in OS_THREAD_LIGHT_T /\ th'[i].place = th[i].place /\ th'[i].name = th[i].name
      /\ th'[i].suspend = th[i].suspend /\ th'[i].pt_pvt = RemoveFirst(pvt, k)
  BY <1>1, <1>2, <1>3 DEF OS_THREAD_LIGHT_T
<1>5. /\ deleted[i][k] = 0 /\ deleted'[i][k] = 1
      /\ \A j \in Ids, x \in Keys : (j # i \/ x # k) => deleted'[j][x] = deleted[j][x]
      /\ deleted' \in [Ids -> [Keys -> Nat]]
  BY DEF ThreadInv, PvtInv, ThreadType, u_thread_del_pvt_impl
<1> HIDE DEF pvt
<1>6. /\ \A j \in Ids : Listed(j)' <=> Listed(j)
      /\ \A j \in Ids : /\ th'[j].name = th[j].name /\ th'[j].place = th[j].place
                       /\ th'[j].suspend = th[j].suspend
  BY <1>3, <1>4 DEF Listed
<1>7. ThreadType'
  BY <1>3, <1>4, <1>5 DEF ThreadInv, ThreadType
<1>8. ThreadListInv' /\ SuspendInv' /\ ReaperHasAThread' /\ SlotInv'
  <2>1. ThreadListInv'
    BY <1>5, <1>6 DEF ThreadInv, ThreadListInv, u_thread_set_pvt
  <2>2. SuspendInv'
    BY <1>6 DEF ThreadInv, SuspendInv
  <2>3. ReaperHasAThread' /\ SlotInv'
    BY <1>5, <1>6 DEF ThreadInv, ReaperHasAThread, SlotHasAThread, SlotInv, ThreadType
  <2>4. QED
    BY <2>1, <2>2, <2>3
<1>9. PvtInv'
  <2>1. \A j \in Ids \ {i} : \A x \in Range(th[j].pt_pvt) : x \in Keys
    <3>1. \A j \in Ids : th[j].pt_pvt \in Seq(Keys)
      BY DEF ThreadInv, ThreadType, OS_THREAD_LIGHT_T
    <3>2. QED
      BY <3>1, OnList
  <2>2. \A x \in Range(pvt) : x \in Keys
    BY <1>1, OnList
  <2>3. QED
    <3>1. ASSUME NEW j \in Ids \ {i}
          PROVE  /\ Distinct(th'[j].pt_pvt)
                 /\ \A x \in Keys : deleted'[j][x] <= 1
                 /\ \A x \in Range(th'[j].pt_pvt) : deleted'[j][x] = 0 /\ Listed(j)'
      BY <1>3, <1>5, <1>6, <2>1 DEF ThreadInv, PvtInv
    <3>2. \A x \in Keys : deleted'[i][x] <= 1
      BY <1>5 DEF ThreadInv, PvtInv
    <3>3. \A x \in Range(pvt) : deleted[i][x] = 0 /\ Listed(i)
      BY DEF ThreadInv, PvtInv, pvt
    <3>4. \A x \in Range(th'[i].pt_pvt) : deleted'[i][x] = 0 /\ Listed(i)'
      BY <1>2, <1>4, <1>5, <1>6, <2>2, <3>3
    <3>5. Distinct(th'[i].pt_pvt)
      BY <1>2, <1>4
    <3>6. QED
      BY <3>1, <3>2, <3>4, <3>5 DEF PvtInv
<1>10. QED
  BY <1>7, <1>8, <1>9 DEF ThreadInv

\* The destructor takes the thread off the list, with no private entry left.
LEMMA LeavesList ==
  ASSUME ThreadInv, NEW i \in Ids, Unlist(i)
  PROVE  ThreadInv'
<1>1. /\ th[i].place = "exit" /\ th[i].pt_pvt = <<>> /\ th[i].suspend = FALSE
      /\ Move(i, "unlisted")
  BY DEF ThreadInv, SuspendInv, ThreadType, OS_THREAD_LIGHT_T, Unlist, MayLeave
<1>2. th[i] \in OS_THREAD_LIGHT_T
  BY DEF ThreadInv, ThreadType
<1>3. /\ \A j \in Ids \ {i} : th'[j] = th[j]
      /\ th'[i] \in OS_THREAD_LIGHT_T /\ th'[i].place = "unlisted" /\ th'[i].name = th[i].name
      /\ th'[i].suspend = FALSE /\ th'[i].pt_pvt = <<>>
      /\ th' = [th EXCEPT ![i] = th'[i]]
  BY <1>1, <1>2 DEF ThreadInv, ThreadType, Move, OS_THREAD_LIGHT_T, ThreadPlace
<1>4. /\ s_thread_list' \in Seq(Ids) /\ Distinct(s_thread_list')
      /\ Range(s_thread_list') = Range(s_thread_list) \ {i}
  BY Unlinked DEF ThreadInv, ThreadType, ThreadListInv, Unlist, thread_list_remove
<1>5. UNCHANGED <<serial, thread_exit, reaper, deleted>>
  BY DEF Unlist
<1>6. Range(<<>>) = {}
  BY DEF Range
<1>7. ThreadType'
  BY <1>3, <1>4, <1>5 DEF ThreadInv, ThreadType
<1>8. ThreadListInv' /\ SuspendInv' /\ ReaperHasAThread' /\ SlotInv'
  <2>1. Listed(i) /\ ~Listed(i)' /\ \A j \in Ids \ {i} : Listed(j)' <=> Listed(j)
    BY <1>1, <1>3 DEF Listed
  <2>2. ThreadListInv'
    <3>1. \A j \in Ids : j \in Range(s_thread_list') <=> Listed(j)'
      BY <1>4, <2>1 DEF ThreadInv, ThreadListInv
    <3>2. ASSUME NEW j \in Ids, NEW k \in Ids,
                 Listed(j)', Listed(k)', j # k, th'[j].name = th'[k].name
          PROVE  th'[j].name = NoName
      BY <1>3, <2>1, <3>2 DEF ThreadInv, ThreadListInv
    <3>3. QED
      BY <1>4, <3>1, <3>2 DEF ThreadListInv
  <2>3. SuspendInv'
    BY <1>3 DEF ThreadInv, SuspendInv
  <2>4. ReaperHasAThread' /\ SlotInv'
    BY <1>1, <1>3, <1>5 DEF ThreadInv, ReaperHasAThread, SlotHasAThread, SlotInv, ThreadType
  <2>5. QED
    BY <2>2, <2>3, <2>4
<1>9. PvtInv'
  BY <1>1, <1>3, <1>5, <1>6 DEF ThreadInv, PvtInv, Listed
<1>10. QED
  BY <1>7, <1>8, <1>9 DEF ThreadInv

\* A thread that has left the list is handed over, and comes to its end.
LEMMA ThreadEnds ==
  ASSUME ThreadInv, NEW i \in Ids, SignalReaper(i) \/ ThreadEnd(i)
  PROVE  ThreadInv'
<1>1. PICK place \in {"ended", "joined"} :
        /\ Move(i, place) /\ th[i].place \in {"unlisted", "ended"}
        /\ ReaperHasAThread' /\ SlotInv'
        /\ thread_exit' \in Ids \cup {0} /\ reaper' \in ReaperPlace
  <2>1. CASE SignalReaper(i)
    <3>1. 0 \notin Ids
      BY DEF Ids
    <3>2. Move(i, "ended") /\ th'[i].place = "ended"
      BY <2>1 DEF SignalReaper, Move, ThreadInv, ThreadType, OS_THREAD_LIGHT_T
    <3>3. QED
      BY <2>1, <3>1, <3>2
         DEF SignalReaper, ThreadInv, ThreadType, ReaperPlace, ReaperHasAThread, SlotHasAThread, SlotInv
  <2>2. CASE ThreadEnd(i)
    <3>1. Move(i, "joined") /\ th'[i].place = "joined" /\ \A j \in Ids \ {i} : th'[j] = th[j]
      BY <2>2 DEF ThreadEnd, Move, ThreadInv, ThreadType, OS_THREAD_LIGHT_T
    <3>2. QED
      BY <2>2, <3>1 DEF ThreadEnd, ThreadInv, ThreadType, ReaperHasAThread, SlotHasAThread, SlotInv
  <2>3. QED
    BY <2>1, <2>2
<1>2. th[i].suspend = FALSE
  BY <1>1 DEF ThreadInv, SuspendInv, ThreadType, OS_THREAD_LIGHT_T
<1>3. UNCHANGED <<serial, s_thread_list, deleted>>
  BY DEF SignalReaper, ThreadEnd
<1>4. QED
  BY <1>1, <1>2, <1>3, MoveRecord, Moved DEF ThreadPlace, Listed

\* The reaper waits, wakes up, signalled or not, and frees the thread in its
\* slot.
LEMMA Reaps ==
  ASSUME ThreadInv, Reaper \/ ReaperSpurious
  PROVE  ThreadInv'
<1>1. CASE ReaperWait \/ ReaperSpurious \/ ReaperWake
  <2>1. /\ UNCHANGED <<serial, th, s_thread_list, thread_exit, deleted>>
        /\ reaper' \in {"wait", "astray", "join", "stale"}
        /\ reaper' = "join" => reaper = "woken" \/ SlotHasAThread
        /\ reaper' = "stale" => ~SlotHasAThread
    BY <1>1 DEF ReaperWait, ReaperSpurious, ReaperWake
  <2>2. ThreadType'
    BY <2>1 DEF ThreadInv, ThreadType, ReaperPlace
  <2>3. ThreadListInv'
    BY <2>1 DEF ThreadInv, ThreadListInv, Listed
  <2>4. SuspendInv'
    BY <2>1 DEF ThreadInv, SuspendInv
  <2>5. ReaperHasAThread' /\ SlotInv'
    BY <2>1 DEF ThreadInv, ReaperHasAThread, SlotHasAThread, SlotInv
  <2>6. PvtInv'
    BY <2>1 DEF ThreadInv, PvtInv, Listed
  <2>7. QED
    BY <2>2, <2>3, <2>4, <2>5, <2>6 DEF ThreadInv
<1>2. CASE ReaperFree
  <2>1. /\ thread_exit \in Ids /\ th[thread_exit].place \in {"ended", "joined"}
        /\ Move(thread_exit, "freed") /\ th[thread_exit].suspend = FALSE
    BY <1>2 DEF ReaperFree, ThreadInv, ThreadType, ReaperHasAThread, SlotHasAThread, SuspendInv,
       OS_THREAD_LIGHT_T
  <2>2. /\ UNCHANGED <<serial, s_thread_list, thread_exit, deleted>> /\ reaper' = "wait"
        /\ ReaperHasAThread' /\ thread_exit' \in Ids \cup {0} /\ reaper' \in ReaperPlace
    BY <1>2, <2>1 DEF ReaperFree, ReaperHasAThread, ReaperPlace
  <2>3. Becomes(thread_exit, "freed", FALSE)
    BY <2>1, MoveRecord DEF ThreadPlace
  <2>4. SlotInv'
    BY <2>2, <2>3 DEF Becomes, SlotInv
  <2>5. QED
    BY <2>1, <2>2, <2>3, <2>4, Moved DEF ThreadPlace, Listed
<1>3. QED
  BY <1>1, <1>2 DEF Reaper

\* Every step of the library keeps the invariant.
LEMMA ThreadStep ==
  ASSUME ThreadAssumption, ThreadInv, [TNext]_tvars
  PROVE  ThreadInv'
<1>1. CASE UNCHANGED tvars
  BY <1>1 DEF tvars, ThreadInv, ThreadType, ThreadListInv, SuspendInv, ReaperHasAThread, SlotHasAThread,
     SlotInv, PvtInv, Listed
<1>2. ASSUME NEW name \in Names, u_thread_create(name) PROVE ThreadInv'
  BY <1>2, Created DEF u_thread_create
<1>3. CASE u_thread_self
  BY <1>3, Created DEF u_thread_self, ThreadUpgrade
<1>4. ASSUME NEW i \in Ids, NEW k \in Keys, u_thread_del_pvt(i, k) PROVE ThreadInv'
  BY <1>4, PvtDeleted DEF u_thread_del_pvt, thread_find_pvt_key
<1>5. ASSUME NEW i \in Ids, DestroyPvt(i) PROVE ThreadInv'
  <2>1. th[i].pt_pvt \in Seq(Keys) /\ th[i].pt_pvt # <<>>
    BY <1>5 DEF DestroyPvt, ThreadInv, ThreadType, OS_THREAD_LIGHT_T
  <2>2. QED
    BY <1>5, <2>1, HeadIsOnList, PvtDeleted DEF DestroyPvt
<1>6. ASSUME NEW i \in Ids, NEW k \in Keys, u_thread_set_pvt(i, k) PROVE ThreadInv'
  BY <1>6, PvtAdded
<1>7. QED
  BY <1>1, <1>2, <1>3, <1>4, <1>5, <1>6, ThreadRuns, LeavesList, ThreadEnds, Reaps
     DEF TNext, Program, Ends, u_thread_create_cli

\* The parts of the invariant are the library's properties.
LEMMA ThreadInvIsSafe ==
  ASSUME ThreadInv
  PROVE  ListedOnce /\ ReaperHasAThread /\ PrivateDataDeletedOnce
<1> USE DEF ThreadInv
<1>1. ListedOnce
  <2>1. \A i \in Ids : i \in Range(s_thread_list) <=> Alive(i) \/ th[i].place \in {"proc", "exit"}
    BY DEF ThreadListInv, Listed, Alive
  <2>2. ASSUME NEW m \in DOMAIN s_thread_list, NEW n \in DOMAIN s_thread_list, m # n
        PROVE  /\ s_thread_list[m] # s_thread_list[n]
               /\ th[s_thread_list[m]].name = th[s_thread_list[n]].name =>
                    th[s_thread_list[m]].name = NoName
    <3>1. /\ m \in 1 .. Len(s_thread_list) /\ n \in 1 .. Len(s_thread_list)
          /\ s_thread_list[m] \in Ids /\ s_thread_list[n] \in Ids
      BY DEF ThreadType
    <3>2. s_thread_list[m] \in Range(s_thread_list) /\ s_thread_list[n] \in Range(s_thread_list)
      BY DEF Range
    <3>3. QED
      BY <2>2, <3>1, <3>2 DEF ThreadListInv, Distinct
  <2>3. QED
    BY <2>1, <2>2 DEF ListedOnce
<1>2. PrivateDataDeletedOnce
  BY DEF PvtInv, ThreadListInv, PrivateDataDeletedOnce, thread_find_pvt_key
<1>3. QED
  BY <1>1, <1>2

-----------------------------------------------------------------------------
\* What u_thread_set_pri gives the scheduler, and what u_thread_get_pri makes of it.
LEMMA SetPri ==
  ASSUME NEW p \in 1 .. 254
  PROVE  /\ u_thread_set_pri(TRUE, TRUE, 0, p).sched = to_sched_priority(p)
         /\ u_thread_set_pri(TRUE, TRUE, 0, p).ret = "OSR_OK"
BY DEF u_thread_set_pri

\* The scheduler's 99 priorities, counted from the highest.
LEMMA ToSched ==
  ASSUME NEW p \in 1 .. 254
  PROVE  \E d \in 0 .. 99 :
           /\ 256 * d <= 100 * p /\ 100 * p < 256 * d + 256
           /\ to_sched_priority(p) = IF d = 0 THEN 99 ELSE 100 - d
<1> DEFINE d == (p * 100) \div 256
<1>1. d \in 0 .. 99 /\ 256 * d <= 100 * p /\ 100 * p < 256 * d + 256
  OBVIOUS
<1>2. to_sched_priority(p) = IF 100 - d < 1 THEN 1 ELSE IF 100 - d > 99 THEN 99 ELSE 100 - d
  BY DEF to_sched_priority
<1> HIDE DEF d
<1>3. QED
  BY <1>1, <1>2

\* A priority of the scheduler becomes one of the library, by its scale.
LEMMA FromSched ==
  ASSUME NEW q \in 1 .. 99
  PROVE  /\ from_sched_priority(q) \in 1 .. 254
         /\ 100 * from_sched_priority(q) <= 256 * (100 - q)
         /\ 256 * (100 - q) < 100 * from_sched_priority(q) + 100
<1> DEFINE r == ((100 - q) * 256) \div 100
<1>1. r \in 1 .. 254 /\ 100 * r <= 256 * (100 - q) /\ 256 * (100 - q) < 100 * r + 100
  OBVIOUS
<1>2. from_sched_priority(q) = r % 256
  BY DEF from_sched_priority
<1> HIDE DEF r
<1>3. r % 256 = r
  BY <1>1
<1>4. QED
  BY <1>1, <1>2, <1>3

\* What is read back.
LEMMA ReadBack ==
  ASSUME NEW p \in 1 .. 254
  PROVE  LET s == to_sched_priority(p)
             r == from_sched_priority(s)
         IN /\ s \in 1 .. 99 /\ r \in 1 .. 254 /\ r \in (p - 3) .. (p + 1)
            /\ to_sched_priority(r) - s \in {0, 1}
<1> DEFINE s == to_sched_priority(p)
           r == from_sched_priority(s)
           t == to_sched_priority(r)
<1>1. PICK d \in 0 .. 99 : /\ 256 * d <= 100 * p /\ 100 * p < 256 * d + 256
                           /\ s = IF d = 0 THEN 99 ELSE 100 - d
  BY ToSched
<1>2. s \in 1 .. 99
  BY <1>1
<1> HIDE DEF s
<1>3. /\ r \in 1 .. 254 /\ 100 * r <= 256 * (100 - s)
      /\ 256 * (100 - s) < 100 * r + 100
  BY <1>2, FromSched
<1> HIDE DEF r
<1>4. PICK e \in 0 .. 99 : /\ 256 * e <= 100 * r /\ 100 * r < 256 * e + 256
                           /\ t = IF e = 0 THEN 99 ELSE 100 - e
  BY <1>3, ToSched
<1> HIDE DEF t
<1>5. r \in (p - 3) .. (p + 1)
  BY <1>1, <1>3
<1>6. t - s \in {0, 1}
  BY <1>1, <1>2, <1>3, <1>4
<1>7. QED
  BY <1>2, <1>3, <1>5, <1>6 DEF s, r, t

\* A lower priority is not scheduled nor read back as a higher one.
LEMMA InOrder ==
  ASSUME NEW p \in 1 .. 253
  PROVE  /\ to_sched_priority(p) >= to_sched_priority(p + 1)
         /\ from_sched_priority(to_sched_priority(p)) <= from_sched_priority(to_sched_priority(p + 1))
<1> DEFINE s == to_sched_priority(p)
           t == to_sched_priority(p + 1)
<1>1. p + 1 \in 1 .. 254 /\ p \in 1 .. 254
  OBVIOUS
<1>2. PICK d \in 0 .. 99 : /\ 256 * d <= 100 * p /\ 100 * p < 256 * d + 256
                           /\ s = IF d = 0 THEN 99 ELSE 100 - d
  BY <1>1, ToSched
<1>3. PICK e \in 0 .. 99 : /\ 256 * e <= 100 * (p + 1) /\ 100 * (p + 1) < 256 * e + 256
                           /\ t = IF e = 0 THEN 99 ELSE 100 - e
  BY <1>1, ToSched
<1> HIDE DEF s, t
<1>4. s \in 1 .. 99 /\ t \in 1 .. 99 /\ s >= t
  BY <1>2, <1>3
<1>5. /\ from_sched_priority(s) \in 1 .. 254 /\ from_sched_priority(t) \in 1 .. 254
      /\ 100 * from_sched_priority(s) <= 256 * (100 - s)
      /\ 256 * (100 - t) < 100 * from_sched_priority(t) + 100
  BY <1>4, FromSched
<1> DEFINE a == from_sched_priority(s)
           b == from_sched_priority(t)
<1>6. a <= b
  <2>1. a \in Int /\ b \in Int /\ 100 * a <= 256 * (100 - s) /\ 256 * (100 - t) < 100 * b + 100
    BY <1>5
  <2> HIDE DEF a, b
  <2>2. 256 * (100 - s) <= 256 * (100 - t)
    BY <1>4
  <2>3. QED
    BY <1>4, <2>1, <2>2
<1>7. QED
  BY <1>4, <1>6 DEF s, t

\* Each of the scheduler's 99 priorities can be had.
LEMMA EachIsHad ==
  ASSUME NEW p \in 1 .. 99
  PROVE  \E q \in 1 .. 254 : to_sched_priority(q) = p
<1> DEFINE q == (256 * (100 - p) + 99) \div 100
<1>1. q \in 1 .. 254 /\ 256 * (100 - p) <= 100 * q /\ 100 * q < 256 * (100 - p) + 256
  OBVIOUS
<1> HIDE DEF q
<1>2. PICK d \in 0 .. 99 : /\ 256 * d <= 100 * q /\ 100 * q < 256 * d + 256
                           /\ to_sched_priority(q) = IF d = 0 THEN 99 ELSE 100 - d
  BY <1>1, ToSched
<1>3. to_sched_priority(q) = p
  BY <1>1, <1>2
<1>4. QED
  BY <1>1, <1>3

\* Priorities that are read back and set again keep threads in their order.
LEMMA PrioritiesOrdered == PrioritiesKeepOrder
<1> DEFINE Set(p) == u_thread_set_pri(TRUE, TRUE, 0, p)
           Read(p) == u_thread_get_pri(TRUE, Set(p).sched)
<1>1. ASSUME NEW p \in 1 .. 254
      PROVE  /\ Set(p).sched = to_sched_priority(p) /\ Set(p).ret = "OSR_OK"
             /\ Read(p) = from_sched_priority(to_sched_priority(p))
  <2>1. /\ u_thread_set_pri(TRUE, TRUE, 0, p).sched = to_sched_priority(p)
        /\ u_thread_set_pri(TRUE, TRUE, 0, p).ret = "OSR_OK"
    BY SetPri
  <2>2. QED
    BY <2>1 DEF u_thread_get_pri
<1> HIDE DEF Set, Read
<1>2. ASSUME NEW p \in 1 .. 254
      PROVE  /\ Set(p).sched \in 1 .. 99
             /\ Read(p) \in (p - 3) .. (p + 1)
             /\ Set(Read(p)).ret = "OSR_OK"
             /\ Set(Read(p)).sched - Set(p).sched \in {0, 1}
  <2> DEFINE s == to_sched_priority(p)
             r == from_sched_priority(s)
  <2>1. /\ s \in 1 .. 99 /\ r \in 1 .. 254 /\ r \in (p - 3) .. (p + 1)
        /\ to_sched_priority(r) - s \in {0, 1}
    BY ReadBack
  <2>2. Set(p).sched = s /\ Read(p) = r
    BY <1>1
  <2> HIDE DEF s, r
  <2>3. Set(r).sched = to_sched_priority(r) /\ Set(r).ret = "OSR_OK"
    BY <1>1, <2>1
  <2>4. QED
    BY <2>1, <2>2, <2>3
<1>3. ASSUME NEW p \in 1 .. 253
      PROVE  Set(p).sched >= Set(p + 1).sched /\ Read(p) <= Read(p + 1)
  <2>1. p \in 1 .. 254 /\ p + 1 \in 1 .. 254
    OBVIOUS
  <2>2. QED
    BY <1>1, <2>1, InOrder
<1>4. ASSUME NEW p \in 1 .. 99
      PROVE  \E q \in 1 .. 254 : Set(q).sched = p
  BY <1>1, EachIsHad
<1>5. QED
  BY <1>2, <1>3, <1>4 DEF PrioritiesKeepOrder, Set, Read

-----------------------------------------------------------------------------
\* A thread is on the list once, under a name of its own; a signal hands the
\* reaper a thread that has ended and is not freed yet, however exits overlap, and
\* only a wake-up without a signal finds none or one that is freed; and private
\* data is deleted once, before the thread leaves the list.
THEOREM ThreadsSafe ==
  ASSUME ThreadAssumption
  PROVE  TSpec => [](ListedOnce /\ ReaperHasAThread /\ PrivateDataDeletedOnce /\ PrioritiesKeepOrder)
<1>1. TInit => ThreadInv
  BY ThreadStarts
<1>2. ThreadInv /\ [TNext]_tvars => ThreadInv'
  BY ThreadStep
<1>3. ThreadInv => ListedOnce /\ ReaperHasAThread /\ PrivateDataDeletedOnce /\ PrioritiesKeepOrder
  BY ThreadInvIsSafe, PrioritiesOrdered
<1>4. QED
  BY <1>1, <1>2, <1>3, PTL DEF TSpec

\* Only the reaper frees a record, and only after the thread it joins has ended.
LEMMA FreesTheJoined ==
  ASSUME ThreadInv, [TNext]_tvars, NEW i \in Ids,
         th[i].place # "freed", th'[i].place = "freed", th[i].z_stack_size
  PROVE  th[i].place = "joined"
<1>1. CASE ReaperFree
  <2>1. i = thread_exit
    BY <1>1 DEF ReaperFree, Move, ThreadInv, ThreadType
  <2>2. QED
    BY <1>1, <2>1 DEF ReaperFree, Joined
<1>2. CASE ~ReaperFree
  <2>1. th \in [Ids -> OS_THREAD_LIGHT_T] /\ \A j \in Ids : th[j] \in OS_THREAD_LIGHT_T
    BY DEF ThreadInv, ThreadType
  <2>2. ASSUME NEW j \in Ids, NEW place \in ThreadPlace \ {"freed"}, Move(j, place) PROVE FALSE
    BY <2>1, <2>2 DEF Move, OS_THREAD_LIGHT_T
  <2>3. ASSUME NEW j \in Ids, NEW k, u_thread_del_pvt_impl(j, k) PROVE FALSE
    BY <2>1, <2>3 DEF u_thread_del_pvt_impl, OS_THREAD_LIGHT_T
  <2>4. ASSUME NEW j \in Ids, NEW k \in Keys, u_thread_set_pvt(j, k) PROVE FALSE
    BY <2>1, <2>4 DEF u_thread_set_pvt, OS_THREAD_LIGHT_T
  <2>5. ASSUME NEW j \in Ids, u_thread_suspend(j) \/ SuspendEnd(j) PROVE FALSE
    BY <2>1, <2>5 DEF u_thread_suspend, SuspendEnd, OS_THREAD_LIGHT_T
  <2>6. ASSUME NEW j \in Fresh, NEW name, NEW joined, NEW place \in {"proc", "run"},
               th' = [th EXCEPT ![j] = NewThread(name, joined, place)]
        PROVE  FALSE
    BY <2>1, <2>6 DEF NewThread, Fresh
  <2>7. ASSUME NEW name, u_thread_create(name) PROVE FALSE
    BY <2>6, <2>7 DEF u_thread_create
  <2>8. ~u_thread_self
    BY <2>6 DEF u_thread_self, ThreadUpgrade
  <2>9. ASSUME NEW j \in Ids, u_thread_exit(j) \/ u_thread_resume(j) PROVE FALSE
    <3>1. u_thread_resume(j) => Move(j, "woken")
      BY DEF u_thread_resume, Move
    <3>2. QED
      BY <2>2, <2>9, <3>1 DEF u_thread_exit, ThreadPlace
  <2>10. ~Program
    BY <2>3, <2>4, <2>5, <2>7, <2>8, <2>9 DEF Program, u_thread_create_cli, u_thread_del_pvt
  <2>11. ASSUME NEW j \in Ids, ThreadProc(j) \/ SuspendEnd(j) \/ Ends(j) PROVE FALSE
    <3>1. CASE ThreadProc(j)
      BY <2>2, <3>1 DEF ThreadProc, ThreadPlace
    <3>2. CASE SuspendEnd(j)
      BY <2>5, <3>2
    <3>3. CASE DestroyPvt(j)
      BY <2>3, <3>3 DEF DestroyPvt
    <3>4. CASE Unlist(j) \/ SignalReaper(j) \/ ThreadEnd(j)
      BY <2>2, <3>4 DEF Unlist, SignalReaper, ThreadEnd, ThreadPlace
    <3>5. QED
      BY <2>11, <3>1, <3>2, <3>3, <3>4 DEF Ends
  <2>12. CASE ReaperWait \/ ReaperSpurious \/ ReaperWake \/ UNCHANGED tvars
    BY <2>12 DEF ReaperWait, ReaperSpurious, ReaperWake, tvars
  <2>13. QED
    BY <1>2, <2>10, <2>11, <2>12 DEF TNext, Reaper
<1>3. QED
  BY <1>1, <1>2

\* A thread's record is freed when the thread itself is at its end.
THEOREM FreedAfter ==
  ASSUME ThreadAssumption
  PROVE  TSpec => FreedAfterEnd
<1>1. TInit => ThreadInv
  BY ThreadStarts
<1>2. ThreadInv /\ [TNext]_tvars => ThreadInv'
  BY ThreadStep
<1>3. ThreadInv /\ [TNext]_tvars =>
        [\A i \in Ids : th[i].place # "freed" /\ th'[i].place = "freed" /\ th[i].z_stack_size
            => th[i].place = "joined"]_tvars
  BY FreesTheJoined
<1>4. QED
  BY <1>1, <1>2, <1>3, PTL DEF TSpec, FreedAfterEnd

-----------------------------------------------------------------------------
(***************************************************************************)
(* Timer.                                                                  *)
(***************************************************************************)

\* A timer on the list, unless its time was overwritten there, is behind none
\* that expires later.
Sorted(list, at, bad) ==
  \A m, n \in 1 .. Len(list) : m < n /\ list[n] \notin bad => at[list[m]] <= at[list[n]]

-----------------------------------------------------------------------------
\* A timer that is unlinked leaves the others in their order.
LEMMA UnlinkedSorted ==
  ASSUME NEW S, NEW s \in Seq(S), NEW e, NEW at \in [S -> Int], NEW bad, Sorted(s, at, bad)
  PROVE  Sorted(RemoveFirst(s, e), at, bad)
<1> DEFINE t == RemoveFirst(s, e)
<1>1. CASE e \notin Range(s)
  <2>1. t = s
    BY <1>1 DEF RemoveFirst, Range
  <2>2. QED
    BY <2>1
<1>2. CASE e \in Range(s)
  <2>1. PICK p \in 1 .. Len(s) : s[p] = e /\ t = RemoveAt(s, p)
    BY <1>2, RemoveFirstShape
  <2>2. /\ Len(t) = Len(s) - 1
        /\ \A j \in 1 .. Len(s) - 1 : t[j] = IF j < p THEN s[j] ELSE s[j + 1]
    BY <2>1, RemoveAtShape
  <2> HIDE DEF t
  <2>3. ASSUME NEW m \in 1 .. Len(t), NEW n \in 1 .. Len(t), m < n, t[n] \notin bad
        PROVE  at[t[m]] <= at[t[n]]
    <3>0. ASSUME NEW j \in 1 .. Len(t)
          PROVE  \E x \in 1 .. Len(s) : t[j] = s[x] /\ x = IF j < p THEN j ELSE j + 1
      <4>1. CASE j < p
        BY <2>2, <4>1
      <4>2. CASE j >= p
        <5>1. j + 1 \in 1 .. Len(s) /\ t[j] = s[j + 1] /\ ~(j < p)
          BY <2>2, <4>2
        <5>2. QED
          BY <5>1
      <4>3. QED
        BY <2>2, <4>1, <4>2
    <3>1. PICK x \in 1 .. Len(s) : t[m] = s[x] /\ x = IF m < p THEN m ELSE m + 1
      BY <3>0
    <3>2. PICK y \in 1 .. Len(s) : t[n] = s[y] /\ y = IF n < p THEN n ELSE n + 1
      BY <3>0
    <3>3. x < y
      BY <2>3, <3>1, <3>2
    <3>4. QED
      BY <2>3, <3>1, <3>2, <3>3 DEF Sorted
  <2>4. QED
    BY <2>3 DEF Sorted, t
<1>3. QED
  BY <1>1, <1>2

\* timer_list_add keeps the list sorted.
LEMMA AddedSorted ==
  ASSUME NEW S, NEW s \in Seq(S), NEW at \in [S -> Int], NEW e \in S, NEW bad,
         Distinct(s), Sorted(s, at, bad), e \notin Range(s)
  PROVE  /\ timer_list_add(s, at, e) \in Seq(S)
         /\ Distinct(timer_list_add(s, at, e))
         /\ Range(timer_list_add(s, at, e)) = Range(s) \cup {e}
         /\ Sorted(timer_list_add(s, at, e), at, bad)
<1> DEFINE later == {n \in DOMAIN s : time_before(at[e], at[s[n]])}
           p == IF later = {} THEN Len(s) + 1 ELSE Min(later)
           t == InsertAt(s, p, e)
<1>1. timer_list_add(s, at, e) = t
  BY DEF timer_list_add
<1>2. /\ p \in 1 .. Len(s) + 1
      /\ \A j \in 1 .. Len(s) : j < p => at[s[j]] <= at[e]
      /\ \A j \in 1 .. Len(s) : p <= j /\ s[j] \notin bad => at[e] <= at[s[j]]
  <2>1. DOMAIN s = 1 .. Len(s) /\ \A j \in 1 .. Len(s) : s[j] \in S /\ at[s[j]] \in Int
    OBVIOUS
  <2>2. CASE later = {}
    <3>1. p = Len(s) + 1
      BY <2>2
    <3>2. \A j \in 1 .. Len(s) : ~(at[e] < at[s[j]])
      BY <2>1, <2>2 DEF time_before
    <3>3. \A j \in 1 .. Len(s) : at[s[j]] <= at[e]
      BY <2>1, <3>2
    <3> HIDE DEF p
    <3>4. QED
      BY <3>1, <3>3
  <2>3. CASE later # {}
    <3>1. later \in SUBSET Nat
      OBVIOUS
    <3>2. Min(later) \in later /\ \A j \in later : Min(later) <= j
      BY <2>3, <3>1, MinIsOne
    <3>3. p = Min(later)
      BY <2>3
    <3> HIDE DEF p
    <3>4. p \in 1 .. Len(s) /\ at[e] < at[s[p]]
      BY <3>2, <3>3 DEF time_before
    <3>5. ASSUME NEW j \in 1 .. Len(s), j < p PROVE at[s[j]] <= at[e]
      <4>1. j \notin later
        <5> HIDE DEF later
        <5>1. j \in later => p <= j
          BY <3>2, <3>3
        <5>2. p \in Int /\ j \in Int /\ j < p
          BY <3>4, <3>5
        <5>3. QED
          BY <5>1, <5>2
      <4>2. ~(at[e] < at[s[j]])
        BY <2>1, <4>1 DEF time_before
      <4>3. QED
        BY <2>1, <4>2
    <3>6. ASSUME NEW j \in 1 .. Len(s), p <= j, s[j] \notin bad PROVE at[e] <= at[s[j]]
      <4>1. at[s[p]] <= at[s[j]]
        <5>1. CASE p = j
          BY <2>1, <5>1
        <5>2. CASE p < j
          BY <2>1, <3>4, <3>6, <5>2 DEF Sorted
        <5>3. QED
          BY <3>4, <3>6, <5>1, <5>2
      <4>2. QED
        BY <2>1, <3>4, <4>1
    <3>7. QED
      BY <3>4, <3>5, <3>6
  <2>4. QED
    BY <2>2, <2>3
<1> HIDE DEF p
<1>3. /\ t \in Seq(S) /\ Distinct(t) /\ Range(t) = Range(s) \cup {e}
  BY <1>2, Linked
<1>4. /\ Len(t) = Len(s) + 1
      /\ \A j \in 1 .. Len(s) + 1 : t[j] = IF j < p THEN s[j] ELSE IF j = p THEN e ELSE s[j - 1]
  BY <1>2, InsertAtShape
<1> HIDE DEF t
<1>5. ASSUME NEW m \in 1 .. Len(t), NEW n \in 1 .. Len(t), m < n, t[n] \notin bad
      PROVE  at[t[m]] <= at[t[n]]
  <2>1. \A j \in 1 .. Len(s) : s[j] \in S /\ at[s[j]] \in Int
    OBVIOUS
  <2>2. m \in 1 .. Len(s) + 1 /\ n \in 1 .. Len(s) + 1 /\ Len(s) \in Nat
    BY <1>4
  <2>3. CASE m < p /\ n < p
    <3>1. t[m] = s[m] /\ t[n] = s[n] /\ m \in 1 .. Len(s) /\ n \in 1 .. Len(s)
      BY <1>2, <1>4, <1>5, <2>2, <2>3
    <3>2. QED
      BY <1>5, <3>1 DEF Sorted
  <2>4. CASE m < p /\ n = p
    BY <1>2, <1>4, <1>5, <2>2, <2>4
  <2>5. CASE m < p /\ n > p
    <3>1. t[m] = s[m] /\ t[n] = s[n - 1] /\ m \in 1 .. Len(s) /\ n - 1 \in 1 .. Len(s) /\ m < n - 1
      BY <1>2, <1>4, <1>5, <2>2, <2>5
    <3>2. QED
      BY <1>5, <3>1 DEF Sorted
  <2>6. CASE m = p
    <3>1. t[m] = e /\ t[n] = s[n - 1] /\ n - 1 \in 1 .. Len(s) /\ p <= n - 1
      BY <1>2, <1>4, <1>5, <2>2, <2>6
    <3>2. QED
      BY <1>2, <1>5, <3>1
  <2>7. CASE m > p
    <3>1. /\ t[m] = s[m - 1] /\ t[n] = s[n - 1]
          /\ m - 1 \in 1 .. Len(s) /\ n - 1 \in 1 .. Len(s) /\ m - 1 < n - 1
      BY <1>2, <1>4, <1>5, <2>2, <2>7
    <3>2. QED
      BY <1>5, <3>1 DEF Sorted
  <2>8. QED
    BY <1>2, <1>5, <2>2, <2>3, <2>4, <2>5, <2>6, <2>7
<1>6. Sorted(t, at, bad)
  BY <1>5 DEF Sorted
<1>7. QED
  BY <1>1, <1>3, <1>6

\* Only the times of the timers on the list matter, and one of them may become
\* earlier when it is spoilt by that.
LEMMA SameTimes ==
  ASSUME NEW S, NEW s \in Seq(S), NEW at \in [S -> Int], NEW to \in [S -> Int], NEW bad, NEW worse,
         Sorted(s, at, bad),
         \A u \in Range(s) : /\ to[u] <= at[u]
                             /\ u \notin worse => u \notin bad /\ to[u] = at[u]
  PROVE  Sorted(s, to, worse)
<1>1. \A j \in 1 .. Len(s) : /\ s[j] \in S /\ to[s[j]] <= at[s[j]]
                             /\ s[j] \notin worse => s[j] \notin bad /\ to[s[j]] = at[s[j]]
  BY OnList
<1>2. ASSUME NEW m \in 1 .. Len(s), NEW n \in 1 .. Len(s), m < n, s[n] \notin worse
      PROVE  to[s[m]] <= to[s[n]]
  <2>1. at[s[m]] <= at[s[n]] /\ to[s[m]] <= at[s[m]] /\ to[s[n]] = at[s[n]]
    BY <1>1, <1>2 DEF Sorted
  <2>2. at[s[m]] \in Int /\ at[s[n]] \in Int /\ to[s[m]] \in Int
    BY <1>1
  <2>3. QED
    BY <2>1, <2>2
<1>3. QED
  BY <1>2 DEF Sorted

-----------------------------------------------------------------------------
OS_TIMER_LIGHT_T ==
  [abstime : Int, interval : Nat, pt_args : 0 .. MaxStarts, pf_callback : BOOLEAN,
   place : {"unused", "used", "deleted"}, stops : Nat, spoilt : BOOLEAN]

Proc ==
  [at : {"scan", "wait", "timedwait", "loop", "callback"}, abstime : Int, timer : SUBSET Timers,
   pargs : 0 .. MaxStarts, until : Int]

TimerType ==
  /\ now \in Nat
  /\ tm \in [Timers -> OS_TIMER_LIGHT_T]
  /\ s_timer_list \in Seq(Timers)
  /\ proc \in Proc
  /\ blocks \in [1 .. MaxStarts -> {"none", "live", "freed", "twice"}]
  /\ starts \in 0 .. MaxStarts
  /\ sent \in [1 .. MaxStarts -> Nat]

\* What TimerProc has in its hands: one timer while it calls back, and a copy
\* whose original it has freed; the time it read has come.
ProcInv ==
  /\ proc.at = "callback" => \E t \in Timers : proc.timer = {t}
  /\ proc.at # "callback" => proc.timer = {} /\ proc.pargs = NoArgs
  /\ proc.abstime <= now
  /\ proc.pargs # NoArgs => blocks[proc.pargs] = "freed"

Spoilt == {t \in Timers : tm[t].spoilt}

\* The list, and the timers on it: started, not stopped, with their arguments.
TimerListInv ==
  /\ Distinct(s_timer_list)
  /\ Sorted(s_timer_list, Abstimes, Spoilt)
  /\ \A t \in Range(s_timer_list) : tm[t].place = "used" /\ tm[t].pt_args # NoArgs

\* A timer is one-shot or repeating by the flag it is started with.
KindInv ==
  \A t \in Timers :
    /\ t \notin Repeating => Once(t)
    /\ t \in Repeating /\ tm[t].place # "unused" => ~Once(t)
    /\ t \in proc.timer => tm[t].place # "unused"

\* A block belongs to one timer and is live while it does.
ArgsInv ==
  /\ \A n \in 1 .. MaxStarts : blocks[n] # "twice"
  /\ \A t \in Timers : tm[t].pt_args # NoArgs =>
       blocks[tm[t].pt_args] = "live" /\ tm[t].pt_args <= starts
  /\ \A t, u \in Timers : t # u /\ tm[t].pt_args # NoArgs => tm[t].pt_args # tm[u].pt_args
  /\ proc.pargs <= starts

\* The start that is yet to come has sent nothing.
SentInv ==
  /\ \A n \in 1 .. MaxStarts : n > starts => sent[n] = 0
  /\ OneMessagePerStart

TimerInv == TimerType /\ ProcInv /\ TimerListInv /\ KindInv /\ ArgsInv /\ SentInv /\ CopyForOneShot

\* os_timer_init.
LEMMA TimersStart ==
  ASSUME TimerAssumption, MInit
  PROVE  TimerInv
<1>1. \A t \in Timers : tm[t] = [abstime |-> 0, interval |-> 0, pt_args |-> NoArgs,
                                 pf_callback |-> FALSE, place |-> "unused",
                                 stops |-> 0, spoilt |-> FALSE]
  BY DEF MInit
<1>2. s_timer_list = <<>> /\ Range(s_timer_list) = {} /\ s_timer_list \in Seq(Timers)
      /\ Distinct(s_timer_list) /\ Sorted(s_timer_list, Abstimes, Spoilt)
  BY DEF MInit, Range, Distinct, Sorted
<1>3. TimerType
  BY <1>1, <1>2 DEF MInit, TimerType, Proc, OS_TIMER_LIGHT_T, NoArgs, TimerAssumption
<1>4. ProcInv /\ TimerListInv /\ CopyForOneShot
  BY <1>2 DEF MInit, ProcInv, TimerListInv, CopyForOneShot, NoArgs
<1>5. KindInv /\ ArgsInv /\ SentInv
  BY <1>1 DEF MInit, KindInv, ArgsInv, SentInv, OneMessagePerStart, NoArgs, Once, TimerAssumption
<1>6. QED
  BY <1>3, <1>4, <1>5 DEF TimerInv

\* What timer_list_remove does to the blocks of a timer.
LEMMA Removed ==
  ASSUME TimerInv, NEW t \in Timers
  PROVE  /\ BlocksAfterRemove(t) \in [1 .. MaxStarts -> {"none", "live", "freed"}]
         /\ \A n \in 1 .. MaxStarts : n # tm[t].pt_args => BlocksAfterRemove(t)[n] = blocks[n]
         /\ \A n \in 1 .. MaxStarts : blocks[n] = "freed" => BlocksAfterRemove(t)[n] = "freed"
         /\ ~Once(t) => BlocksAfterRemove(t) = blocks
         /\ Once(t) /\ tm[t].pt_args # NoArgs => BlocksAfterRemove(t)[tm[t].pt_args] = "freed"
<1>1. /\ blocks \in [1 .. MaxStarts -> {"none", "live", "freed"}]
      /\ tm[t].pt_args \in 0 .. MaxStarts
      /\ tm[t].pt_args # NoArgs => blocks[tm[t].pt_args] = "live"
  BY DEF TimerInv, TimerType, OS_TIMER_LIGHT_T, ArgsInv
<1>2. CASE Once(t) /\ tm[t].pt_args # NoArgs
  <2>1. BlocksAfterRemove(t) = [blocks EXCEPT ![tm[t].pt_args] = "freed"]
    BY <1>1, <1>2 DEF BlocksAfterRemove
  <2>2. QED
    BY <1>1, <1>2, <2>1 DEF NoArgs
<1>3. CASE ~(Once(t) /\ tm[t].pt_args # NoArgs)
  BY <1>1, <1>3 DEF BlocksAfterRemove
<1>4. QED
  BY <1>2, <1>3

\* What it does to the list.
LEMMA ListWithout ==
  ASSUME TimerInv, NEW t \in Timers
  PROVE  /\ Without(t) \in Seq(Timers) /\ Distinct(Without(t)) /\ Sorted(Without(t), Abstimes, Spoilt)
         /\ Range(Without(t)) = Range(s_timer_list) \ {t}
         /\ Range(Without(t)) \subseteq Timers
<1>1. Abstimes \in [Timers -> Int]
  BY DEF TimerInv, TimerType, OS_TIMER_LIGHT_T, Abstimes
<1>2. s_timer_list \in Seq(Timers) /\ Distinct(s_timer_list) /\ Sorted(s_timer_list, Abstimes, Spoilt)
  BY DEF TimerInv, TimerType, TimerListInv
<1>3. /\ Without(t) \in Seq(Timers) /\ Distinct(Without(t))
      /\ Range(Without(t)) = Range(s_timer_list) \ {t}
  BY <1>2, Unlinked DEF Without
<1>4. Sorted(Without(t), Abstimes, Spoilt)
  BY <1>1, <1>2, UnlinkedSorted DEF Without
<1>5. Range(Without(t)) \subseteq Timers
  BY <1>3, OnList
<1>6. QED
  BY <1>3, <1>4, <1>5

\* pthread_cond_signal ends a wait of TimerProc and changes nothing else.
LEMMA Signalled ==
  ASSUME TimerType
  PROVE  /\ Signal \in Proc
         /\ Signal.timer = proc.timer /\ Signal.pargs = proc.pargs /\ Signal.abstime = proc.abstime
         /\ Signal.at = "callback" <=> proc.at = "callback"
<1>1. CASE proc.at \in {"wait", "timedwait"}
  <2>1. Signal = [proc EXCEPT !.at = "scan", !.until = 0]
    BY <1>1 DEF Signal
  <2>2. proc \in Proc
    BY DEF TimerType
  <2>3. Signal = [at |-> "scan", abstime |-> proc.abstime, timer |-> proc.timer,
                  pargs |-> proc.pargs, until |-> 0]
    BY <2>1, <2>2 DEF Proc
  <2>4. QED
    BY <1>1, <2>2, <2>3 DEF Proc
<1>2. CASE proc.at \notin {"wait", "timedwait"}
  BY <1>2 DEF Signal, TimerType
<1>3. QED
  BY <1>1, <1>2

\* What a step of a timer t leaves of the parts that speak of the other timers.
Others(t) == \A u \in Timers \ {t} : tm'[u] = tm[u]

\* The times are integers before and after.
LEMMA Times ==
  ASSUME TimerInv, NEW t \in Timers, tm'[t].abstime \in Int, Others(t)
  PROVE  /\ Abstimes \in [Timers -> Int] /\ Abstimes' \in [Timers -> Int]
         /\ \A u \in Timers \ {t} : Abstimes'[u] = Abstimes[u] /\ (u \in Spoilt' <=> u \in Spoilt)
         /\ Abstimes[t] = tm[t].abstime /\ Abstimes'[t] = tm'[t].abstime
<1>1. \A u \in Timers : tm[u].abstime \in Int /\ tm'[u].abstime \in Int
  BY DEF TimerInv, TimerType, OS_TIMER_LIGHT_T, Others
<1>2. QED
  BY <1>1 DEF Abstimes, Spoilt, Others

\* A timer is linked in again at a new time.
LEMMA Rescheduled ==
  ASSUME TimerInv, NEW t \in Timers, NEW time \in Int, tm'[t].abstime = time, Others(t)
  PROVE  LET at   == [Abstimes EXCEPT ![t] = time]
             list == timer_list_add(Without(t), at, t)
         IN /\ at = Abstimes' /\ list \in Seq(Timers) /\ Distinct(list) /\ Sorted(list, at, Spoilt')
            /\ Range(list) = Range(s_timer_list) \cup {t}
<1> DEFINE at == [Abstimes EXCEPT ![t] = time]
           list == timer_list_add(Without(t), at, t)
<1>1. Abstimes \in [Timers -> Int] /\ at \in [Timers -> Int]
  BY DEF TimerInv, TimerType, OS_TIMER_LIGHT_T, Abstimes
<1>2. at = Abstimes'
  <2>1. \A u \in Timers : at[u] = tm'[u].abstime
    BY <1>1 DEF Others, Abstimes
  <2>2. Abstimes' = [u \in Timers |-> tm'[u].abstime]
    BY DEF Abstimes
  <2>3. at = [u \in Timers |-> at[u]]
    BY <1>1
  <2> HIDE DEF at
  <2>4. QED
    BY <2>1, <2>2, <2>3
<1>3. \A u \in Range(Without(t)) : /\ at[u] <= Abstimes[u]
                                   /\ u \notin Spoilt' => u \notin Spoilt /\ at[u] = Abstimes[u]
  <2>1. \A u \in Range(Without(t)) : u \in Timers \ {t}
    BY ListWithout
  <2> HIDE DEF at
  <2>2. QED
    BY <1>1, <1>2, <2>1, Times
<1>4. /\ Without(t) \in Seq(Timers) /\ Distinct(Without(t)) /\ Sorted(Without(t), at, Spoilt')
      /\ t \notin Range(Without(t)) /\ Range(Without(t)) = Range(s_timer_list) \ {t}
  <2> HIDE DEF at
  <2>1. Without(t) \in Seq(Timers) /\ Sorted(Without(t), Abstimes, Spoilt)
    BY ListWithout
  <2>2. Sorted(Without(t), at, Spoilt')
    BY <1>1, <1>3, <2>1, SameTimes
  <2>3. QED
    BY <2>2, ListWithout
<1>5. /\ list \in Seq(Timers) /\ Distinct(list) /\ Sorted(list, at, Spoilt')
      /\ Range(list) = Range(s_timer_list) \cup {t}
  <2> HIDE DEF at
  <2>1. Range(Without(t)) \cup {t} = Range(s_timer_list) \cup {t}
    BY <1>4
  <2>2. QED
    BY <1>1, <1>4, <2>1, AddedSorted
<1>6. QED
  BY <1>2, <1>5

\* A timer is unlinked and keeps its time, or was not linked.
LEMMA Unscheduled ==
  ASSUME TimerInv, NEW t \in Timers, tm'[t].abstime = tm[t].abstime, Others(t)
  PROVE  /\ Without(t) \in Seq(Timers) /\ Distinct(Without(t)) /\ Sorted(Without(t), Abstimes', Spoilt')
         /\ Range(Without(t)) = Range(s_timer_list) \ {t}
<1>1. tm'[t].abstime \in Int
  BY DEF TimerInv, TimerType, OS_TIMER_LIGHT_T
<1>2. \A u \in Range(Without(t)) : u \in Timers \ {t}
  BY ListWithout
<1>3. /\ Abstimes \in [Timers -> Int] /\ Abstimes' \in [Timers -> Int]
      /\ \A u \in Range(Without(t)) : /\ Abstimes'[u] <= Abstimes[u]
                                      /\ u \notin Spoilt' => u \notin Spoilt /\ Abstimes'[u] = Abstimes[u]
  BY <1>1, <1>2, Times
<1>4. Without(t) \in Seq(Timers) /\ Sorted(Without(t), Abstimes, Spoilt)
  BY ListWithout
<1>5. Sorted(Without(t), Abstimes', Spoilt')
  BY <1>3, <1>4, SameTimes
<1>6. QED
  BY <1>5, ListWithout

\* u_timer_start: the old place and block of the timer are gone, and it has new ones.
LEMMA Started ==
  ASSUME TimerAssumption, TimerInv, NEW t \in Timers, NEW delay \in Delays[t], u_timer_start(t, delay)
  PROVE  TimerInv'
<1> DEFINE n == starts + 1
           at == [Abstimes EXCEPT ![t] = now + delay]
           timer == [abstime |-> now + delay, pt_args |-> n, pf_callback |-> TRUE, place |-> "used",
                     interval |-> IF t \in Repeating THEN delay ELSE 0,
                     stops |-> tm[t].stops, spoilt |-> FALSE]
           freed == IF Armed(t) THEN BlocksAfterRemove(t) ELSE blocks
<1>1. /\ tm' = [tm EXCEPT ![t] = timer]
      /\ blocks' = [freed EXCEPT ![n] = "live"]
      /\ s_timer_list' = timer_list_add(Without(t), at, t)
      /\ starts' = n /\ proc' = Signal /\ now' = now /\ sent' = sent
      /\ starts < MaxStarts
  BY DEF u_timer_start
<1>2. delay \in Nat \ {0} /\ starts \in Nat /\ MaxStarts \in Nat /\ n \in 1 .. MaxStarts /\ now \in Nat
  BY <1>1 DEF TimerAssumption, TimerInv, TimerType
<1>3. /\ Signal \in Proc /\ proc'.timer = proc.timer /\ proc'.pargs = proc.pargs
      /\ proc'.abstime = proc.abstime /\ (proc'.at = "callback" <=> proc.at = "callback")
  BY <1>1, Signalled DEF TimerInv
<1>4. /\ timer \in OS_TIMER_LIGHT_T /\ tm' \in [Timers -> OS_TIMER_LIGHT_T]
      /\ tm'[t].abstime = now + delay /\ tm'[t].pt_args = n /\ tm'[t].place = "used"
      /\ tm'[t].interval = (IF t \in Repeating THEN delay ELSE 0)
      /\ Others(t)
  BY <1>1, <1>2 DEF TimerInv, TimerType, OS_TIMER_LIGHT_T, Others
<1>5. /\ freed \in [1 .. MaxStarts -> {"none", "live", "freed"}]
      /\ \A m \in 1 .. MaxStarts : m # tm[t].pt_args => freed[m] = blocks[m]
      /\ \A m \in 1 .. MaxStarts : blocks[m] = "freed" => freed[m] = "freed"
  <2>1. blocks \in [1 .. MaxStarts -> {"none", "live", "freed"}]
    BY DEF TimerInv, TimerType, ArgsInv
  <2>2. QED
    BY <2>1, Removed
<1>6. /\ blocks' \in [1 .. MaxStarts -> {"none", "live", "freed"}] /\ blocks'[n] = "live"
      /\ \A m \in 1 .. MaxStarts : m # n => blocks'[m] = freed[m]
  <2> HIDE DEF freed, n
  <2>1. QED
    BY <1>1, <1>2, <1>5
<1> HIDE DEF freed, timer
<1>7. /\ s_timer_list' \in Seq(Timers) /\ Distinct(s_timer_list')
      /\ Sorted(s_timer_list', Abstimes', Spoilt') /\ Range(s_timer_list') = Range(s_timer_list) \cup {t}
  <2>1. now + delay \in Int
    BY <1>2
  <2>2. QED
    BY <1>1, <1>4, <2>1, Rescheduled
<1>8. TimerType'
  BY <1>1, <1>2, <1>3, <1>4, <1>6, <1>7 DEF TimerType, TimerInv
<1>9. TimerListInv'
  <2>1. ASSUME NEW u \in Range(s_timer_list'), u # t
        PROVE  tm'[u].place = "used" /\ tm'[u].pt_args # NoArgs
    <3>1. u \in Range(s_timer_list) /\ u \in Timers
      BY <1>7, <2>1, OnList DEF TimerInv, TimerType
    <3>2. QED
      BY <1>4, <2>1, <3>1 DEF TimerInv, TimerListInv, Others
  <2>2. QED
    BY <1>2, <1>4, <1>7, <2>1 DEF TimerListInv, NoArgs
<1>10. ProcInv' /\ CopyForOneShot'
  <2>1. ProcInv'
    <3>1. proc.pargs # NoArgs => blocks'[proc.pargs] = "freed"
      <4>1. proc.pargs # NoArgs => proc.pargs \in 1 .. MaxStarts /\ proc.pargs # n
        BY <1>2 DEF TimerInv, TimerType, Proc, ArgsInv, NoArgs
      <4>2. QED
        BY <1>5, <1>6, <4>1 DEF TimerInv, ProcInv
    <3>2. QED
      BY <1>1, <1>3, <3>1 DEF TimerInv, ProcInv
  <2>2. \A u \in Timers : u \in proc.timer => (Once(u)' => Once(u))
    BY <1>2, <1>4 DEF TimerInv, KindInv, Once, Others
  <2>3. proc.timer \subseteq Timers
    BY DEF TimerInv, TimerType, Proc
  <2>4. QED
    BY <1>3, <2>1, <2>2, <2>3 DEF TimerInv, CopyForOneShot
<1>11. KindInv'
  BY <1>2, <1>3, <1>4 DEF TimerInv, KindInv, Once, Others
<1>12. ArgsInv'
  <2>1. \A m \in 1 .. MaxStarts : blocks'[m] # "twice"
    BY <1>6
  <2>2. ASSUME NEW u \in Timers, u # t, tm[u].pt_args # NoArgs
        PROVE  /\ tm[u].pt_args # n /\ tm[u].pt_args \in 1 .. MaxStarts
               /\ blocks'[tm[u].pt_args] = "live" /\ tm[u].pt_args <= n
    <3>1. /\ tm[u].pt_args \in 1 .. MaxStarts /\ tm[u].pt_args <= starts
          /\ tm[u].pt_args # tm[t].pt_args /\ blocks[tm[u].pt_args] = "live"
      BY <2>2 DEF TimerInv, TimerType, OS_TIMER_LIGHT_T, ArgsInv, NoArgs
    <3>2. tm[u].pt_args # n /\ tm[u].pt_args <= n
      BY <1>2, <3>1
    <3>3. QED
      BY <1>5, <1>6, <3>1, <3>2
  <2>3. proc'.pargs <= starts'
    BY <1>1, <1>2, <1>3 DEF TimerInv, ArgsInv, TimerType, Proc
  <2>4. n <= n /\ n # NoArgs
    BY <1>2 DEF NoArgs
  <2> HIDE DEF n
  <2>5. ASSUME NEW u \in Timers, tm'[u].pt_args # NoArgs
        PROVE  blocks'[tm'[u].pt_args] = "live" /\ tm'[u].pt_args <= starts'
    BY <1>1, <1>4, <1>6, <2>2, <2>4, <2>5 DEF Others
  <2>6. ASSUME NEW u \in Timers, NEW v \in Timers, u # v, tm'[u].pt_args # NoArgs
        PROVE  tm'[u].pt_args # tm'[v].pt_args
    <3>1. CASE u = t
      <4>1. tm'[v] = tm[v] /\ (tm[v].pt_args # NoArgs => tm[v].pt_args # n)
        BY <1>4, <2>2, <2>6, <3>1 DEF Others
      <4>2. QED
        BY <1>4, <2>4, <3>1, <4>1
    <3>2. CASE u # t /\ v = t
      BY <1>4, <2>2, <2>6, <3>2 DEF Others
    <3>3. CASE u # t /\ v # t
      BY <1>4, <2>6, <3>3 DEF Others, TimerInv, ArgsInv
    <3>4. QED
      BY <3>1, <3>2, <3>3
  <2>7. QED
    BY <2>1, <2>3, <2>5, <2>6 DEF ArgsInv
<1>13. SentInv'
  <2>1. \A m \in 1 .. MaxStarts : m > starts' => sent'[m] = 0
    BY <1>1, <1>2 DEF TimerInv, SentInv
  <2>2. sent[n] = 0
    BY <1>2 DEF TimerInv, SentInv
  <2> HIDE DEF n
  <2>3. OneMessagePerStart'
    BY <1>1, <1>3, <1>4, <2>2 DEF TimerInv, SentInv, OneMessagePerStart, Others
  <2>4. QED
    BY <2>1, <2>3 DEF SentInv
<1>14. QED
  BY <1>8, <1>9, <1>10, <1>11, <1>12, <1>13 DEF TimerInv

\* The arguments of a timer after timer_list_remove, or after u_timer_delete, which
\* clears the pointer of a timer that is not armed.
LEMMA ArgsGone ==
  ASSUME TimerInv, NEW t \in Timers, Others(t), starts' = starts, proc'.pargs <= starts,
         \/ tm'[t].pt_args = NoArgs /\ blocks' \in {blocks, BlocksAfterRemove(t)}
         \/ tm'[t].pt_args = ArgsAfterRemove(t) /\ blocks' = BlocksAfterRemove(t)
  PROVE  /\ ArgsInv'
         /\ blocks' \in [1 .. MaxStarts -> {"none", "live", "freed", "twice"}]
         /\ \A n \in 1 .. MaxStarts : blocks[n] = "freed" => blocks'[n] = "freed"
<1>1. /\ blocks' \in [1 .. MaxStarts -> {"none", "live", "freed"}]
      /\ \A n \in 1 .. MaxStarts : n # tm[t].pt_args => blocks'[n] = blocks[n]
      /\ \A n \in 1 .. MaxStarts : blocks[n] = "freed" => blocks'[n] = "freed"
  <2>1. blocks \in [1 .. MaxStarts -> {"none", "live", "freed"}]
    BY DEF TimerInv, TimerType, ArgsInv
  <2>2. CASE blocks' = blocks
    BY <2>1, <2>2
  <2>3. CASE blocks' = BlocksAfterRemove(t)
    BY <2>3, Removed
  <2>4. QED
    BY <2>2, <2>3
<1>2. tm'[t].pt_args # NoArgs => tm'[t].pt_args = tm[t].pt_args /\ blocks' = blocks
  BY Removed DEF ArgsAfterRemove
<1>3. ASSUME NEW u \in Timers, tm'[u].pt_args # NoArgs
      PROVE  blocks'[tm'[u].pt_args] = "live" /\ tm'[u].pt_args <= starts'
  <2>1. CASE u = t
    BY <1>2, <1>3, <2>1 DEF TimerInv, ArgsInv
  <2>2. CASE u # t
    <3>1. /\ tm'[u] = tm[u] /\ tm[u].pt_args \in 1 .. MaxStarts /\ tm[u].pt_args # tm[t].pt_args
          /\ blocks[tm[u].pt_args] = "live" /\ tm[u].pt_args <= starts
      BY <1>3, <2>2 DEF TimerInv, TimerType, OS_TIMER_LIGHT_T, ArgsInv, NoArgs, Others
    <3>2. QED
      BY <1>1, <3>1
  <2>3. QED
    BY <2>1, <2>2
<1>4. ASSUME NEW u \in Timers, NEW v \in Timers, u # v, tm'[u].pt_args # NoArgs
      PROVE  tm'[u].pt_args # tm'[v].pt_args
  <2>1. \A w \in Timers : tm'[w].pt_args \in {NoArgs, tm[w].pt_args}
    BY <1>2 DEF Others
  <2>2. tm'[u].pt_args = tm[u].pt_args
    BY <1>4, <2>1
  <2>3. tm[u].pt_args # tm[v].pt_args
    BY <1>4, <2>2 DEF TimerInv, ArgsInv
  <2>4. QED
    BY <1>4, <2>1, <2>2, <2>3
<1>5. QED
  BY <1>1, <1>3, <1>4 DEF ArgsInv

\* u_timer_stop and u_timer_delete.
LEMMA Ended ==
  ASSUME TimerAssumption, TimerInv, NEW t \in Timers, u_timer_stop(t) \/ u_timer_delete(t)
  PROVE  TimerInv'
<1>1. /\ now' = now /\ starts' = starts /\ sent' = sent
      /\ proc' \in Proc /\ proc'.timer = proc.timer /\ proc'.pargs = proc.pargs
      /\ proc'.abstime = proc.abstime /\ (proc'.at = "callback" <=> proc.at = "callback")
  <2>1. proc' \in {proc, Signal} /\ proc \in Proc
    BY DEF u_timer_stop, u_timer_delete, TimerInv, TimerType
  <2>2. QED
    BY <2>1, Signalled DEF u_timer_stop, u_timer_delete, TimerInv
<1>2. /\ tm[t] \in OS_TIMER_LIGHT_T /\ tm \in [Timers -> OS_TIMER_LIGHT_T]
      /\ ArgsAfterRemove(t) \in 0 .. MaxStarts /\ NoArgs \in 0 .. MaxStarts
  <2>1. tm[t] \in OS_TIMER_LIGHT_T /\ tm \in [Timers -> OS_TIMER_LIGHT_T]
    BY DEF TimerInv, TimerType
  <2>2. NoArgs \in 0 .. MaxStarts
    BY DEF TimerAssumption, NoArgs
  <2>3. QED
    BY <2>1, <2>2 DEF OS_TIMER_LIGHT_T, ArgsAfterRemove
<1>3. PICK args \in {NoArgs, ArgsAfterRemove(t)}, place \in {"used", "deleted"}, stops \in Nat :
        /\ tm'[t] = [tm[t] EXCEPT !.pt_args = args, !.place = place, !.stops = stops]
        /\ tm' = [tm EXCEPT ![t] = tm'[t]]
  <2> DEFINE r == tm[t]
  <2>1. r \in OS_TIMER_LIGHT_T
    BY <1>2
  <2>2. CASE u_timer_stop(t)
    <3>1. /\ tm'[t] = [r EXCEPT !.pt_args = ArgsAfterRemove(t), !.stops = r.stops + 1]
          /\ tm' = [tm EXCEPT ![t] = tm'[t]]
      BY <1>2, <2>2 DEF u_timer_stop
    <3>2. r.place = "used"
      BY <2>2 DEF u_timer_stop, Armed, TimerInv, TimerListInv
    <3> HIDE DEF r
    <3>3. tm'[t] = [r EXCEPT !.pt_args = ArgsAfterRemove(t), !.place = "used", !.stops = r.stops + 1]
          /\ r.stops + 1 \in Nat
      <4> DEFINE more == r.stops + 1
      <4>1. more \in Nat /\ tm'[t] = [r EXCEPT !.pt_args = ArgsAfterRemove(t), !.stops = more]
        BY <2>1, <3>1 DEF OS_TIMER_LIGHT_T
      <4> HIDE DEF more
      <4>2. tm'[t] = [r EXCEPT !.pt_args = ArgsAfterRemove(t), !.place = "used", !.stops = more]
        BY <2>1, <3>2, <4>1 DEF OS_TIMER_LIGHT_T
      <4>3. QED
        BY <4>1, <4>2 DEF more
    <3>4. QED
      BY <3>1, <3>3 DEF r
  <2>3. CASE u_timer_delete(t)
    <3>1. /\ tm'[t] = [r EXCEPT !.pt_args = NoArgs, !.place = "deleted"]
          /\ tm' = [tm EXCEPT ![t] = tm'[t]]
      BY <1>2, <2>3 DEF u_timer_delete
    <3> HIDE DEF r
    <3>2. tm'[t] = [r EXCEPT !.pt_args = NoArgs, !.place = "deleted", !.stops = r.stops]
          /\ r.stops \in Nat
      BY <2>1, <3>1 DEF OS_TIMER_LIGHT_T
    <3>3. QED
      BY <3>1, <3>2 DEF r
  <2>4. QED
    BY <2>2, <2>3
<1>4. Others(t)
  BY <1>2, <1>3 DEF Others
<1>5. /\ tm'[t] \in OS_TIMER_LIGHT_T /\ tm'[t].abstime = tm[t].abstime
      /\ tm'[t].interval = tm[t].interval /\ tm'[t].pt_args = args /\ tm'[t].place = place
  <2> DEFINE r == tm[t]
             x == tm'[t]
  <2>1. /\ r \in OS_TIMER_LIGHT_T
        /\ x = [r EXCEPT !.pt_args = args, !.place = place, !.stops = stops]
        /\ args \in 0 .. MaxStarts
    BY <1>2, <1>3
  <2> HIDE DEF r, x
  <2>2. /\ x \in OS_TIMER_LIGHT_T /\ x.abstime = r.abstime /\ x.interval = r.interval
        /\ x.pt_args = args /\ x.place = place
    BY <2>1 DEF OS_TIMER_LIGHT_T
  <2>3. QED
    BY <2>2 DEF r, x
<1>6. /\ s_timer_list' = Without(t)
      /\ \/ tm'[t].pt_args = NoArgs /\ blocks' \in {blocks, BlocksAfterRemove(t)}
         \/ tm'[t].pt_args = ArgsAfterRemove(t) /\ blocks' = BlocksAfterRemove(t)
  <2>1. CASE u_timer_stop(t)
    <3>1. tm'[t].pt_args = ArgsAfterRemove(t)
      BY <1>2, <2>1 DEF u_timer_stop, OS_TIMER_LIGHT_T
    <3>2. QED
      BY <2>1, <3>1 DEF u_timer_stop
  <2>2. CASE u_timer_delete(t)
    <3>1. tm'[t].pt_args = NoArgs
      BY <1>2, <2>2 DEF u_timer_delete, OS_TIMER_LIGHT_T
    <3>2. ~Armed(t) => Without(t) = s_timer_list
      BY DEF Armed, Without, RemoveFirst, Range, TimerInv, TimerType
    <3>3. QED
      BY <2>2, <3>1, <3>2 DEF u_timer_delete
  <2>3. QED
    BY <2>1, <2>2
<1>7. ArgsInv' /\ blocks' \in [1 .. MaxStarts -> {"none", "live", "freed", "twice"}]
      /\ \A n \in 1 .. MaxStarts : blocks[n] = "freed" => blocks'[n] = "freed"
  BY <1>1, <1>4, <1>6, ArgsGone DEF TimerInv, ArgsInv
<1>8. /\ s_timer_list' \in Seq(Timers) /\ Distinct(s_timer_list')
      /\ Sorted(s_timer_list', Abstimes', Spoilt') /\ Range(s_timer_list') = Range(s_timer_list) \ {t}
  BY <1>4, <1>5, <1>6, Unscheduled
<1>9. TimerType'
  BY <1>1, <1>2, <1>3, <1>5, <1>7, <1>8 DEF TimerInv, TimerType
<1>10. TimerListInv'
  <2>1. ASSUME NEW u \in Range(s_timer_list')
        PROVE  tm'[u].place = "used" /\ tm'[u].pt_args # NoArgs
    <3>1. u \in Range(s_timer_list) /\ u \in Timers /\ u # t
      BY <1>8, <2>1, OnList
    <3>2. QED
      BY <1>4, <3>1 DEF TimerInv, TimerListInv, Others
  <2>2. QED
    BY <1>8, <2>1 DEF TimerListInv
<1>11. ProcInv' /\ CopyForOneShot' /\ KindInv'
  <2>1. proc.timer \subseteq Timers /\ (proc.pargs # NoArgs => proc.pargs \in 1 .. MaxStarts)
    BY DEF TimerInv, TimerType, Proc, NoArgs
  <2>2. ProcInv'
    BY <1>1, <1>7, <2>1 DEF TimerInv, ProcInv
  <2>3. \A u \in Timers : Once(u)' <=> Once(u)
    BY <1>4, <1>5 DEF Once, Others
  <2>4. CopyForOneShot'
    BY <1>1, <2>1, <2>3 DEF TimerInv, CopyForOneShot
  <2>5. tm[t].place # "unused"
    <3>1. Armed(t) => tm[t].place = "used"
      BY DEF TimerInv, TimerListInv, Armed
    <3>2. QED
      BY <3>1 DEF u_timer_stop, u_timer_delete
  <2>6. KindInv'
    BY <1>1, <1>4, <1>5, <2>3, <2>5 DEF TimerInv, KindInv, Others
  <2>7. QED
    BY <2>2, <2>4, <2>6
<1>12. SentInv'
  <2>1. \A u \in Timers : tm'[u].pt_args \in {NoArgs, tm[u].pt_args}
    BY <1>3, <1>4, <1>5 DEF Others, ArgsAfterRemove
  <2>2. \A n \in 1 .. MaxStarts : n # NoArgs
    BY DEF NoArgs
  <2>3. QED
    BY <1>1, <2>1, <2>2 DEF TimerInv, SentInv, OneMessagePerStart
<1>13. QED
  BY <1>7, <1>9, <1>10, <1>11, <1>12 DEF TimerInv

\* The steps of TimerProc and of the clock that touch neither timers nor blocks.
LEMMA Scans ==
  ASSUME TimerAssumption, TimerInv, Wake \/ Wait \/ Tick
  PROVE  TimerInv'
<1>1. UNCHANGED <<tm, s_timer_list, blocks, starts, sent>> /\ Abstimes' = Abstimes /\ Spoilt' = Spoilt
  BY DEF Wake, Wait, Tick, Abstimes, Spoilt
<1>2. now \in Nat /\ now' \in Nat /\ now <= now'
  BY DEF Wake, Wait, Tick, TimerInv, TimerType
<1>3. /\ proc' \in Proc /\ proc'.timer = proc.timer /\ proc'.pargs = proc.pargs
      /\ (proc'.at = "callback" <=> proc.at = "callback")
      /\ proc'.abstime <= now'
  <2>1. proc \in Proc /\ proc.abstime <= now
    BY DEF TimerInv, TimerType, ProcInv
  <2>2. CASE Wake
    <3>1. PICK at \in {"wait", "loop"}, abstime \in {proc.abstime, now} :
            proc' = [at |-> at, abstime |-> abstime, timer |-> proc.timer, pargs |-> proc.pargs,
                     until |-> 0]
      BY <2>1, <2>2 DEF Wake, Proc
    <3>2. now' = now /\ proc.at # "callback"
      BY <2>2 DEF Wake
    <3>3. QED
      BY <1>2, <2>1, <3>1, <3>2 DEF Proc
  <2>3. CASE Wait
    <3>1. s_timer_list # <<>> => tm[Head(s_timer_list)].abstime \in Int
      <4>1. s_timer_list # <<>> => Head(s_timer_list) \in Timers
        BY DEF TimerInv, TimerType
      <4>2. QED
        BY <4>1 DEF TimerInv, TimerType, OS_TIMER_LIGHT_T
    <3>2. PICK at \in {"scan", "timedwait"}, until \in Int :
            proc' = [at |-> at, abstime |-> 0, timer |-> proc.timer, pargs |-> proc.pargs,
                     until |-> until]
      BY <2>1, <2>3, <3>1 DEF Wait, Proc
    <3>3. now' = now /\ proc.at # "callback"
      BY <2>3 DEF Wait
    <3>4. QED
      BY <1>2, <2>1, <3>2, <3>3 DEF Proc
  <2>4. CASE Tick
    BY <1>2, <2>1, <2>4 DEF Tick, Proc
  <2>5. QED
    BY <2>2, <2>3, <2>4
<1>4. TimerType' /\ ProcInv'
  BY <1>1, <1>2, <1>3 DEF TimerInv, TimerType, ProcInv
<1>5. TimerListInv'
  BY <1>1 DEF TimerInv, TimerListInv
<1>6. KindInv' /\ CopyForOneShot'
  BY <1>1, <1>3 DEF TimerInv, KindInv, CopyForOneShot, Once
<1>7. ArgsInv' /\ SentInv'
  BY <1>1, <1>3 DEF TimerInv, ArgsInv, SentInv, OneMessagePerStart
<1>8. QED
  BY <1>4, <1>5, <1>6, <1>7 DEF TimerInv

\* The first timer on the list expires.
LEMMA Expired ==
  ASSUME TimerAssumption, TimerInv, Expire
  PROVE  TimerInv'
<1> DEFINE t == Head(s_timer_list)
           time == tm[t].abstime + tm[t].interval
<1>1. t \in Timers /\ t \in Range(s_timer_list)
  BY HeadIsOnList DEF Expire, Due, TimerInv, TimerType
<1>2. /\ proc.at = "loop"
      /\ proc' = [proc EXCEPT !.at = "callback", !.timer = {t}, !.pargs = Copied(t)]
      /\ blocks' = BlocksAfterRemove(t)
      /\ tm' = [tm EXCEPT ![t].pt_args = ArgsAfterRemove(t), ![t].abstime = time]
      /\ s_timer_list' = IF Once(t) THEN Without(t)
                         ELSE timer_list_add(Without(t), [Abstimes EXCEPT ![t] = time], t)
      /\ now' = now /\ starts' = starts /\ sent' = sent
  <2>1. Abstimes[t] = tm[t].abstime /\ Abstimes \in [Timers -> Int]
    BY <1>1 DEF Abstimes, TimerInv, TimerType, OS_TIMER_LIGHT_T
  <2>2. [Abstimes EXCEPT ![t] = @ + tm[t].interval] = [Abstimes EXCEPT ![t] = time]
    BY <2>1
  <2>3. QED
    BY <1>1, <2>2 DEF Expire
<1> HIDE DEF t
<1>3. /\ tm[t] \in OS_TIMER_LIGHT_T /\ tm \in [Timers -> OS_TIMER_LIGHT_T] /\ time \in Int
      /\ NoArgs \in 0 .. MaxStarts /\ tm[t].pt_args \in 0 .. MaxStarts
  BY <1>1 DEF TimerAssumption, TimerInv, TimerType, OS_TIMER_LIGHT_T, NoArgs
<1>4. /\ ArgsAfterRemove(t) \in 0 .. MaxStarts /\ Copied(t) \in 0 .. MaxStarts
  BY <1>3 DEF ArgsAfterRemove, Copied
<1>5. /\ tm'[t] = [tm[t] EXCEPT !.pt_args = ArgsAfterRemove(t), !.abstime = time] /\ Others(t)
      /\ tm' = [tm EXCEPT ![t] = tm'[t]]
  <2> HIDE DEF time
  <2>1. QED
    BY <1>1, <1>2, <1>3 DEF Others
<1>6. /\ tm'[t] \in OS_TIMER_LIGHT_T /\ tm'[t].abstime = time /\ tm'[t].interval = tm[t].interval
      /\ tm'[t].pt_args = ArgsAfterRemove(t) /\ tm'[t].place = tm[t].place
  BY <1>3, <1>4, <1>5 DEF OS_TIMER_LIGHT_T
<1>7. /\ proc' \in Proc /\ proc'.at = "callback" /\ proc'.timer = {t} /\ proc'.pargs = Copied(t)
      /\ proc'.abstime = proc.abstime
  <2>1. proc \in Proc
    BY DEF TimerInv, TimerType
  <2>2. proc' = [at |-> "callback", abstime |-> proc.abstime, timer |-> {t}, pargs |-> Copied(t),
                 until |-> proc.until]
    BY <1>2, <2>1 DEF Proc
  <2>3. QED
    BY <1>1, <1>4, <2>1, <2>2 DEF Proc
<1>8. tm[t].place = "used" /\ tm[t].pt_args # NoArgs /\ tm[t].pt_args <= starts /\ starts \in Nat
  BY <1>1 DEF TimerInv, TimerListInv, ArgsInv, TimerType
<1>9. Copied(t) <= starts
  BY <1>8 DEF Copied, NoArgs
<1>10. ArgsInv' /\ blocks' \in [1 .. MaxStarts -> {"none", "live", "freed", "twice"}]
  BY <1>1, <1>2, <1>5, <1>6, <1>7, <1>9, ArgsGone
<1>11. /\ s_timer_list' \in Seq(Timers) /\ Distinct(s_timer_list')
       /\ Sorted(s_timer_list', Abstimes', Spoilt')
       /\ Range(s_timer_list') = IF Once(t) THEN Range(s_timer_list) \ {t} ELSE Range(s_timer_list)
  <2>1. CASE Once(t)
    <3>1. tm'[t].abstime = tm[t].abstime
      BY <1>3, <1>6, <2>1 DEF Once, OS_TIMER_LIGHT_T
    <3>2. QED
      BY <1>1, <1>2, <1>5, <2>1, <3>1, Unscheduled
  <2>2. CASE ~Once(t)
    <3> HIDE DEF time
    <3>1. Range(s_timer_list) \cup {t} = Range(s_timer_list)
      BY <1>1
    <3>2. s_timer_list' = timer_list_add(Without(t), [Abstimes EXCEPT ![t] = time], t)
      BY <1>2, <2>2
    <3>3. /\ s_timer_list' \in Seq(Timers) /\ Distinct(s_timer_list')
          /\ Sorted(s_timer_list', Abstimes', Spoilt')
          /\ Range(s_timer_list') = Range(s_timer_list) \cup {t}
      BY <1>1, <1>3, <1>5, <1>6, <3>2, Rescheduled
    <3>4. QED
      BY <2>2, <3>1, <3>3
  <2>3. QED
    BY <2>1, <2>2
<1>12. TimerType'
  BY <1>2, <1>3, <1>5, <1>6, <1>7, <1>10, <1>11 DEF TimerInv, TimerType
<1>13. TimerListInv'
  <2>1. ASSUME NEW u \in Range(s_timer_list')
        PROVE  tm'[u].place = "used" /\ tm'[u].pt_args # NoArgs
    <3>1. u \in Range(s_timer_list) /\ u \in Timers /\ (u = t => ~Once(t))
      BY <1>11, <2>1, OnList
    <3>2. CASE u = t
      BY <1>6, <1>8, <3>1, <3>2 DEF ArgsAfterRemove
    <3>3. CASE u # t
      BY <1>5, <3>1, <3>3 DEF TimerInv, TimerListInv, Others
    <3>4. QED
      BY <3>2, <3>3
  <2>2. QED
    BY <1>11, <2>1 DEF TimerListInv
<1>14. ProcInv' /\ CopyForOneShot' /\ KindInv'
  <2>1. ProcInv'
    <3>1. Copied(t) # NoArgs => blocks'[Copied(t)] = "freed"
      BY <1>1, <1>2, <1>8, Removed DEF Copied
    <3>2. QED
      BY <1>1, <1>2, <1>7, <3>1 DEF TimerInv, ProcInv
  <2>2. \A u \in Timers : Once(u)' <=> Once(u)
    BY <1>5, <1>6 DEF Once, Others
  <2>3. CopyForOneShot'
    BY <1>1, <1>7, <1>8, <2>2 DEF CopyForOneShot, Copied
  <2>4. KindInv'
    BY <1>1, <1>5, <1>6, <1>7, <1>8, <2>2 DEF TimerInv, KindInv, Others
  <2>5. QED
    BY <2>1, <2>3, <2>4
<1>15. SentInv'
  <2>1. \A u \in Timers : tm'[u].pt_args \in {NoArgs, tm[u].pt_args}
    BY <1>5, <1>6 DEF Others, ArgsAfterRemove
  <2>2. \A n \in 1 .. MaxStarts : n # NoArgs
    BY DEF NoArgs
  <2>3. Copied(t) \in {NoArgs, tm[t].pt_args}
    BY DEF Copied
  <2>4. QED
    BY <1>2, <1>7, <2>1, <2>2, <2>3 DEF TimerInv, SentInv, OneMessagePerStart
<1>16. QED
  BY <1>10, <1>12, <1>13, <1>14, <1>15 DEF TimerInv

\* The callback sends one message, with the copy or the block of a repeating timer.
LEMMA CalledBack ==
  ASSUME TimerAssumption, TimerInv, Callback
  PROVE  TimerInv'
<1>1. /\ proc.at = "callback" /\ UNCHANGED <<now, tm, s_timer_list, blocks, starts>>
      /\ proc' = [proc EXCEPT !.at = "loop", !.timer = {}, !.pargs = NoArgs]
      /\ Abstimes' = Abstimes /\ Spoilt' = Spoilt
  BY DEF Callback, Abstimes, Spoilt
<1>2. PICK t \in proc.timer :
        sent' = IF Args(t) = NoArgs THEN sent ELSE [sent EXCEPT ![Args(t)] = @ + 1]
  BY DEF Callback
<1>3. t \in Timers /\ proc \in Proc /\ NoArgs \in 0 .. MaxStarts /\ NoArgs <= starts
  BY DEF TimerInv, TimerType, Proc, TimerAssumption, NoArgs
<1>4. /\ proc' \in Proc /\ proc'.at = "loop" /\ proc'.timer = {} /\ proc'.pargs = NoArgs
      /\ proc'.abstime = proc.abstime
  <2>1. proc' = [at |-> "loop", abstime |-> proc.abstime, timer |-> {}, pargs |-> NoArgs,
                 until |-> proc.until]
    BY <1>1, <1>3 DEF Proc
  <2>2. QED
    BY <1>3, <2>1 DEF Proc
<1>5. Args(t) # NoArgs => Args(t) \in 1 .. MaxStarts /\ Args(t) <= starts
  BY <1>3 DEF TimerInv, TimerType, Proc, OS_TIMER_LIGHT_T, ArgsInv, Args, NoArgs
<1>6. ASSUME NEW u \in Timers \ Repeating, tm[u].pt_args # NoArgs
      PROVE  tm[u].pt_args # Args(t)
  <2>1. blocks[tm[u].pt_args] = "live"
    BY <1>6 DEF TimerInv, ArgsInv
  <2>2. CASE Once(t)
    BY <1>6, <2>1, <2>2 DEF Args, TimerInv, ProcInv
  <2>3. CASE ~Once(t)
    <3>1. u # t
      BY <2>3 DEF TimerInv, KindInv
    <3>2. QED
      BY <1>3, <1>6, <2>3, <3>1 DEF Args, TimerInv, ArgsInv
  <2>4. QED
    BY <2>2, <2>3
<1>7. /\ sent' \in [1 .. MaxStarts -> Nat]
      /\ \A n \in 1 .. MaxStarts : n # Args(t) => sent'[n] = sent[n]
  BY <1>2, <1>5 DEF TimerInv, TimerType
<1>8. SentInv'
  <2>1. \A n \in 1 .. MaxStarts : n > starts' => sent'[n] = 0
    <3>1. \A n \in 1 .. MaxStarts : n > starts => n # Args(t) /\ sent[n] = 0
      BY <1>5 DEF TimerInv, SentInv, TimerType, NoArgs
    <3>2. QED
      BY <1>1, <1>7, <3>1
  <2>2. \A n \in 1 .. MaxStarts : n # NoArgs
    BY DEF NoArgs
  <2>3. OneMessagePerStart'
    BY <1>1, <1>4, <1>6, <1>7, <2>2 DEF TimerInv, SentInv, OneMessagePerStart
  <2>4. QED
    BY <2>1, <2>3 DEF SentInv
<1>9. TimerType' /\ TimerListInv'
  BY <1>1, <1>4, <1>7 DEF TimerInv, TimerType, TimerListInv
<1>10. ProcInv' /\ CopyForOneShot' /\ KindInv'
  BY <1>1, <1>4 DEF TimerInv, ProcInv, CopyForOneShot, KindInv, Once
<1>11. ArgsInv'
  BY <1>1, <1>3, <1>4 DEF TimerInv, ArgsInv
<1>12. QED
  BY <1>8, <1>9, <1>10, <1>11 DEF TimerInv

\* The last lines of u_timer_stop: a timer that is armed again by then is earlier
\* in its place on the list, and spoilt.
LEMMA StopEnds ==
  ASSUME TimerInv, NEW t \in Timers, StopRest(t)
  PROVE  TimerInv'
<1> DEFINE left == tm[t].abstime - now
           bad == tm[t].spoilt \/ Armed(t) \/ tm[t].place = "deleted"
<1>1. /\ tm[t] \in OS_TIMER_LIGHT_T /\ tm \in [Timers -> OS_TIMER_LIGHT_T]
      /\ tm[t].stops > 0 /\ now \in Nat
      /\ UNCHANGED <<now, s_timer_list, proc, blocks, starts, sent>>
  BY DEF StopRest, TimerInv, TimerType
<1>2. /\ tm'[t] = [tm[t] EXCEPT !.stops = tm[t].stops - 1, !.abstime = left, !.spoilt = bad] /\ Others(t)
      /\ tm' = [tm EXCEPT ![t] = tm'[t]]
  BY <1>1 DEF StopRest, Others
<1>3. left \in Int /\ left <= tm[t].abstime /\ bad \in BOOLEAN /\ (Armed(t) => bad) /\ (tm[t].spoilt => bad)
  <2>1. left \in Int /\ left <= tm[t].abstime
    BY <1>1 DEF OS_TIMER_LIGHT_T
  <2>2. bad \in BOOLEAN
    OBVIOUS
  <2>3. QED
    BY <2>1, <2>2
<1> HIDE DEF left, bad
<1>4. /\ tm'[t] \in OS_TIMER_LIGHT_T /\ tm'[t].interval = tm[t].interval
      /\ tm'[t].pt_args = tm[t].pt_args /\ tm'[t].place = tm[t].place
      /\ tm'[t].abstime = left
      /\ tm'[t].spoilt = bad
  <2> DEFINE fewer == tm[t].stops - 1
  <2>1. fewer \in Nat
    BY <1>1 DEF OS_TIMER_LIGHT_T
  <2>2. tm'[t] = [tm[t] EXCEPT !.stops = fewer, !.abstime = left, !.spoilt = bad]
    BY <1>2
  <2> HIDE DEF fewer
  <2>3. QED
    BY <1>1, <1>3, <2>1, <2>2 DEF OS_TIMER_LIGHT_T
<1>5. /\ \A u \in Timers : tm'[u].pt_args = tm[u].pt_args /\ tm'[u].place = tm[u].place
      /\ \A u \in Timers : Once(u)' <=> Once(u)
  BY <1>2, <1>4 DEF Others, Once
<1>6. TimerType'
  BY <1>1, <1>2, <1>4 DEF TimerInv, TimerType
<1>7. TimerListInv'
  <2>1. /\ Range(s_timer_list) \subseteq Timers /\ s_timer_list \in Seq(Timers)
        /\ Sorted(s_timer_list, Abstimes, Spoilt)
    BY OnList DEF TimerInv, TimerType, TimerListInv
  <2>2. /\ Abstimes \in [Timers -> Int] /\ Abstimes' \in [Timers -> Int]
        /\ \A u \in Timers \ {t} : Abstimes'[u] = Abstimes[u] /\ (u \in Spoilt' <=> u \in Spoilt)
        /\ Abstimes[t] = tm[t].abstime /\ Abstimes'[t] = left
    BY <1>2, <1>3, <1>4, Times
  <2>3. t \in Range(s_timer_list) => t \in Spoilt'
    BY <1>3, <1>4 DEF Spoilt, Armed
  <2>4. \A u \in Range(s_timer_list) :
          /\ Abstimes'[u] <= Abstimes[u]
          /\ u \notin Spoilt' => u \notin Spoilt /\ Abstimes'[u] = Abstimes[u]
    BY <1>3, <2>1, <2>2, <2>3
  <2>5. Sorted(s_timer_list, Abstimes', Spoilt')
    BY <2>1, <2>2, <2>4, SameTimes
  <2>6. QED
    BY <1>1, <1>5, <2>1, <2>5 DEF TimerInv, TimerListInv
<1>8. ProcInv' /\ CopyForOneShot' /\ KindInv'
  <2>1. proc.timer \subseteq Timers
    BY DEF TimerInv, TimerType, Proc
  <2>2. QED
    BY <1>1, <1>5, <2>1 DEF TimerInv, ProcInv, CopyForOneShot, KindInv
<1>9. ArgsInv' /\ SentInv'
  BY <1>1, <1>5 DEF TimerInv, ArgsInv, SentInv, OneMessagePerStart
<1>10. QED
  BY <1>6, <1>7, <1>8, <1>9 DEF TimerInv

\* Every step keeps the invariant.
LEMMA TimerStep ==
  ASSUME TimerAssumption, TimerInv, [MNext]_mvars
  PROVE  TimerInv'
<1>1. CASE UNCHANGED mvars
  <2>1. Abstimes' = Abstimes /\ Spoilt' = Spoilt
    BY <1>1 DEF mvars, Abstimes, Spoilt
  <2>2. TimerType' /\ ProcInv' /\ TimerListInv'
    BY <1>1, <2>1 DEF mvars, TimerInv, TimerType, ProcInv, TimerListInv
  <2>3. KindInv' /\ ArgsInv' /\ SentInv' /\ CopyForOneShot'
    BY <1>1 DEF mvars, TimerInv, KindInv, ArgsInv, SentInv, OneMessagePerStart, CopyForOneShot, Once
  <2>4. QED
    BY <2>2, <2>3 DEF TimerInv
<1>2. CASE TimerProc \/ Tick
  BY <1>2, Scans, Expired, CalledBack DEF TimerProc
<1>3. ASSUME NEW t \in Timers, NEW d \in Delays[t], u_timer_start(t, d) PROVE TimerInv'
  BY <1>3, Started
<1>4. ASSUME NEW t \in Timers, u_timer_stop(t) \/ StopRest(t) \/ u_timer_delete(t) PROVE TimerInv'
  BY <1>4, Ended, StopEnds
<1>5. QED
  BY <1>1, <1>2, <1>3, <1>4 DEF MNext

\* The parts of the invariant are the daemon's properties.
LEMMA TimerInvIsSafe ==
  ASSUME TimerInv
  PROVE  TimersSorted /\ ArgsOwned /\ OneMessagePerStart /\ CopyForOneShot
<1>1. TimersSorted
  <2>1. DOMAIN s_timer_list = 1 .. Len(s_timer_list)
        /\ \A n \in 1 .. Len(s_timer_list) : s_timer_list[n] \in Timers
    BY DEF TimerInv, TimerType
  <2>2. ASSUME NEW m \in 1 .. Len(s_timer_list), NEW n \in 1 .. Len(s_timer_list), m < n
        PROVE  /\ ~tm[s_timer_list[n]].spoilt =>
                    tm[s_timer_list[m]].abstime <= tm[s_timer_list[n]].abstime
               /\ s_timer_list[m] # s_timer_list[n]
    <3>1. m # n /\ s_timer_list[m] \in Timers /\ s_timer_list[n] \in Timers
      BY <2>1, <2>2
    <3>2. s_timer_list[m] # s_timer_list[n]
      BY <3>1 DEF TimerInv, TimerListInv, Distinct
    <3>3. s_timer_list[n] \notin Spoilt => Abstimes[s_timer_list[m]] <= Abstimes[s_timer_list[n]]
      BY <2>2 DEF TimerInv, TimerListInv, Sorted
    <3>4. QED
      BY <3>1, <3>2, <3>3 DEF Abstimes, Spoilt
  <2>3. QED
    BY <2>1, <2>2 DEF TimerInv, TimerListInv, TimersSorted
<1>2. ArgsOwned
  BY DEF TimerInv, ArgsInv, ArgsOwned
<1>3. QED
  BY <1>1, <1>2 DEF TimerInv, SentInv

\* Every timer on the list but those whose time a late u_timer_stop overwrote is
\* behind none that expires later, whatever starts, stops, deletions and expiries
\* interleave with a callback; a block of arguments is freed once and not used
\* after that; a one-shot timer sends one message per start, from a copy.
THEOREM TimersSafe ==
  ASSUME TimerAssumption
  PROVE  MSpec => [](TimersSorted /\ ArgsOwned /\ OneMessagePerStart /\ CopyForOneShot)
<1>1. MInit => TimerInv
  BY TimersStart
<1>2. TimerInv /\ [MNext]_mvars => TimerInv'
  BY TimerStep
<1>3. TimerInv => TimersSorted /\ ArgsOwned /\ OneMessagePerStart /\ CopyForOneShot
  BY TimerInvIsSafe
<1>4. QED
  BY <1>1, <1>2, <1>3, PTL DEF MSpec

\* TimerProc takes a timer off the list only after its time.
LEMMA ExpiresLate ==
  ASSUME TimerInv, [MNext]_mvars, NEW t \in Timers, proc'.timer = {t}, proc.timer = {}
  PROVE  now > tm[t].abstime
<1>1. proc \in Proc
  BY DEF TimerInv, TimerType
<1>2. CASE Expire
  <2>1. t = Head(s_timer_list)
    BY <1>1, <1>2 DEF Expire, Proc
  <2>2. QED
    BY <1>1, <1>2, <2>1
       DEF Expire, Due, time_before, TimerInv, ProcInv, TimerType, Proc, OS_TIMER_LIGHT_T
<1>3. CASE ~Expire
  <2>1. proc'.timer = proc.timer \/ proc'.timer = {}
    <3>1. Signal.timer = proc.timer
      BY Signalled DEF TimerInv
    <3>2. Wake \/ Wait => proc'.timer = proc.timer
      BY <1>1 DEF Wake, Wait, Proc
    <3>3. Callback => proc'.timer = {}
      BY <1>1 DEF Callback, Proc
    <3>4. QED
      BY <1>3, <3>1, <3>2, <3>3 DEF MNext, TimerProc, Tick, u_timer_start, u_timer_stop, StopRest,
         u_timer_delete, mvars
  <2>2. QED
    BY <2>1
<1>4. QED
  BY <1>2, <1>3

\* No timer is called back before its time.
THEOREM TimersNotEarly ==
  ASSUME TimerAssumption
  PROVE  MSpec => NotBeforeItsTime
<1>1. MInit => TimerInv
  BY TimersStart
<1>2. TimerInv /\ [MNext]_mvars => TimerInv'
  BY TimerStep
<1>3. TimerInv /\ [MNext]_mvars =>
        [\A t \in Timers : proc'.timer = {t} /\ proc.timer = {} => now > tm[t].abstime]_mvars
  BY ExpiresLate
<1>4. QED
  BY <1>1, <1>2, <1>3, PTL DEF MSpec, NotBeforeItsTime

-----------------------------------------------------------------------------
\* A thread is on the list once, a signal hands the reaper a thread that has ended
\* and is not freed, a wake-up without one never a thread that still runs, the
\* private data of a thread is deleted once, before it leaves the list, and
\* priorities that are read back keep their order.
THEOREM ThreadsEnd == MCSpec => []ThreadsEndOnce
<1>1. MCInit => ThreadInv
  BY ThreadAssumptions, ThreadStarts DEF MCInit
<1>2. ThreadInv /\ [MCNext]_allvars => ThreadInv'
  <2>1. [MCNext]_allvars => [TNext]_tvars
    BY DEF MCNext, CritStep, ThreadsStep, TimersStep, TimersDone, allvars, tvars
  <2>2. QED
    BY <2>1, ThreadAssumptions, ThreadStep
<1>3. ThreadInv => ThreadsEndOnce
  BY ThreadInvIsSafe, PrioritiesOrdered DEF ThreadsEndOnce
<1>4. QED
  BY <1>1, <1>2, <1>3, PTL DEF MCSpec

\* Whatever happens during a callback, a timer on the list whose time was not
\* overwritten by a late u_timer_stop is behind none that expires later, an argument
\* block is freed once and not used after it, and a one-shot timer sends one
\* message per start, from a copy of its arguments.
THEOREM TimersHold == MCSpec => []TimersExact
<1>1. MCInit => TimerInv
  BY ThreadAssumptions, TimersStart DEF MCInit
<1>2. TimerInv /\ [MCNext]_allvars => TimerInv'
  <2>1. [MCNext]_allvars => [MNext]_mvars
    BY DEF MCNext, CritStep, ThreadsStep, TimersStep, TimersDone, allvars, mvars
  <2>2. QED
    BY <2>1, ThreadAssumptions, TimerStep
<1>3. TimerInv => TimersExact
  BY TimerInvIsSafe DEF TimersExact
<1>4. QED
  BY <1>1, <1>2, <1>3, PTL DEF MCSpec
=============================================================================
