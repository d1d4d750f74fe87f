---------------------------- MODULE MCLockProofs ----------------------------
(***************************************************************************)
(* Proofs for what MCLock checks, for any finite set of threads: of RwLock,*)
(* what the counters count, that a lock is handed over to one waiter at a  *)
(* time, that a deferred delete waits for the last user, and, with a single*)
(* writer, that the lock excludes and says who has it; and of Sema its type*)
(* invariant, and for a MUTEX mutual exclusion, the owner record and the   *)
(* sufficiency of the signal.                                              *)
(***************************************************************************)
EXTENDS MCLock, FiniteSetTheorems, SequenceTheorems, TLAPS

\* The threads at a place are finitely many.
LEMMA AtFinite ==
  ASSUME RwLockAssumption
  PROVE  /\ \A p : IsFiniteSet(At(p)) /\ Cardinality(At(p)) \in Nat
         /\ NumAt \in [Place -> Nat]
<1>1. ASSUME NEW p PROVE IsFiniteSet(At(p)) /\ Cardinality(At(p)) \in Nat
  <2>1. At(p) \in SUBSET Threads
    BY DEF At
  <2>2. QED
    BY <2>1, FS_Subset, FS_CardinalityType DEF RwLockAssumption
<1>2. QED
  BY <1>1 DEF NumAt

\* A thread that goes from one place to another is counted at the other.
LEMMA Moves ==
  ASSUME RwLockAssumption, TypeOK, NEW t \in Threads, NEW p, NEW q \in Place,
         pc[t] = p, p # q, Goto(t, q)
  PROVE  /\ NumAt' = [NumAt EXCEPT ![p] = @ - 1, ![q] = @ + 1]
         /\ NumAt[p] >= 1
         /\ pc' \in [Threads -> Place]
<1>1. /\ \A u \in Threads : pc'[u] = IF u = t THEN q ELSE pc[u]
      /\ pc' \in [Threads -> Place] /\ p \in Place
  BY DEF Goto, TypeOK
<1>2. At(p)' = At(p) \ {t} /\ t \in At(p)
  BY <1>1 DEF At
<1>3. At(q)' = At(q) \cup {t} /\ t \notin At(q)
  BY <1>1 DEF At
<1>4. \A r : r # p /\ r # q => At(r)' = At(r)
  BY <1>1 DEF At
<1>5. Cardinality(At(p)') = Cardinality(At(p)) - 1
  BY <1>2, AtFinite, FS_RemoveElement
<1>6. Cardinality(At(q)') = Cardinality(At(q)) + 1
  BY <1>3, AtFinite, FS_AddElement
<1>7. Cardinality(At(p)) >= 1
  BY <1>2, AtFinite, FS_EmptySet
<1>8. QED
  BY <1>1, <1>4, <1>5, <1>6, <1>7 DEF NumAt

\* A thread that stays where it is changes no count.
LEMMA Stays ==
  ASSUME UNCHANGED pc
  PROVE  NumAt' = NumAt
BY DEF NumAt, At

\* A lock that is given is one more.
LEMMA Gives ==
  ASSUME TypeOK, IsFiniteSet(Granted), NEW t \in Threads,
         NEW k \in {"R", "W"}, Gets(t, k)
  PROVE  /\ IsFiniteSet(Granted')
         /\ Cardinality(Granted') = Cardinality(Granted) + 1
         /\ held' \in [Threads -> Seq({"R", "W"})]
<1> DEFINE n == Len(held[t]) + 1
<1>1. /\ held[t] \in Seq({"R", "W"})
      /\ \A u \in Threads : held'[u] = IF u = t THEN Append(held[t], k) ELSE held[u]
  BY DEF Gets, TypeOK
<1>2. DOMAIN Append(held[t], k) = DOMAIN held[t] \cup {n}
      /\ n \notin DOMAIN held[t]
  BY <1>1
<1>3. /\ \A u \in Threads \ {t} : DOMAIN held'[u] = DOMAIN held[u]
      /\ DOMAIN held'[t] = DOMAIN held[t] \cup {n}
  BY <1>1, <1>2
<1>4. Granted' = Granted \cup {<<t, n>>} /\ <<t, n>> \notin Granted
  <2> HIDE DEF n
  <2> QED
    BY <1>2, <1>3 DEF Granted
<1>5. /\ IsFiniteSet(Granted')
      /\ Cardinality(Granted') = Cardinality(Granted) + 1
  BY <1>4, FS_AddElement
<1>6. held' \in [Threads -> Seq({"R", "W"})]
  BY <1>1 DEF Gets, TypeOK
<1>7. QED
  BY <1>5, <1>6

\* A lock that is released is one less.
LEMMA TakesBack ==
  ASSUME TypeOK, IsFiniteSet(Granted), NEW t \in Threads, Releases(t)
  PROVE  /\ IsFiniteSet(Granted')
         /\ Cardinality(Granted) >= 1
         /\ Cardinality(Granted') = Cardinality(Granted) - 1
         /\ held' \in [Threads -> Seq({"R", "W"})]
<1> DEFINE n == Len(held[t])
           s == SubSeq(held[t], 1, n - 1)
<1>1. /\ held[t] \in Seq({"R", "W"}) /\ held[t] # <<>>
      /\ \A u \in Threads : held'[u] = IF u = t THEN s ELSE held[u]
  BY DEF Releases, TypeOK
<1>2. n \in Nat \ {0} /\ DOMAIN held[t] = 1 .. n
  BY <1>1, EmptySeq
<1>3. s \in Seq({"R", "W"}) /\ DOMAIN s = DOMAIN held[t] \ {n} /\ n \in DOMAIN held[t]
  BY <1>1, <1>2, SubSeqProperties
<1>4. /\ \A u \in Threads \ {t} : DOMAIN held'[u] = DOMAIN held[u]
      /\ DOMAIN held'[t] = DOMAIN held[t] \ {n}
  BY <1>1, <1>3
<1>5. Granted' = Granted \ {<<t, n>>} /\ <<t, n>> \in Granted
  <2> HIDE DEF n, s
  <2> QED
    BY <1>3, <1>4 DEF Granted
<1>6. Cardinality(Granted) # 0 /\ Cardinality(Granted) \in Nat
  BY <1>5, FS_EmptySet, FS_CardinalityType
<1>7. held' \in [Threads -> Seq({"R", "W"})]
  BY <1>3 DEF Releases, TypeOK
<1>8. /\ IsFiniteSet(Granted')
      /\ Cardinality(Granted') = Cardinality(Granted) - 1
  BY <1>5, FS_RemoveElement
<1>9. QED
  BY <1>6, <1>7, <1>8
-----------------------------------------------------------------------------
\* What the counters count.  A hand-over that is on its way is counted in already,
\* in the counter of its kind, and the recorded writer has the lock.
CountInv ==
  /\ IsFiniteSet(Granted)
  /\ Accounting /\ NoAbort /\ WaitersHaveHolder /\ OneHandOver
  /\ rw.h_wr_thread # Nobody => rw.wr_access > 0
  /\ NumAt["post_rd"] + sem_rd > 0 => rw.rd_access > 0
  /\ NumAt["post_wr"] + sem_wr + NumAt["own"] > 0 => rw.wr_access > 0

\* Who frees is alone: the lock is marked, nobody has it or waits for it, and the
\* handle goes before the object.
Quiet == \A t \in Threads : held[t] = <<>> /\ pc[t] \in {"run", "free", "dispose"}
Frees(t) == pc[t] \in {"free", "dispose"}
FreeInv ==
  /\ \A t, u \in Threads : Frees(t) /\ Frees(u) => t = u
  /\ \A t \in Threads : /\ pc[t] = "free" => valid
                        /\ pc[t] = "dispose" => ~valid /\ ~freed
  /\ (~valid \/ \E t \in Threads : Frees(t)) => rw.b_del_flag /\ Quiet
  /\ freed => ~valid

\* A lock with other counters, or another writer, is a lock.
LEMMA Update ==
  ASSUME NEW l \in MRSW_LOCK_T, NEW m \in Nat, NEW n \in Nat,
         NEW h \in Threads \cup {Nobody}
  PROVE  /\ [l EXCEPT !.wr_access = m, !.h_wr_thread = h] \in MRSW_LOCK_T
         /\ [l EXCEPT !.rd_wait = m, !.rd_access = n] \in MRSW_LOCK_T
         /\ [l EXCEPT !.wr_wait = m, !.wr_access = n] \in MRSW_LOCK_T
         /\ [l EXCEPT !.wr_wait = m, !.wr_access = n, !.h_wr_thread = h] \in MRSW_LOCK_T
BY Zenon DEF MRSW_LOCK_T

\* Every step keeps the types of the variables.
LEMMA TypeStep ==
  ASSUME RwLockAssumption, TypeOK, CountInv, [Next]_vars
  PROVE  TypeOK'
<1>0. /\ rw \in MRSW_LOCK_T /\ sem_rd \in Nat /\ sem_wr \in Nat
      /\ IsFiniteSet(Granted)
  BY DEF TypeOK, CountInv
<1>1. ASSUME NEW t \in Threads, NEW q \in Place, Goto(t, q) PROVE pc' \in [Threads -> Place]
  BY <1>1 DEF TypeOK, Goto
<1>2. ASSUME NEW t \in Threads, NEW k, MayLock(t, k) PROVE calls' \in [Threads -> 0 .. MaxCalls]
  BY <1>2 DEF TypeOK, MayLock, RwLockAssumption
<1>3. ASSUME NEW t \in Readers, ReadLock(t) PROVE TypeOK'
  <2>1. t \in Threads /\ calls' \in [Threads -> 0 .. MaxCalls]
    BY <1>2, <1>3 DEF ReadLock, Threads
  <2>2. rw' \in MRSW_LOCK_T
    BY <1>0, <1>3 DEF ReadLock, MRSW_LOCK_T
  <2>3. held' \in [Threads -> Seq({"R", "W"})]
    BY <1>0, <1>3, <2>1, Gives DEF ReadLock, TypeOK
  <2>4. pc' \in [Threads -> Place]
    BY <1>1, <1>3, <2>1 DEF ReadLock, TypeOK, Place
  <2>5. UNCHANGED <<sem_rd, sem_wr, valid, freed>>
    BY <1>3 DEF ReadLock
  <2>6. QED
    BY <2>1, <2>2, <2>3, <2>4, <2>5 DEF TypeOK
<1>4. ASSUME NEW t \in Writers, WriteLock(t) PROVE TypeOK'
  <2>1. t \in Threads /\ calls' \in [Threads -> 0 .. MaxCalls]
    BY <1>2, <1>4 DEF WriteLock, Threads
  <2>2. rw' \in MRSW_LOCK_T
    <3>1. \/ rw' = [rw EXCEPT !.wr_access = @ + 1, !.h_wr_thread = t]
          \/ rw' = [rw EXCEPT !.wr_access = @ + 1]
          \/ rw' = [rw EXCEPT !.wr_wait = @ + 1]
      BY <1>4 DEF WriteLock
    <3>2. /\ rw.wr_access + 1 \in Nat /\ rw.wr_wait + 1 \in Nat
          /\ t \in Threads \cup {Nobody}
      BY <1>0, <2>1 DEF MRSW_LOCK_T
    <3>3. [rw EXCEPT !.wr_access = @ + 1, !.h_wr_thread = t] \in MRSW_LOCK_T
      BY <1>0, <3>2, Update
    <3>4. /\ [rw EXCEPT !.wr_access = @ + 1] \in MRSW_LOCK_T
          /\ [rw EXCEPT !.wr_wait = @ + 1] \in MRSW_LOCK_T
      BY <1>0 DEF MRSW_LOCK_T
    <3>5. QED
      BY <3>1, <3>3, <3>4
  <2>3. held' \in [Threads -> Seq({"R", "W"})]
    BY <1>0, <1>4, <2>1, Gives DEF WriteLock, TypeOK
  <2>4. pc' \in [Threads -> Place]
    BY <1>1, <1>4, <2>1 DEF WriteLock, TypeOK, Place
  <2>5. UNCHANGED <<sem_rd, sem_wr, valid, freed>>
    BY <1>4 DEF WriteLock
  <2>6. QED
    BY <2>1, <2>2, <2>3, <2>4, <2>5 DEF TypeOK
<1>5. ASSUME NEW t \in Deleters, Delete(t) PROVE TypeOK'
  <2>1. rw' \in MRSW_LOCK_T
    BY <1>0, <1>5 DEF Delete, MRSW_LOCK_T
  <2>2. pc' \in [Threads -> Place]
    BY <1>1, <1>5 DEF Delete, Place, Threads
  <2>3. QED
    BY <1>5, <2>1, <2>2 DEF Delete, TypeOK
<1>6. ASSUME NEW t \in Threads, ReadGranted(t) PROVE TypeOK'
  <2>1. held' \in [Threads -> Seq({"R", "W"})]
    BY <1>0, <1>6, Gives DEF ReadGranted
  <2>2. pc' \in [Threads -> Place] /\ sem_rd' \in Nat
    BY <1>0, <1>1, <1>6 DEF ReadGranted, Place
  <2>3. QED
    BY <1>6, <2>1, <2>2 DEF ReadGranted, TypeOK
<1>7. ASSUME NEW t \in Threads, WriteGranted(t) PROVE TypeOK'
  <2>1. pc' \in [Threads -> Place] /\ sem_wr' \in Nat
    BY <1>0, <1>1, <1>7 DEF WriteGranted, Place
  <2>2. QED
    BY <1>7, <2>1 DEF WriteGranted, TypeOK
<1>8. ASSUME NEW t \in Threads, WriteOwn(t) PROVE TypeOK'
  <2>1. held' \in [Threads -> Seq({"R", "W"})]
    BY <1>0, <1>8, Gives DEF WriteOwn
  <2>2. pc' \in [Threads -> Place]
    BY <1>1, <1>8 DEF WriteOwn, Place
  <2>3. rw' \in MRSW_LOCK_T
    BY <1>0, <1>8 DEF WriteOwn, MRSW_LOCK_T
  <2>4. QED
    BY <1>8, <2>1, <2>2, <2>3 DEF WriteOwn, TypeOK
<1>9. ASSUME NEW t \in Threads, ReleaseInside(t) \/ ReleaseRead(t) \/ ReleaseWrite(t)
      PROVE  TypeOK'
  <2>1. held' \in [Threads -> Seq({"R", "W"})]
    BY <1>0, <1>9, TakesBack DEF ReleaseInside, ReleaseRead, ReleaseWrite
  <2>2. pc' \in [Threads -> Place]
    BY <1>1, <1>9 DEF ReleaseInside, ReleaseRead, ReleaseWrite, Leave, Place, TypeOK
  <2>3. CASE ReleaseInside(t)
    <3>1. rw' \in MRSW_LOCK_T
      BY <1>0, <2>3 DEF ReleaseInside, MRSW_LOCK_T
    <3>2. QED
      BY <2>1, <2>2, <2>3, <3>1 DEF ReleaseInside, Releases, TypeOK
  <2>4. CASE ReleaseRead(t)
    <3>1. rw' \in MRSW_LOCK_T
      <4> DEFINE l == [rw EXCEPT !.rd_access = @ - 1]
      <4>1. /\ rw.rd_access > 0
            /\ \/ l.rd_wait > 0 /\ rw' = [l EXCEPT !.rd_wait = @ - 1, !.rd_access = @ + 1]
               \/ l.wr_wait > 0 /\ rw' = [l EXCEPT !.wr_wait = @ - 1, !.wr_access = @ + 1]
               \/ rw' = l
        BY <2>4 DEF ReleaseRead
      <4>2. l \in MRSW_LOCK_T
        BY <1>0, <4>1 DEF MRSW_LOCK_T
      <4> HIDE DEF l
      <4>3. CASE l.rd_wait > 0 /\ rw' = [l EXCEPT !.rd_wait = @ - 1, !.rd_access = @ + 1]
        <5>1. l.rd_wait - 1 \in Nat /\ l.rd_access + 1 \in Nat
          BY <4>2, <4>3 DEF MRSW_LOCK_T
        <5>2. QED
          BY <4>2, <4>3, <5>1, Update, Zenon
      <4>4. CASE l.wr_wait > 0 /\ rw' = [l EXCEPT !.wr_wait = @ - 1, !.wr_access = @ + 1]
        <5>1. l.wr_wait - 1 \in Nat /\ l.wr_access + 1 \in Nat
          BY <4>2, <4>4 DEF MRSW_LOCK_T
        <5>2. QED
          BY <4>2, <4>4, <5>1, Update, Zenon
      <4>5. QED
        BY <4>1, <4>2, <4>3, <4>4
    <3>2. QED
      BY <2>1, <2>2, <2>4, <3>1 DEF ReleaseRead, Releases, TypeOK
  <2>5. CASE ReleaseWrite(t)
    <3>1. rw' \in MRSW_LOCK_T
      <4> DEFINE l == [rw EXCEPT !.wr_access = @ - 1,
                                 !.h_wr_thread = IF rw.wr_access = 1 THEN Nobody ELSE @]
      <4>1. /\ rw.wr_access > 0
            /\ \/ /\ l.wr_wait > 0
                  /\ rw' = [l EXCEPT !.wr_wait = @ - 1, !.wr_access = @ + 1, !.h_wr_thread = t]
               \/ l.rd_wait > 0 /\ rw' = [l EXCEPT !.rd_wait = @ - 1, !.rd_access = @ + 1]
               \/ rw' = l
        BY <2>5 DEF ReleaseWrite
      <4>2. l \in MRSW_LOCK_T
        <5>1. /\ rw.wr_access - 1 \in Nat
              /\ (IF rw.wr_access = 1 THEN Nobody ELSE rw.h_wr_thread) \in Threads \cup {Nobody}
          BY <1>0, <4>1 DEF MRSW_LOCK_T
        <5>2. QED
          BY <1>0, <5>1, Update, Zenon
      <4> HIDE DEF l
      <4>3. CASE /\ l.wr_wait > 0
                 /\ rw' = [l EXCEPT !.wr_wait = @ - 1, !.wr_access = @ + 1, !.h_wr_thread = t]
        <5>1. l.wr_wait - 1 \in Nat /\ l.wr_access + 1 \in Nat /\ t \in Threads \cup {Nobody}
          BY <4>2, <4>3 DEF MRSW_LOCK_T
        <5>2. QED
          BY <4>2, <4>3, <5>1, Update, Zenon
      <4>4. CASE l.rd_wait > 0 /\ rw' = [l EXCEPT !.rd_wait = @ - 1, !.rd_access = @ + 1]
        <5>1. l.rd_wait - 1 \in Nat /\ l.rd_access + 1 \in Nat
          BY <4>2, <4>4 DEF MRSW_LOCK_T
        <5>2. QED
          BY <4>2, <4>4, <5>1, Update, Zenon
      <4>5. QED
        BY <4>1, <4>2, <4>3, <4>4
    <3>2. QED
      BY <2>1, <2>2, <2>5, <3>1 DEF ReleaseWrite, Releases, TypeOK
  <2>6. QED
    BY <1>9, <2>3, <2>4, <2>5
<1>10. ASSUME NEW t \in Threads, Post(t) PROVE TypeOK'
  <2>1. pc' \in [Threads -> Place] /\ sem_rd' \in Nat /\ sem_wr' \in Nat
    BY <1>0, <1>1, <1>10 DEF Post, Place
  <2>2. QED
    BY <1>10, <2>1 DEF Post, TypeOK
<1>11. ASSUME NEW t \in Threads, FreeHandle(t) \/ FreeObject(t) PROVE TypeOK'
  <2>1. pc' \in [Threads -> Place] /\ valid' \in BOOLEAN /\ freed' \in BOOLEAN
    BY <1>1, <1>11 DEF FreeHandle, FreeObject, Place, TypeOK
  <2>2. QED
    BY <1>11, <2>1 DEF FreeHandle, FreeObject, TypeOK
<1>12. CASE UNCHANGED vars
  BY <1>12 DEF vars, TypeOK
<1>13. QED
  BY <1>3, <1>4, <1>5, <1>6, <1>7, <1>8, <1>9, <1>10, <1>11, <1>12 DEF Next, Continue

\* The numbers that CountInv relates, by name: an arithmetic step about them needs
\* nothing of the records and functions they are read from.
RdIn == rw.rd_access
RdInside == rw.rd_inside_wr
WrIn == rw.wr_access
RdWaits == rw.rd_wait
WrWaits == rw.wr_wait
Given == Cardinality(Granted)
PostRd == NumAt["post_rd"]
PostWr == NumAt["post_wr"]
Owns == NumAt["own"]
AtRd == NumAt["wait_rd"]
AtWr == NumAt["wait_wr"]
HasWriter == rw.h_wr_thread # Nobody

Numbers ==
  /\ RdIn \in Nat /\ RdInside \in Nat /\ WrIn \in Nat /\ RdWaits \in Nat /\ WrWaits \in Nat
  /\ Given \in Nat /\ PostRd \in Nat /\ PostWr \in Nat /\ Owns \in Nat /\ AtRd \in Nat
  /\ AtWr \in Nat /\ sem_rd \in Nat /\ sem_wr \in Nat

Balanced ==
  /\ RdIn + RdInside + WrIn = Given + PostRd + PostWr + sem_rd + sem_wr + Owns
  /\ RdWaits + PostRd + sem_rd = AtRd
  /\ WrWaits + PostWr + sem_wr = AtWr
  /\ ~(RdIn > 0 /\ WrIn > 0)
  /\ RdInside > 0 => WrIn > 0
  /\ RdWaits + WrWaits > 0 => RdIn + WrIn > 0
  /\ PostRd + PostWr + sem_rd + sem_wr <= 1
  /\ HasWriter => WrIn > 0
  /\ PostRd + sem_rd > 0 => RdIn > 0
  /\ PostWr + sem_wr + Owns > 0 => WrIn > 0

\* The invariants about numbers, as one balance.
LEMMA CountForm ==
  /\ CountInv <=> IsFiniteSet(Granted) /\ Balanced
  /\ CountInv' <=> IsFiniteSet(Granted)' /\ Balanced'
BY DEF CountInv, Accounting, NoAbort, WaitersHaveHolder, OneHandOver, Balanced,
       RdIn, RdInside, WrIn, RdWaits, WrWaits, Given, PostRd, PostWr, Owns, AtRd, AtWr, HasWriter

\* The numbers are natural numbers and the balance holds of them.
LEMMA NumbersType ==
  ASSUME RwLockAssumption, TypeOK, CountInv
  PROVE  Numbers /\ IsFiniteSet(Granted) /\ Balanced
<1>1. rw \in MRSW_LOCK_T /\ sem_rd \in Nat /\ sem_wr \in Nat /\ IsFiniteSet(Granted)
  BY DEF TypeOK, CountInv
<1>2. NumAt \in [Place -> Nat] /\ Cardinality(Granted) \in Nat
  BY <1>1, AtFinite, FS_CardinalityType
<1>3. PostRd \in Nat /\ PostWr \in Nat /\ Owns \in Nat /\ AtRd \in Nat /\ AtWr \in Nat
  BY <1>2 DEF Place, PostRd, PostWr, Owns, AtRd, AtWr
<1>4. RdIn \in Nat /\ RdInside \in Nat /\ WrIn \in Nat /\ RdWaits \in Nat /\ WrWaits \in Nat
  BY <1>1 DEF MRSW_LOCK_T, RdIn, RdInside, WrIn, RdWaits, WrWaits
<1>5. QED
  BY <1>1, <1>2, <1>3, <1>4, CountForm DEF Numbers, Given

\* What a step adds to the five counters, and to the numbers of threads at the five
\* places that count.
Adds(ra, ri, wa, rdw, wrw) ==
  /\ RdIn' = RdIn + ra /\ RdInside' = RdInside + ri /\ WrIn' = WrIn + wa
  /\ RdWaits' = RdWaits + rdw /\ WrWaits' = WrWaits + wrw

Turns(prd, pwr, own, wrd, wwr) ==
  /\ PostRd' = PostRd + prd /\ PostWr' = PostWr + pwr /\ Owns' = Owns + own
  /\ AtRd' = AtRd + wrd /\ AtWr' = AtWr + wwr

\* A thread that leaves p for q is counted at q.
LEMMA TurnsTo ==
  ASSUME RwLockAssumption, TypeOK, NEW t \in Threads, NEW q \in Place, Goto(t, q)
  PROVE  /\ pc[t] = q => Turns(0, 0, 0, 0, 0)
         /\ pc[t] = "run" /\ q = "wait_rd" => Turns(0, 0, 0, 1, 0)
         /\ pc[t] = "run" /\ q = "wait_wr" => Turns(0, 0, 0, 0, 1)
         /\ pc[t] = "run" /\ q = "post_rd" => Turns(1, 0, 0, 0, 0)
         /\ pc[t] = "run" /\ q = "post_wr" => Turns(0, 1, 0, 0, 0)
         /\ pc[t] = "wait_rd" /\ q = "run" => Turns(0, 0, 0, -1, 0)
         /\ pc[t] = "wait_wr" /\ q = "own" => Turns(0, 0, 1, 0, -1)
         /\ pc[t] = "own" /\ q = "run" => Turns(0, 0, -1, 0, 0)
         /\ pc[t] = "post_rd" /\ q = "run" => Turns(-1, 0, 0, 0, 0)
         /\ pc[t] = "post_wr" /\ q = "run" => Turns(0, -1, 0, 0, 0)
         /\ {pc[t], q} \subseteq {"run", "free", "dispose"} => Turns(0, 0, 0, 0, 0)
<1> DEFINE p == pc[t]
<1>1. NumAt \in [Place -> Nat] /\ p \in Place
  BY AtFinite DEF TypeOK
<1>2. CASE p = q
  <2>1. pc' = pc
    BY <1>2 DEF Goto, TypeOK
  <2>2. NumAt' = NumAt
    BY <2>1, Stays
  <2>3. Turns(0, 0, 0, 0, 0)
    BY <1>1, <2>2 DEF Turns, Place, PostRd, PostWr, Owns, AtRd, AtWr
  <2>4. QED
    BY <1>2, <2>3
<1>3. CASE p # q
  <2>1. NumAt' = [NumAt EXCEPT ![p] = @ - 1, ![q] = @ + 1]
    BY <1>3, Moves
  <2>2. \A r \in Place : NumAt'[r] = NumAt[r] + (IF r = q THEN 1 ELSE IF r = p THEN -1 ELSE 0)
    BY <1>1, <1>3, <2>1
  <2> DEFINE d(r) == IF r = q THEN 1 ELSE IF r = p THEN -1 ELSE 0
  <2>3. Turns(d("post_rd"), d("post_wr"), d("own"), d("wait_rd"), d("wait_wr"))
    BY <2>2 DEF Turns, Place, PostRd, PostWr, Owns, AtRd, AtWr
  <2>4. QED
    BY <1>3, <2>3 DEF Turns
<1>4. QED
  BY <1>2, <1>3

\* Locking keeps the counters exact.
LEMMA LockCounts ==
  ASSUME RwLockAssumption, TypeOK, CountInv, NEW t \in Threads,
         ReadLock(t) \/ WriteLock(t)
  PROVE  CountInv'
<1>0. /\ rw \in MRSW_LOCK_T /\ pc[t] = "run" /\ Nobody # t
      /\ "wait_rd" \in Place /\ "wait_wr" \in Place
  BY DEF TypeOK, ReadLock, WriteLock, MayLock, RwLockAssumption, Place
<1>1. Numbers /\ IsFiniteSet(Granted) /\ Balanced
  BY NumbersType
<1>2. sem_rd' = sem_rd /\ sem_wr' = sem_wr
  BY DEF ReadLock, WriteLock
<1>3. ASSUME UNCHANGED pc PROVE Turns(0, 0, 0, 0, 0)
  <2>1. NumAt' = NumAt
    BY <1>3, Stays
  <2>2. QED
    BY <1>1, <2>1 DEF Numbers, Turns, PostRd, PostWr, Owns, AtRd, AtWr
<1>4. ASSUME NEW k \in {"R", "W"}, Gets(t, k) PROVE IsFiniteSet(Granted)' /\ Given' = Given + 1
  BY <1>1, <1>4, Gives DEF Given
<1>5. ASSUME UNCHANGED held PROVE IsFiniteSet(Granted)' /\ Given' = Given
  BY <1>1, <1>5 DEF Granted, Given
<1>6. CASE /\ ReadIsFree /\ rw' = [rw EXCEPT !.rd_access = @ + 1] /\ Gets(t, "R") /\ UNCHANGED pc
  <2>1. Adds(1, 0, 0, 0, 0) /\ HasWriter' = HasWriter
    BY <1>0, <1>6 DEF MRSW_LOCK_T, Adds, RdIn, RdInside, WrIn, RdWaits, WrWaits, HasWriter
  <2>2. Turns(0, 0, 0, 0, 0)
    BY <1>6, <1>3
  <2>3. IsFiniteSet(Granted)' /\ Given' = Given + 1
    BY <1>6, <1>4
  <2>4. WrIn = 0 /\ RdWaits = 0 /\ WrWaits = 0
    BY <1>0, <1>6 DEF ReadIsFree, RdIn, RdInside, WrIn, RdWaits, WrWaits, HasWriter
  <2>5. QED
    BY <1>1, <1>2, <2>1, <2>2, <2>3, <2>4, CountForm DEF Numbers, Balanced, Adds, Turns
<1>7. CASE /\ ~ReadIsFree /\ rw.h_wr_thread = t /\ rw' = [rw EXCEPT !.rd_inside_wr = @ + 1]
           /\ Gets(t, "R") /\ UNCHANGED pc
  <2>1. Adds(0, 1, 0, 0, 0) /\ HasWriter' = HasWriter
    BY <1>0, <1>7 DEF MRSW_LOCK_T, Adds, RdIn, RdInside, WrIn, RdWaits, WrWaits, HasWriter
  <2>2. Turns(0, 0, 0, 0, 0)
    BY <1>7, <1>3
  <2>3. IsFiniteSet(Granted)' /\ Given' = Given + 1
    BY <1>7, <1>4
  <2>4. HasWriter
    BY <1>0, <1>7 DEF RdIn, RdInside, WrIn, RdWaits, WrWaits, HasWriter
  <2>5. QED
    BY <1>1, <1>2, <2>1, <2>2, <2>3, <2>4, CountForm DEF Numbers, Balanced, Adds, Turns
<1>8. CASE /\ ~ReadIsFree /\ rw' = [rw EXCEPT !.rd_wait = @ + 1] /\ Goto(t, "wait_rd") /\ UNCHANGED held
  <2>1. Adds(0, 0, 0, 1, 0) /\ HasWriter' = HasWriter
    BY <1>0, <1>8 DEF MRSW_LOCK_T, Adds, RdIn, RdInside, WrIn, RdWaits, WrWaits, HasWriter
  <2>2. Turns(0, 0, 0, 1, 0)
    BY <1>0, <1>8, TurnsTo
  <2>3. IsFiniteSet(Granted)' /\ Given' = Given
    BY <1>8, <1>5
  <2>4. ~(WrIn = 0 /\ RdWaits = 0 /\ WrWaits = 0)
    BY <1>0, <1>8 DEF ReadIsFree, RdIn, RdInside, WrIn, RdWaits, WrWaits, HasWriter
  <2>5. QED
    BY <1>1, <1>2, <2>1, <2>2, <2>3, <2>4, CountForm DEF Numbers, Balanced, Adds, Turns
<1>9. CASE /\ WriteIsFree /\ rw' = [rw EXCEPT !.wr_access = @ + 1, !.h_wr_thread = t]
           /\ Gets(t, "W") /\ UNCHANGED pc
  <2>1. Adds(0, 0, 1, 0, 0) /\ HasWriter'
    BY <1>0, <1>9 DEF MRSW_LOCK_T, Adds, RdIn, RdInside, WrIn, RdWaits, WrWaits, HasWriter
  <2>2. Turns(0, 0, 0, 0, 0)
    BY <1>9, <1>3
  <2>3. IsFiniteSet(Granted)' /\ Given' = Given + 1
    BY <1>9, <1>4
  <2>4. RdIn = 0
    BY <1>0, <1>9 DEF WriteIsFree, Idle, RdIn, RdInside, WrIn, RdWaits, WrWaits, HasWriter
  <2>5. QED
    BY <1>1, <1>2, <2>1, <2>2, <2>3, <2>4, CountForm DEF Numbers, Balanced, Adds, Turns
<1>10. CASE /\ WriteIsMine(t) /\ rw' = [rw EXCEPT !.wr_access = @ + 1] /\ Gets(t, "W") /\ UNCHANGED pc
  <2>1. Adds(0, 0, 1, 0, 0) /\ HasWriter' = HasWriter
    BY <1>0, <1>10 DEF MRSW_LOCK_T, Adds, RdIn, RdInside, WrIn, RdWaits, WrWaits, HasWriter
  <2>2. Turns(0, 0, 0, 0, 0)
    BY <1>10, <1>3
  <2>3. IsFiniteSet(Granted)' /\ Given' = Given + 1
    BY <1>10, <1>4
  <2>4. RdIn = 0
    BY <1>0, <1>10 DEF WriteIsMine, RdIn, RdInside, WrIn, RdWaits, WrWaits, HasWriter
  <2>5. QED
    BY <1>1, <1>2, <2>1, <2>2, <2>3, <2>4, CountForm DEF Numbers, Balanced, Adds, Turns
<1>11. CASE /\ ~WriteIsFree /\ rw' = [rw EXCEPT !.wr_wait = @ + 1] /\ Goto(t, "wait_wr") /\ UNCHANGED held
  <2>1. Adds(0, 0, 0, 0, 1) /\ HasWriter' = HasWriter
    BY <1>0, <1>11 DEF MRSW_LOCK_T, Adds, RdIn, RdInside, WrIn, RdWaits, WrWaits, HasWriter
  <2>2. Turns(0, 0, 0, 0, 1)
    BY <1>0, <1>11, TurnsTo
  <2>3. IsFiniteSet(Granted)' /\ Given' = Given
    BY <1>11, <1>5
  <2>4. ~(WrIn = 0 /\ WrWaits = 0 /\ RdIn = 0 /\ RdWaits = 0)
    BY <1>0, <1>11 DEF WriteIsFree, Idle, RdIn, RdInside, WrIn, RdWaits, WrWaits, HasWriter
  <2>5. QED
    BY <1>1, <1>2, <2>1, <2>2, <2>3, <2>4, CountForm DEF Numbers, Balanced, Adds, Turns
<1>12. QED
  BY <1>6, <1>7, <1>8, <1>9, <1>10, <1>11 DEF ReadLock, WriteLock

\* The steps of a call that waits, of the thread that wakes it, and of a delete keep the
\* counters exact.
LEMMA CallCounts ==
  ASSUME RwLockAssumption, TypeOK, CountInv, NEW t \in Threads,
         \/ ReadGranted(t) \/ WriteGranted(t) \/ WriteOwn(t) \/ Post(t)
         \/ Delete(t) \/ FreeHandle(t) \/ FreeObject(t)
  PROVE  CountInv'
<1>0. /\ rw \in MRSW_LOCK_T /\ Nobody # t
      /\ {"run", "own", "free", "dispose"} \subseteq Place
  BY DEF TypeOK, RwLockAssumption, Place
<1>1. Numbers /\ IsFiniteSet(Granted) /\ Balanced
  BY NumbersType
<1>2. ASSUME UNCHANGED rw PROVE Adds(0, 0, 0, 0, 0) /\ HasWriter' = HasWriter
  BY <1>1, <1>2 DEF Numbers, Adds, RdIn, RdInside, WrIn, RdWaits, WrWaits, HasWriter
<1>3. ASSUME NEW k \in {"R", "W"}, Gets(t, k) PROVE IsFiniteSet(Granted)' /\ Given' = Given + 1
  BY <1>1, <1>3, Gives DEF Given
<1>4. ASSUME UNCHANGED held PROVE IsFiniteSet(Granted)' /\ Given' = Given
  BY <1>1, <1>4 DEF Granted, Given
<1>5. CASE ReadGranted(t)
  <2>1. Adds(0, 0, 0, 0, 0) /\ HasWriter' = HasWriter
    BY <1>2, <1>5 DEF ReadGranted
  <2>2. Turns(0, 0, 0, -1, 0)
    BY <1>0, <1>5, TurnsTo DEF ReadGranted
  <2>3. IsFiniteSet(Granted)' /\ Given' = Given + 1
    BY <1>5, <1>3 DEF ReadGranted
  <2>4. sem_rd > 0 /\ sem_rd' = sem_rd - 1 /\ sem_wr' = sem_wr
    BY <1>5 DEF ReadGranted
  <2>5. QED
    BY <1>1, <2>1, <2>2, <2>3, <2>4, CountForm DEF Numbers, Balanced, Adds, Turns
<1>6. CASE WriteGranted(t)
  <2>1. Adds(0, 0, 0, 0, 0) /\ HasWriter' = HasWriter
    BY <1>2, <1>6 DEF WriteGranted
  <2>2. Turns(0, 0, 1, 0, -1)
    BY <1>0, <1>6, TurnsTo DEF WriteGranted
  <2>3. IsFiniteSet(Granted)' /\ Given' = Given
    BY <1>6, <1>4 DEF WriteGranted
  <2>4. sem_wr > 0 /\ sem_wr' = sem_wr - 1 /\ sem_rd' = sem_rd
    BY <1>6 DEF WriteGranted
  <2>5. QED
    BY <1>1, <2>1, <2>2, <2>3, <2>4, CountForm DEF Numbers, Balanced, Adds, Turns
<1>7. CASE WriteOwn(t)
  <2>1. Adds(0, 0, 0, 0, 0) /\ HasWriter'
    BY <1>0, <1>1, <1>7 DEF WriteOwn, MRSW_LOCK_T, Numbers, Adds, RdIn, RdInside,
           WrIn, RdWaits, WrWaits, HasWriter
  <2>2. Turns(0, 0, -1, 0, 0)
    BY <1>0, <1>7, TurnsTo DEF WriteOwn
  <2>3. IsFiniteSet(Granted)' /\ Given' = Given + 1
    BY <1>7, <1>3 DEF WriteOwn
  <2>4. Owns >= 1 /\ sem_rd' = sem_rd /\ sem_wr' = sem_wr
    <3>1. pc[t] = "own" /\ Goto(t, "run")
      BY <1>7 DEF WriteOwn
    <3>2. NumAt["own"] >= 1
      BY <1>0, <3>1, Moves
    <3>3. QED
      BY <1>7, <3>2 DEF WriteOwn, Owns
  <2>5. QED
    BY <1>1, <2>1, <2>2, <2>3, <2>4, CountForm DEF Numbers, Balanced, Adds, Turns
<1>8. CASE pc[t] = "post_rd" /\ Post(t)
  <2>1. Adds(0, 0, 0, 0, 0) /\ HasWriter' = HasWriter
    BY <1>2, <1>8 DEF Post
  <2>2. Turns(-1, 0, 0, 0, 0)
    BY <1>0, <1>8, TurnsTo DEF Post
  <2>3. IsFiniteSet(Granted)' /\ Given' = Given
    BY <1>8, <1>4 DEF Post
  <2>4. sem_rd' = sem_rd + 1 /\ sem_wr' = sem_wr
    BY <1>8 DEF Post
  <2>5. QED
    BY <1>1, <2>1, <2>2, <2>3, <2>4, CountForm DEF Numbers, Balanced, Adds, Turns
<1>9. CASE pc[t] = "post_wr" /\ Post(t)
  <2>1. Adds(0, 0, 0, 0, 0) /\ HasWriter' = HasWriter
    BY <1>2, <1>9 DEF Post
  <2>2. Turns(0, -1, 0, 0, 0)
    BY <1>0, <1>9, TurnsTo DEF Post
  <2>3. IsFiniteSet(Granted)' /\ Given' = Given
    BY <1>9, <1>4 DEF Post
  <2>4. sem_wr' = sem_wr + 1 /\ sem_rd' = sem_rd
    BY <1>9 DEF Post
  <2>5. QED
    BY <1>1, <2>1, <2>2, <2>3, <2>4, CountForm DEF Numbers, Balanced, Adds, Turns
<1>10. CASE Delete(t)
  <2>1. Adds(0, 0, 0, 0, 0) /\ HasWriter' = HasWriter
    BY <1>0, <1>1, <1>10 DEF Delete, MRSW_LOCK_T, Numbers, Adds, RdIn, RdInside,
           WrIn, RdWaits, WrWaits, HasWriter
  <2>2. Turns(0, 0, 0, 0, 0)
    BY <1>0, <1>10, TurnsTo DEF Delete
  <2>3. IsFiniteSet(Granted)' /\ Given' = Given
    BY <1>10, <1>4 DEF Delete
  <2>4. sem_rd' = sem_rd /\ sem_wr' = sem_wr
    BY <1>10 DEF Delete
  <2>5. QED
    BY <1>1, <2>1, <2>2, <2>3, <2>4, CountForm DEF Numbers, Balanced, Adds, Turns
<1>11. CASE FreeHandle(t) \/ FreeObject(t)
  <2>1. Adds(0, 0, 0, 0, 0) /\ HasWriter' = HasWriter
    BY <1>2, <1>11 DEF FreeHandle, FreeObject
  <2>2. Turns(0, 0, 0, 0, 0)
    BY <1>0, <1>11, TurnsTo DEF FreeHandle, FreeObject
  <2>3. IsFiniteSet(Granted)' /\ Given' = Given
    BY <1>11, <1>4 DEF FreeHandle, FreeObject
  <2>4. sem_rd' = sem_rd /\ sem_wr' = sem_wr
    BY <1>11 DEF FreeHandle, FreeObject
  <2>5. QED
    BY <1>1, <2>1, <2>2, <2>3, <2>4, CountForm DEF Numbers, Balanced, Adds, Turns
<1>12. QED
  BY <1>5, <1>6, <1>7, <1>8, <1>9, <1>10, <1>11 DEF Post

\* Releasing keeps the counters exact: a lock that is handed over is the last one that
\* was held, so nothing else is on its way.
LEMMA ReleaseCounts ==
  ASSUME RwLockAssumption, TypeOK, CountInv, NEW t \in Threads,
         ReleaseInside(t) \/ ReleaseRead(t) \/ ReleaseWrite(t)
  PROVE  CountInv'
<1>0. /\ rw \in MRSW_LOCK_T /\ pc[t] = "run" /\ Releases(t)
      /\ {"run", "free", "post_rd", "post_wr"} \subseteq Place
  BY DEF TypeOK, Place, ReleaseInside, ReleaseRead, ReleaseWrite, Releases
<1>1. Numbers /\ IsFiniteSet(Granted) /\ Balanced
  BY NumbersType
<1>2. sem_rd' = sem_rd /\ sem_wr' = sem_wr
  BY <1>0 DEF Releases
<1>3. IsFiniteSet(Granted)' /\ Given >= 1 /\ Given' = Given - 1
  BY <1>0, <1>1, TakesBack DEF Given
<1>4. ASSUME NEW l, Leave(t, l) PROVE Turns(0, 0, 0, 0, 0)
  BY <1>0, <1>4, TurnsTo DEF Leave
<1>5. CASE ReleaseInside(t)
  <2>1. Adds(0, -1, 0, 0, 0) /\ HasWriter' = HasWriter
    BY <1>0, <1>5 DEF ReleaseInside, MRSW_LOCK_T, Adds, RdIn, RdInside,
           WrIn, RdWaits, WrWaits, HasWriter
  <2>2. Turns(0, 0, 0, 0, 0)
    <3>1. NumAt' = NumAt
      BY <1>5, Stays DEF ReleaseInside
    <3>2. QED
      BY <1>1, <3>1 DEF Numbers, Turns, PostRd, PostWr, Owns, AtRd, AtWr
  <2>3. RdInside > 0
    BY <1>5 DEF ReleaseInside, RdInside
  <2>4. QED
    BY <1>1, <1>2, <1>3, <2>1, <2>2, <2>3, CountForm DEF Numbers, Balanced, Adds, Turns
<1>6. CASE ReleaseRead(t)
  <2> DEFINE l == [rw EXCEPT !.rd_access = @ - 1]
  <2>1. CASE /\ l.rd_wait > 0 /\ l.rd_access = 0
             /\ rw' = [l EXCEPT !.rd_wait = @ - 1, !.rd_access = @ + 1]
             /\ Goto(t, "post_rd")
    <3>1. Adds(0, 0, 0, -1, 0) /\ HasWriter' = HasWriter
      BY <1>0, <1>6, <2>1 DEF ReleaseRead, MRSW_LOCK_T, Adds, RdIn, RdInside,
             WrIn, RdWaits, WrWaits, HasWriter
    <3>2. Turns(1, 0, 0, 0, 0)
      BY <1>0, <2>1, TurnsTo
    <3>3. RdInside = 0 /\ RdIn = 1 /\ RdWaits > 0
      BY <1>0, <1>6, <2>1 DEF ReleaseRead, MRSW_LOCK_T, RdIn, RdInside, WrIn, RdWaits, WrWaits
    <3>4. QED
      BY <1>1, <1>2, <1>3, <3>1, <3>2, <3>3, CountForm DEF Numbers, Balanced, Adds, Turns
  <2>2. CASE /\ l.rd_wait = 0 /\ l.rd_access = 0 /\ l.wr_wait > 0
             /\ rw' = [l EXCEPT !.wr_wait = @ - 1, !.wr_access = @ + 1]
             /\ Goto(t, "post_wr")
    <3>1. Adds(-1, 0, 1, 0, -1) /\ HasWriter' = HasWriter
      BY <1>0, <1>6, <2>2 DEF ReleaseRead, MRSW_LOCK_T, Adds, RdIn, RdInside,
             WrIn, RdWaits, WrWaits, HasWriter
    <3>2. Turns(0, 1, 0, 0, 0)
      BY <1>0, <2>2, TurnsTo
    <3>3. RdInside = 0 /\ RdIn = 1 /\ RdWaits = 0 /\ WrWaits > 0
      BY <1>0, <1>6, <2>2 DEF ReleaseRead, MRSW_LOCK_T, RdIn, RdInside, WrIn, RdWaits, WrWaits
    <3>4. QED
      BY <1>1, <1>2, <1>3, <3>1, <3>2, <3>3, CountForm DEF Numbers, Balanced, Adds, Turns
  <2>3. CASE /\ l.rd_access > 0 \/ (l.rd_wait = 0 /\ l.wr_wait = 0)
             /\ rw' = l /\ Leave(t, l)
    <3>1. Adds(-1, 0, 0, 0, 0) /\ HasWriter' = HasWriter
      BY <1>0, <1>6, <2>3 DEF ReleaseRead, MRSW_LOCK_T, Adds, RdIn, RdInside,
             WrIn, RdWaits, WrWaits, HasWriter
    <3>2. Turns(0, 0, 0, 0, 0)
      BY <1>4, <2>3
    <3>3. RdInside = 0 /\ RdIn > 0 /\ (RdIn > 1 \/ (RdWaits = 0 /\ WrWaits = 0))
      BY <1>0, <1>6, <2>3 DEF ReleaseRead, MRSW_LOCK_T, RdIn, RdInside, WrIn, RdWaits, WrWaits
    <3>4. QED
      BY <1>1, <1>2, <1>3, <3>1, <3>2, <3>3, CountForm DEF Numbers, Balanced, Adds, Turns
  <2>4. QED
    BY <1>6, <2>1, <2>2, <2>3 DEF ReleaseRead
<1>7. CASE ReleaseWrite(t)
  <2> DEFINE l == [rw EXCEPT !.wr_access = @ - 1,
                             !.h_wr_thread = IF rw.wr_access = 1 THEN Nobody ELSE @]
  <2>1. CASE /\ l.wr_access = 0 /\ l.wr_wait > 0
             /\ rw' = [l EXCEPT !.wr_wait = @ - 1, !.wr_access = @ + 1, !.h_wr_thread = t]
             /\ Goto(t, "post_wr")
    <3>1. Adds(0, 0, 0, 0, -1) /\ HasWriter' \in BOOLEAN
      BY <1>0, <1>7, <2>1 DEF ReleaseWrite, MRSW_LOCK_T, Adds, RdIn, RdInside,
             WrIn, RdWaits, WrWaits, HasWriter
    <3>2. Turns(0, 1, 0, 0, 0)
      BY <1>0, <2>1, TurnsTo
    <3>3. RdInside = 0 /\ RdIn = 0 /\ WrIn = 1 /\ WrWaits > 0
      BY <1>0, <1>7, <2>1 DEF ReleaseWrite, MRSW_LOCK_T, RdIn, RdInside, WrIn, RdWaits, WrWaits
    <3>4. QED
      BY <1>1, <1>2, <1>3, <3>1, <3>2, <3>3, CountForm DEF Numbers, Balanced, Adds, Turns
  <2>2. CASE /\ l.wr_access = 0 /\ l.wr_wait = 0 /\ l.rd_wait > 0
             /\ rw' = [l EXCEPT !.rd_wait = @ - 1, !.rd_access = @ + 1]
             /\ Goto(t, "post_rd")
    <3>1. Adds(1, 0, -1, -1, 0) /\ ~HasWriter'
      BY <1>0, <1>7, <2>2 DEF ReleaseWrite, MRSW_LOCK_T, Adds, RdIn, RdInside,
             WrIn, RdWaits, WrWaits, HasWriter
    <3>2. Turns(1, 0, 0, 0, 0)
      BY <1>0, <2>2, TurnsTo
    <3>3. RdInside = 0 /\ RdIn = 0 /\ WrIn = 1 /\ RdWaits > 0 /\ WrWaits = 0
      BY <1>0, <1>7, <2>2 DEF ReleaseWrite, MRSW_LOCK_T, RdIn, RdInside, WrIn, RdWaits, WrWaits
    <3>4. QED
      BY <1>1, <1>2, <1>3, <3>1, <3>2, <3>3, CountForm DEF Numbers, Balanced, Adds, Turns
  <2>3. CASE /\ l.wr_access > 0 \/ (l.wr_wait = 0 /\ l.rd_wait = 0)
             /\ rw' = l /\ Leave(t, l)
    <3>1. Adds(0, 0, -1, 0, 0) /\ (WrIn = 1 => ~HasWriter')
      BY <1>0, <1>7, <2>3 DEF ReleaseWrite, MRSW_LOCK_T, Adds, RdIn, RdInside,
             WrIn, RdWaits, WrWaits, HasWriter
    <3>2. Turns(0, 0, 0, 0, 0)
      BY <1>4, <2>3
    <3>3. RdInside = 0 /\ RdIn = 0 /\ WrIn > 0 /\ (WrIn > 1 \/ (WrWaits = 0 /\ RdWaits = 0))
      BY <1>0, <1>7, <2>3 DEF ReleaseWrite, MRSW_LOCK_T, RdIn, RdInside, WrIn, RdWaits, WrWaits
    <3>4. QED
      BY <1>1, <1>2, <1>3, <3>1, <3>2, <3>3, CountForm DEF Numbers, Balanced, Adds, Turns
  <2>4. QED
    BY <1>7, <2>1, <2>2, <2>3 DEF ReleaseWrite
<1>8. QED
  BY <1>5, <1>6, <1>7

\* Every step keeps the balance.
LEMMA CountStep ==
  ASSUME RwLockAssumption, TypeOK, CountInv, [Next]_vars
  PROVE  CountInv'
<1>1. ASSUME NEW t \in Readers, ReadLock(t) PROVE CountInv'
  BY <1>1, LockCounts DEF Threads
<1>2. ASSUME NEW t \in Writers, WriteLock(t) PROVE CountInv'
  BY <1>2, LockCounts DEF Threads
<1>3. ASSUME NEW t \in Deleters, Delete(t) PROVE CountInv'
  BY <1>3, CallCounts DEF Threads
<1>4. ASSUME NEW t \in Threads, Continue(t) PROVE CountInv'
  BY <1>4, CallCounts, ReleaseCounts DEF Continue
<1>5. CASE UNCHANGED vars
  <2>1. rw' = rw /\ sem_rd' = sem_rd /\ sem_wr' = sem_wr /\ NumAt' = NumAt /\ Granted' = Granted
    BY <1>5 DEF vars, NumAt, At, Granted
  <2>2. QED
    BY <2>1 DEF CountInv, Accounting, NoAbort, WaitersHaveHolder, OneHandOver
<1>6. QED
  BY <1>1, <1>2, <1>3, <1>4, <1>5 DEF Next
-----------------------------------------------------------------------------
\* After a step that leaves nothing given, no thread has a lock.
LEMMA NoneLeft ==
  ASSUME TypeOK', IsFiniteSet(Granted'), Given' = 0
  PROVE  \A t \in Threads : held'[t] = <<>>
<1>1. SUFFICES ASSUME NEW t \in Threads PROVE held'[t] = <<>>
  OBVIOUS
<1>2. Granted' = {}
  BY FS_EmptySet DEF Given
<1>3. \A i \in DOMAIN held'[t] : <<t, i>> \in Granted'
  BY DEF Granted
<1>4. held'[t] \in Seq({"R", "W"})
  BY DEF TypeOK
<1>5. held'[t] # <<>> => Len(held'[t]) \in Nat \ {0} /\ 1 \in DOMAIN held'[t]
  BY <1>4, EmptySeq, LenProperties
<1>6. QED
  BY <1>2, <1>3, <1>5

\* When a step takes the four counters to zero, no thread has the lock, waits for it or
\* is about to hand it over: the counters alone tell the deleter that it may free.
LEMMA IdleIsQuiet ==
  ASSUME RwLockAssumption, TypeOK', CountInv', Idle(rw')
  PROVE  Quiet'
<1>1. /\ rw' \in MRSW_LOCK_T /\ sem_rd' \in Nat /\ sem_wr' \in Nat /\ IsFiniteSet(Granted')
      /\ pc' \in [Threads -> Place] /\ held' \in [Threads -> Seq({"R", "W"})]
  BY DEF TypeOK, CountInv
<1>2. \A p : IsFiniteSet(At(p)')
  <2>1. ASSUME NEW p PROVE At(p)' \in SUBSET Threads
    BY DEF At
  <2>2. QED
    BY <2>1, FS_Subset DEF RwLockAssumption
<1>3. NumAt' \in [Place -> Nat] /\ Cardinality(Granted') \in Nat
  BY <1>1, <1>2, FS_CardinalityType DEF NumAt
<1>4. /\ RdIn' = 0 /\ WrIn' = 0 /\ RdWaits' = 0 /\ WrWaits' = 0 /\ RdInside' \in Nat
  BY <1>1 DEF MRSW_LOCK_T, Idle, RdIn, WrIn, RdWaits, WrWaits, RdInside
<1>5. /\ PostRd' \in Nat /\ PostWr' \in Nat /\ Owns' \in Nat /\ AtRd' \in Nat /\ AtWr' \in Nat
      /\ Given' \in Nat
  BY <1>3 DEF Place, PostRd, PostWr, Owns, AtRd, AtWr, Given
<1>6. /\ PostRd' = 0 /\ PostWr' = 0 /\ Owns' = 0 /\ AtRd' = 0 /\ AtWr' = 0 /\ Given' = 0
  <2>1. Balanced' /\ sem_rd' \in Nat /\ sem_wr' \in Nat
    BY <1>1, CountForm
  <2>2. RdInside' = 0
    BY <1>4, <2>1 DEF Balanced
  <2>3. Given' + PostRd' + PostWr' + sem_rd' + sem_wr' + Owns' = 0
    BY <1>4, <2>1, <2>2 DEF Balanced
  <2>4. 0 + PostRd' + sem_rd' = AtRd' /\ 0 + PostWr' + sem_wr' = AtWr'
    BY <1>4, <2>1 DEF Balanced
  <2>5. \A a, b, c, d, e, f \in Nat : a + b + c + d + e + f = 0 =>
          a = 0 /\ b = 0 /\ c = 0 /\ d = 0 /\ e = 0 /\ f = 0
    OBVIOUS
  <2>6. Given' = 0 /\ PostRd' = 0 /\ PostWr' = 0 /\ sem_rd' = 0 /\ sem_wr' = 0 /\ Owns' = 0
    BY <1>1, <1>5, <2>3, <2>5
  <2>7. QED
    BY <2>4, <2>6
<1>7. \A p \in {"post_rd", "post_wr", "own", "wait_rd", "wait_wr"} : At(p)' = {}
  <2>1. \A p \in {"post_rd", "post_wr", "own", "wait_rd", "wait_wr"} : Cardinality(At(p)') = 0
    BY <1>6 DEF PostRd, PostWr, Owns, AtRd, AtWr, NumAt, Place
  <2>2. QED
    BY <1>2, <2>1, FS_EmptySet
<1>8. \A t \in Threads : held'[t] = <<>>
  BY <1>1, <1>6, NoneLeft
<1>9. ASSUME NEW t \in Threads PROVE pc'[t] \in {"run", "free", "dispose"}
  BY <1>1, <1>7 DEF At, Place
<1>10. QED
  BY <1>8, <1>9 DEF Quiet

\* While somebody uses the lock or it is not marked, it is there and nobody frees it.
LEMMA InUse ==
  ASSUME FreeInv, ~(rw.b_del_flag /\ Quiet)
  PROVE  valid /\ ~freed /\ \A t \in Threads : pc[t] \notin {"free", "dispose"}
BY DEF FreeInv, Frees

\* Nor does it go away in a step of a thread that uses it.
LEMMA StaysInUse ==
  ASSUME valid, ~freed, \A u \in Threads : pc[u] \notin {"free", "dispose"},
         NEW t \in Threads, NEW q \in Place \ {"free", "dispose"}, TypeOK,
         Goto(t, q) \/ UNCHANGED pc, UNCHANGED <<valid, freed>>
  PROVE  FreeInv'
<1>1. \A u \in Threads : pc'[u] \notin {"free", "dispose"}
  BY DEF Goto, TypeOK
<1>2. QED
  BY <1>1 DEF FreeInv, Frees

\* The last user frees: it finds the lock marked and idle.
LEMMA LastUserFrees ==
  ASSUME RwLockAssumption, TypeOK, TypeOK', CountInv', valid, ~freed,
         \A u \in Threads : pc[u] \notin {"free", "dispose"},
         NEW t \in Threads, Goto(t, "free"), UNCHANGED <<valid, freed>>,
         rw'.b_del_flag, Idle(rw')
  PROVE  FreeInv'
<1>1. \A u \in Threads : pc'[u] = IF u = t THEN "free" ELSE pc[u]
  BY DEF Goto, TypeOK
<1>2. Quiet'
  BY IdleIsQuiet
<1>3. QED
  BY <1>1, <1>2 DEF FreeInv, Frees

\* No step touches what a deletion has freed.
LEMMA FreeStep ==
  ASSUME RwLockAssumption, TypeOK, CountInv, TypeOK', CountInv', FreeInv, [Next]_vars
  PROVE  FreeInv'
<1>1. ASSUME NEW t \in Threads, ReadLock(t) \/ WriteLock(t) PROVE FreeInv'
  <2>1. valid /\ ~freed /\ \A u \in Threads : pc[u] \notin {"free", "dispose"}
    BY <1>1, InUse DEF ReadLock, WriteLock, Usable
  <2>2. QED
    BY <1>1, <2>1, StaysInUse DEF ReadLock, WriteLock, Place
<1>2. ASSUME NEW t \in Threads, Delete(t) PROVE FreeInv'
  <2>1. valid /\ ~freed /\ \A u \in Threads : pc[u] \notin {"free", "dispose"}
    BY <1>2, InUse DEF Delete, Usable
  <2>2. CASE Idle(rw)
    <3>1. rw'.b_del_flag /\ Idle(rw') /\ Goto(t, "free") /\ UNCHANGED <<valid, freed>>
      BY <1>2, <2>2 DEF Delete, Idle, TypeOK, MRSW_LOCK_T
    <3>2. QED
      BY <2>1, <3>1, LastUserFrees
  <2>3. CASE ~Idle(rw)
    BY <1>2, <2>1, <2>3, StaysInUse DEF Delete, Place
  <2>4. QED
    BY <2>2, <2>3
<1>3. ASSUME NEW t \in Threads, ReadGranted(t) \/ WriteGranted(t) \/ WriteOwn(t) \/ Post(t)
      PROVE  FreeInv'
  <2>1. valid /\ ~freed /\ \A u \in Threads : pc[u] \notin {"free", "dispose"}
    BY <1>3, InUse DEF ReadGranted, WriteGranted, WriteOwn, Post, Quiet
  <2>2. QED
    BY <1>3, <2>1, StaysInUse DEF ReadGranted, WriteGranted, WriteOwn, Post, Place
<1>4. ASSUME NEW t \in Threads, ReleaseInside(t) \/ ReleaseRead(t) \/ ReleaseWrite(t)
      PROVE  FreeInv'
  <2>1. Releases(t)
    BY <1>4 DEF ReleaseInside, ReleaseRead, ReleaseWrite
  <2>2. valid /\ ~freed /\ \A u \in Threads : pc[u] \notin {"free", "dispose"}
    BY <2>1, InUse DEF Releases, Quiet
  <2>3. UNCHANGED <<valid, freed>>
    BY <2>1 DEF Releases
  <2>4. \/ UNCHANGED pc \/ Goto(t, "post_rd") \/ Goto(t, "post_wr") \/ Leave(t, rw')
    BY <1>4 DEF ReleaseInside, ReleaseRead, ReleaseWrite
  <2>5. CASE Leave(t, rw') /\ rw'.b_del_flag /\ Idle(rw')
    BY <2>2, <2>3, <2>5, LastUserFrees DEF Leave
  <2>6. CASE UNCHANGED pc \/ \E q \in {"post_rd", "post_wr", "run"} : Goto(t, q)
    BY <2>2, <2>3, <2>6, StaysInUse DEF Place
  <2>7. QED
    BY <2>4, <2>5, <2>6 DEF Leave
<1>5. ASSUME NEW t \in Threads, FreeHandle(t) \/ FreeObject(t) PROVE FreeInv'
  <2>1. Frees(t) /\ rw.b_del_flag /\ Quiet
    BY <1>5 DEF FreeHandle, FreeObject, FreeInv, Frees
  <2>2. Quiet' /\ rw'.b_del_flag
    BY <1>5, <2>1 DEF FreeHandle, FreeObject, Quiet, Goto, TypeOK
  <2>3. \A u \in Threads : u # t => pc'[u] = pc[u] /\ pc[u] \notin {"free", "dispose"}
    BY <1>5, <2>1 DEF FreeHandle, FreeObject, FreeInv, Frees, Goto, TypeOK
  <2>4. CASE FreeHandle(t)
    <3>1. pc'[t] = "dispose" /\ ~valid' /\ ~freed'
      BY <2>1, <2>4 DEF FreeHandle, Goto, TypeOK, rwl_handle_cb, FreeInv
    <3>2. QED
      BY <2>2, <2>3, <3>1 DEF FreeInv, Frees
  <2>5. CASE FreeObject(t)
    <3>1. pc'[t] = "run" /\ ~valid' /\ freed'
      BY <2>1, <2>5 DEF FreeObject, Goto, TypeOK, FreeInv
    <3>2. QED
      BY <2>2, <2>3, <3>1 DEF FreeInv, Frees
  <2>6. QED
    BY <1>5, <2>4, <2>5
<1>6. CASE UNCHANGED vars
  BY <1>6 DEF vars, FreeInv, Frees, Quiet
<1>7. QED
  BY <1>1, <1>2, <1>3, <1>4, <1>5, <1>6 DEF Next, Continue, Threads
-----------------------------------------------------------------------------
\* The inductive invariant.
LockInv == TypeOK /\ CountInv /\ FreeInv

\* LockInv at the start.
LEMMA LockInit ==
  ASSUME RwLockAssumption, Init
  PROVE  LockInv
<1>1. TypeOK
  <2>1. rw \in MRSW_LOCK_T
    BY DEF Init, MRSW_LOCK_T
  <2>2. held \in [Threads -> Seq({"R", "W"})]
    BY EmptySeq DEF Init
  <2>3. pc \in [Threads -> Place] /\ calls \in [Threads -> 0 .. MaxCalls]
    BY DEF Init, Place, RwLockAssumption
  <2>4. QED
    BY <2>1, <2>2, <2>3 DEF Init, TypeOK
<1>2. FreeInv
  BY DEF Init, FreeInv, Frees
<1>3. Granted = {}
  BY DEF Init, Granted
<1>4. \A p \in Place : p # "run" => At(p) = {}
  BY DEF Init, At
<1>5. Cardinality({}) = 0 /\ IsFiniteSet({})
  BY FS_EmptySet
<1>6. \A p \in Place : p # "run" => NumAt[p] = 0
  BY <1>4, <1>5 DEF NumAt
<1>7. /\ PostRd = 0 /\ PostWr = 0 /\ Owns = 0 /\ AtRd = 0 /\ AtWr = 0
  BY <1>6 DEF Place, PostRd, PostWr, Owns, AtRd, AtWr
<1>8. /\ RdIn = 0 /\ RdInside = 0 /\ WrIn = 0 /\ RdWaits = 0 /\ WrWaits = 0 /\ ~HasWriter
      /\ Given = 0 /\ IsFiniteSet(Granted) /\ sem_rd = 0 /\ sem_wr = 0
  BY <1>3, <1>5 DEF Init, RdIn, RdInside, WrIn, RdWaits, WrWaits, HasWriter, Given
<1>9. QED
  BY <1>1, <1>2, <1>7, <1>8, CountForm DEF Balanced, LockInv

\* LockInv is inductive.
LEMMA LockStep ==
  ASSUME RwLockAssumption, LockInv, [Next]_vars
  PROVE  LockInv'
BY TypeStep, CountStep, FreeStep DEF LockInv

\* What the invariant says of who frees, in the words of NoUseAfterFree.
LEMMA FreeIsSafe ==
  ASSUME LockInv
  PROVE  NoUseAfterFree
<1>1. Cardinality(At("free") \cup At("dispose")) <= 1
  <2>1. CASE \E t \in Threads : Frees(t)
    <3>1. PICK t \in Threads : Frees(t)
      BY <2>1
    <3>2. At("free") \cup At("dispose") = {t}
      BY <3>1 DEF At, Frees, LockInv, FreeInv
    <3>3. QED
      BY <3>2, FS_Singleton
  <2>2. CASE \A t \in Threads : ~Frees(t)
    <3>1. At("free") \cup At("dispose") = {}
      BY <2>2 DEF At, Frees
    <3>2. QED
      BY <3>1, FS_EmptySet
  <2>3. QED
    BY <2>1, <2>2
<1>2. QED
  BY <1>1 DEF NoUseAfterFree, LockInv, FreeInv, At, Frees, Quiet

\* For any finite set of threads: the counters of the lock count what was given and
\* what is on its way to a waiter, once each; readers and writers are never counted in
\* together, so the ABORTs of u_rwl_release_lock are not reached; nobody waits for a
\* lock that nobody has; one hand-over is on its way at a time; and
\* _free_rwlock_resource runs once, when the last user has left.
THEOREM RwLockSafe ==
  ASSUME RwLockAssumption
  PROVE  Spec => [](/\ TypeOK /\ NoAbort /\ Accounting /\ WaitersHaveHolder
                    /\ OneHandOver /\ NoUseAfterFree)
<1>1. Init => LockInv
  BY LockInit
<1>2. LockInv /\ [Next]_vars => LockInv'
  BY LockStep
<1>3. LockInv => /\ TypeOK /\ NoAbort /\ Accounting /\ WaitersHaveHolder
                 /\ OneHandOver /\ NoUseAfterFree
  BY FreeIsSafe DEF LockInv, CountInv
<1>4. QED
  BY <1>1, <1>2, <1>3, PTL DEF Spec

-----------------------------------------------------------------------------
\* One writer, the use the lock is made for.

\* Nothing is given exactly when every thread has nothing.
LEMMA NoneGiven ==
  ASSUME TypeOK, IsFiniteSet(Granted)
  PROVE  Given = 0 <=> \A t \in Threads : held[t] = <<>>
<1>1. ASSUME Given = 0, NEW t \in Threads PROVE held[t] = <<>>
  <2>1. Granted = {}
    BY <1>1, FS_EmptySet DEF Given
  <2>2. \A i \in DOMAIN held[t] : <<t, i>> \in Granted
    BY DEF Granted
  <2>3. held[t] \in Seq({"R", "W"})
    BY DEF TypeOK
  <2>4. held[t] # <<>> => Len(held[t]) \in Nat \ {0} /\ 1 \in DOMAIN held[t]
    BY <2>3, EmptySeq, LenProperties
  <2>5. QED
    BY <2>1, <2>2, <2>4
<1>2. ASSUME \A t \in Threads : held[t] = <<>> PROVE Given = 0
  <2>1. Granted = {}
    BY <1>2 DEF Granted
  <2>2. QED
    BY <2>1, FS_EmptySet DEF Given
<1>3. QED
  BY <1>1, <1>2

\* Adding to, and taking from, a sequence of locks.
LEMMA Push ==
  ASSUME NEW s \in Seq({"R", "W"}), NEW k \in {"R", "W"}
  PROVE  /\ s = <<>> => Append(s, k) = <<k>>
         /\ Append(s, k) # <<>>
         /\ Len(Append(s, k)) = Len(s) + 1 /\ Len(s) \in Nat
         /\ \A i \in DOMAIN Append(s, k) :
              i \in 1 .. Len(s) + 1 /\ Append(s, k)[i] = IF i = Len(s) + 1 THEN k ELSE s[i]
<1>1. Append(s, k) \in Seq({"R", "W"}) /\ Len(s) \in Nat /\ Len(Append(s, k)) = Len(s) + 1
  OBVIOUS
<1>2. Append(s, k) # <<>>
  BY <1>1, EmptySeq
<1>3. \A i \in DOMAIN Append(s, k) :
        i \in 1 .. Len(s) + 1 /\ Append(s, k)[i] = IF i = Len(s) + 1 THEN k ELSE s[i]
  OBVIOUS
<1>4. s = <<>> => Append(s, k) = <<k>>
  OBVIOUS
<1>5. QED
  BY <1>1, <1>2, <1>3, <1>4

\* What giving back the last lock leaves of the stack of locks.
LEMMA Pop ==
  ASSUME NEW s \in Seq({"R", "W"}), s # <<>>
  PROVE  LET q == SubSeq(s, 1, Len(s) - 1) IN
         /\ Len(s) \in Nat \ {0} /\ Len(q) = Len(s) - 1
         /\ q = <<>> <=> Len(s) = 1
         /\ \A i \in DOMAIN q : i \in 1 .. Len(s) - 1 /\ i \in DOMAIN s /\ q[i] = s[i]
<1> DEFINE q == SubSeq(s, 1, Len(s) - 1)
<1>1. Len(s) \in Nat \ {0}
  BY EmptySeq
<1>2. q \in Seq({"R", "W"}) /\ Len(q) = Len(s) - 1
  BY <1>1, SubSeqProperties
<1>3. q = <<>> <=> Len(s) = 1
  <2>1. Len(q) = 0 => q = <<>>
    BY <1>2, EmptySeq
  <2>2. q = <<>> => Len(q) = 0
    BY EmptySeq
  <2>3. QED
    BY <1>1, <1>2, <2>1, <2>2
<1>4. \A i \in DOMAIN q : i \in 1 .. Len(s) - 1 /\ i \in DOMAIN s /\ q[i] = s[i]
  <2>1. DOMAIN q = 1 .. Len(s) - 1 /\ DOMAIN s = 1 .. Len(s)
    BY <1>1, <1>2, LenProperties
  <2>2. \A i \in 1 .. Len(s) - 1 : q[i] = s[i]
    BY <1>1, SubSeqProperties
  <2>3. QED
    BY <1>1, <2>1, <2>2
<1>5. QED
  BY <1>1, <1>2, <1>3, <1>4

\* A write lock nested a deep, with b read locks inside it.
Nested(s, a, b) ==
  /\ Len(s) = a + b
  /\ \A i \in DOMAIN s : s[i] = IF i <= a THEN "W" ELSE "R"

\* A thread's locks stay nested when it takes one.
LEMMA PushNested ==
  ASSUME NEW s \in Seq({"R", "W"}), NEW a \in Nat, NEW b \in Nat, Nested(s, a, b)
  PROVE  /\ Nested(Append(s, "R"), a, b + 1)
         /\ b = 0 => Nested(Append(s, "W"), a + 1, 0)
<1>1. DOMAIN s = 1 .. Len(s) /\ Len(s) = a + b
  BY LenProperties DEF Nested
<1>2. \A i \in 1 .. a + b : s[i] = IF i <= a THEN "W" ELSE "R"
  BY <1>1 DEF Nested
<1>3. ASSUME NEW k \in {"R", "W"}
      PROVE  /\ Len(Append(s, k)) = a + b + 1
             /\ \A i \in DOMAIN Append(s, k) :
                  i \in 1 .. a + b + 1 /\ Append(s, k)[i] = IF i = a + b + 1 THEN k ELSE s[i]
  BY <1>1, Push
<1>4. Nested(Append(s, "R"), a, b + 1)
  <2>1. \A i \in DOMAIN Append(s, "R") : Append(s, "R")[i] = IF i <= a THEN "W" ELSE "R"
    BY <1>2, <1>3
  <2>2. QED
    BY <1>3, <2>1 DEF Nested
<1>5. b = 0 => Nested(Append(s, "W"), a + 1, 0)
  <2>1. b = 0 => \A i \in DOMAIN Append(s, "W") :
                   Append(s, "W")[i] = IF i <= a + 1 THEN "W" ELSE "R"
    BY <1>2, <1>3
  <2>2. QED
    BY <1>3, <2>1 DEF Nested
<1>6. QED
  BY <1>4, <1>5

\* They stay nested when it gives the last one back.
LEMMA PopNested ==
  ASSUME NEW s \in Seq({"R", "W"}), s # <<>>,
         NEW a \in Nat, NEW b \in Nat, a > 0, Nested(s, a, b)
  PROVE  LET q == SubSeq(s, 1, Len(s) - 1) IN
         /\ b > 0 => Nested(q, a, b - 1)
         /\ b = 0 => Nested(q, a - 1, 0)
         /\ q = <<>> <=> a = 1 /\ b = 0
<1> DEFINE q == SubSeq(s, 1, Len(s) - 1)
<1>1. Len(s) = a + b /\ \A i \in DOMAIN s : s[i] = IF i <= a THEN "W" ELSE "R"
  BY DEF Nested
<1>2. /\ Len(q) = a + b - 1
      /\ q = <<>> <=> a + b = 1
      /\ \A i \in DOMAIN q : i \in 1 .. a + b - 1 /\ i \in DOMAIN s /\ q[i] = s[i]
  <2>1. /\ Len(q) = Len(s) - 1
        /\ q = <<>> <=> Len(s) = 1
        /\ \A i \in DOMAIN q : i \in 1 .. Len(s) - 1 /\ i \in DOMAIN s /\ q[i] = s[i]
    BY Pop
  <2> HIDE DEF q
  <2>2. QED
    BY <1>1, <2>1
<1> HIDE DEF q
<1>3. b > 0 => Nested(q, a, b - 1)
  BY <1>1, <1>2 DEF Nested
<1>4. b = 0 => Nested(q, a - 1, 0)
  BY <1>1, <1>2 DEF Nested
<1>5. QED
  BY <1>2, <1>3, <1>4 DEF q

\* While the single writer w is counted in, nobody else has the lock; w has its write
\* locks first and the read locks inside them last; h_wr_thread names w from the
\* moment w has the lock until it has released its last one.
Writing(w) == WrIn > 0 /\ held[w] # <<>>

Apart(w) ==
  \A t \in Threads :
    /\ pc[t] # "run" => held[t] = <<>>
    /\ t # w => pc[t] \notin {"wait_wr", "own"}
    /\ t # w \/ WrIn = 0 => held[t] \in {<<>>, <<"R">>}
    /\ t # w /\ WrIn > 0 => held[t] = <<>>

Nesting(w) ==
  /\ Writing(w) => Nested(held[w], WrIn, RdInside)
  /\ RdInside > 0 => held[w] # <<>>

NamesWriter(w) == rw.h_wr_thread = IF Writing(w) THEN w ELSE Nobody

OneInv(w) == Apart(w) /\ Nesting(w) /\ NamesWriter(w)

\* Only w has write locks, and it has one exactly while it writes.
LEMMA WhoWrites ==
  ASSUME RwLockAssumption, LockInv, NEW w \in Threads, OneInv(w), NEW t \in Threads
  PROVE  "W" \in Kinds(t) <=> t = w /\ Writing(w)
<1>1. ASSUME "W" \in Kinds(t) PROVE t = w /\ Writing(w)
  <2>1. held[t] # <<>> /\ held[t] # <<"R">>
    BY <1>1 DEF Kinds
  <2>2. WrIn \in Nat
    BY NumbersType DEF LockInv, Numbers
  <2>3. QED
    BY <2>1, <2>2 DEF OneInv, Apart, Writing
<1>2. ASSUME Writing(w) PROVE "W" \in Kinds(w)
  <2>1. held[w] \in Seq({"R", "W"}) /\ held[w] # <<>>
    BY <1>2 DEF LockInv, TypeOK, Writing
  <2>2. 1 \in DOMAIN held[w]
    BY <2>1, EmptySeq, LenProperties
  <2>3. WrIn \in Nat /\ WrIn > 0
    BY <1>2, NumbersType DEF LockInv, Numbers, Writing
  <2>4. held[w][1] = "W"
    BY <1>2, <2>2, <2>3 DEF OneInv, Nesting, Nested
  <2>5. QED
    BY <2>2, <2>4 DEF Kinds
<1>3. QED
  BY <1>1, <1>2

\* A thread that had nothing gets a read lock while no writer is counted in.
LEMMA ReaderEnters ==
  ASSUME RwLockAssumption, LockInv, NEW w \in Threads, OneInv(w), NEW t \in Threads,
         WrIn = 0, WrIn' = 0, RdInside' = RdInside, rw'.h_wr_thread = rw.h_wr_thread,
         held[t] = <<>>, Gets(t, "R"), Goto(t, "run") \/ (UNCHANGED pc /\ pc[t] = "run")
  PROVE  OneInv(w)'
<1>1. /\ \A u \in Threads : held'[u] = IF u = t THEN <<"R">> ELSE held[u]
      /\ \A u \in Threads : pc'[u] = IF u = t THEN "run" ELSE pc[u]
  BY Push DEF LockInv, TypeOK, Gets, Goto
<1>2. ~Writing(w) /\ ~Writing(w)' /\ RdInside \in Nat /\ ~(RdInside > 0)
  BY NumbersType DEF Writing, LockInv, Numbers, Balanced
<1>3. Apart(w)'
  BY <1>1 DEF Apart, OneInv
<1>4. Nesting(w)' /\ NamesWriter(w)'
  BY <1>2 DEF Nesting, NamesWriter, OneInv
<1>5. QED
  BY <1>3, <1>4 DEF OneInv

\* A step that gives and takes back nothing.
LEMMA KeepsHeld ==
  ASSUME LockInv, NEW w \in Threads, OneInv(w), NEW t \in Threads, NEW q \in Place, Goto(t, q),
         UNCHANGED held, WrIn' = WrIn, RdInside' = RdInside,
         rw'.h_wr_thread = rw.h_wr_thread, q = "run" \/ held[t] = <<>>,
         t = w \/ q \notin {"wait_wr", "own"}
  PROVE  OneInv(w)'
<1>1. \A u \in Threads : pc'[u] = IF u = t THEN q ELSE pc[u]
  BY DEF LockInv, TypeOK, Goto
<1>2. Writing(w)' = Writing(w)
  BY DEF Writing
<1>3. Apart(w)'
  BY <1>1 DEF Apart, OneInv
<1>4. Nesting(w)' /\ NamesWriter(w)'
  BY <1>2 DEF Nesting, NamesWriter, OneInv
<1>5. QED
  BY <1>3, <1>4 DEF OneInv

\* u_rwl_read_lock by the writer or a reader.
LEMMA OneReadLock ==
  ASSUME RwLockAssumption, LockInv, NEW w \in Threads, OneInv(w), NEW t \in Threads, ReadLock(t)
  PROVE  OneInv(w)'
<1>0. /\ rw \in MRSW_LOCK_T /\ pc[t] = "run" /\ Nobody # t /\ "wait_rd" \in Place
      /\ held[t] \in Seq({"R", "W"}) /\ MayLock(t, "R") /\ held \in [Threads -> Seq({"R", "W"})]
  BY DEF LockInv, TypeOK, ReadLock, MayLock, RwLockAssumption, Place
<1>1. Numbers /\ Balanced
  BY NumbersType DEF LockInv
<1>2. "W" \in Kinds(t) <=> t = w /\ Writing(w)
  BY WhoWrites
<1>3. held[t] = <<>> \/ "W" \in Kinds(t)
  BY <1>0 DEF MayLock
<1>4. CASE ReadIsFree /\ rw' = [rw EXCEPT !.rd_access = @ + 1] /\ Gets(t, "R") /\ UNCHANGED pc
  <2>1. WrIn = 0 /\ WrIn' = 0 /\ RdInside' = RdInside /\ rw'.h_wr_thread = rw.h_wr_thread
    BY <1>0, <1>4 DEF MRSW_LOCK_T, WrIn, RdInside, ReadIsFree
  <2>2. held[t] = <<>>
    BY <1>2, <1>3, <2>1 DEF Writing
  <2>3. QED
    BY <1>0, <1>4, <2>1, <2>2, ReaderEnters
<1>5. CASE /\ rw.h_wr_thread = t /\ rw' = [rw EXCEPT !.rd_inside_wr = @ + 1]
           /\ Gets(t, "R") /\ UNCHANGED pc
  <2>1. t = w /\ Writing(w)
    BY <1>0, <1>5 DEF OneInv, NamesWriter
  <2>2. WrIn' = WrIn /\ RdInside' = RdInside + 1 /\ rw'.h_wr_thread = w
    BY <1>0, <1>5, <2>1 DEF MRSW_LOCK_T, WrIn, RdInside
  <2>3. \A u \in Threads : held'[u] = IF u = w THEN Append(held[w], "R") ELSE held[u]
    BY <1>0, <1>5, <2>1 DEF Gets
  <2>4. WrIn \in Nat /\ RdInside \in Nat /\ WrIn > 0
    BY <1>1, <2>1 DEF Numbers, Writing
  <2>5. held'[w] # <<>> /\ Writing(w)'
    <3>1. held[w] \in Seq({"R", "W"}) /\ "R" \in {"R", "W"}
      BY <1>0, <2>1
    <3>2. Append(held[w], "R") # <<>>
      BY <3>1, Push
    <3>3. held'[w] # <<>>
      BY <2>3, <3>2
    <3>4. WrIn' > 0
      BY <2>2, <2>4
    <3>5. QED
      BY <3>3, <3>4 DEF Writing
  <2>6. Apart(w)'
    BY <1>0, <1>5, <2>1, <2>2, <2>3, <2>4 DEF Apart, OneInv
  <2>7. Nesting(w)'
    <3>1. Nested(held[w], WrIn, RdInside)
      BY <2>1 DEF OneInv, Nesting
    <3>2. Nested(Append(held[w], "R"), WrIn, RdInside + 1)
      BY <1>0, <2>1, <2>4, <3>1, PushNested
    <3>3. QED
      BY <2>2, <2>3, <2>5, <3>2 DEF Nesting
  <2>8. QED
    BY <2>2, <2>5, <2>6, <2>7 DEF OneInv, NamesWriter
<1>6. CASE /\ rw.h_wr_thread # t /\ rw' = [rw EXCEPT !.rd_wait = @ + 1]
           /\ Goto(t, "wait_rd") /\ UNCHANGED held
  <2>1. held[t] = <<>>
    BY <1>2, <1>3, <1>6 DEF OneInv, NamesWriter
  <2>2. WrIn' = WrIn /\ RdInside' = RdInside /\ rw'.h_wr_thread = rw.h_wr_thread
    BY <1>0, <1>6 DEF MRSW_LOCK_T, WrIn, RdInside
  <2>3. QED
    BY <1>0, <1>6, <2>1, <2>2, KeepsHeld
<1>7. QED
  BY <1>4, <1>5, <1>6 DEF ReadLock

\* u_rwl_write_lock by the only writer.
LEMMA OneWriteLock ==
  ASSUME RwLockAssumption, LockInv, NEW w \in Threads, OneInv(w), WriteLock(w)
  PROVE  OneInv(w)'
<1>0. /\ rw \in MRSW_LOCK_T /\ pc[w] = "run" /\ Nobody # w /\ "wait_wr" \in Place
      /\ held[w] \in Seq({"R", "W"}) /\ MayLock(w, "W") /\ held \in [Threads -> Seq({"R", "W"})]
  BY DEF LockInv, TypeOK, WriteLock, MayLock, RwLockAssumption, Place
<1>1. Numbers /\ Balanced /\ IsFiniteSet(Granted)
  BY NumbersType DEF LockInv
<1>2. WrIn \in Nat /\ RdInside \in Nat /\ RdIn \in Nat
  BY <1>1 DEF Numbers
<1>3. CASE /\ WriteIsFree /\ rw' = [rw EXCEPT !.wr_access = @ + 1, !.h_wr_thread = w]
           /\ Gets(w, "W") /\ UNCHANGED pc
  <2>1. RdIn = 0 /\ WrIn = 0
    BY <1>3 DEF WriteIsFree, Idle, RdIn, WrIn
  <2>2. WrIn' = 1 /\ RdInside' = RdInside /\ rw'.h_wr_thread = w
    BY <1>0, <1>3, <2>1 DEF MRSW_LOCK_T, WrIn, RdInside
  <2>3. RdInside = 0 /\ Given = 0
    <3>1. RdInside = 0
      BY <1>1, <2>1 DEF Numbers, Balanced
    <3>2. QED
      BY <1>1, <2>1, <3>1 DEF Numbers, Balanced
  <2>4. \A u \in Threads : held[u] = <<>>
    BY <1>1, <2>3, NoneGiven DEF LockInv
  <2>5. \A u \in Threads : held'[u] = IF u = w THEN <<"W">> ELSE <<>>
    BY <1>0, <1>3, <2>4, Push DEF Gets
  <2>6. Apart(w)'
    BY <1>0, <1>3, <2>2, <2>5 DEF Apart, OneInv
  <2>7. Writing(w)' /\ Len(held'[w]) = 1 /\ DOMAIN held'[w] = {1} /\ held'[w][1] = "W"
    BY <2>2, <2>5 DEF Writing
  <2>8. Nesting(w)'
    BY <2>2, <2>3, <2>7 DEF Nesting, Nested
  <2>9. QED
    BY <2>2, <2>6, <2>7, <2>8 DEF OneInv, NamesWriter
<1>4. CASE /\ WriteIsMine(w) /\ rw' = [rw EXCEPT !.wr_access = @ + 1]
           /\ Gets(w, "W") /\ UNCHANGED pc
  <2>1. Writing(w) /\ RdInside = 0 /\ WrIn > 0
    BY <1>0, <1>4 DEF OneInv, NamesWriter, WriteIsMine, RdInside, WrIn
  <2>2. WrIn' = WrIn + 1 /\ RdInside' = RdInside /\ rw'.h_wr_thread = w
    BY <1>0, <1>4 DEF MRSW_LOCK_T, WrIn, RdInside, WriteIsMine
  <2>3. \A u \in Threads : held'[u] = IF u = w THEN Append(held[w], "W") ELSE held[u]
    BY <1>0, <1>4 DEF Gets
  <2>4. held'[w] # <<>> /\ Writing(w)'
    <3>1. held'[w] # <<>>
      BY <1>0, <2>3, Push
    <3>2. WrIn' > 0
      BY <1>2, <2>1, <2>2
    <3>3. QED
      BY <3>1, <3>2 DEF Writing
  <2>5. Apart(w)'
    BY <1>0, <1>2, <1>4, <2>1, <2>2, <2>3 DEF Apart, OneInv
  <2>6. Nesting(w)'
    <3>1. Nested(held[w], WrIn, 0)
      BY <2>1 DEF OneInv, Nesting
    <3>2. Nested(Append(held[w], "W"), WrIn + 1, 0)
      BY <1>0, <1>2, <3>1, PushNested
    <3>3. QED
      BY <2>1, <2>2, <2>3, <2>4, <3>2 DEF Nesting
  <2>7. QED
    BY <2>2, <2>4, <2>5, <2>6 DEF OneInv, NamesWriter
<1>5. CASE /\ ~WriteIsMine(w) /\ rw' = [rw EXCEPT !.wr_wait = @ + 1]
           /\ Goto(w, "wait_wr") /\ UNCHANGED held
  <2>1. held[w] = <<>>
    <3>1. SUFFICES ASSUME "W" \in Kinds(w), "R" \notin Kinds(w) PROVE FALSE
      BY <1>0 DEF MayLock
    <3>2. Writing(w)
      BY <3>1, WhoWrites
    <3>3. WrIn > 0 /\ rw.h_wr_thread = w /\ RdIn = 0
      BY <1>1, <1>2, <3>2 DEF Writing, OneInv, NamesWriter, Balanced
    <3>4. /\ Len(held[w]) = WrIn + RdInside
          /\ \A i \in DOMAIN held[w] : held[w][i] = IF i <= WrIn THEN "W" ELSE "R"
      BY <3>2 DEF OneInv, Nesting, Nested
    <3>5. RdInside = 0
      <4>1. SUFFICES ASSUME RdInside > 0 PROVE FALSE
        BY <1>2
      <4>2. Len(held[w]) \in DOMAIN held[w] /\ held[w][Len(held[w])] = "R"
        <5>1. DOMAIN held[w] = 1 .. Len(held[w])
          BY <1>0, LenProperties
        <5>2. Len(held[w]) \in DOMAIN held[w] /\ ~(Len(held[w]) <= WrIn)
          BY <1>2, <3>3, <3>4, <4>1, <5>1
        <5>3. QED
          BY <3>4, <5>2
      <4>3. QED
        BY <3>1, <4>2 DEF Kinds
    <3>6. QED
      BY <1>5, <3>3, <3>5 DEF WriteIsMine, WrIn, RdIn, RdInside
  <2>2. WrIn' = WrIn /\ RdInside' = RdInside /\ rw'.h_wr_thread = rw.h_wr_thread
    BY <1>0, <1>5 DEF MRSW_LOCK_T, WrIn, RdInside
  <2>3. QED
    BY <1>0, <1>5, <2>1, <2>2, KeepsHeld
<1>6. QED
  BY <1>3, <1>4, <1>5 DEF WriteLock

\* A thread that waited goes on.
LEMMA OneGranted ==
  ASSUME RwLockAssumption, LockInv, NEW w \in Threads, OneInv(w), NEW t \in Threads,
         ReadGranted(t) \/ WriteGranted(t) \/ WriteOwn(t) \/ Post(t)
  PROVE  OneInv(w)'
<1>0. /\ rw \in MRSW_LOCK_T /\ "own" \in Place /\ "run" \in Place /\ Nobody # w
      /\ held \in [Threads -> Seq({"R", "W"})]
  BY DEF LockInv, TypeOK, RwLockAssumption, Place
<1>1. Numbers /\ Balanced /\ IsFiniteSet(Granted)
  BY NumbersType DEF LockInv
<1>2. pc[t] # "run" /\ held[t] = <<>>
  BY DEF ReadGranted, WriteGranted, WriteOwn, Post, OneInv, Apart
<1>3. CASE ReadGranted(t)
  <2>1. sem_rd > 0
    BY <1>3 DEF ReadGranted
  <2>2. WrIn = 0
    BY <1>1, <2>1 DEF Numbers, Balanced
  <2>3. WrIn' = WrIn /\ RdInside' = RdInside /\ rw'.h_wr_thread = rw.h_wr_thread
    BY <1>3 DEF ReadGranted, WrIn, RdInside
  <2>4. QED
    BY <1>2, <1>3, <2>2, <2>3, ReaderEnters DEF ReadGranted
<1>4. CASE WriteGranted(t)
  <2>1. t = w
    BY <1>4 DEF WriteGranted, OneInv, Apart
  <2>2. WrIn' = WrIn /\ RdInside' = RdInside /\ rw'.h_wr_thread = rw.h_wr_thread
    BY <1>4 DEF WriteGranted, WrIn, RdInside
  <2>3. QED
    BY <1>0, <1>2, <1>4, <2>1, <2>2, KeepsHeld DEF WriteGranted
<1>5. CASE WriteOwn(t)
  <2>1. t = w /\ pc[w] = "own" /\ Goto(w, "run") /\ Gets(w, "W") /\ held[w] = <<>>
    BY <1>2, <1>5 DEF WriteOwn, OneInv, Apart
  <2>2. /\ WrIn' = WrIn /\ RdInside' = RdInside /\ rw'.h_wr_thread = w
    BY <1>0, <1>5, <2>1 DEF WriteOwn, MRSW_LOCK_T, WrIn, RdInside
  <2>3. At("own") = {w} /\ At("wait_wr") = {}
    BY <2>1 DEF At, OneInv, Apart
  <2>4. Owns = 1 /\ AtWr = 0
    BY <2>3, FS_Singleton, FS_EmptySet DEF Owns, AtWr, NumAt, Place
  <2>5. WrIn \in Nat /\ WrIn > 0
    BY <1>1, <2>4 DEF Numbers, Balanced
  <2>6. \A u \in Threads : held[u] = <<>>
    BY <2>1, <2>5 DEF OneInv, Apart
  <2>7. Given = 0
    BY <1>1, <2>6, NoneGiven DEF LockInv
  <2>8. WrIn = 1 /\ RdInside = 0
    <3>1. RdInside = 0 /\ RdIn = 0
      BY <1>1, <2>1, <2>5 DEF OneInv, Nesting, Numbers, Balanced
    <3>2. PostRd + sem_rd = 0 /\ PostWr + sem_wr = 0
      BY <1>1, <2>4, <3>1 DEF Numbers, Balanced
    <3>3. QED
      BY <1>1, <2>4, <2>7, <3>1, <3>2 DEF Numbers, Balanced
  <2>9. /\ \A u \in Threads : held'[u] = IF u = w THEN <<"W">> ELSE <<>>
        /\ \A u \in Threads : pc'[u] = IF u = w THEN "run" ELSE pc[u]
    BY <1>0, <2>1, <2>6, Push DEF Gets, Goto, LockInv, TypeOK
  <2>10. Apart(w)'
    BY <2>2, <2>8, <2>9 DEF Apart, OneInv
  <2>11. Writing(w)' /\ Len(held'[w]) = 1 /\ DOMAIN held'[w] = {1} /\ held'[w][1] = "W"
    BY <2>2, <2>8, <2>9 DEF Writing
  <2>12. Nesting(w)'
    BY <2>2, <2>8, <2>11 DEF Nesting, Nested
  <2>13. QED
    BY <2>2, <2>10, <2>11, <2>12 DEF OneInv, NamesWriter
<1>6. CASE Post(t)
  <2>1. WrIn' = WrIn /\ RdInside' = RdInside /\ rw'.h_wr_thread = rw.h_wr_thread
    BY <1>6 DEF Post, WrIn, RdInside
  <2>2. QED
    BY <1>0, <1>2, <1>6, <2>1, KeepsHeld DEF Post
<1>7. QED
  BY <1>3, <1>4, <1>5, <1>6

\* The lock is deleted.
LEMMA OneDelete ==
  ASSUME RwLockAssumption, LockInv, LockInv', NEW w \in Threads, OneInv(w), NEW t \in Threads,
         Delete(t) \/ FreeHandle(t) \/ FreeObject(t)
  PROVE  OneInv(w)'
<1>0. rw \in MRSW_LOCK_T /\ {"run", "free", "dispose"} \subseteq Place
  BY DEF LockInv, TypeOK, Place
<1>1. WrIn' = WrIn /\ RdInside' = RdInside /\ rw'.h_wr_thread = rw.h_wr_thread /\ UNCHANGED held
  BY <1>0 DEF Delete, FreeHandle, FreeObject, MRSW_LOCK_T, WrIn, RdInside
<1>2. CASE Delete(t)
  <2>1. CASE Idle(rw)
    <3>1. Idle(rw')
      BY <1>0, <1>2, <2>1 DEF Delete, Idle, MRSW_LOCK_T
    <3>2. held[t] = <<>>
      BY <1>1, <3>1, IdleIsQuiet DEF LockInv, Quiet
    <3>3. QED
      BY <1>0, <1>1, <1>2, <2>1, <3>2, KeepsHeld DEF Delete
  <2>2. CASE ~Idle(rw)
    BY <1>0, <1>1, <1>2, <2>2, KeepsHeld DEF Delete
  <2>3. QED
    BY <2>1, <2>2
<1>3. CASE FreeHandle(t) \/ FreeObject(t)
  <2>1. held[t] = <<>>
    BY <1>3 DEF FreeHandle, FreeObject, OneInv, Apart
  <2>2. QED
    BY <1>0, <1>1, <1>3, <2>1, KeepsHeld DEF FreeHandle, FreeObject
<1>4. QED
  BY <1>2, <1>3

\* A lock is given back.
LEMMA OneRelease ==
  ASSUME RwLockAssumption, LockInv, LockInv', NEW w \in Threads, OneInv(w), NEW t \in Threads,
         ReleaseInside(t) \/ ReleaseRead(t) \/ ReleaseWrite(t)
  PROVE  OneInv(w)'
<1> DEFINE q == SubSeq(held[t], 1, Len(held[t]) - 1)
<1>0. /\ rw \in MRSW_LOCK_T /\ pc[t] = "run" /\ Releases(t) /\ Nobody # w
      /\ held[t] # <<>> /\ held[t] \in Seq({"R", "W"})
  BY DEF LockInv, TypeOK, ReleaseInside, ReleaseRead, ReleaseWrite, Releases, RwLockAssumption
<1>1. Numbers /\ Balanced /\ IsFiniteSet(Granted)
  BY NumbersType DEF LockInv
<1>2. WrIn \in Nat /\ RdInside \in Nat /\ RdIn \in Nat
  BY <1>1 DEF Numbers
<1>3. \A u \in Threads : held'[u] = IF u = t THEN q ELSE held[u]
  BY <1>0 DEF Releases, LockInv, TypeOK
<1>4. q = <<>> => \A u \in Threads : pc'[u] # "run" => held'[u] = <<>>
  <2>1. \A u \in Threads : u # t => pc'[u] = pc[u]
    BY DEF ReleaseInside, ReleaseRead, ReleaseWrite, Leave, Goto, LockInv, TypeOK
  <2>2. QED
    BY <1>3, <2>1 DEF OneInv, Apart
<1>5. \A u \in Threads : u # w => pc'[u] \notin {"wait_wr", "own"}
  BY <1>0 DEF ReleaseInside, ReleaseRead, ReleaseWrite, Leave, Goto, LockInv, TypeOK, OneInv, Apart
<1> HIDE DEF q
<1>6. CASE ReleaseInside(t)
  <2>1. RdInside > 0 /\ UNCHANGED pc
    BY <1>6 DEF ReleaseInside, RdInside
  <2>2. WrIn > 0
    BY <1>1, <2>1 DEF Balanced
  <2>3. WrIn' = WrIn /\ RdInside' = RdInside - 1 /\ rw'.h_wr_thread = rw.h_wr_thread
    BY <1>0, <1>6 DEF ReleaseInside, MRSW_LOCK_T, WrIn, RdInside
  <2>4. t = w /\ Writing(w)
    BY <1>0, <2>2 DEF OneInv, Apart, Writing
  <2>5. Nested(q, WrIn, RdInside - 1) /\ q # <<>>
    <3>1. Nested(held[t], WrIn, RdInside)
      BY <2>4 DEF OneInv, Nesting
    <3>2. RdInside # 0
      BY <2>1
    <3>3. QED
      BY <1>0, <1>2, <2>1, <2>2, <3>1, <3>2, PopNested DEF q
  <2>6. Writing(w)'
    BY <1>3, <2>2, <2>3, <2>4, <2>5 DEF Writing
  <2>7. Apart(w)'
    BY <1>0, <1>2, <1>3, <2>1, <2>2, <2>3, <2>4 DEF OneInv, Apart
  <2>8. Nesting(w)'
    BY <1>3, <2>3, <2>4, <2>5 DEF Nesting
  <2>9. QED
    BY <2>3, <2>4, <2>6, <2>7, <2>8 DEF OneInv, NamesWriter
<1>7. CASE ReleaseRead(t)
  <2>1. RdInside = 0 /\ RdIn > 0
    BY <1>7 DEF ReleaseRead, RdInside, RdIn
  <2>2. WrIn = 0
    BY <1>1, <1>2, <2>1 DEF Balanced
  <2>3. ~Writing(w) /\ rw.h_wr_thread = Nobody
    BY <2>2 DEF Writing, OneInv, NamesWriter
  <2>4. held[t] = <<"R">>
    BY <1>0, <2>2 DEF OneInv, Apart
  <2>5. q = <<>>
    BY <1>0, <2>4, Pop DEF q
  <2>6. RdInside' = 0 /\ rw'.h_wr_thread = Nobody
    BY <1>0, <1>7, <2>1, <2>3 DEF ReleaseRead, MRSW_LOCK_T, RdInside
  <2>7. WrIn' = 0 \/ (WrIn' = 1 /\ RdIn = 1)
    <3> DEFINE l == [rw EXCEPT !.rd_access = @ - 1]
    <3>1. l.wr_access = WrIn /\ l.rd_access = RdIn - 1
      BY <1>0 DEF MRSW_LOCK_T, WrIn, RdIn
    <3>2. \/ rw' = [l EXCEPT !.rd_wait = @ - 1, !.rd_access = @ + 1]
          \/ l.rd_access = 0 /\ rw' = [l EXCEPT !.wr_wait = @ - 1, !.wr_access = @ + 1]
          \/ rw' = l
      BY <1>7 DEF ReleaseRead
    <3>3. \/ WrIn' = l.wr_access
          \/ l.rd_access = 0 /\ WrIn' = l.wr_access + 1
      BY <1>0, <3>2 DEF MRSW_LOCK_T, WrIn
    <3> HIDE DEF l
    <3>4. QED
      BY <1>2, <2>2, <3>1, <3>3
  <2>8. WrIn' > 0 => \A u \in Threads : held'[u] = <<>>
    <3>1. SUFFICES ASSUME RdIn = 1 PROVE \A u \in Threads : held'[u] = <<>>
      BY <2>7
    <3>2. IsFiniteSet(Granted') /\ Given >= 1 /\ Given' = Given - 1
      BY <1>0, <1>1, TakesBack DEF Given, LockInv
    <3>3. Given' = 0
      BY <1>1, <2>1, <2>2, <3>1, <3>2 DEF Numbers, Balanced
    <3>4. QED
      BY <3>2, <3>3, NoneLeft DEF LockInv
  <2>9. ~Writing(w)'
    BY <2>8 DEF Writing
  <2>10. Apart(w)'
    BY <1>3, <1>4, <1>5, <2>2, <2>5, <2>8 DEF OneInv, Apart
  <2>11. QED
    BY <2>6, <2>9, <2>10 DEF OneInv, Nesting, NamesWriter
<1>8. CASE ReleaseWrite(t)
  <2>1. RdInside = 0 /\ RdIn = 0 /\ WrIn > 0
    BY <1>8 DEF ReleaseWrite, RdInside, RdIn, WrIn
  <2>2. t = w /\ Writing(w) /\ rw.h_wr_thread = w
    BY <1>0, <2>1 DEF OneInv, Apart, Writing, NamesWriter
  <2>3. Nested(q, WrIn - 1, 0) /\ (q = <<>> <=> WrIn = 1)
    BY <1>0, <1>2, <2>1, <2>2, PopNested DEF OneInv, Nesting, q
  <2>4. WrWaits = 0
    <3>1. At("wait_wr") = {}
      BY <1>0, <2>2 DEF At, OneInv, Apart
    <3>2. AtWr = 0
      BY <3>1, FS_EmptySet DEF AtWr, NumAt, Place
    <3>3. QED
      BY <1>1, <3>2 DEF Numbers, Balanced
  <2> DEFINE l == [rw EXCEPT !.wr_access = @ - 1,
                             !.h_wr_thread = IF rw.wr_access = 1 THEN Nobody ELSE @]
  <2>5. /\ l.wr_access = WrIn - 1 /\ l.rd_inside_wr = 0 /\ l.wr_wait = 0
        /\ l.h_wr_thread = IF WrIn = 1 THEN Nobody ELSE w
    BY <1>0, <2>1, <2>2, <2>4 DEF MRSW_LOCK_T, WrIn, RdInside, WrWaits
  <2>6. rw' = [l EXCEPT !.rd_wait = @ - 1, !.rd_access = @ + 1] \/ rw' = l
    <3>1. ~(l.wr_wait > 0)
      BY <2>5
    <3>2. QED
      BY <1>8, <3>1 DEF ReleaseWrite
  <2>7. /\ rw'.wr_access = l.wr_access /\ rw'.rd_inside_wr = l.rd_inside_wr
        /\ rw'.h_wr_thread = l.h_wr_thread
    BY <1>0, <2>6 DEF MRSW_LOCK_T
  <2> HIDE DEF l
  <2>8. WrIn' = WrIn - 1 /\ RdInside' = 0
    BY <2>5, <2>7 DEF WrIn, RdInside
  <2>9. rw'.h_wr_thread = IF WrIn = 1 THEN Nobody ELSE w
    BY <2>5, <2>7
  <2>10. Writing(w)' <=> WrIn # 1
    BY <1>2, <1>3, <2>1, <2>2, <2>3, <2>8 DEF Writing
  <2>11. Apart(w)'
    <3>1. WrIn # 1 => pc' = pc
      BY <1>0, <1>8, <2>1, <2>8 DEF ReleaseWrite, MRSW_LOCK_T, WrIn, Leave, Idle, Goto, LockInv, TypeOK
    <3>2. \A u \in Threads : pc'[u] # "run" => held'[u] = <<>>
      BY <1>0, <1>3, <1>4, <2>3, <3>1 DEF OneInv, Apart
    <3>3. \A u \in Threads : u # w => held'[u] = <<>>
      BY <1>3, <2>1, <2>2 DEF OneInv, Apart
    <3>4. WrIn' = 0 => held'[w] = <<>>
      BY <1>2, <1>3, <2>2, <2>3, <2>8
    <3>5. QED
      BY <1>5, <3>2, <3>3, <3>4 DEF Apart
  <2>12. Nesting(w)'
    BY <1>3, <2>2, <2>3, <2>8 DEF Nesting
  <2>13. QED
    BY <2>9, <2>10, <2>11, <2>12 DEF OneInv, NamesWriter
<1>9. QED
  BY <1>6, <1>7, <1>8

\* OneInv is inductive where LockInv holds.
LEMMA OneStep ==
  ASSUME RwLockAssumption, NEW w \in Threads, LockInv, LockInv', OneInv(w), [OneWrites(w)]_vars
  PROVE  OneInv(w)'
<1>1. ASSUME NEW t \in Readers, ReadLock(t) PROVE OneInv(w)'
  BY <1>1, OneReadLock DEF Threads
<1>2. ASSUME WriteLock(w) PROVE OneInv(w)'
  BY <1>2, OneWriteLock
<1>3. ASSUME NEW t \in Deleters, Delete(t) PROVE OneInv(w)'
  BY <1>3, OneDelete DEF Threads
<1>4. ASSUME NEW t \in Threads, Continue(t) PROVE OneInv(w)'
  BY <1>4, OneGranted, OneRelease, OneDelete DEF Continue
<1>5. CASE UNCHANGED vars
  BY <1>5 DEF vars, OneInv, Apart, Nesting, NamesWriter, Writing, WrIn, RdInside
<1>6. QED
  BY <1>1, <1>2, <1>3, <1>4, <1>5 DEF OneWrites

\* OneInv at the start.
LEMMA OneInit ==
  ASSUME RwLockAssumption, NEW w \in Threads, Init
  PROVE  OneInv(w)
<1>1. WrIn = 0 /\ RdInside = 0 /\ rw.h_wr_thread = Nobody
  BY DEF Init, WrIn, RdInside
<1>2. \A t \in Threads : pc[t] = "run" /\ held[t] = <<>>
  BY DEF Init
<1>3. QED
  BY <1>1, <1>2 DEF OneInv, Apart, Nesting, NamesWriter, Writing

\* One writer excludes the readers.
LEMMA OneExcludes ==
  ASSUME RwLockAssumption, NEW w \in Threads, LockInv, OneInv(w)
  PROVE  MutualExclusion
BY WhoWrites DEF MutualExclusion, OneInv, Apart, Writing

\* Somebody reads exactly when a read lock is given or is on its way.
LEMMA GrabbedByReaders ==
  ASSUME RwLockAssumption, NEW w \in Threads, LockInv, OneInv(w)
  PROVE  rwl_read_lock_grabbed <=> \/ \E t \in Threads : "R" \in Kinds(t)
                                   \/ At("post_rd") # {} \/ sem_rd > 0
<1>1. Numbers /\ Balanced /\ IsFiniteSet(Granted) /\ TypeOK /\ FreeInv
  BY NumbersType DEF LockInv
<1>2. WrIn \in Nat /\ RdInside \in Nat /\ RdIn \in Nat
  BY <1>1 DEF Numbers
<1>3. held \in [Threads -> Seq({"R", "W"})]
  BY <1>1 DEF TypeOK
<1>4. WrIn = 0 => RdInside = 0 /\ RdIn = Given + PostRd + sem_rd
  <2>1. WrIn = 0 => RdInside = 0
    BY <1>1, <1>2 DEF Balanced
  <2>2. WrIn = 0 => PostWr + sem_wr + Owns = 0
    BY <1>1 DEF Numbers, Balanced
  <2>3. QED
    BY <1>1, <2>1, <2>2 DEF Numbers, Balanced
<1>5. /\ At("post_rd") # {} <=> PostRd > 0
      /\ Given > 0 <=> \E t \in Threads : held[t] # <<>>
  <2>1. At("post_rd") = {} <=> PostRd = 0
    BY AtFinite, FS_EmptySet DEF PostRd, NumAt, Place
  <2>2. Given = 0 <=> \A t \in Threads : held[t] = <<>>
    BY <1>1, NoneGiven
  <2>3. QED
    BY <1>1, <2>1, <2>2 DEF Numbers
<1>6. ASSUME NEW t \in Threads, "R" \in Kinds(t) PROVE RdIn > 0 \/ RdInside > 0
  <2>1. held[t] # <<>>
    BY <1>6 DEF Kinds
  <2>2. CASE WrIn = 0
    BY <1>1, <1>4, <1>5, <2>1, <2>2 DEF Numbers
  <2>3. CASE WrIn > 0
    <3>1. t = w /\ Writing(w)
      BY <2>1, <2>3 DEF OneInv, Apart, Writing
    <3>2. Nested(held[t], WrIn, RdInside)
      BY <3>1 DEF OneInv, Nesting
    <3>3. PICK i \in DOMAIN held[t] : held[t][i] = "R"
      BY <1>6 DEF Kinds
    <3>4. i \in 1 .. Len(held[t]) /\ Len(held[t]) = WrIn + RdInside
      BY <1>3, <3>2, LenProperties DEF Nested
    <3>5. ~(i <= WrIn)
      BY <3>2, <3>3 DEF Nested
    <3>6. QED
      BY <1>2, <3>4, <3>5
  <2>4. QED
    BY <1>2, <2>2, <2>3
<1>7. At("post_rd") # {} \/ sem_rd > 0 => RdIn > 0
  BY <1>1, <1>5 DEF Numbers, Balanced
<1>8. ASSUME \/ \E t \in Threads : "R" \in Kinds(t)
             \/ At("post_rd") # {} \/ sem_rd > 0
      PROVE  valid
  <2>1. SUFFICES ASSUME Quiet PROVE FALSE
    BY <1>1 DEF FreeInv
  <2>2. At("wait_rd") = {} /\ At("post_rd") = {} /\ \A t \in Threads : held[t] = <<>>
    BY <2>1 DEF Quiet, At
  <2>3. AtRd = 0
    BY <2>2, FS_EmptySet DEF AtRd, NumAt, Place
  <2>4. ~(sem_rd > 0)
    BY <1>1, <2>3 DEF Numbers, Balanced
  <2>5. QED
    BY <1>8, <2>2, <2>4 DEF Kinds
<1>9. ASSUME RdInside > 0 PROVE "R" \in Kinds(w)
  <2>1. WrIn > 0 /\ held[w] # <<>>
    BY <1>1, <1>9 DEF Balanced, OneInv, Nesting
  <2>2. Nested(held[w], WrIn, RdInside)
    BY <2>1 DEF OneInv, Nesting, Writing
  <2>3. DOMAIN held[w] = 1 .. Len(held[w]) /\ Len(held[w]) = WrIn + RdInside
    BY <1>3, <2>2, LenProperties DEF Nested
  <2>4. WrIn + RdInside \in DOMAIN held[w] /\ ~(WrIn + RdInside <= WrIn)
    BY <1>2, <1>9, <2>1, <2>3
  <2>5. held[w][WrIn + RdInside] = "R"
    BY <2>2, <2>4 DEF Nested
  <2>6. QED
    BY <2>4, <2>5 DEF Kinds
<1>10. ASSUME RdIn > 0
       PROVE  \/ \E t \in Threads : "R" \in Kinds(t)
              \/ At("post_rd") # {} \/ sem_rd > 0
  <2>1. WrIn = 0
    BY <1>1, <1>2, <1>10 DEF Balanced
  <2>2. Given > 0 \/ PostRd > 0 \/ sem_rd > 0
    BY <1>1, <1>4, <1>10, <2>1 DEF Numbers
  <2>3. ASSUME NEW t \in Threads, held[t] # <<>> PROVE "R" \in Kinds(t)
    <3>1. held[t] = <<"R">>
      BY <2>1, <2>3 DEF OneInv, Apart
    <3>2. QED
      BY <3>1 DEF Kinds
  <2>4. QED
    BY <1>5, <2>2, <2>3
<1>11. rwl_read_lock_grabbed <=> valid /\ (RdIn > 0 \/ RdInside > 0)
  BY DEF rwl_read_lock_grabbed, RdIn, RdInside
<1>12. QED
  BY <1>6, <1>7, <1>8, <1>9, <1>10, <1>11

\* The answers of the two _grabbed functions are right.
LEMMA OneGrabbed ==
  ASSUME RwLockAssumption, NEW w \in Threads, LockInv, OneInv(w)
  PROVE  GrabbedIsExact
<1>1. ASSUME NEW t \in Threads PROVE u_rwl_write_lock_grabbed(t) <=> "W" \in Kinds(t)
  <2>1. "W" \in Kinds(t) <=> t = w /\ Writing(w)
    BY WhoWrites
  <2>2. u_rwl_write_lock_grabbed(t) <=> valid /\ rw.h_wr_thread = t /\ WrIn > 0
    BY DEF u_rwl_write_lock_grabbed, WrIn
  <2>3. rw.h_wr_thread = t <=> t = w /\ Writing(w)
    BY DEF OneInv, NamesWriter, RwLockAssumption
  <2>4. Writing(w) => valid /\ WrIn > 0
    BY DEF Writing, LockInv, FreeInv, Quiet
  <2>5. QED
    BY <2>1, <2>2, <2>3, <2>4
<1>2. QED
  BY <1>1, GrabbedByReaders DEF GrabbedIsExact

\* With one writer, for any finite set of readers: while the writer has the lock no
\* other thread has one, through every hand-over, nested lock and pending delete, and
\* rwl_read_lock_grabbed and u_rwl_write_lock_grabbed answer exactly.
THEOREM OneWriterSafe ==
  ASSUME RwLockAssumption, NEW w, Writers = {w}
  PROVE  Spec => [](MutualExclusion /\ GrabbedIsExact)
<1>0. w \in Threads
  BY DEF Threads
<1>1. Init => LockInv /\ OneInv(w)
  BY <1>0, LockInit, OneInit
<1>2. LockInv /\ OneInv(w) /\ [Next]_vars => (LockInv /\ OneInv(w))'
  BY <1>0, LockStep, OneStep DEF Next, OneWrites
<1>3. LockInv /\ OneInv(w) => MutualExclusion /\ GrabbedIsExact
  BY <1>0, OneExcludes, OneGrabbed
<1>4. QED
  BY <1>1, <1>2, <1>3, PTL DEF Spec

-----------------------------------------------------------------------------
\* What holds of the read-write lock in each part of the run.
RwInv == LockInv /\ (part = "one" => OneInv(Creator))

\* Each part keeps it.
LEMMA RwPartsStep ==
  ASSUME RwInv, [MCNext]_allvars
  PROVE  RwInv'
<1>0. Creator \in Threads /\ RwLockAssumption
  BY LockAssumption DEF Threads
<1>1. CASE part = "one" /\ part' = "one" /\ OneWrites(Creator)
  <2>1. Next
    BY <1>1, LockAssumption DEF OneWrites, Next
  <2>2. LockInv'
    BY <1>0, <2>1, LockStep DEF RwInv
  <2>3. OneInv(Creator)'
    BY <1>0, <1>1, <2>2, OneStep DEF RwInv
  <2>4. QED
    BY <2>2, <2>3 DEF RwInv
<1>2. CASE part = "rw" /\ part' = "rw" /\ Next
  <2>1. LockInv'
    BY <1>0, <1>2, LockStep DEF RwInv
  <2>2. QED
    BY <1>2, <2>1 DEF RwInv
<1>3. CASE UNCHANGED <<part, vars>>
  <2>1. LockInv'
    BY <1>0, <1>3, LockStep DEF RwInv
  <2>2. part = "one" => OneInv(Creator)'
    BY <1>0, <1>3, <2>1, OneStep DEF RwInv
  <2>3. QED
    BY <1>3, <2>1, <2>2 DEF RwInv
<1>4. QED
  BY <1>1, <1>2, <1>3 DEF MCNext, allvars

\* The invariant of every behaviour of the run.
LEMMA RwInvariant == MCSpec => []RwInv
<1>1. MCInit => RwInv
  BY LockAssumption, LockInit, OneInit DEF MCInit, RwInv, Threads
<1>2. RwInv /\ [MCNext]_allvars => RwInv'
  BY RwPartsStep
<1>3. QED
  BY <1>1, <1>2, PTL DEF MCSpec

\* Every lock that is given or handed over is counted once, the ABORTs of
\* u_rwl_release_lock are not reached, nobody waits for a lock nobody has, and a
\* deferred delete waits for the last user: for any finite set of threads that read,
\* write and delete.
THEOREM RwCounts == MCSpec => []RwCountsExact
<1>1. RwInv => RwCountsExact
  BY LockAssumption, FreeIsSafe DEF RwInv, LockInv, CountInv, RwCountsExact
<1>2. QED
  BY <1>1, RwInvariant, PTL

\* A single writer excludes any number of readers, and rwl_read_lock_grabbed and
\* u_rwl_write_lock_grabbed say exactly who has the lock.
THEOREM OneWriter == MCSpec => []OneWriterExcludes
<1>1. RwInv => OneWriterExcludes
  BY LockAssumption, OneExcludes, OneGrabbed DEF RwInv, OneWriterExcludes, Threads
<1>2. QED
  BY <1>1, RwInvariant, PTL

-----------------------------------------------------------------------------

USE SemaAssumption DEF M!SemaAssumption, M!Threads

\* The variables of the semaphore always hold values of their C types.
THEOREM SemaTypeCorrect == M!Spec => []M!TypeOK
<1>1. M!Init => M!TypeOK
  BY DEF M!Init, M!TypeOK, M!CreatedLocked, M!Place, M!Option
<1>2. M!TypeOK /\ [M!Next]_(M!vars) => M!TypeOK'
  <2> SUFFICES ASSUME M!TypeOK, [M!Next]_(M!vars) PROVE M!TypeOK'
    OBVIOUS
  <2> USE DEF M!TypeOK, M!Place, M!Goto, M!Returns
  <2>1. ASSUME NEW t \in Threads, M!LockAgain(t) PROVE M!TypeOK'
    BY <2>1 DEF M!LockAgain
  <2>2. ASSUME NEW t \in Threads, NEW opt \in M!Option, M!LockEnter(t, opt)
        PROVE  M!TypeOK'
    BY <2>2 DEF M!LockEnter
  <2>3. ASSUME NEW t \in Threads, M!LockTake(t) PROVE M!TypeOK'
    BY <2>3 DEF M!LockTake
  <2>4. ASSUME NEW t \in Threads, M!LockGiveUp(t) PROVE M!TypeOK'
    BY <2>4 DEF M!LockGiveUp
  <2>5. ASSUME NEW t \in Threads, M!LockWait(t) PROVE M!TypeOK'
    BY <2>5 DEF M!LockWait
  <2>6. ASSUME NEW t \in Threads, M!LockDone(t) PROVE M!TypeOK'
    BY <2>6 DEF M!LockDone
  <2>7. ASSUME NEW t \in Threads, M!TimeOut(t) \/ M!SpuriousWake(t) PROVE M!TypeOK'
    BY <2>7 DEF M!TimeOut, M!SpuriousWake
  <2>8. ASSUME NEW t \in Threads, M!UnlockRefused(t) \/ M!UnlockAny(t)
        PROVE  M!TypeOK'
    BY <2>8 DEF M!UnlockRefused, M!UnlockAny
  <2>9. ASSUME NEW t \in Threads, M!UnlockPost(t) PROVE M!TypeOK'
    BY <2>9 DEF M!UnlockPost, M!Signalled
  <2>10. ASSUME NEW t \in Threads, M!UnlockNested(t) \/ M!UnlockLast(t)
         PROVE  M!TypeOK'
    BY <2>10 DEF M!UnlockNested, M!UnlockLast
  <2>11. CASE UNCHANGED M!vars
    BY <2>11 DEF M!vars
  <2>12. QED
    BY <2>1, <2>2, <2>3, <2>4, <2>5, <2>6, <2>7, <2>8, <2>9, <2>10, <2>11
       DEF M!Next, M!Lock, M!Unlock
<1>3. QED
  BY <1>1, <1>2, PTL DEF M!Spec

-----------------------------------------------------------------------------
\* A thread is inside a MUTEX from ui4_value-- of its lock to ui4_value++ of its
\* last unlock, longer than the record of it as the owner lasts.
Inside(t) == holds[t] > 0 \/ spc[t] \in {"taken", "released"}

\* The inductive invariant of a MUTEX: the unit is free only when nobody is
\* inside, one thread is inside at a time, and `thread' names exactly the holder.
OneUnit ==
  /\ ui4_value \in {0, 1}
  /\ ui4_value = 1 => \A t \in Threads : ~Inside(t)
OneInside == \A t, u \in Threads : Inside(t) /\ Inside(u) => t = u
OwnerRecord ==
  \A t \in Threads :
    /\ holds[t] >= 0
    /\ holds[t] > 0 => /\ thread = t
                       /\ i2_selfcount = holds[t]
                       /\ spc[t] \notin {"taken", "released"}
    /\ thread = t => holds[t] > 0
NobodyCounts == thread = Nobody => i2_selfcount = 0

MutexInv == OneUnit /\ OneInside /\ OwnerRecord /\ NobodyCounts

\* One MUTEX step preserves the invariant.
LEMMA MutexStep ==
  ASSUME e_type = "MUTEX", M!TypeOK, MutexInv, [M!Next]_(M!vars)
  PROVE  MutexInv'
<1> USE DEF M!TypeOK, MutexInv, OneUnit, OneInside, OwnerRecord, NobodyCounts,
            Inside, M!Place, M!Goto, M!Returns
<1>1. ASSUME NEW t \in Threads, M!LockAgain(t) PROVE MutexInv'
  BY <1>1 DEF M!LockAgain
<1>2. ASSUME NEW t \in Threads, NEW opt \in M!Option, M!LockEnter(t, opt)
      PROVE  MutexInv'
  BY <1>2 DEF M!LockEnter
<1>3. ASSUME NEW t \in Threads, M!LockTake(t) PROVE MutexInv'
  BY <1>3 DEF M!LockTake
<1>4. ASSUME NEW t \in Threads, M!LockGiveUp(t) \/ M!LockWait(t) PROVE MutexInv'
  BY <1>4 DEF M!LockGiveUp, M!LockWait
<1>5. ASSUME NEW t \in Threads, M!LockDone(t) PROVE MutexInv'
  <2>1. Inside(t) /\ holds[t] = 0 /\ thread = Nobody
    BY <1>5 DEF M!LockDone
  <2>2. \A u \in Threads \ {t} : ~Inside(u)
    BY <2>1
  <2>3. QED
    BY <1>5, <2>1, <2>2 DEF M!LockDone
<1>6. ASSUME NEW t \in Threads, M!TimeOut(t) \/ M!SpuriousWake(t) PROVE MutexInv'
  BY <1>6 DEF M!TimeOut, M!SpuriousWake
<1>7. ASSUME NEW t \in Threads, M!UnlockRefused(t) PROVE MutexInv'
  BY <1>7 DEF M!UnlockRefused
<1>8. ASSUME NEW t \in Threads, M!UnlockNested(t) PROVE MutexInv'
  BY <1>8 DEF M!UnlockNested
<1>9. ASSUME NEW t \in Threads, M!UnlockLast(t) PROVE MutexInv'
  BY <1>9 DEF M!UnlockLast
<1>10. ASSUME NEW t \in Threads, M!UnlockPost(t) PROVE MutexInv'
  <2>1. ui4_value = 0 /\ \A u \in Threads \ {t} : ~Inside(u)
    BY <1>10 DEF M!UnlockPost
  <2>2. /\ \A u \in Threads : spc'[u] \notin {"taken", "released"}
        /\ ui4_value' = 1 /\ UNCHANGED <<thread, i2_selfcount, holds>>
    BY <1>10, <2>1 DEF M!UnlockPost, M!Signalled
  <2>3. holds[t] = 0
    BY <1>10 DEF M!UnlockPost
  <2>4. QED
    BY <2>1, <2>2, <2>3
<1>11. CASE UNCHANGED M!vars
  BY <1>11 DEF M!vars
<1>12. QED
  BY <1>1, <1>2, <1>3, <1>4, <1>5, <1>6, <1>7, <1>8, <1>9, <1>10, <1>11
     DEF M!Next, M!Lock, M!Unlock, M!UnlockAny

\* The invariant holds of every MUTEX, created locked or unlocked.
LEMMA MutexInvariant ==
  ASSUME e_type = "MUTEX"
  PROVE  M!Spec => []MutexInv
<1>1. M!Init => MutexInv
  <2> SUFFICES ASSUME M!Init PROVE MutexInv
    OBVIOUS
  <2> USE DEF MutexInv, OneUnit, OneInside, OwnerRecord, NobodyCounts, Inside
  <2>1. \A t \in Threads : spc[t] = "idle"
    BY DEF M!Init
  <2>2. CASE M!CreatedLocked
    <3>1. /\ ui4_value = 0 /\ thread = Creator /\ i2_selfcount = 1
          /\ \A t \in Threads : holds[t] = IF t = Creator THEN 1 ELSE 0
      BY <2>2 DEF M!Init, M!CreatedLocked
    <3>2. QED
      BY <2>1, <3>1
  <2>3. CASE ~M!CreatedLocked
    <3>1. /\ ui4_value = 1 /\ thread = Nobody /\ i2_selfcount = 0
          /\ \A t \in Threads : holds[t] = 0
      BY <2>3 DEF M!Init, M!CreatedLocked
    <3>2. QED
      BY <2>1, <3>1
  <2>4. QED
    BY <2>2, <2>3
<1>2. M!TypeOK /\ MutexInv /\ [M!Next]_(M!vars) => MutexInv'
  BY MutexStep
<1>3. QED
  BY <1>1, <1>2, SemaTypeCorrect, PTL DEF M!Spec

\* At most one thread holds a MUTEX semaphore, for any number of threads and
\* any nesting, although its owner field is tested and set outside the mutex.
THEOREM MutexExcludes == M!Spec => []OneHolder
<1>1. CASE e_type = "MUTEX"
  <2>1. MutexInv => OneHolder
    BY DEF MutexInv, OneInside, Inside, OneHolder, M!MutualExclusion
  <2>2. QED
    BY <1>1, <2>1, MutexInvariant, PTL
<1>2. CASE e_type # "MUTEX"
  <2>1. OneHolder
    BY <1>2 DEF OneHolder, M!MutualExclusion
  <2>2. QED
    BY <2>1, PTL
<1>3. QED
  BY <1>1, <1>2

\* The holder of a MUTEX is its recorded owner: u_sema_unlock never refuses it.
THEOREM MutexHolderIsOwner == M!Spec => []HolderIsOwner
<1>1. CASE e_type = "MUTEX"
  <2>1. MutexInv => HolderIsOwner
    BY DEF MutexInv, OwnerRecord, HolderIsOwner, M!HolderIsOwner
  <2>2. QED
    BY <1>1, <2>1, MutexInvariant, PTL
<1>2. CASE e_type # "MUTEX"
  <2>1. HolderIsOwner
    BY <1>2 DEF HolderIsOwner, M!HolderIsOwner
  <2>2. QED
    BY <2>1, PTL
<1>3. QED
  BY <1>1, <1>2

-----------------------------------------------------------------------------
\* For a MUTEX, whose value never exceeds 1, the signal sent when ui4_value
\* becomes 1 is enough: no thread sleeps on while the semaphore is free.
THEOREM MutexWakeupsAreNotLost ==
  ASSUME e_type = "MUTEX"
  PROVE  M!Spec => []NoLostWakeup
<1>1. M!Init => NoLostWakeup
  BY DEF M!Init, NoLostWakeup, M!NoLostWakeup
<1>2. M!TypeOK /\ MutexInv /\ NoLostWakeup /\ [M!Next]_(M!vars) => NoLostWakeup'
  <2> SUFFICES ASSUME M!TypeOK, MutexInv, NoLostWakeup, [M!Next]_(M!vars)
               PROVE  NoLostWakeup'
    OBVIOUS
  <2> USE DEF M!TypeOK, NoLostWakeup, M!NoLostWakeup, M!Place, M!Goto
  <2>1. ASSUME NEW t \in Threads, NEW opt \in M!Option,
               M!LockAgain(t) \/ M!LockEnter(t, opt)
        PROVE  NoLostWakeup'
    BY <2>1 DEF M!LockAgain, M!LockEnter
  <2>2. ASSUME NEW t \in Threads, M!LockTake(t) PROVE NoLostWakeup'
    BY <2>2 DEF M!LockTake, MutexInv, OneUnit
  <2>3. ASSUME NEW t \in Threads, M!LockGiveUp(t) \/ M!LockWait(t)
        PROVE  NoLostWakeup'
    BY <2>3 DEF M!LockGiveUp, M!LockWait
  <2>4. ASSUME NEW t \in Threads, M!LockDone(t) \/ M!TimeOut(t) \/ M!SpuriousWake(t)
        PROVE  NoLostWakeup'
    BY <2>4 DEF M!LockDone, M!TimeOut, M!SpuriousWake
  <2>5. ASSUME NEW t \in Threads,
               M!UnlockRefused(t) \/ M!UnlockNested(t) \/ M!UnlockLast(t)
        PROVE  NoLostWakeup'
    BY <2>5 DEF M!UnlockRefused, M!UnlockNested, M!UnlockLast
  <2>6. ASSUME NEW t \in Threads, M!UnlockPost(t) PROVE NoLostWakeup'
    <3>1. ui4_value = 0
      BY <2>6 DEF M!UnlockPost, MutexInv, OneUnit, Inside
    <3>2. CASE \E u \in Threads : spc[u] = "asleep" /\ M!Signalled(u, t)
      BY <2>6, <3>2 DEF M!UnlockPost, M!Signalled
    <3>3. CASE (\A u \in Threads : spc[u] # "asleep") /\ M!Goto(t, "idle")
      BY <3>3
    <3>4. QED
      BY <2>6, <3>1, <3>2, <3>3 DEF M!UnlockPost
  <2>7. CASE UNCHANGED M!vars
    BY <2>7 DEF M!vars
  <2>8. QED
    BY <2>1, <2>2, <2>3, <2>4, <2>5, <2>6, <2>7 DEF M!Next, M!Lock, M!Unlock, M!UnlockAny
<1>3. QED
  BY <1>1, <1>2, SemaTypeCorrect, MutexInvariant, PTL DEF M!Spec
=============================================================================
