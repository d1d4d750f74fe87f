---------------------------- MODULE HandleProofs ----------------------------
(***************************************************************************)
(* Proofs about Handle for any programs that keep to HandleAssumption, any *)
(* number of threads, records, allocations and nested callbacks, and any   *)
(* width of the reuse count.                                               *)
(***************************************************************************)
EXTENDS Handle, ListProofs

Flags == {"ACTIVE", "FREEING"}
CtrlRec == [obj : Int, e_type : Types \cup {"none"}, count : 0 .. (CountMod - 1), flags : SUBSET Flags,
            next : Nat, auxnext : Nat, auxprev : Nat, auxhead : Nat, auxcount : Nat]

HandleSet == [i : Nat, count : 0 .. (CountMod - 1)]
Allocation == [h : HandleSet, n : 1 .. MaxAllocs]

\* The calls in progress.
FreePcs == {"marked", "callback", "finish", "refused"}
FillFrame == [pc : {"fill"}, i : Nat, mem : Nat, e_type : Types, obj : 1 .. MaxAllocs]
TagFrame == [pc : {"tag"}, h : HandleSet, mem : Nat, obj : 1 .. MaxAllocs]
FreeingFrame == [pc : FreePcs, i : Nat, mem : Nat, h : HandleSet, e_type : Types]
AutoFrame == [pc : {"autofree"}, h : HandleSet, mem : Nat]
Frame == FillFrame \cup TagFrame \cup FreeingFrame \cup AutoFrame

HandleType ==
  /\ setup \in Setups
  /\ arr \in Seq(CtrlRec) /\ mem \in Nat
  /\ ui2_free_handles \in Nat /\ ui2_num_free \in Nat /\ ui2_num_peak_used \in Nat
  /\ ui2_num_used_per_grp \in [Types -> Nat]
  /\ frames \in [Threads -> Seq(Frame)]
  /\ issued \in SUBSET Allocation
  /\ allocs \in 0 .. MaxAllocs
  /\ freed \in [1 .. MaxAllocs -> Nat]
  /\ moved \in BOOLEAN /\ wild \in BOOLEAN /\ aborted \in BOOLEAN

Calls(t) == Range(frames[t])

\* Only the threads of the program call; a call is made from the callback of an
\* object of the caller's, or from outside the library.
CallsNest ==
  \A t \in Threads :
    /\ Distinct(frames[t])
    /\ frames[t] # <<>> =>
         /\ t \in setup.threads
         /\ \A f \in Calls(t) \ {Top(t)} : f.pc = "callback" /\ f.e_type = "user"

-----------------------------------------------------------------------------
\* Allocations that are done, whether their handle was returned already or not.
Tagged ==
  {a \in Allocation : \E t \in Threads : \E f \in Calls(t) : f.pc = "tag" /\ f.h = a.h /\ f.obj = a.n}
Allocated == issued \cup Tagged

\* How many later allocations of its record there are.
Newer(a) == {q \in Allocated : q.h.i = a.h.i /\ q.n > a.n}
Later(a) == Cardinality(Newer(a))

\* Some handle that was returned is so old that its count came round.
Wrapped == \E r \in issued : Later(r) >= CountMod \div 2

\* The count of a record is ahead of a handle by two for each later allocation and
\* by one for the last freeing; without a later allocation the object is its own.
CountOf(a, d, e) ==
  /\ arr[a.h.i].count + CountMod * e = a.h.count + 2 * d + (IF Active(a.h.i) THEN 0 ELSE 1)
  /\ d = 0 /\ Active(a.h.i) => ObjectOf(a.h.i) = a.n

CountFits(a) == \E d \in 0 .. Later(a), e \in Nat : CountOf(a, d, e)

IdentityInv ==
  /\ IsFiniteSet(Allocated)
  /\ \A a \in Allocated : a.h.i \in 1 .. Len(arr) /\ a.n <= allocs /\ CountFits(a)

\* Active records have different objects, and none that was released is one that
\* can be freed.
ObjectInv ==
  /\ \A i \in 1 .. Len(arr) :
       /\ ObjectOf(i) <= allocs
       /\ Active(i) => ObjectOf(i) >= 1 /\ arr[i].e_type \in Types
       /\ arr[i].flags = {"ACTIVE"} => freed[ObjectOf(i)] = 0
  /\ \A i, j \in 1 .. Len(arr) : Active(i) /\ Active(j) /\ i # j => ObjectOf(i) # ObjectOf(j)
  /\ \A n \in 1 .. MaxAllocs : freed[n] <= 1 /\ (n > allocs => freed[n] = 0)

-----------------------------------------------------------------------------
\* A record that is being allocated is nobody else's, and its object is newer than
\* all its record had.
FillInv ==
  /\ \A t \in Threads : \A f \in Calls(t) : f.pc = "fill" =>
       /\ f.i \in 1 .. Len(arr) /\ ~Active(f.i)
       /\ f.obj <= allocs /\ freed[f.obj] = 0
       /\ \A a \in Allocated : a.n # f.obj /\ (a.h.i = f.i => a.n < f.obj)
       /\ \A j \in 1 .. Len(arr) : Active(j) => ObjectOf(j) # f.obj
  /\ \A t, u \in Threads : \A f \in Calls(t), g \in Calls(u) :
       f.pc = "fill" /\ g.pc = "fill" /\ (f.i = g.i \/ f.obj = g.obj) => t = u

\* The handle of a head that is not returned yet is valid, unless an old one that
\* equals it was used.
TagInv ==
  /\ \A t \in Threads : \A f \in Calls(t) : f.pc = "tag" =>
       /\ f.h.i \in 1 .. Len(arr)
       /\ \A r \in issued : r.n # f.obj
       /\ \/ Wrapped
          \/ /\ arr[f.h.i].flags = {"ACTIVE"} /\ arr[f.h.i].count = f.h.count
             /\ ObjectOf(f.h.i) = f.obj
  /\ \A t, u \in Threads : \A f \in Calls(t), g \in Calls(u) :
       f.pc = "tag" /\ g.pc = "tag" /\ f.obj = g.obj => t = u

\* A record that is being freed is marked, by one call, and its object is released
\* once the callback has said so; a head that may go has an empty list.
FreeingInv ==
  /\ \A t \in Threads : \A f \in Calls(t) : f.pc \in FreePcs =>
       /\ f.i \in 1 .. Len(arr) /\ f.h.i = f.i
       /\ arr[f.i].flags = {"ACTIVE", "FREEING"}
       /\ arr[f.i].count = f.h.count /\ arr[f.i].e_type = f.e_type
       /\ freed[ObjectOf(f.i)] = IF f.pc = "finish" THEN 1 ELSE 0
       /\ f.pc = "finish" /\ f.e_type = "head" => arr[f.i].auxcount = 0
       /\ f.e_type = "head" => "freehead" \in setup.ops
  /\ \A t, u \in Threads : \A f \in Calls(t), g \in Calls(u) :
       f.pc \in FreePcs /\ g.pc \in FreePcs /\ f.i = g.i => t = u /\ f = g
  /\ \A i \in 1 .. Len(arr) : arr[i].flags = {"ACTIVE", "FREEING"} =>
       \E t \in Threads : \E f \in Calls(t) : f.pc \in FreePcs /\ f.i = i

\* What is looked up for u_handle_autofree is still so when it frees: nobody else
\* calls.
AutofreeInv ==
  \A t \in Threads : \A f \in Calls(t) : f.pc = "autofree" =>
    /\ OneThread(setup)
    /\ f.h.i \in 1 .. Len(arr) /\ arr[f.h.i].flags = {"ACTIVE"}
    /\ arr[f.h.i].count = f.h.count /\ arr[f.h.i].e_type = "user"

-----------------------------------------------------------------------------
\* A sequence of records is the free list.
NextOf == [i \in DOMAIN arr |-> arr[i].next]
Filled(i) == \E t \in Threads : \E f \in Calls(t) : f.pc = "fill" /\ f.i = i

FreeListIs(s) ==
  /\ s \in Seq(Recs(Len(arr))) /\ Distinct(s) /\ Len(s) = ui2_num_free
  /\ \A i \in 1 .. Len(arr) : i \in Range(s) <=> ~Active(i) /\ ~Filled(i)
  /\ Chain(s, ui2_free_handles, NextOf)

FreeListInv ==
  /\ \A i \in 1 .. Len(arr) : arr[i].next \in 0 .. Len(arr)
  /\ \E s : FreeListIs(s)

\* The statistics.
UsedBy(e) ==
  {i \in 1 .. Len(arr) :
     \/ Active(i) /\ arr[i].e_type = e
     \/ \E t \in Threads : \E f \in Calls(t) : f.pc = "fill" /\ f.i = i /\ f.e_type = e}

StatisticsInv ==
  /\ \A e \in Types : ui2_num_used_per_grp[e] = Cardinality(UsedBy(e))
  /\ ui2_num_used_per_grp["head"] + ui2_num_used_per_grp["user"] = Len(arr) - ui2_num_free
  /\ ui2_num_peak_used >= Len(arr) - ui2_num_free
  /\ ui2_num_peak_used <= Len(arr)

\* A sequence of records is the list of a head.
AuxNextOf == [i \in DOMAIN arr |-> arr[i].auxnext]
AuxPrevOf == [i \in DOMAIN arr |-> arr[i].auxprev]

AuxListIs(hd, s) ==
  /\ s \in Seq(Recs(Len(arr))) /\ Distinct(s) /\ Len(s) = arr[hd].auxcount
  /\ \A j \in 1 .. Len(arr) : j \in Range(s) <=> arr[j].auxhead = hd
  /\ Chain(s, arr[hd].auxnext, AuxNextOf) /\ BackChain(s, AuxPrevOf)

AuxInv ==
  /\ \A i \in 1 .. Len(arr) :
       /\ arr[i].auxnext \in 0 .. Len(arr) /\ arr[i].auxprev \in 0 .. Len(arr)
       /\ arr[i].auxhead \in 0 .. Len(arr)
       /\ ~(Active(i) /\ arr[i].e_type = "head") => arr[i].auxcount = 0
       /\ arr[i].auxhead # 0 =>
            /\ Active(i) /\ arr[i].e_type = "user"
            /\ Active(arr[i].auxhead) /\ arr[arr[i].auxhead].e_type = "head"
  /\ \A i \in 1 .. Len(arr) : Active(i) /\ arr[i].e_type = "head" => \E s : AuxListIs(i, s)

\* As long as the array did not move under a call, no call has an old address of
\* it, and an ABORT needs a count that came round.
ProgramInv ==
  /\ ~moved => ~wild /\ \A t \in Threads : \A f \in Calls(t) : f.mem = mem
  /\ aborted => Wrapped

HandleInv ==
  /\ HandleType /\ CallsNest /\ IdentityInv /\ ObjectInv /\ FillInv /\ TagInv /\ FreeingInv
  /\ AutofreeInv /\ FreeListInv /\ StatisticsInv /\ AuxInv /\ ProgramInv

-----------------------------------------------------------------------------
\* A call is made: from outside the library, or from the callback of an object.
LEMMA Pushed ==
  ASSUME HandleType, CallsNest, NEW t \in Threads, NEW f \in Frame, Push(t, f), setup' = setup,
         t \in setup.threads, f \notin Calls(t),
         \/ frames[t] = <<>>
         \/ frames[t] # <<>> /\ Top(t).pc = "callback" /\ Top(t).e_type = "user"
  PROVE  /\ frames' \in [Threads -> Seq(Frame)] /\ CallsNest'
         /\ \A u \in Threads : Calls(u)' = IF u = t THEN Calls(t) \cup {f} ELSE Calls(u)
<1> DEFINE s == frames[t]
           r == Cons(f, s)
<1>1. s \in Seq(Frame) /\ Distinct(s) /\ f \notin Range(s) /\ frames \in [Threads -> Seq(Frame)]
  BY DEF HandleType, CallsNest, Calls
<1>2. frames' = [frames EXCEPT ![t] = r]
  BY <1>1 DEF Push, Cons
<1>3. r \in Seq(Frame) /\ Distinct(r) /\ Range(r) = Range(s) \cup {f}
  BY <1>1, Prepended
<1>4. r # <<>> /\ Head(r) = f
  BY <1>1 DEF Cons
<1> HIDE DEF r
<1>5. /\ frames' \in [Threads -> Seq(Frame)] /\ frames'[t] = r
      /\ \A u \in Threads : u # t => frames'[u] = frames[u]
  BY <1>1, <1>2, <1>3
<1>6. \A u \in Threads : Calls(u)' = IF u = t THEN Calls(t) \cup {f} ELSE Calls(u)
  BY <1>3, <1>5 DEF Calls
<1>7. \A g \in Range(s) : g.pc = "callback" /\ g.e_type = "user"
  <2>1. CASE s = <<>>
    BY <2>1 DEF Range
  <2>2. CASE s # <<>>
    BY <2>2 DEF CallsNest, Calls
  <2>3. QED
    BY <2>1, <2>2
<1>8. CallsNest'
  <2> SUFFICES ASSUME NEW u \in Threads
               PROVE  /\ Distinct(frames'[u])
                      /\ frames'[u] # <<>> =>
                           /\ u \in setup.threads
                           /\ \A g \in Range(frames'[u]) \ {Head(frames'[u])} :
                                g.pc = "callback" /\ g.e_type = "user"
    BY DEF CallsNest, Calls, Top
  <2>1. CASE u # t
    BY <1>5, <2>1 DEF CallsNest, Calls, Top
  <2>2. CASE u = t
    <3>1. frames'[u] = r
      BY <1>5, <2>2
    <3>2. QED
      BY <1>3, <1>4, <1>7, <2>2, <3>1
  <2>3. QED
    BY <2>1, <2>2
<1>9. QED
  BY <1>5, <1>6, <1>8

\* The call that runs; those it was made from are in their callbacks.
LEMMA TopIsCall ==
  ASSUME HandleType, CallsNest, NEW t \in Threads, ~Idle(t)
  PROVE  /\ Top(t) \in Calls(t) /\ Top(t) \in Frame /\ t \in setup.threads
         /\ \A f \in Calls(t) : f # Top(t) => f.pc = "callback" /\ f.e_type = "user"
<1>1. frames[t] \in Seq(Frame) /\ frames[t] # <<>>
  BY DEF HandleType, Idle
<1>2. Head(frames[t]) \in Range(frames[t]) /\ Head(frames[t]) \in Frame
  BY <1>1, HeadIsOnList
<1>3. QED
  BY <1>1, <1>2 DEF CallsNest, Calls, Top

\* A call returns.
LEMMA Popped ==
  ASSUME HandleType, CallsNest, NEW t \in Threads, ~Idle(t), Pop(t), setup' = setup
  PROVE  /\ frames' \in [Threads -> Seq(Frame)] /\ CallsNest'
         /\ \A u \in Threads : Calls(u)' = IF u = t THEN Calls(t) \ {Top(t)} ELSE Calls(u)
<1> DEFINE s == frames[t]
           r == Tail(s)
<1>1. s \in Seq(Frame) /\ Distinct(s) /\ s # <<>> /\ frames \in [Threads -> Seq(Frame)]
  BY DEF HandleType, CallsNest, Idle
<1>2. frames' = [frames EXCEPT ![t] = r]
  BY <1>1 DEF Pop
<1>3. r \in Seq(Frame) /\ Distinct(r) /\ Range(r) = Range(s) \ {Head(s)}
  BY <1>1, TailIs
<1> HIDE DEF r
<1>5. /\ frames' \in [Threads -> Seq(Frame)] /\ frames'[t] = r
      /\ \A u \in Threads : u # t => frames'[u] = frames[u]
  BY <1>1, <1>2, <1>3
<1>6. \A u \in Threads : Calls(u)' = IF u = t THEN Calls(t) \ {Top(t)} ELSE Calls(u)
  BY <1>3, <1>5 DEF Calls, Top
<1>7. t \in setup.threads /\ \A g \in Range(r) : g.pc = "callback" /\ g.e_type = "user"
  BY <1>1, <1>3 DEF CallsNest, Calls, Top
<1>8. CallsNest'
  <2> SUFFICES ASSUME NEW u \in Threads
               PROVE  /\ Distinct(frames'[u])
                      /\ frames'[u] # <<>> =>
                           /\ u \in setup.threads
                           /\ \A g \in Range(frames'[u]) \ {Head(frames'[u])} :
                                g.pc = "callback" /\ g.e_type = "user"
    BY DEF CallsNest, Calls, Top
  <2>1. CASE u # t
    BY <1>5, <2>1 DEF CallsNest, Calls, Top
  <2>2. CASE u = t
    <3>1. frames'[u] = r
      BY <1>5, <2>2
    <3>2. r # <<>> => Head(r) \in Range(r)
      BY <1>3, HeadIsOnList
    <3>3. QED
      BY <1>3, <1>7, <2>2, <3>1, <3>2
  <2>3. QED
    BY <2>1, <2>2
<1>9. QED
  BY <1>5, <1>6, <1>8

\* The call that runs goes on to another place.
LEMMA Replaced ==
  ASSUME HandleType, CallsNest, NEW t \in Threads, ~Idle(t), NEW f \in Frame, Replace(t, f),
         setup' = setup, f \notin Calls(t) \ {Top(t)}
  PROVE  /\ frames' \in [Threads -> Seq(Frame)] /\ CallsNest'
         /\ \A u \in Threads :
              Calls(u)' = IF u = t THEN (Calls(t) \ {Top(t)}) \cup {f} ELSE Calls(u)
<1> DEFINE s == frames[t]
           q == Tail(s)
           r == Cons(f, q)
<1>1. s \in Seq(Frame) /\ Distinct(s) /\ s # <<>> /\ frames \in [Threads -> Seq(Frame)]
  BY DEF HandleType, CallsNest, Idle
<1>2. frames' = [frames EXCEPT ![t] = r]
  BY <1>1 DEF Replace, Cons
<1>3. q \in Seq(Frame) /\ Distinct(q) /\ Range(q) = Range(s) \ {Head(s)}
  BY <1>1, TailIs
<1> HIDE DEF q
<1>4. r \in Seq(Frame) /\ Distinct(r) /\ Range(r) = Range(q) \cup {f}
  BY <1>3, Prepended DEF Calls, Top
<1>5. r # <<>> /\ Head(r) = f
  BY <1>3 DEF Cons
<1> HIDE DEF r
<1>6. /\ frames' \in [Threads -> Seq(Frame)] /\ frames'[t] = r
      /\ \A u \in Threads : u # t => frames'[u] = frames[u]
  BY <1>1, <1>2, <1>4
<1>7. \A u \in Threads :
        Calls(u)' = IF u = t THEN (Calls(t) \ {Top(t)}) \cup {f} ELSE Calls(u)
  BY <1>3, <1>4, <1>6 DEF Calls, Top
<1>8. t \in setup.threads /\ \A g \in Range(q) : g.pc = "callback" /\ g.e_type = "user"
  BY <1>1, <1>3 DEF CallsNest, Calls, Top
<1>10. CallsNest'
  <2> SUFFICES ASSUME NEW u \in Threads
               PROVE  /\ Distinct(frames'[u])
                      /\ frames'[u] # <<>> =>
                           /\ u \in setup.threads
                           /\ \A g \in Range(frames'[u]) \ {Head(frames'[u])} :
                                g.pc = "callback" /\ g.e_type = "user"
    BY DEF CallsNest, Calls, Top
  <2>1. CASE u # t
    BY <1>6, <2>1 DEF CallsNest, Calls, Top
  <2>2. CASE u = t
    <3>1. frames'[u] = r
      BY <1>6, <2>2
    <3>2. QED
      BY <1>4, <1>5, <1>8, <2>2, <3>1
  <2>3. QED
    BY <2>1, <2>2
<1>11. QED
  BY <1>6, <1>7, <1>10

-----------------------------------------------------------------------------
\* What a step that leaves a part of the state alone keeps.

\* The calls at the places P are as they were.
SameCalls(P) ==
  \A u \in Threads : \A f \in Frame : f.pc \in P => (f \in Calls(u)' <=> f \in Calls(u))

\* The records keep their counts, types and objects and are as active as they
\* were; there may be new ones.
KeepsRecords ==
  /\ Len(arr) \in Nat /\ Len(arr') \in Nat /\ Len(arr') >= Len(arr)
  /\ \A i \in 1 .. Len(arr) :
       /\ arr'[i].count = arr[i].count /\ arr'[i].e_type = arr[i].e_type
       /\ Active(i)' <=> Active(i)
       /\ ObjectOf(i)' = ObjectOf(i)
  /\ \A i \in 1 .. Len(arr') : i > Len(arr) => ~Active(i)' /\ arr'[i].flags = {} /\ ObjectOf(i)' = 0

\* The records keep their types and objects, and none is active that was not.
KeepsObjects ==
  /\ Len(arr) \in Nat /\ Len(arr') \in Nat /\ Len(arr') >= Len(arr)
  /\ \A i \in 1 .. Len(arr) :
       /\ arr'[i].e_type = arr[i].e_type /\ ObjectOf(i)' = ObjectOf(i)
       /\ Active(i)' => Active(i)
  /\ \A i \in 1 .. Len(arr') : i > Len(arr) => ~Active(i)' /\ arr'[i].flags = {} /\ ObjectOf(i)' = 0

\* Records that stay keep their objects.
LEMMA ObjectsAreKept ==
  ASSUME KeepsRecords
  PROVE  KeepsObjects
BY DEF KeepsRecords, KeepsObjects

\* Record i is as it was, as far as its being freed goes.
RecordStays(i) ==
  /\ arr'[i].flags = arr[i].flags /\ arr'[i].count = arr[i].count
  /\ arr'[i].e_type = arr[i].e_type /\ ObjectOf(i)' = ObjectOf(i)

\* The object of a record, or 0.
LEMMA ObjectIs ==
  ASSUME HandleType, NEW i \in 1 .. Len(arr)
  PROVE  ObjectOf(i) \in Nat
<1>1. arr[i] \in CtrlRec
  BY DEF HandleType
<1>2. arr[i].obj \in Int
  BY <1>1 DEF CtrlRec
<1>3. QED
  BY <1>2 DEF ObjectOf

\* The calls of a thread are frames.
LEMMA CallsAreFrames ==
  ASSUME HandleType, NEW t \in Threads
  PROVE  Calls(t) \in SUBSET Frame
BY DEF HandleType, Calls, Range

\* No allocation ends or begins in a step that leaves the tags alone.
LEMMA AllocatedKeeps ==
  ASSUME HandleType, HandleType', SameCalls({"tag"}), issued' = issued
  PROVE  Allocated' = Allocated
<1>1. ASSUME NEW a \in Allocation
      PROVE  (\E t \in Threads : \E f \in Calls(t)' : f.pc = "tag" /\ f.h = a.h /\ f.obj = a.n)
             <=> (\E t \in Threads : \E f \in Calls(t) : f.pc = "tag" /\ f.h = a.h /\ f.obj = a.n)
  <2>1. \A t \in Threads : Calls(t) \in SUBSET Frame /\ Calls(t)' \in SUBSET Frame
    BY DEF HandleType, Calls, Range
  <2>2. QED
    BY <2>1 DEF SameCalls
<1>2. Tagged' = Tagged
  BY <1>1 DEF Tagged
<1>3. QED
  BY <1>2 DEF Allocated

\* Handles still fit the counts of records that stay.
LEMMA IdentityKeeps ==
  ASSUME IdentityInv, KeepsRecords, Allocated' = Allocated, allocs \in Nat, allocs' \in Nat,
         allocs' >= allocs, \A a \in Allocated : a.n \in Nat
  PROVE  IdentityInv'
<1>1. ASSUME NEW a \in Allocated, CountFits(a) PROVE CountFits(a)'
  <2>1. PICK d \in 0 .. Later(a), e \in Nat : CountOf(a, d, e)
    BY <1>1 DEF CountFits
  <2>2. Later(a)' = Later(a)
    BY DEF Later, Newer
  <2>3. a.h.i \in 1 .. Len(arr)
    BY DEF IdentityInv
  <2>4. CountOf(a, d, e)'
    BY <2>1, <2>3 DEF CountOf, KeepsRecords
  <2>5. QED
    BY <2>2, <2>4 DEF CountFits
<1>2. ASSUME NEW a \in Allocated PROVE a.h.i \in 1 .. Len(arr)' /\ a.n <= allocs' /\ CountFits(a)'
  <2>1. a.h.i \in 1 .. Len(arr) /\ a.n <= allocs /\ CountFits(a)
    BY DEF IdentityInv
  <2>2. QED
    BY <1>1, <2>1 DEF KeepsRecords
<1>3. QED
  BY <1>2 DEF IdentityInv

\* A count that came round once stays so.
LEMMA WrappedKeeps ==
  ASSUME Wrapped, issued \in SUBSET issued', Allocated \in SUBSET Allocated', IsFiniteSet(Allocated'),
         CountMod \in Nat
  PROVE  Wrapped'
<1>1. PICK r \in issued : Later(r) >= CountMod \div 2
  BY DEF Wrapped
<1>2. Newer(r) \in SUBSET Newer(r)' /\ IsFiniteSet(Newer(r)')
  <2>1. Newer(r)' \in SUBSET Allocated' /\ Newer(r) \in SUBSET Newer(r)'
    BY DEF Newer
  <2>2. QED
    BY <2>1, FS_Subset
<1>3. Later(r) <= Later(r)' /\ Later(r) \in Nat /\ Later(r)' \in Nat
  BY <1>2, FS_Subset, FS_CardinalityType DEF Later
<1>4. Later(r)' >= CountMod \div 2
  BY <1>1, <1>3
<1>5. QED
  BY <1>4 DEF Wrapped

\* A record that is being filled is still nobody else's.
LEMMA FillKeeps ==
  ASSUME HandleType, HandleType', FillInv, KeepsObjects, SameCalls({"fill"}), Allocated' = Allocated,
         allocs' >= allocs,
         \A n \in 1 .. MaxAllocs : freed'[n] # freed[n] => \E j \in 1 .. Len(arr) : Active(j) /\ n = ObjectOf(j)
  PROVE  FillInv'
<1>1. \A t \in Threads : Calls(t) \in SUBSET Frame /\ Calls(t)' \in SUBSET Frame
  BY DEF HandleType, Calls, Range
<1>2. \A u \in Threads : \A f \in Calls(u)' : f.pc = "fill" => f \in Calls(u)
  BY <1>1 DEF SameCalls
<1>3. ASSUME NEW t \in Threads, NEW f \in Calls(t)', f.pc = "fill"
      PROVE  /\ f.i \in 1 .. Len(arr)' /\ ~Active(f.i)'
             /\ f.obj <= allocs' /\ freed'[f.obj] = 0
             /\ \A a \in Allocated' : a.n # f.obj /\ (a.h.i = f.i => a.n < f.obj)
             /\ \A j \in 1 .. Len(arr)' : Active(j)' => ObjectOf(j)' # f.obj
  <2>1. f \in Calls(t)
    BY <1>2, <1>3
  <2>2. /\ f.i \in 1 .. Len(arr) /\ ~Active(f.i)
        /\ f.obj <= allocs /\ freed[f.obj] = 0
        /\ \A a \in Allocated : a.n # f.obj /\ (a.h.i = f.i => a.n < f.obj)
        /\ \A j \in 1 .. Len(arr) : Active(j) => ObjectOf(j) # f.obj
    BY <1>3, <2>1 DEF FillInv
  <2>3. f \in FillFrame
    BY <1>1, <1>3, <2>1 DEF Frame, TagFrame, FreeingFrame, AutoFrame, FreePcs
  <2>4. f.obj \in 1 .. MaxAllocs
    BY <2>3 DEF FillFrame
  <2>5. freed'[f.obj] = 0
    BY <2>2, <2>4
  <2>6. f.obj <= allocs'
    BY <2>2, <2>4 DEF HandleType
  <2>7. f.i \in 1 .. Len(arr)' /\ ~Active(f.i)'
    BY <2>2 DEF KeepsObjects
  <2>8. \A j \in 1 .. Len(arr)' : Active(j)' => ObjectOf(j)' # f.obj
    BY <2>2 DEF KeepsObjects
  <2>9. QED
    BY <2>2, <2>5, <2>6, <2>7, <2>8
<1>4. ASSUME NEW t \in Threads, NEW u \in Threads, NEW f \in Calls(t)', NEW g \in Calls(u)',
             f.pc = "fill", g.pc = "fill", f.i = g.i \/ f.obj = g.obj
      PROVE  t = u
  BY <1>2, <1>4 DEF FillInv
<1>5. QED
  BY <1>3, <1>4 DEF FillInv

\* A handle that is not returned yet is still valid.
LEMMA TagKeeps ==
  ASSUME HandleType, HandleType', TagInv, KeepsRecords, SameCalls({"tag"}), issued' = issued,
         Wrapped => Wrapped',
         \A t \in Threads : \A f \in Calls(t) : f.pc = "tag" =>
            Wrapped' \/ arr'[f.h.i].flags = arr[f.h.i].flags
  PROVE  TagInv'
<1>1. \A t \in Threads : Calls(t) \in SUBSET Frame /\ Calls(t)' \in SUBSET Frame
  BY DEF HandleType, Calls, Range
<1>2. \A u \in Threads : \A f \in Calls(u)' : f.pc = "tag" => f \in Calls(u)
  BY <1>1 DEF SameCalls
<1>3. ASSUME NEW t \in Threads, NEW f \in Calls(t)', f.pc = "tag"
      PROVE  /\ f.h.i \in 1 .. Len(arr)'
             /\ \A r \in issued' : r.n # f.obj
             /\ \/ Wrapped'
                \/ /\ arr'[f.h.i].flags = {"ACTIVE"} /\ arr'[f.h.i].count = f.h.count
                   /\ ObjectOf(f.h.i)' = f.obj
  <2>1. f \in Calls(t)
    BY <1>2, <1>3
  <2>2. /\ f.h.i \in 1 .. Len(arr)
        /\ \A r \in issued : r.n # f.obj
        /\ \/ Wrapped
           \/ /\ arr[f.h.i].flags = {"ACTIVE"} /\ arr[f.h.i].count = f.h.count
              /\ ObjectOf(f.h.i) = f.obj
    BY <1>3, <2>1 DEF TagInv
  <2>3. QED
    BY <1>3, <2>1, <2>2 DEF KeepsRecords
<1>4. ASSUME NEW t \in Threads, NEW u \in Threads, NEW f \in Calls(t)', NEW g \in Calls(u)',
             f.pc = "tag", g.pc = "tag", f.obj = g.obj
      PROVE  t = u
  BY <1>2, <1>4 DEF TagInv
<1>5. QED
  BY <1>3, <1>4 DEF TagInv

\* Nobody frees automatically while another call steps.
LEMMA NoAutofree ==
  ASSUME HandleType, CallsNest, AutofreeInv, NEW t \in Threads, t \in setup.threads,
         ~Idle(t) => Top(t).pc # "autofree"
  PROVE  \A u \in Threads : \A f \in Calls(u) : f.pc # "autofree"
<1> SUFFICES ASSUME NEW u \in Threads, NEW f \in Calls(u), f.pc = "autofree" PROVE FALSE
  OBVIOUS
<1>1. OneThread(setup) /\ frames[u] # <<>>
  BY DEF AutofreeInv, Calls, Range
<1>2. u \in setup.threads /\ u = t
  <2>1. u \in setup.threads
    BY <1>1 DEF CallsNest
  <2>2. QED
    BY <1>1, <2>1 DEF OneThread
<1>3. f # Top(t)
  BY <1>1, <1>2 DEF Idle
<1>4. f.pc = "callback"
  BY <1>1, <1>2, <1>3 DEF CallsNest
<1>5. QED
  BY <1>4

\* Without an autofree there is nothing to know of one.
LEMMA AutofreeKeeps ==
  ASSUME HandleType, HandleType', SameCalls({"autofree"}),
         \A u \in Threads : \A f \in Calls(u) : f.pc # "autofree"
  PROVE  AutofreeInv'
<1>1. \A t \in Threads : Calls(t)' \in SUBSET Frame
  BY DEF HandleType, Calls, Range
<1>2. \A u \in Threads : \A f \in Calls(u)' : f.pc # "autofree"
  BY <1>1 DEF SameCalls
<1>3. QED
  BY <1>2 DEF AutofreeInv

\* Records in use still have different objects.
LEMMA ObjectKeeps ==
  ASSUME HandleType, ObjectInv, KeepsObjects, freed' = freed, allocs' >= allocs,
         \A i \in 1 .. Len(arr) : arr'[i].flags = {"ACTIVE"} => arr[i].flags = {"ACTIVE"},
         allocs \in Nat, allocs' \in Nat
  PROVE  ObjectInv'
<1>1. \A i \in 1 .. Len(arr') : Active(i)' => i \in 1 .. Len(arr) /\ Active(i)
  BY DEF KeepsObjects
<1>2. ASSUME NEW i \in 1 .. Len(arr')
      PROVE  /\ ObjectOf(i)' <= allocs'
             /\ Active(i)' => ObjectOf(i)' >= 1 /\ arr'[i].e_type \in Types
             /\ arr'[i].flags = {"ACTIVE"} => freed'[ObjectOf(i)'] = 0
  <2>1. CASE i \in 1 .. Len(arr)
    <3>1. ObjectOf(i) <= allocs /\ ObjectOf(i) \in Nat
      BY <2>1, ObjectIs DEF ObjectInv
    <3>2. QED
      BY <2>1, <3>1 DEF ObjectInv, KeepsObjects
  <2>2. CASE i \notin 1 .. Len(arr)
    BY <2>2 DEF KeepsObjects
  <2>3. QED
    BY <2>1, <2>2
<1>3. ASSUME NEW i \in 1 .. Len(arr'), NEW j \in 1 .. Len(arr'), Active(i)', Active(j)', i # j
      PROVE  ObjectOf(i)' # ObjectOf(j)'
  BY <1>1, <1>3 DEF ObjectInv, KeepsObjects
<1>4. \A n \in 1 .. MaxAllocs : freed'[n] <= 1 /\ (n > allocs' => freed'[n] = 0)
  BY HandleAssumption DEF ObjectInv
<1>5. QED
  BY <1>2, <1>3, <1>4 DEF ObjectInv

\* The mark still belongs to the one call that frees the record.
LEMMA FreeingKeeps ==
  ASSUME HandleType, HandleType', FreeingInv, SameCalls(FreePcs), setup' = setup,
         freed' = freed, Len(arr') >= Len(arr), Len(arr) \in Nat, Len(arr') \in Nat,
         \A t \in Threads : \A f \in Calls(t) : f.pc \in FreePcs => RecordStays(f.i),
         \A i \in 1 .. Len(arr') : arr'[i].flags = {"ACTIVE", "FREEING"} =>
            i <= Len(arr) /\ arr[i].flags = {"ACTIVE", "FREEING"},
         \A t \in Threads : \A f \in Calls(t) :
            f.pc = "finish" /\ f.e_type = "head" => arr'[f.i].auxcount = 0
  PROVE  FreeingInv'
<1>1. \A t \in Threads : Calls(t) \in SUBSET Frame /\ Calls(t)' \in SUBSET Frame
  BY DEF HandleType, Calls, Range
<1>2. \A u \in Threads : \A f \in Calls(u)' : f.pc \in FreePcs => f \in Calls(u)
  BY <1>1 DEF SameCalls
<1>3. ASSUME NEW t \in Threads, NEW f \in Calls(t)', f.pc \in FreePcs
      PROVE  /\ f.i \in 1 .. Len(arr)' /\ f.h.i = f.i
             /\ arr'[f.i].flags = {"ACTIVE", "FREEING"}
             /\ arr'[f.i].count = f.h.count /\ arr'[f.i].e_type = f.e_type
             /\ freed'[ObjectOf(f.i)'] = IF f.pc = "finish" THEN 1 ELSE 0
             /\ f.pc = "finish" /\ f.e_type = "head" => arr'[f.i].auxcount = 0
             /\ f.e_type = "head" => "freehead" \in setup'.ops
  <2>1. f \in Calls(t)
    BY <1>2, <1>3
  <2>2. /\ f.i \in 1 .. Len(arr) /\ f.h.i = f.i
        /\ arr[f.i].flags = {"ACTIVE", "FREEING"}
        /\ arr[f.i].count = f.h.count /\ arr[f.i].e_type = f.e_type
        /\ freed[ObjectOf(f.i)] = IF f.pc = "finish" THEN 1 ELSE 0
        /\ f.e_type = "head" => "freehead" \in setup.ops
    BY <1>3, <2>1 DEF FreeingInv
  <2>3. RecordStays(f.i)
    BY <1>3, <2>1
  <2>4. f.i \in 1 .. Len(arr)' /\ arr'[f.i].count = arr[f.i].count /\ arr'[f.i].flags = arr[f.i].flags
        /\ arr'[f.i].e_type = arr[f.i].e_type /\ ObjectOf(f.i)' = ObjectOf(f.i)
    BY <2>2, <2>3 DEF RecordStays
  <2>5. f.pc = "finish" /\ f.e_type = "head" => arr'[f.i].auxcount = 0
    BY <2>1
  <2>6. QED
    BY <2>2, <2>4, <2>5
<1>4. ASSUME NEW t \in Threads, NEW u \in Threads, NEW f \in Calls(t)', NEW g \in Calls(u)',
             f.pc \in FreePcs, g.pc \in FreePcs, f.i = g.i
      PROVE  t = u /\ f = g
  <2>1. f \in Calls(t) /\ g \in Calls(u)
    BY <1>2, <1>4
  <2>2. QED
    BY <1>4, <2>1 DEF FreeingInv
<1>5. ASSUME NEW i \in 1 .. Len(arr'), arr'[i].flags = {"ACTIVE", "FREEING"}
      PROVE  \E t \in Threads : \E f \in Calls(t)' : f.pc \in FreePcs /\ f.i = i
  <2>1. i \in 1 .. Len(arr) /\ arr[i].flags = {"ACTIVE", "FREEING"}
    BY <1>5
  <2>2. PICK t \in Threads : \E f \in Calls(t) : f.pc \in FreePcs /\ f.i = i
    BY <2>1 DEF FreeingInv
  <2>3. \E f \in Calls(t)' : f.pc \in FreePcs /\ f.i = i
    BY <1>1, <2>2 DEF SameCalls
  <2>4. QED
    BY <2>2, <2>3
<1>6. QED
  BY <1>3, <1>4, <1>5 DEF FreeingInv

\* A record is being filled as before.
LEMMA FilledKeeps ==
  ASSUME HandleType, HandleType', SameCalls({"fill"}), NEW i
  PROVE  Filled(i)' <=> Filled(i)
<1>1. \A t \in Threads : Calls(t) \in SUBSET Frame /\ Calls(t)' \in SUBSET Frame
  BY DEF HandleType, Calls, Range
<1>2. QED
  BY <1>1 DEF Filled, SameCalls

\* The free list is the same.
LEMMA FreeListKeeps ==
  ASSUME HandleType, HandleType', FreeListInv, KeepsRecords, SameCalls({"fill"}), Len(arr') = Len(arr),
         \A i \in 1 .. Len(arr) : arr'[i].next = arr[i].next,
         ui2_free_handles' = ui2_free_handles, ui2_num_free' = ui2_num_free
  PROVE  FreeListInv'
<1>1. PICK s : FreeListIs(s)
  BY DEF FreeListInv
<1>2. \A i \in 1 .. Len(arr) : i \in Range(s) <=> ~Active(i)' /\ ~Filled(i)'
  BY <1>1, FilledKeeps DEF FreeListIs, KeepsRecords
<1>3. Chain(s, ui2_free_handles, NextOf')
  <2>1. DOMAIN arr = 1 .. Len(arr) /\ DOMAIN arr' = 1 .. Len(arr)
    BY DEF HandleType
  <2>2. NextOf' = NextOf
    BY <2>1 DEF NextOf
  <2>3. QED
    BY <1>1, <2>2 DEF FreeListIs
<1>4. FreeListIs(s)'
  BY <1>1, <1>2, <1>3 DEF FreeListIs
<1>5. QED
  BY <1>4 DEF FreeListInv

\* The used records are as many as before.
LEMMA StatisticsKeeps ==
  ASSUME HandleType, HandleType', StatisticsInv, KeepsRecords, SameCalls({"fill"}), Len(arr') = Len(arr),
         ui2_num_used_per_grp' = ui2_num_used_per_grp, ui2_num_free' = ui2_num_free,
         ui2_num_peak_used' = ui2_num_peak_used
  PROVE  StatisticsInv'
<1>1. \A t \in Threads : Calls(t) \in SUBSET Frame /\ Calls(t)' \in SUBSET Frame
  BY DEF HandleType, Calls, Range
<1>2. ASSUME NEW e \in Types PROVE UsedBy(e)' = UsedBy(e)
  <2>1. ASSUME NEW i \in 1 .. Len(arr)
        PROVE  (\/ Active(i)' /\ arr'[i].e_type = e
                \/ \E t \in Threads : \E f \in Calls(t)' : f.pc = "fill" /\ f.i = i /\ f.e_type = e)
               <=> (\/ Active(i) /\ arr[i].e_type = e
                    \/ \E t \in Threads : \E f \in Calls(t) : f.pc = "fill" /\ f.i = i /\ f.e_type = e)
    <3>1. (\E t \in Threads : \E f \in Calls(t)' : f.pc = "fill" /\ f.i = i /\ f.e_type = e)
          <=> (\E t \in Threads : \E f \in Calls(t) : f.pc = "fill" /\ f.i = i /\ f.e_type = e)
      BY <1>1 DEF SameCalls
    <3>2. QED
      BY <3>1 DEF KeepsRecords
  <2>2. QED
    BY <2>1 DEF UsedBy
<1>3. QED
  BY <1>2 DEF StatisticsInv

\* The auxiliary lists are the same.
LEMMA AuxKeeps ==
  ASSUME HandleType, HandleType', AuxInv, KeepsRecords, Len(arr') = Len(arr),
         \A i \in 1 .. Len(arr) :
            /\ arr'[i].auxnext = arr[i].auxnext /\ arr'[i].auxprev = arr[i].auxprev
            /\ arr'[i].auxhead = arr[i].auxhead /\ arr'[i].auxcount = arr[i].auxcount
  PROVE  AuxInv'
<1>1. DOMAIN arr = 1 .. Len(arr) /\ DOMAIN arr' = 1 .. Len(arr)
  BY DEF HandleType
<1>2. AuxNextOf' = AuxNextOf /\ AuxPrevOf' = AuxPrevOf
  BY <1>1 DEF AuxNextOf, AuxPrevOf
<1>3. ASSUME NEW i \in 1 .. Len(arr), NEW s, AuxListIs(i, s) PROVE AuxListIs(i, s)'
  BY <1>2, <1>3 DEF AuxListIs
<1>4. ASSUME NEW i \in 1 .. Len(arr)', Active(i)', arr'[i].e_type = "head" PROVE \E s : AuxListIs(i, s)'
  <2>1. i \in 1 .. Len(arr) /\ Active(i) /\ arr[i].e_type = "head"
    BY <1>4 DEF KeepsRecords
  <2>2. PICK s : AuxListIs(i, s)
    BY <2>1 DEF AuxInv
  <2>3. QED
    BY <1>3, <2>1, <2>2
<1>5. ASSUME NEW i \in 1 .. Len(arr)'
      PROVE  /\ arr'[i].auxnext \in 0 .. Len(arr)' /\ arr'[i].auxprev \in 0 .. Len(arr)'
             /\ arr'[i].auxhead \in 0 .. Len(arr)'
             /\ ~(Active(i)' /\ arr'[i].e_type = "head") => arr'[i].auxcount = 0
             /\ arr'[i].auxhead # 0 =>
                  /\ Active(i)' /\ arr'[i].e_type = "user"
                  /\ Active(arr[i].auxhead)' /\ arr'[arr'[i].auxhead].e_type = "head"
  <2>1. i \in 1 .. Len(arr)
    OBVIOUS
  <2>2. /\ arr[i].auxnext \in 0 .. Len(arr) /\ arr[i].auxprev \in 0 .. Len(arr)
        /\ arr[i].auxhead \in 0 .. Len(arr)
        /\ ~(Active(i) /\ arr[i].e_type = "head") => arr[i].auxcount = 0
        /\ arr[i].auxhead # 0 =>
             /\ Active(i) /\ arr[i].e_type = "user"
             /\ Active(arr[i].auxhead) /\ arr[arr[i].auxhead].e_type = "head"
    BY <2>1 DEF AuxInv
  <2>3. arr[i].auxhead # 0 => arr[i].auxhead \in 1 .. Len(arr)
    BY <2>2, Len(arr) \in Nat DEF KeepsRecords
  <2>4. arr[i].auxhead # 0 =>
          /\ Active(arr[i].auxhead)' /\ arr'[arr[i].auxhead].e_type = "head"
    BY <2>2, <2>3 DEF KeepsRecords
  <2>5. arr'[i].auxhead = arr[i].auxhead
    BY <2>1
  <2>6. QED
    BY <2>1, <2>2, <2>4, <2>5 DEF KeepsRecords
<1>6. QED
  BY <1>4, <1>5 DEF AuxInv

-----------------------------------------------------------------------------
\* handle_init leaves every record on the free list, the last one first.
LEMMA HandleStarts ==
  ASSUME Init
  PROVE  HandleInv
<1> DEFINE N == setup.total
<1>1. N \in Nat \ {0} /\ setup \in Setups /\ CountMod \in Nat \ {0} /\ MaxAllocs \in Nat
  BY HandleAssumption DEF Init
<1>2. /\ arr = [i \in 1 .. N |-> FreshCtrl(i - 1)]
      /\ ui2_free_handles = N /\ ui2_num_free = N
  BY DEF Init
<1> HIDE DEF N
<1>3. ASSUME NEW i \in 1 .. N PROVE FreshCtrl(i - 1) \in CtrlRec
  <2>1. i - 1 \in Nat /\ 0 \in 0 .. (CountMod - 1)
    BY <1>1
  <2>2. QED
    BY <2>1 DEF FreshCtrl, CtrlRec, NULL_IDX
<1>4. arr \in Seq(CtrlRec) /\ Len(arr) = N /\ DOMAIN arr = 1 .. N
  <2>1. arr \in [1 .. N -> CtrlRec]
    BY <1>2, <1>3
  <2>2. QED
    BY <1>1, <2>1
<1>5. \A i \in 1 .. N :
        /\ arr[i].obj = 0 /\ arr[i].flags = {} /\ arr[i].next = i - 1
        /\ arr[i].auxnext = 0 /\ arr[i].auxprev = 0 /\ arr[i].auxhead = 0 /\ arr[i].auxcount = 0
        /\ ~Active(i) /\ ObjectOf(i) = 0
  BY <1>2 DEF FreshCtrl, NULL_IDX, Active, ObjectOf
<1>6. \A t \in Threads : Calls(t) = {} /\ frames[t] = <<>>
  BY DEF Init, Calls, Range
<1>7. HandleType
  <2>1. frames \in [Threads -> Seq(Frame)]
    <3>1. <<>> \in Seq(Frame)
      OBVIOUS
    <3>2. QED
      BY <3>1 DEF Init
  <2>2. freed \in [1 .. MaxAllocs -> Nat] /\ issued \in SUBSET Allocation /\ allocs \in 0 .. MaxAllocs
    BY <1>1 DEF Init
  <2>3. ui2_num_used_per_grp \in [Types -> Nat] /\ mem \in Nat /\ ui2_num_peak_used \in Nat
        /\ moved \in BOOLEAN /\ wild \in BOOLEAN /\ aborted \in BOOLEAN /\ setup \in Setups
    BY DEF Init
  <2>4. QED
    BY <1>1, <1>2, <1>4, <2>1, <2>2, <2>3 DEF HandleType
<1>8. CallsNest
  BY <1>6 DEF CallsNest, Distinct
<1>9. Allocated = {}
  BY <1>6 DEF Init, Allocated, Tagged
<1>10. IdentityInv
  BY <1>9, FS_EmptySet DEF IdentityInv
<1>11. ObjectInv
  <2>1. allocs = 0 /\ \A n \in 1 .. MaxAllocs : freed[n] = 0
    BY DEF Init
  <2>2. \A i \in 1 .. Len(arr) : ObjectOf(i) = 0 /\ ~Active(i) /\ arr[i].flags = {}
    BY <1>4, <1>5
  <2>3. QED
    BY <2>1, <2>2 DEF ObjectInv
<1>12. FillInv /\ TagInv /\ AutofreeInv
  BY <1>6 DEF FillInv, TagInv, AutofreeInv
<1>13. FreeingInv
  BY <1>4, <1>5, <1>6 DEF FreeingInv
<1>14. FreeListInv
  <2> DEFINE s == [k \in 1 .. N |-> (N + 1) - k]
  <2>1. s \in Seq(Recs(N)) /\ Len(s) = N /\ \A k \in 1 .. N : s[k] = (N + 1) - k
    <3>1. s \in [1 .. N -> Recs(N)]
      BY <1>1 DEF Recs
    <3>2. QED
      BY <1>1, <3>1
  <2> HIDE DEF s
  <2>2. Distinct(s)
    BY <1>1, <2>1 DEF Distinct
  <2>3. \A i \in 1 .. N : i \in Range(s)
    <3>1. ASSUME NEW i \in 1 .. N PROVE i \in Range(s)
      <4>1. (N + 1) - i \in 1 .. N /\ (N + 1) - ((N + 1) - i) = i
        BY <1>1
      <4>2. s[(N + 1) - i] = i
        BY <2>1, <4>1
      <4>3. QED
        BY <2>1, <4>1, <4>2, AtPlace
    <3>2. QED
      BY <3>1
  <2>4. Chain(s, N, NextOf)
    <3>1. N = Nth(s, 1)
      BY <1>1, <2>1 DEF Nth
    <3>2. ASSUME NEW k \in 1 .. N PROVE NextOf[s[k]] = Nth(s, k + 1)
      <4>1. s[k] \in 1 .. N /\ s[k] - 1 = N - k
        BY <1>1, <2>1
      <4>2. NextOf[s[k]] = N - k
        BY <1>4, <1>5, <4>1 DEF NextOf
      <4>3. Nth(s, k + 1) = N - k
        <5>1. CASE k = N
          BY <1>1, <2>1, <5>1 DEF Nth
        <5>2. CASE k # N
          <6>1. k + 1 \in 1 .. N /\ (N + 1) - (k + 1) = N - k
            BY <1>1, <5>2
          <6>2. QED
            BY <2>1, <6>1 DEF Nth
        <5>3. QED
          BY <5>1, <5>2
      <4>4. QED
        BY <4>2, <4>3
    <3>3. QED
      BY <2>1, <3>1, <3>2 DEF Chain
  <2>5. \A i \in 1 .. N : ~Filled(i)
    BY <1>6 DEF Filled
  <2>6. FreeListIs(s)
    BY <1>2, <1>4, <1>5, <2>1, <2>2, <2>3, <2>4, <2>5 DEF FreeListIs
  <2>7. \A i \in 1 .. N : arr[i].next \in 0 .. N
    BY <1>1, <1>5
  <2>8. QED
    BY <1>4, <2>6, <2>7 DEF FreeListInv
<1>15. StatisticsInv
  <2>1. \A e \in Types : UsedBy(e) = {}
    BY <1>4, <1>5, <1>6 DEF UsedBy
  <2>2. \A e \in Types : ui2_num_used_per_grp[e] = 0 /\ Cardinality(UsedBy(e)) = 0
    BY <2>1, FS_EmptySet DEF Init
  <2>3. QED
    BY <1>1, <1>2, <1>4, <2>2 DEF StatisticsInv, Init, Types
<1>16. AuxInv
  BY <1>1, <1>4, <1>5 DEF AuxInv
<1>17. ProgramInv
  BY <1>4, <1>6 DEF ProgramInv, Init, N
<1>18. QED
  BY <1>7, <1>8, <1>10, <1>11, <1>12, <1>13, <1>14, <1>15, <1>16, <1>17 DEF HandleInv

\* The record a handle leads to.
LEMMA ValidIs ==
  ASSUME NEW h, Valid(h)
  PROVE  /\ h.i \in 1 .. Len(arr) /\ arr[h.i].count = h.count /\ Active(h.i)
         /\ get_h_ctrl_from_handle(h) = h.i
BY DEF Valid, get_h_ctrl_from_handle, NULL_IDX, ui2_num_total

\* An active record is being freed or not.
LEMMA FlagsAre ==
  ASSUME HandleType, NEW i \in 1 .. Len(arr)
  PROVE  /\ arr[i] \in CtrlRec
         /\ Active(i) /\ "FREEING" \notin arr[i].flags => arr[i].flags = {"ACTIVE"}
         /\ Active(i) /\ "FREEING" \in arr[i].flags => arr[i].flags = {"ACTIVE", "FREEING"}
<1>1. arr[i] \in CtrlRec
  BY DEF HandleType
<1>2. arr[i].flags \in SUBSET Flags
  BY <1>1 DEF CtrlRec
<1>3. QED
  BY <1>1, <1>2 DEF Active, Flags

\* A step that changes neither the free list nor the life of an object.
LEMMA QuietStep ==
  ASSUME HandleInv, arr' \in Seq(CtrlRec), Len(arr') = Len(arr),
         UNCHANGED <<setup, mem, ui2_free_handles, ui2_num_free, ui2_num_peak_used,
                     ui2_num_used_per_grp, frames, issued, allocs, freed, moved, aborted>>,
         wild' \in BOOLEAN, wild' => wild \/ moved,
         \A i \in 1 .. Len(arr) :
           /\ arr'[i].count = arr[i].count /\ arr'[i].e_type = arr[i].e_type
           /\ arr'[i].flags = arr[i].flags /\ arr'[i].next = arr[i].next
           /\ ObjectOf(i)' = ObjectOf(i),
         AuxInv',
         \A t \in Threads : \A f \in Calls(t) :
           f.pc = "finish" /\ f.e_type = "head" => arr'[f.i].auxcount = 0
  PROVE  HandleInv'
<1>1. KeepsRecords
  <2>1. Len(arr) \in Nat
    BY DEF HandleInv, HandleType
  <2>2. QED
    BY <2>1 DEF KeepsRecords, Active
<1>2. HandleType'
  BY DEF HandleInv, HandleType
<1>3. \A t \in Threads : Calls(t)' = Calls(t) /\ Top(t)' = Top(t)
  BY DEF Calls, Top
<1>4. \A P : SameCalls(P)
  BY <1>3 DEF SameCalls
<1>5. CallsNest'
  BY <1>3 DEF HandleInv, CallsNest
<1>6. Allocated' = Allocated
  BY <1>2, <1>4, AllocatedKeeps DEF HandleInv
<1>7. IdentityInv'
  <2>1. allocs \in Nat /\ \A a \in Allocated : a.n \in Nat
    BY DEF HandleInv, HandleType, Allocated, Tagged, Allocation
  <2>2. QED
    BY <1>1, <1>6, <2>1, IdentityKeeps DEF HandleInv
<1>8. Wrapped' <=> Wrapped
  BY <1>6 DEF Wrapped, Later, Newer
<1>9. ObjectInv'
  <2>1. allocs \in Nat
    BY DEF HandleInv, HandleType
  <2>2. QED
    BY <1>1, <2>1, ObjectKeeps, ObjectsAreKept DEF HandleInv
<1>10. FillInv'
  <2>1. allocs' >= allocs
    BY DEF HandleInv, HandleType
  <2>2. QED
    BY <1>1, <1>2, <1>4, <1>6, <2>1, FillKeeps, ObjectsAreKept DEF HandleInv
<1>11. TagInv'
  <2>1. \A t \in Threads : \A f \in Calls(t) : f.pc = "tag" => arr'[f.h.i].flags = arr[f.h.i].flags
    BY DEF HandleInv, TagInv
  <2>2. QED
    BY <1>1, <1>2, <1>4, <1>8, <2>1, TagKeeps DEF HandleInv
<1>12. FreeingInv'
  <2>1. \A u \in Threads : \A f \in Calls(u) : f.pc \in FreePcs => RecordStays(f.i)
    BY DEF HandleInv, FreeingInv, RecordStays
  <2>2. Len(arr) \in Nat
    BY DEF HandleInv, HandleType
  <2>3. QED
    BY <1>2, <1>4, <2>1, <2>2, FreeingKeeps DEF HandleInv
<1>13. AutofreeInv'
  BY <1>3 DEF HandleInv, AutofreeInv
<1>14. FreeListInv' /\ StatisticsInv'
  BY <1>1, <1>2, <1>4, FreeListKeeps, StatisticsKeeps DEF HandleInv
<1>15. ProgramInv'
  BY <1>3, <1>8 DEF HandleInv, ProgramInv
<1>16. QED
  BY <1>2, <1>5, <1>7, <1>9, <1>10, <1>11, <1>12, <1>13, <1>14, <1>15 DEF HandleInv

\* What storing one record does to the table.
LEMMA Stored ==
  ASSUME NEW a \in Seq(CtrlRec), NEW i \in 1 .. Len(a), NEW c \in CtrlRec
  PROVE  /\ [a EXCEPT ![i] = c] \in Seq(CtrlRec) /\ Len([a EXCEPT ![i] = c]) = Len(a)
         /\ [a EXCEPT ![i] = c][i] = c
         /\ \A j \in 1 .. Len(a) : j # i => [a EXCEPT ![i] = c][j] = a[j]
OBVIOUS

\* u_handle_set_obj replaces an object by one that counts as the same.
LEMMA SetObjStep ==
  ASSUME HandleInv, NEW t \in Threads, NEW h, SetObj(t, h)
  PROVE  HandleInv'
<1>1. h.i \in 1 .. Len(arr) /\ arr \in Seq(CtrlRec) /\ arr[h.i] \in CtrlRec
  BY ValidIs, FlagsAre DEF SetObj, HandleInv, HandleType
<1> DEFINE o == arr[h.i].obj
           c == [arr[h.i] EXCEPT !.obj = IF o > 0 THEN -o ELSE o]
<1>2. arr' = [arr EXCEPT ![h.i] = c]
  BY DEF SetObj
<1>3. /\ c \in CtrlRec /\ c.obj = IF o > 0 THEN -o ELSE o
      /\ c.count = arr[h.i].count /\ c.e_type = arr[h.i].e_type /\ c.flags = arr[h.i].flags
      /\ c.next = arr[h.i].next /\ c.auxnext = arr[h.i].auxnext /\ c.auxprev = arr[h.i].auxprev
      /\ c.auxhead = arr[h.i].auxhead /\ c.auxcount = arr[h.i].auxcount
  <2>1. o \in Int
    BY <1>1 DEF CtrlRec
  <2> HIDE DEF o
  <2>2. (IF o > 0 THEN -o ELSE o) \in Int
    BY <2>1
  <2>3. QED
    BY <1>1, <2>2 DEF CtrlRec
<1> HIDE DEF c
<1>4. /\ arr' \in Seq(CtrlRec) /\ Len(arr') = Len(arr) /\ arr'[h.i] = c
      /\ \A j \in 1 .. Len(arr) : j # h.i => arr'[j] = arr[j]
  BY <1>1, <1>2, <1>3, Stored
<1>5. \A i \in 1 .. Len(arr) :
        /\ arr'[i].count = arr[i].count /\ arr'[i].e_type = arr[i].e_type
        /\ arr'[i].flags = arr[i].flags /\ arr'[i].next = arr[i].next
        /\ arr'[i].auxnext = arr[i].auxnext /\ arr'[i].auxprev = arr[i].auxprev
        /\ arr'[i].auxhead = arr[i].auxhead /\ arr'[i].auxcount = arr[i].auxcount
  BY <1>3, <1>4
<1>6. ASSUME NEW i \in 1 .. Len(arr) PROVE ObjectOf(i)' = ObjectOf(i)
  <2>1. CASE i = h.i
    <3>1. o \in Int /\ arr'[i].obj = (IF o > 0 THEN -o ELSE o) /\ arr[i].obj = o
      BY <1>1, <1>3, <1>4, <2>1 DEF CtrlRec
    <3> HIDE DEF o
    <3>2. QED
      BY <3>1 DEF ObjectOf
  <2>2. CASE i # h.i
    BY <1>4, <2>2 DEF ObjectOf
  <2>3. QED
    BY <2>1, <2>2
<1>7. HandleType'
  BY <1>4 DEF SetObj, HandleInv, HandleType
<1>8. KeepsRecords
  BY <1>1, <1>4, <1>5, <1>6 DEF KeepsRecords, Active
<1>9. AuxInv'
  BY <1>4, <1>5, <1>7, <1>8, AuxKeeps DEF HandleInv
<1>10. \A u \in Threads : \A f \in Calls(u) :
         f.pc = "finish" /\ f.e_type = "head" => arr'[f.i].auxcount = 0
  BY <1>5 DEF HandleInv, FreeingInv, FreePcs
<1>11. wild' \in BOOLEAN /\ (wild' => wild)
  BY DEF SetObj, HandleInv, HandleType
<1>12. QED
  BY <1>4, <1>5, <1>6, <1>9, <1>10, <1>11, QuietStep DEF SetObj

-----------------------------------------------------------------------------
\* The members of an auxiliary list are objects, so no head is on one.
LEMMA AuxMembers ==
  ASSUME HandleType, AuxInv, NEW hd \in 1 .. Len(arr), NEW s, AuxListIs(hd, s)
  PROVE  /\ s \in Seq(Recs(Len(arr))) /\ Len(arr) \in Nat
         /\ \A x \in Range(s) : /\ x \in 1 .. Len(arr) /\ arr[x].auxhead = hd /\ Active(x)
                                /\ arr[x].e_type = "user"
<1>1. s \in Seq(Recs(Len(arr))) /\ Len(arr) \in Nat
  BY DEF AuxListIs, HandleType
<1>2. ASSUME NEW x \in Range(s) PROVE x \in 1 .. Len(arr)
  BY <1>1 DEF Range, Recs
<1>3. ASSUME NEW x \in Range(s) PROVE arr[x].auxhead = hd
  BY <1>2 DEF AuxListIs
<1>4. ASSUME NEW x \in Range(s) PROVE Active(x) /\ arr[x].e_type = "user"
  BY <1>2, <1>3 DEF AuxInv
<1>5. QED
  BY <1>1, <1>2, <1>3, <1>4

\* A record that is on no list and has none stops being in use, or is in use again.
LEMMA AuxUnlinked ==
  ASSUME HandleType, HandleType', AuxInv, NEW i \in 1 .. Len(arr), Len(arr') = Len(arr),
         arr[i].auxhead = 0, arr[i].auxcount = 0,
         \A j \in 1 .. Len(arr) :
            /\ arr'[j].e_type = arr[j].e_type
            /\ j # i => (Active(j)' <=> Active(j))
            /\ arr'[j].auxnext = arr[j].auxnext /\ arr'[j].auxprev = arr[j].auxprev
            /\ arr'[j].auxhead = arr[j].auxhead /\ arr'[j].auxcount = arr[j].auxcount,
         ~Active(i)'
  PROVE  AuxInv'
<1>1. DOMAIN arr = 1 .. Len(arr) /\ DOMAIN arr' = 1 .. Len(arr) /\ Len(arr) \in Nat
  BY DEF HandleType
<1>2. AuxNextOf' = AuxNextOf /\ AuxPrevOf' = AuxPrevOf
  BY <1>1 DEF AuxNextOf, AuxPrevOf
<1>3. ASSUME NEW j \in 1 .. Len(arr), NEW s, AuxListIs(j, s) PROVE AuxListIs(j, s)'
  BY <1>2, <1>3 DEF AuxListIs
<1>4. ASSUME NEW j \in 1 .. Len(arr), Active(j)', arr'[j].e_type = "head" PROVE \E s : AuxListIs(j, s)'
  <2>1. PICK s : AuxListIs(j, s)
    BY <1>4 DEF AuxInv
  <2>2. QED
    BY <1>3, <2>1
<1>5. ASSUME NEW j \in 1 .. Len(arr) PROVE arr[j].auxhead # i
  <2>1. SUFFICES ASSUME arr[j].auxhead = i PROVE FALSE
    OBVIOUS
  <2>2. Active(i) /\ arr[i].e_type = "head"
    BY <2>1 DEF AuxInv
  <2>3. PICK s : AuxListIs(i, s)
    BY <2>2 DEF AuxInv
  <2>4. j \in Range(s) /\ Len(s) = 0
    BY <2>1, <2>3 DEF AuxListIs
  <2>5. QED
    BY <2>4 DEF Range
<1>6. ASSUME NEW j \in 1 .. Len(arr)
      PROVE  /\ arr'[j].auxnext \in 0 .. Len(arr) /\ arr'[j].auxprev \in 0 .. Len(arr)
             /\ arr'[j].auxhead \in 0 .. Len(arr)
             /\ ~(Active(j)' /\ arr'[j].e_type = "head") => arr'[j].auxcount = 0
             /\ arr'[j].auxhead # 0 =>
                  /\ Active(j)' /\ arr'[j].e_type = "user"
                  /\ Active(arr[j].auxhead)' /\ arr'[arr'[j].auxhead].e_type = "head"
  <2>1. /\ arr[j].auxnext \in 0 .. Len(arr) /\ arr[j].auxprev \in 0 .. Len(arr)
        /\ arr[j].auxhead \in 0 .. Len(arr)
        /\ ~(Active(j) /\ arr[j].e_type = "head") => arr[j].auxcount = 0
        /\ arr[j].auxhead # 0 =>
             /\ Active(j) /\ arr[j].e_type = "user"
             /\ Active(arr[j].auxhead) /\ arr[arr[j].auxhead].e_type = "head"
    BY DEF AuxInv
  <2>2. arr[j].auxhead # 0 => arr[j].auxhead \in 1 .. Len(arr) /\ arr[j].auxhead # i /\ j # i
    BY <1>1, <1>5, <2>1
  <2>3. arr'[j].auxhead = arr[j].auxhead /\ arr'[j].auxcount = arr[j].auxcount
    OBVIOUS
  <2>4. ~(Active(j)' /\ arr'[j].e_type = "head") => arr'[j].auxcount = 0
    BY <2>1
  <2>5. arr[j].auxhead # 0 =>
          /\ Active(j)' /\ arr'[j].e_type = "user"
          /\ Active(arr[j].auxhead)' /\ arr'[arr[j].auxhead].e_type = "head"
    BY <2>1, <2>2
  <2>6. QED
    BY <2>1, <2>3, <2>4, <2>5
<1>7. QED
  BY <1>4, <1>6 DEF AuxInv

\* The effect of delink_from_aux on the table.
NowDelinked(i) ==
  LET hd == arr[i].auxhead
      nx == arr[i].auxnext
      pv == arr[i].auxprev
  IN \A j \in 1 .. Len(arr) :
       /\ arr'[j].auxnext = IF j = i THEN 0 ELSE IF j = pv \/ (pv = 0 /\ j = hd) THEN nx ELSE arr[j].auxnext
       /\ arr'[j].auxprev = IF j = i THEN 0 ELSE IF j = nx THEN pv ELSE arr[j].auxprev
       /\ arr'[j].auxhead = IF j = i THEN 0 ELSE arr[j].auxhead
       /\ arr'[j].auxcount = IF j # i /\ j = hd /\ arr[j].auxcount > 0
                             THEN arr[j].auxcount - 1 ELSE arr[j].auxcount

\* A record leaves the list it is on, and may stop being in use.
LEMMA AuxDelinks ==
  ASSUME HandleType, HandleType', AuxInv, NEW i \in 1 .. Len(arr), Len(arr') = Len(arr),
         arr[i].auxhead # 0, NowDelinked(i),
         \A j \in 1 .. Len(arr) : /\ arr'[j].e_type = arr[j].e_type
                                  /\ j # i => (Active(j)' <=> Active(j))
  PROVE  AuxInv'
<1> DEFINE N == Len(arr)
<1>0. PICK hd, nx, pv : hd = arr[i].auxhead /\ nx = arr[i].auxnext /\ pv = arr[i].auxprev
  OBVIOUS
<1>1. DOMAIN arr = 1 .. N /\ DOMAIN arr' = 1 .. N /\ N \in Nat
  BY DEF HandleType
<1>2. \A j \in 1 .. N :
        /\ arr[j].auxnext \in 0 .. N /\ arr[j].auxprev \in 0 .. N
        /\ arr[j].auxhead \in 0 .. N
        /\ ~(Active(j) /\ arr[j].e_type = "head") => arr[j].auxcount = 0
        /\ arr[j].auxhead # 0 =>
             /\ Active(j) /\ arr[j].e_type = "user"
             /\ Active(arr[j].auxhead) /\ arr[arr[j].auxhead].e_type = "head"
  BY DEF AuxInv
<1>3. hd \in 1 .. N /\ Active(hd) /\ arr[hd].e_type = "head" /\ arr[i].e_type = "user" /\ hd # i
  BY <1>0, <1>1, <1>2
<1>4. \A j \in 1 .. N :
        /\ j # i => arr'[j].auxnext = IF j = pv \/ (pv = 0 /\ j = hd) THEN nx ELSE arr[j].auxnext
        /\ j # i => arr'[j].auxprev = IF j = nx THEN pv ELSE arr[j].auxprev
        /\ j # i => arr'[j].auxhead = arr[j].auxhead
        /\ j # hd => arr'[j].auxcount = arr[j].auxcount
        /\ j = i => arr'[j].auxnext = 0 /\ arr'[j].auxprev = 0 /\ arr'[j].auxhead = 0
  BY <1>0 DEF NowDelinked
<1>5. arr'[hd].auxcount = IF arr[hd].auxcount > 0 THEN arr[hd].auxcount - 1 ELSE arr[hd].auxcount
  BY <1>0, <1>3 DEF NowDelinked
<1>6. nx \in 0 .. N /\ pv \in 0 .. N
  BY <1>0, <1>2
<1>7. PICK s : AuxListIs(hd, s)
  BY <1>3 DEF AuxInv
<1>8. /\ s \in Seq(Recs(N)) /\ Distinct(s) /\ Len(s) = arr[hd].auxcount
      /\ \A j \in 1 .. N : j \in Range(s) <=> arr[j].auxhead = hd
      /\ Chain(s, arr[hd].auxnext, AuxNextOf) /\ BackChain(s, AuxPrevOf)
      /\ \A x \in Range(s) : x \in 1 .. N /\ arr[x].auxhead = hd /\ arr[x].e_type = "user"
  <2>1. \A x \in Range(s) : x \in 1 .. N /\ arr[x].auxhead = hd /\ arr[x].e_type = "user"
    BY <1>3, <1>7, AuxMembers
  <2>2. QED
    BY <1>7, <2>1 DEF AuxListIs
<1>9. PICK p \in 1 .. Len(s) : s[p] = i
  BY <1>0, <1>8 DEF Range
<1>10. /\ \A j \in 1 .. N : AuxNextOf[j] = arr[j].auxnext /\ AuxPrevOf[j] = arr[j].auxprev
       /\ \A j \in 1 .. N : AuxNextOf'[j] = arr'[j].auxnext /\ AuxPrevOf'[j] = arr'[j].auxprev
  BY <1>1 DEF AuxNextOf, AuxPrevOf
<1>11. nx = Nth(s, p + 1) /\ pv = Nth(s, p - 1)
  BY <1>0, <1>8, <1>9, <1>10 DEF Chain, BackChain
<1>12. (nx # 0 => nx \in Range(s)) /\ (pv # 0 => pv \in Range(s))
  <2>1. p + 1 \in Int /\ p - 1 \in Int
    BY <1>9
  <2>2. QED
    BY <1>1, <1>8, <1>11, <2>1, NthIs
<1>13. AuxListIs(hd, RemoveAt(s, p))'
  <2> DEFINE r == RemoveAt(s, p)
  <2>1. /\ r \in Seq(Recs(N)) /\ Len(r) = Len(s) - 1 /\ Distinct(r) /\ Range(r) = Range(s) \ {i}
    BY <1>1, <1>8, <1>9, NthRemoved, RangeRemoved
  <2>2. Len(s) > 0 /\ Len(r) = arr'[hd].auxcount
    BY <1>5, <1>8, <1>9, <2>1
  <2>3. \A j \in 1 .. N : j \in Range(r) <=> arr'[j].auxhead = hd
    <3>1. ASSUME NEW j \in 1 .. N PROVE j \in Range(s) /\ j # i <=> arr'[j].auxhead = hd
      <4>1. CASE j = i
        BY <1>3, <1>4, <4>1
      <4>2. CASE j # i
        BY <1>4, <1>8, <4>2
      <4>3. QED
        BY <4>1, <4>2
    <3>2. QED
      BY <2>1, <3>1
  <2>4. hd \notin Range(s)
    BY <1>3, <1>8
  <2>5. arr'[hd].auxnext = IF AuxPrevOf[s[p]] = 0 THEN AuxNextOf[s[p]] ELSE arr[hd].auxnext
    <3>1. hd # pv
      BY <1>3, <1>12, <2>4
    <3>2. AuxPrevOf[s[p]] = pv /\ AuxNextOf[s[p]] = nx
      BY <1>0, <1>9, <1>10
    <3>3. QED
      BY <1>3, <1>4, <3>1, <3>2
  <2>6. \A x \in Range(s) \ {s[p]} :
          AuxNextOf'[x] = IF x = AuxPrevOf[s[p]] THEN AuxNextOf[s[p]] ELSE AuxNextOf[x]
    <3>1. AuxPrevOf[s[p]] = pv /\ AuxNextOf[s[p]] = nx
      BY <1>0, <1>9, <1>10
    <3>2. QED
      BY <1>4, <1>8, <1>9, <1>10, <2>4, <3>1
  <2>7. \A x \in Range(s) \ {s[p]} :
          AuxPrevOf'[x] = IF x = AuxNextOf[s[p]] THEN AuxPrevOf[s[p]] ELSE AuxPrevOf[x]
    <3>1. AuxPrevOf[s[p]] = pv /\ AuxNextOf[s[p]] = nx
      BY <1>0, <1>9, <1>10
    <3>2. QED
      BY <1>4, <1>8, <1>9, <1>10, <3>1
  <2>8. Chain(r, arr'[hd].auxnext, AuxNextOf')
    <3> DEFINE next == AuxNextOf
               prev == AuxPrevOf
               next2 == AuxNextOf'
    <3>1. arr'[hd].auxnext = IF prev[s[p]] = 0 THEN next[s[p]] ELSE arr[hd].auxnext
      BY <2>5
    <3>2. \A x \in Range(s) \ {s[p]} : next2[x] = IF x = prev[s[p]] THEN next[s[p]] ELSE next[x]
      BY <2>6
    <3>3. /\ s \in Seq(Recs(N)) /\ Distinct(s) /\ N \in Nat
          /\ Chain(s, arr[hd].auxnext, next) /\ BackChain(s, prev)
      BY <1>1, <1>8
    <3> HIDE DEF next, prev, next2
    <3>4. Chain(r, arr'[hd].auxnext, next2)
      BY <3>1, <3>2, <3>3, ChainRemoved
    <3>5. QED
      BY <3>4 DEF next2
  <2>9. BackChain(r, AuxPrevOf')
    <3> DEFINE next == AuxNextOf
               prev == AuxPrevOf
               prev2 == AuxPrevOf'
               first == arr[hd].auxnext
    <3>1. Chain(s, first, next) /\ BackChain(s, prev) /\ s \in Seq(Recs(N)) /\ Distinct(s)
          /\ \A x \in Range(s) \ {s[p]} : prev2[x] = IF x = next[s[p]] THEN prev[s[p]] ELSE prev[x]
      BY <1>8, <2>7
    <3> HIDE DEF next, prev, prev2, first
    <3>2. BackChain(r, prev2)
      BY <1>1, <3>1, BackRemoved
    <3>3. QED
      BY <3>2 DEF prev2
  <2> HIDE DEF r
  <2>10. AuxListIs(hd, r)'
    BY <2>1, <2>2, <2>3, <2>8, <2>9 DEF AuxListIs
  <2>11. QED
    BY <2>10 DEF r
<1>14. ASSUME NEW k \in 1 .. N, Active(k)', arr'[k].e_type = "head" PROVE \E q : AuxListIs(k, q)'
  <2>1. k # i /\ Active(k) /\ arr[k].e_type = "head"
    BY <1>3, <1>14
  <2>2. CASE k = hd
    BY <1>13, <2>2
  <2>3. CASE k # hd
    <3>1. PICK q : AuxListIs(k, q)
      BY <2>1 DEF AuxInv
    <3>2. /\ q \in Seq(Recs(N)) /\ Distinct(q) /\ Len(q) = arr[k].auxcount
          /\ \A j \in 1 .. N : j \in Range(q) <=> arr[j].auxhead = k
          /\ Chain(q, arr[k].auxnext, AuxNextOf) /\ BackChain(q, AuxPrevOf)
          /\ \A x \in Range(q) : x \in 1 .. N /\ arr[x].auxhead = k /\ arr[x].e_type = "user"
      BY <3>1, AuxMembers DEF AuxListIs
    <3>3. i \notin Range(q) /\ hd \notin Range(q) /\ pv \notin Range(q) /\ nx \notin Range(q) /\ k # pv
      <4>1. i \notin Range(q) /\ hd \notin Range(q)
        BY <1>0, <1>3, <2>3, <3>2
      <4>2. 0 \notin Range(q) /\ Range(q) \cap Range(s) = {}
        BY <1>8, <2>3, <3>2
      <4>3. k # pv
        BY <1>8, <1>12, <2>1
      <4>4. QED
        BY <1>12, <4>1, <4>2, <4>3
    <3>4. \A x \in Range(q) : AuxNextOf'[x] = AuxNextOf[x] /\ AuxPrevOf'[x] = AuxPrevOf[x]
      BY <1>4, <1>10, <3>2, <3>3
    <3>5. Chain(q, arr[k].auxnext, AuxNextOf') /\ BackChain(q, AuxPrevOf')
      BY <1>1, <3>2, <3>4, ChainKeeps, BackKeeps
    <3>6. arr'[k].auxnext = arr[k].auxnext /\ arr'[k].auxcount = arr[k].auxcount
      BY <1>4, <2>1, <2>3, <3>3
    <3>7. \A j \in 1 .. N : j \in Range(q) <=> arr'[j].auxhead = k
      BY <1>3, <1>4, <3>2, <3>3
    <3>8. AuxListIs(k, q)'
      BY <3>2, <3>5, <3>6, <3>7 DEF AuxListIs
    <3>9. QED
      BY <3>8
  <2>4. QED
    BY <2>2, <2>3
<1>15. ASSUME NEW j \in 1 .. N
       PROVE  /\ arr'[j].auxnext \in 0 .. N /\ arr'[j].auxprev \in 0 .. N
              /\ arr'[j].auxhead \in 0 .. N
              /\ ~(Active(j)' /\ arr'[j].e_type = "head") => arr'[j].auxcount = 0
              /\ arr'[j].auxhead # 0 =>
                   /\ Active(j)' /\ arr'[j].e_type = "user"
                   /\ Active(arr[j].auxhead)' /\ arr'[arr'[j].auxhead].e_type = "head"
  <2>1. arr'[j].auxnext \in 0 .. N /\ arr'[j].auxprev \in 0 .. N /\ arr'[j].auxhead \in 0 .. N
    <3>1. arr'[j].auxnext \in 0 .. N
      BY <1>1, <1>2, <1>4, <1>6
    <3>2. arr'[j].auxprev \in 0 .. N
      BY <1>1, <1>2, <1>4, <1>6
    <3>3. arr'[j].auxhead \in 0 .. N
      BY <1>1, <1>2, <1>4, <1>6
    <3>4. QED
      BY <3>1, <3>2, <3>3
  <2>2. ~(Active(j)' /\ arr'[j].e_type = "head") => arr'[j].auxcount = 0
    <3>1. CASE j = hd
      BY <1>3, <3>1
    <3>2. CASE j # hd
      BY <1>2, <1>3, <1>4, <3>2
    <3>3. QED
      BY <3>1, <3>2
  <2>3. ASSUME arr'[j].auxhead # 0
        PROVE  /\ Active(j)' /\ arr'[j].e_type = "user"
               /\ Active(arr[j].auxhead)' /\ arr'[arr'[j].auxhead].e_type = "head"
    <3>1. j # i /\ arr'[j].auxhead = arr[j].auxhead /\ arr[j].auxhead \in 1 .. N
      BY <1>1, <1>2, <1>4, <2>3
    <3>2. arr[j].auxhead # i
      BY <1>2, <1>3, <3>1
    <3>3. QED
      BY <1>2, <3>1, <3>2
  <2>4. QED
    BY <2>1, <2>2, <2>3
<1>16. QED
  BY <1>14, <1>15 DEF AuxInv

\* The effect of u_handle_link_to_aux on the table.
NowLinked(hd, i) ==
  \A j \in 1 .. Len(arr) :
    /\ arr'[j].auxnext = IF j = hd THEN i ELSE IF j = i THEN arr[hd].auxnext ELSE arr[j].auxnext
    /\ arr'[j].auxprev = IF j = arr[hd].auxnext THEN i ELSE IF j = i THEN 0 ELSE arr[j].auxprev
    /\ arr'[j].auxhead = IF j = i THEN hd ELSE arr[j].auxhead
    /\ arr'[j].auxcount = IF j = hd THEN arr[j].auxcount + 1 ELSE arr[j].auxcount

\* An object that is on no list becomes the first one of a head's.
LEMMA AuxLinks ==
  ASSUME HandleType, HandleType', AuxInv, NEW hd \in 1 .. Len(arr), NEW i \in 1 .. Len(arr),
         Len(arr') = Len(arr), NowLinked(hd, i),
         Active(hd), arr[hd].e_type = "head", Active(i), arr[i].e_type = "user", arr[i].auxhead = 0,
         \A j \in 1 .. Len(arr) : /\ arr'[j].e_type = arr[j].e_type
                                  /\ Active(j)' <=> Active(j)
  PROVE  AuxInv'
<1> DEFINE N == Len(arr)
<1>1. DOMAIN arr = 1 .. N /\ DOMAIN arr' = 1 .. N /\ N \in Nat
  BY DEF HandleType
<1>2. \A j \in 1 .. N :
        /\ arr[j].auxnext \in 0 .. N /\ arr[j].auxprev \in 0 .. N
        /\ arr[j].auxhead \in 0 .. N
        /\ ~(Active(j) /\ arr[j].e_type = "head") => arr[j].auxcount = 0
        /\ arr[j].auxhead # 0 =>
             /\ Active(j) /\ arr[j].e_type = "user"
             /\ Active(arr[j].auxhead) /\ arr[arr[j].auxhead].e_type = "head"
  BY DEF AuxInv
<1>3. hd # i /\ arr[hd].auxhead = 0
  BY <1>2
<1>4. PICK first : first = arr[hd].auxnext
  OBVIOUS
<1>5. \A j \in 1 .. N :
        /\ arr'[j].auxnext = IF j = hd THEN i ELSE IF j = i THEN first ELSE arr[j].auxnext
        /\ arr'[j].auxprev = IF j = first THEN i ELSE IF j = i THEN 0 ELSE arr[j].auxprev
        /\ arr'[j].auxhead = IF j = i THEN hd ELSE arr[j].auxhead
        /\ arr'[j].auxcount = IF j = hd THEN arr[j].auxcount + 1 ELSE arr[j].auxcount
  BY <1>4 DEF NowLinked
<1>6. PICK s : AuxListIs(hd, s)
  BY DEF AuxInv
<1>7. /\ s \in Seq(Recs(N)) /\ Distinct(s) /\ Len(s) = arr[hd].auxcount
      /\ \A j \in 1 .. N : j \in Range(s) <=> arr[j].auxhead = hd
      /\ Chain(s, first, AuxNextOf) /\ BackChain(s, AuxPrevOf)
      /\ \A x \in Range(s) : x \in 1 .. N /\ arr[x].auxhead = hd /\ arr[x].e_type = "user"
  <2>1. \A x \in Range(s) : x \in 1 .. N /\ arr[x].auxhead = hd /\ arr[x].e_type = "user"
    BY <1>6, AuxMembers
  <2>2. QED
    BY <1>4, <1>6, <2>1 DEF AuxListIs
<1>8. /\ \A j \in 1 .. N : AuxNextOf[j] = arr[j].auxnext /\ AuxPrevOf[j] = arr[j].auxprev
      /\ \A j \in 1 .. N : AuxNextOf'[j] = arr'[j].auxnext /\ AuxPrevOf'[j] = arr'[j].auxprev
  BY <1>1 DEF AuxNextOf, AuxPrevOf
<1>9. first = Nth(s, 1) /\ (first # 0 => first \in Range(s)) /\ first \in 0 .. N
  BY <1>1, <1>7, NthIs DEF Chain
<1>10. i \notin Range(s) /\ hd \notin Range(s) /\ i # first /\ i \in Recs(N) /\ i # 0
  BY <1>1, <1>3, <1>7, <1>9 DEF Recs
<1>11. AuxListIs(hd, Cons(i, s))'
  <2> DEFINE r == Cons(i, s)
             next == AuxNextOf
             next2 == AuxNextOf'
             prev == AuxPrevOf
             prev2 == AuxPrevOf'
  <2>1. r \in Seq(Recs(N)) /\ Distinct(r) /\ Range(r) = Range(s) \cup {i} /\ Len(r) = Len(s) + 1
    BY <1>1, <1>7, <1>10, Prepended, NthPrepended
  <2>2. Len(r) = arr'[hd].auxcount
    BY <1>5, <1>7, <2>1
  <2>3. \A j \in 1 .. N : j \in Range(r) <=> arr'[j].auxhead = hd
    BY <1>5, <1>7, <2>1
  <2>4. next2[i] = first /\ prev2[i] = 0 /\ arr'[hd].auxnext = i
    BY <1>3, <1>5, <1>8, <1>10
  <2>5. /\ \A x \in Range(s) : next2[x] = next[x]
        /\ \A x \in Range(s) : prev2[x] = IF x = Nth(s, 1) THEN i ELSE prev[x]
    BY <1>5, <1>7, <1>8, <1>9, <1>10
  <2>6. /\ Chain(s, first, next) /\ BackChain(s, prev)
        /\ N \in Nat /\ s \in Seq(Recs(N)) /\ Distinct(s) /\ i \in Recs(N)
    BY <1>1, <1>7, <1>10
  <2> HIDE DEF next, next2, prev, prev2
  <2>7. Chain(r, i, next2)
    BY <2>4, <2>5, <2>6, ChainPrepended
  <2>8. BackChain(r, prev2)
    BY <2>4, <2>5, <2>6, BackPrepended
  <2> HIDE DEF r
  <2>9. AuxListIs(hd, r)'
    BY <2>1, <2>2, <2>3, <2>4, <2>7, <2>8 DEF AuxListIs, next2, prev2
  <2>10. QED
    BY <2>9 DEF r
<1>12. ASSUME NEW k \in 1 .. N, Active(k)', arr'[k].e_type = "head" PROVE \E q : AuxListIs(k, q)'
  <2>1. k # i /\ Active(k) /\ arr[k].e_type = "head"
    BY <1>12
  <2>2. CASE k = hd
    BY <1>11, <2>2
  <2>3. CASE k # hd
    <3>1. PICK q : AuxListIs(k, q)
      BY <2>1 DEF AuxInv
    <3>2. /\ q \in Seq(Recs(N)) /\ Distinct(q) /\ Len(q) = arr[k].auxcount
          /\ \A j \in 1 .. N : j \in Range(q) <=> arr[j].auxhead = k
          /\ Chain(q, arr[k].auxnext, AuxNextOf) /\ BackChain(q, AuxPrevOf)
          /\ \A x \in Range(q) : x \in 1 .. N /\ arr[x].auxhead = k /\ arr[x].e_type = "user"
      <4>1. \A x \in Range(q) : x \in 1 .. N /\ arr[x].auxhead = k /\ arr[x].e_type = "user"
        BY <3>1, AuxMembers
      <4>2. QED
        BY <3>1, <4>1 DEF AuxListIs
    <3>3. i \notin Range(q) /\ hd \notin Range(q) /\ first \notin Range(q) /\ k # first
      <4>1. i \notin Range(q) /\ hd \notin Range(q)
        BY <1>1, <3>2
      <4>2. 0 \notin Range(q) /\ Range(q) \cap Range(s) = {}
        BY <1>7, <2>3, <3>2
      <4>3. k # first
        BY <1>7, <1>9, <2>1
      <4>4. QED
        BY <1>9, <4>1, <4>2, <4>3
    <3>4. \A x \in Range(q) : AuxNextOf'[x] = AuxNextOf[x] /\ AuxPrevOf'[x] = AuxPrevOf[x]
      BY <1>5, <1>8, <3>2, <3>3
    <3>5. Chain(q, arr[k].auxnext, AuxNextOf') /\ BackChain(q, AuxPrevOf')
      BY <1>1, <3>2, <3>4, ChainKeeps, BackKeeps
    <3>6. arr'[k].auxnext = arr[k].auxnext /\ arr'[k].auxcount = arr[k].auxcount
      BY <1>5, <2>1, <2>3
    <3>7. \A j \in 1 .. N : j \in Range(q) <=> arr'[j].auxhead = k
      BY <1>5, <2>3, <3>2, <3>3
    <3>8. AuxListIs(k, q)'
      BY <3>2, <3>5, <3>6, <3>7 DEF AuxListIs
    <3>9. QED
      BY <3>8
  <2>4. QED
    BY <2>2, <2>3
<1>13. ASSUME NEW j \in 1 .. N
       PROVE  /\ arr'[j].auxnext \in 0 .. N /\ arr'[j].auxprev \in 0 .. N
              /\ arr'[j].auxhead \in 0 .. N
              /\ ~(Active(j)' /\ arr'[j].e_type = "head") => arr'[j].auxcount = 0
              /\ arr'[j].auxhead # 0 =>
                   /\ Active(j)' /\ arr'[j].e_type = "user"
                   /\ Active(arr[j].auxhead)' /\ arr'[arr'[j].auxhead].e_type = "head"
  <2>1. arr'[j].auxnext \in 0 .. N /\ arr'[j].auxprev \in 0 .. N /\ arr'[j].auxhead \in 0 .. N
    BY <1>1, <1>2, <1>5, <1>9
  <2>2. ~(Active(j)' /\ arr'[j].e_type = "head") => arr'[j].auxcount = 0
    BY <1>2, <1>5
  <2>3. ASSUME arr'[j].auxhead # 0
        PROVE  /\ Active(j)' /\ arr'[j].e_type = "user"
               /\ Active(arr[j].auxhead)' /\ arr'[arr'[j].auxhead].e_type = "head"
    <3>1. CASE j = i
      BY <1>5, <3>1
    <3>2. CASE j # i
      <4>1. arr'[j].auxhead = arr[j].auxhead /\ arr[j].auxhead \in 1 .. N
        BY <1>1, <1>2, <1>5, <2>3, <3>2
      <4>2. QED
        BY <1>2, <4>1
    <3>3. QED
      BY <3>1, <3>2
  <2>4. QED
    BY <2>1, <2>2, <2>3
<1>14. QED
  BY <1>12, <1>13 DEF AuxInv

\* Every program is of one of the two kinds.
LEMMA ProgramIs ==
  ASSUME HandleType
  PROVE  OneThread(setup) \/ Disciplined(setup)
BY HandleAssumption DEF HandleType

\* When the only thread of a program calls, its other calls are in callbacks.
LEMMA OnlyCallbacks ==
  ASSUME HandleType, CallsNest, OneThread(setup), NEW t \in Threads, CanCall(t)
  PROVE  \A u \in Threads : \A f \in Calls(u) : f.pc = "callback" /\ f.e_type = "user"
<1> SUFFICES ASSUME NEW u \in Threads, NEW f \in Calls(u) PROVE f.pc = "callback" /\ f.e_type = "user"
  OBVIOUS
<1>1. frames[u] # <<>>
  BY DEF Calls, Range
<1>2. u = t
  BY <1>1 DEF CallsNest, OneThread, CanCall
<1>3. InCallback(t)
  BY <1>1, <1>2 DEF CanCall, Idle
<1>4. QED
  BY <1>1, <1>2, <1>3, TopIsCall DEF InCallback, Idle

\* What delink_from_aux makes of the table.
IsDelinked(d, i) ==
  LET hd == arr[i].auxhead
      nx == arr[i].auxnext
      pv == arr[i].auxprev
  IN /\ d \in Seq(CtrlRec) /\ Len(d) = Len(arr)
     /\ \A j \in 1 .. Len(arr) :
          /\ d[j].obj = arr[j].obj /\ d[j].e_type = arr[j].e_type /\ d[j].count = arr[j].count
          /\ d[j].flags = arr[j].flags /\ d[j].next = arr[j].next
          /\ d[j].auxnext = IF j = i THEN 0 ELSE IF j = pv \/ (pv = 0 /\ j = hd) THEN nx
                            ELSE arr[j].auxnext
          /\ d[j].auxprev = IF j = i THEN 0 ELSE IF j = nx THEN pv ELSE arr[j].auxprev
          /\ d[j].auxhead = IF j = i THEN 0 ELSE arr[j].auxhead
          /\ d[j].auxcount = IF j # i /\ j = hd /\ arr[j].auxcount > 0
                             THEN arr[j].auxcount - 1 ELSE arr[j].auxcount

\* What delinking from an auxiliary list writes.
LEMMA DelinkShape ==
  ASSUME NEW i \in 1 .. Len(arr), arr \in Seq(CtrlRec)
  PROVE  IsDelinked(delink_from_aux(arr, i), i)
<1>1. PICK hd, nx, pv : hd = arr[i].auxhead /\ nx = arr[i].auxnext /\ pv = arr[i].auxprev
  OBVIOUS
<1>2. DOMAIN arr = 1 .. Len(arr) /\ Len(arr) \in Nat /\ \A j \in 1 .. Len(arr) : arr[j] \in CtrlRec
  OBVIOUS
<1> DEFINE Own == [arr[i] EXCEPT !.auxnext = NULL_IDX, !.auxprev = NULL_IDX, !.auxhead = NULL_IDX]
           Other(j) == [arr[j] EXCEPT
                          !.auxprev = IF j = nx THEN pv ELSE @,
                          !.auxnext = IF j = pv \/ (pv = NULL_IDX /\ j = hd) THEN nx ELSE @,
                          !.auxcount = IF j = hd /\ @ > 0 THEN @ - 1 ELSE @]
           d == delink_from_aux(arr, i)
<1>3. d = [j \in 1 .. Len(arr) |-> IF j = i THEN Own ELSE Other(j)]
  BY <1>1, <1>2 DEF delink_from_aux
<1>4. hd \in Nat /\ nx \in Nat /\ pv \in Nat
  BY <1>1, <1>2 DEF CtrlRec
<1>5. /\ Own \in CtrlRec /\ Own.obj = arr[i].obj /\ Own.e_type = arr[i].e_type
      /\ Own.count = arr[i].count /\ Own.flags = arr[i].flags /\ Own.next = arr[i].next
      /\ Own.auxnext = 0 /\ Own.auxprev = 0 /\ Own.auxhead = 0 /\ Own.auxcount = arr[i].auxcount
  BY <1>2 DEF CtrlRec, NULL_IDX
<1>6. ASSUME NEW j \in 1 .. Len(arr)
      PROVE  /\ Other(j) \in CtrlRec /\ Other(j).obj = arr[j].obj /\ Other(j).e_type = arr[j].e_type
             /\ Other(j).count = arr[j].count /\ Other(j).flags = arr[j].flags
             /\ Other(j).next = arr[j].next /\ Other(j).auxhead = arr[j].auxhead
             /\ Other(j).auxprev = IF j = nx THEN pv ELSE arr[j].auxprev
             /\ Other(j).auxnext = IF j = pv \/ (pv = 0 /\ j = hd) THEN nx ELSE arr[j].auxnext
             /\ Other(j).auxcount = IF j = hd /\ arr[j].auxcount > 0
                                    THEN arr[j].auxcount - 1 ELSE arr[j].auxcount
  <2> DEFINE c == arr[j]
             p == IF j = nx THEN pv ELSE c.auxprev
             n == IF j = pv \/ (pv = 0 /\ j = hd) THEN nx ELSE c.auxnext
             k == IF j = hd /\ c.auxcount > 0 THEN c.auxcount - 1 ELSE c.auxcount
  <2>1. c \in CtrlRec /\ c.auxprev \in Nat /\ c.auxnext \in Nat /\ c.auxcount \in Nat
    BY <1>2 DEF CtrlRec
  <2>2. p \in Nat /\ n \in Nat /\ k \in Nat
    BY <1>4, <2>1
  <2>3. Other(j) = [c EXCEPT !.auxprev = p, !.auxnext = n, !.auxcount = k]
    BY DEF NULL_IDX
  <2> HIDE DEF p, n, k, c, Other
  <2>4. /\ Other(j) \in CtrlRec /\ Other(j).obj = c.obj /\ Other(j).e_type = c.e_type
        /\ Other(j).count = c.count /\ Other(j).flags = c.flags
        /\ Other(j).next = c.next /\ Other(j).auxhead = c.auxhead
        /\ Other(j).auxprev = p /\ Other(j).auxnext = n /\ Other(j).auxcount = k
    BY <2>1, <2>2, <2>3 DEF CtrlRec
  <2>5. QED
    BY <2>4 DEF p, n, k, c
<1> HIDE DEF Own, Other
<1>7. /\ d \in Seq(CtrlRec) /\ Len(d) = Len(arr)
      /\ \A j \in 1 .. Len(arr) : d[j] = IF j = i THEN Own ELSE Other(j)
  <2> HIDE DEF d
  <2>1. d \in [1 .. Len(arr) -> CtrlRec]
    BY <1>3, <1>5, <1>6
  <2>2. QED
    BY <1>2, <1>3, <2>1
<1> HIDE DEF d
<1>8. ASSUME NEW j \in 1 .. Len(arr)
      PROVE  /\ d[j].obj = arr[j].obj /\ d[j].e_type = arr[j].e_type /\ d[j].count = arr[j].count
             /\ d[j].flags = arr[j].flags /\ d[j].next = arr[j].next
             /\ d[j].auxnext = IF j = i THEN 0 ELSE IF j = pv \/ (pv = 0 /\ j = hd) THEN nx
                               ELSE arr[j].auxnext
             /\ d[j].auxprev = IF j = i THEN 0 ELSE IF j = nx THEN pv ELSE arr[j].auxprev
             /\ d[j].auxhead = IF j = i THEN 0 ELSE arr[j].auxhead
             /\ d[j].auxcount = IF j # i /\ j = hd /\ arr[j].auxcount > 0
                                THEN arr[j].auxcount - 1 ELSE arr[j].auxcount
  <2>1. CASE j = i
    BY <1>5, <1>7, <2>1
  <2>2. CASE j # i
    BY <1>6, <1>7, <2>2
  <2>3. QED
    BY <2>1, <2>2
<1>9. QED
  BY <1>1, <1>7, <1>8 DEF d, IsDelinked

\* u_handle_delink_from_aux.
LEMMA DelinkFromAuxStep ==
  ASSUME HandleInv, NEW t \in Threads, NEW h, DelinkFromAux(t, h)
  PROVE  HandleInv'
<1>1. h.i \in 1 .. Len(arr) /\ arr \in Seq(CtrlRec) /\ get_h_ctrl_from_handle(h) = h.i
  BY ValidIs DEF DelinkFromAux, HandleInv, HandleType
<1> DEFINE i == h.i
<1>2. arr[i].auxhead # 0 /\ arr' = delink_from_aux(arr, i)
  BY <1>1 DEF DelinkFromAux, handle_is_be_linked, NULL_IDX
<1> HIDE DEF i
<1>3. i \in 1 .. Len(arr)
  BY <1>1 DEF i
<1>4. /\ arr' \in Seq(CtrlRec) /\ Len(arr') = Len(arr) /\ NowDelinked(i)
      /\ \A j \in 1 .. Len(arr) :
           /\ arr'[j].obj = arr[j].obj /\ arr'[j].e_type = arr[j].e_type
           /\ arr'[j].count = arr[j].count
           /\ arr'[j].flags = arr[j].flags /\ arr'[j].next = arr[j].next
  <2>1. IsDelinked(arr', i)
    BY <1>1, <1>2, <1>3, DelinkShape
  <2>2. QED
    BY <2>1 DEF NowDelinked, IsDelinked
<1>5. \A j \in 1 .. Len(arr) : ObjectOf(j)' = ObjectOf(j) /\ (Active(j)' <=> Active(j))
  BY <1>4 DEF ObjectOf, Active
<1>6. HandleType'
  BY <1>4 DEF DelinkFromAux, HandleInv, HandleType
<1>7. AuxInv'
  BY <1>2, <1>3, <1>4, <1>5, <1>6, AuxDelinks DEF HandleInv
<1>8. \A u \in Threads : \A f \in Calls(u) :
        f.pc = "finish" /\ f.e_type = "head" => arr'[f.i].auxcount = 0
  BY <1>4 DEF HandleInv, FreeingInv, FreePcs, NowDelinked
<1>9. wild' \in BOOLEAN /\ (wild' => wild)
  BY DEF DelinkFromAux, HandleInv, HandleType
<1>10. QED
  BY <1>4, <1>5, <1>7, <1>8, <1>9, QuietStep DEF DelinkFromAux

\* u_handle_link_to_aux.
LEMMA LinkToAuxStep ==
  ASSUME HandleInv, NEW t \in Threads, NEW hd, NEW h, LinkToAux(t, hd, h)
  PROVE  HandleInv'
<1>1. /\ h.i \in 1 .. Len(arr) /\ arr \in Seq(CtrlRec) /\ get_h_ctrl_from_handle(h) = h.i
      /\ hd.i \in 1 .. Len(arr) /\ Active(h.i) /\ Active(hd.i)
  BY ValidIs DEF LinkToAux, HandleInv, HandleType
<1>2. PICK i, k, first : i = h.i /\ k = hd.i /\ first = arr[k].auxnext
  OBVIOUS
<1>3. /\ i \in 1 .. Len(arr) /\ k \in 1 .. Len(arr) /\ Active(i) /\ Active(k)
      /\ arr[i].auxhead = 0 /\ arr[k].e_type = "head" /\ arr[i].e_type # "head"
      /\ CanCall(t) /\ "aux" \in setup.ops
  BY <1>1, <1>2 DEF LinkToAux, handle_is_be_linked, NULL_IDX
<1>4. arr[i].e_type = "user"
  BY <1>3 DEF HandleInv, ObjectInv, Types
<1> DEFINE Rec(j) == [arr[j] EXCEPT
                !.auxprev = IF j = arr[hd.i].auxnext THEN h.i ELSE IF j = h.i THEN NULL_IDX ELSE @,
                !.auxnext = IF j = hd.i THEN h.i ELSE IF j = h.i THEN arr[hd.i].auxnext ELSE @,
                !.auxhead = IF j = h.i THEN hd.i ELSE @,
                !.auxcount = IF j = hd.i THEN @ + 1 ELSE @]
<1>5. arr' = [j \in 1 .. Len(arr) |-> Rec(j)] /\ \A j \in 1 .. Len(arr) : arr[j] \in CtrlRec
  <2>1. DOMAIN arr = 1 .. Len(arr) /\ \A j \in 1 .. Len(arr) : arr[j] \in CtrlRec
    BY <1>1
  <2>2. arr' = [j \in DOMAIN arr |-> Rec(j)]
    BY DEF LinkToAux
  <2> HIDE DEF Rec
  <2>3. QED
    BY <2>1, <2>2
<1>6. ASSUME NEW j \in 1 .. Len(arr)
      PROVE  /\ Rec(j) \in CtrlRec /\ Rec(j).obj = arr[j].obj /\ Rec(j).e_type = arr[j].e_type
             /\ Rec(j).count = arr[j].count
             /\ Rec(j).flags = arr[j].flags /\ Rec(j).next = arr[j].next
             /\ Rec(j).auxprev = IF j = first THEN i ELSE IF j = i THEN 0 ELSE arr[j].auxprev
             /\ Rec(j).auxnext = IF j = k THEN i ELSE IF j = i THEN first ELSE arr[j].auxnext
             /\ Rec(j).auxhead = IF j = i THEN k ELSE arr[j].auxhead
             /\ Rec(j).auxcount = IF j = k THEN arr[j].auxcount + 1 ELSE arr[j].auxcount
  <2> DEFINE c == arr[j]
             p == IF j = first THEN i ELSE IF j = i THEN 0 ELSE c.auxprev
             n == IF j = k THEN i ELSE IF j = i THEN first ELSE c.auxnext
             a == IF j = i THEN k ELSE c.auxhead
             m == IF j = k THEN c.auxcount + 1 ELSE c.auxcount
  <2>1. c \in CtrlRec /\ c.auxprev \in Nat /\ c.auxnext \in Nat /\ c.auxcount \in Nat /\ c.auxhead \in Nat
    BY <1>5 DEF CtrlRec
  <2>2. first \in Nat /\ i \in Nat /\ k \in Nat
    <3>1. arr[k] \in CtrlRec
      BY <1>3, <1>5
    <3>2. arr[k].auxnext \in Nat
      BY <3>1 DEF CtrlRec
    <3>3. i \in Nat /\ k \in Nat
      BY <1>2, <1>3
    <3>4. QED
      BY <1>2, <3>2, <3>3
  <2>3. p \in Nat /\ n \in Nat /\ m \in Nat /\ a \in Nat
    BY <2>1, <2>2
  <2>4. Rec(j) = [c EXCEPT !.auxprev = p, !.auxnext = n, !.auxhead = a, !.auxcount = m]
    BY <1>2 DEF NULL_IDX
  <2> HIDE DEF p, n, m, a, c, Rec
  <2>5. /\ Rec(j) \in CtrlRec /\ Rec(j).obj = c.obj /\ Rec(j).e_type = c.e_type
        /\ Rec(j).count = c.count /\ Rec(j).flags = c.flags
        /\ Rec(j).next = c.next /\ Rec(j).auxhead = a
        /\ Rec(j).auxprev = p /\ Rec(j).auxnext = n /\ Rec(j).auxcount = m
    BY <2>1, <2>3, <2>4 DEF CtrlRec
  <2>6. QED
    BY <2>5 DEF p, n, m, a, c
<1> HIDE DEF Rec
<1>7. /\ arr' \in Seq(CtrlRec) /\ Len(arr') = Len(arr)
      /\ \A j \in 1 .. Len(arr) : arr'[j] = Rec(j)
  <2>1. arr' \in [1 .. Len(arr) -> CtrlRec]
    BY <1>5, <1>6
  <2>2. QED
    BY <1>1, <1>5, <2>1
<1>8. /\ NowLinked(k, i)
      /\ \A j \in 1 .. Len(arr) :
           /\ arr'[j].obj = arr[j].obj /\ arr'[j].e_type = arr[j].e_type
           /\ arr'[j].count = arr[j].count
           /\ arr'[j].flags = arr[j].flags /\ arr'[j].next = arr[j].next
  BY <1>2, <1>6, <1>7 DEF NowLinked
<1>9. \A j \in 1 .. Len(arr) : ObjectOf(j)' = ObjectOf(j) /\ (Active(j)' <=> Active(j))
  BY <1>8 DEF ObjectOf, Active
<1>10. HandleType'
  BY <1>7 DEF LinkToAux, HandleInv, HandleType
<1>11. AuxInv'
  BY <1>3, <1>4, <1>7, <1>8, <1>9, <1>10, AuxLinks DEF HandleInv
<1>12. ASSUME NEW u \in Threads, NEW f \in Calls(u), f.pc = "finish", f.e_type = "head"
       PROVE  FALSE
  <2>1. "freehead" \in setup.ops
    BY <1>12 DEF HandleInv, FreeingInv, FreePcs
  <2>2. OneThread(setup)
    BY <1>3, <2>1, ProgramIs DEF HandleInv, Disciplined
  <2>3. f.pc = "callback"
    BY <1>3, <2>2, OnlyCallbacks DEF HandleInv
  <2>4. QED
    BY <1>12, <2>3
<1>13. wild' \in BOOLEAN /\ (wild' => wild)
  BY DEF LinkToAux, HandleInv, HandleType
<1>14. QED
  BY <1>7, <1>8, <1>9, <1>11, <1>12, <1>13, QuietStep DEF LinkToAux

-----------------------------------------------------------------------------
\* What the steps of a call keep that leave the links of the records alone.
LEMMA QuietParts ==
  ASSUME HandleInv, HandleType', KeepsRecords, Len(arr') = Len(arr),
         SameCalls({"fill"}), Allocated' = Allocated, issued \in SUBSET issued',
         UNCHANGED <<ui2_free_handles, ui2_num_free, ui2_num_peak_used, ui2_num_used_per_grp, allocs>>,
         \A i \in 1 .. Len(arr) :
            /\ arr'[i].next = arr[i].next
            /\ arr'[i].auxnext = arr[i].auxnext /\ arr'[i].auxprev = arr[i].auxprev
            /\ arr'[i].auxhead = arr[i].auxhead /\ arr'[i].auxcount = arr[i].auxcount,
         \A n \in 1 .. MaxAllocs : freed'[n] # freed[n] => \E j \in 1 .. Len(arr) : Active(j) /\ n = ObjectOf(j)
  PROVE  IdentityInv' /\ FillInv' /\ FreeListInv' /\ StatisticsInv' /\ AuxInv' /\ (Wrapped => Wrapped')
<1>1. HandleType /\ allocs \in Nat /\ allocs' \in Nat /\ allocs' >= allocs
      /\ \A a \in Allocated : a.n \in Nat
  BY DEF HandleInv, HandleType, Allocated, Tagged, Allocation
<1>2. IdentityInv'
  BY <1>1, IdentityKeeps DEF HandleInv
<1>3. FillInv'
  BY <1>1, FillKeeps, ObjectsAreKept DEF HandleInv
<1>4. FreeListInv'
  BY <1>1, FreeListKeeps DEF HandleInv
<1>5. StatisticsInv'
  BY <1>1, StatisticsKeeps DEF HandleInv
<1>6. AuxInv'
  BY <1>1, AuxKeeps DEF HandleInv
<1>7. Wrapped => Wrapped'
  BY <1>2, WrappedKeeps, HandleAssumption DEF IdentityInv
<1>8. QED
  BY <1>2, <1>3, <1>4, <1>5, <1>6, <1>7

\* The handle of a head is returned.
LEMMA AllocAuxTagStep ==
  ASSUME HandleInv, NEW t \in Threads, AllocAuxTag(t)
  PROVE  HandleInv'
<1> USE DEF HandleInv
<1>1. PICK f0 : f0 = Top(t)
  OBVIOUS
<1>2. /\ f0 \in Frame /\ f0.pc = "tag" /\ f0 \in Calls(t) /\ ~Idle(t) /\ t \in setup.threads
      /\ \A f \in Calls(t) : f # f0 => f.pc = "callback"
  BY <1>1, TopIsCall DEF AllocAuxTag
<1>3. f0 \in TagFrame
  BY <1>2 DEF Frame, FillFrame, FreeingFrame, AutoFrame, FreePcs
<1> DEFINE a0 == [h |-> f0.h, n |-> f0.obj]
<1>4. a0 \in Allocation /\ a0.h = f0.h /\ a0.n = f0.obj /\ f0.h.i = a0.h.i
  BY <1>3 DEF TagFrame, Allocation
<1>5. issued' = issued \cup {a0} /\ aborted' = ~Valid(f0.h)
  BY <1>1 DEF AllocAuxTag
<1>6. /\ frames' \in [Threads -> Seq(Frame)] /\ CallsNest'
      /\ \A u \in Threads : Calls(u)' = IF u = t THEN Calls(t) \ {f0} ELSE Calls(u)
  BY <1>1, <1>2, Popped DEF AllocAuxTag
<1>7. HandleType'
  BY <1>4, <1>5, <1>6 DEF AllocAuxTag, HandleType
<1>8. /\ UNCHANGED <<setup, arr, mem, ui2_free_handles, ui2_num_free, ui2_num_peak_used,
                     ui2_num_used_per_grp, allocs, freed, moved, wild>>
  BY DEF AllocAuxTag
<1>9. KeepsRecords
  BY <1>8 DEF KeepsRecords, HandleType, Active, ObjectOf
<1>10. SameCalls({"fill"}) /\ SameCalls(FreePcs) /\ SameCalls({"autofree"})
  BY <1>2, <1>6 DEF SameCalls, FreePcs
<1>11. Allocated' = Allocated
  <2>1. a0 \in Tagged
    BY <1>2, <1>4 DEF Tagged
  <2>2. ASSUME NEW a \in Tagged PROVE a = a0 \/ a \in Tagged'
    <3>1. a \in Allocation
      BY DEF Tagged
    <3>2. PICK u \in Threads, f \in UNION {Calls(v) : v \in Threads} :
            f \in Calls(u) /\ f.pc = "tag" /\ f.h = a.h /\ f.obj = a.n
      BY DEF Tagged
    <3>3. CASE f = f0
      <4>1. a.h = f0.h /\ a.n = f0.obj
        BY <3>2, <3>3
      <4>2. QED
        BY <3>1, <4>1 DEF Allocation
    <3>4. CASE f # f0
      <4>1. f \in Calls(u)'
        BY <1>6, <3>2, <3>4
      <4>2. QED
        BY <3>1, <3>2, <4>1 DEF Tagged
    <3>5. QED
      BY <3>3, <3>4
  <2>3. Tagged' \in SUBSET Tagged
    BY <1>6 DEF Tagged
  <2> HIDE DEF a0
  <2>4. QED
    BY <1>5, <2>1, <2>2, <2>3 DEF Allocated
<1> HIDE DEF a0
<1>12. IdentityInv' /\ FillInv' /\ FreeListInv' /\ StatisticsInv' /\ AuxInv' /\ (Wrapped => Wrapped')
  <2>1. issued \in SUBSET issued'
    BY <1>5
  <2>2. HandleInv
    OBVIOUS
  <2> HIDE DEF HandleInv
  <2>3. QED
    BY <1>7, <1>8, <1>9, <1>10, <1>11, <2>1, <2>2, QuietParts
<1>13. ObjectInv'
  BY <1>8 DEF ObjectInv, Active, ObjectOf
<1>14. TagInv'
  <2>1. ASSUME NEW u \in Threads, NEW f \in Calls(u)', f.pc = "tag"
        PROVE  /\ f.h.i \in 1 .. Len(arr)'
               /\ \A r \in issued' : r.n # f.obj
               /\ \/ Wrapped'
                  \/ /\ arr'[f.h.i].flags = {"ACTIVE"} /\ arr'[f.h.i].count = f.h.count
                     /\ ObjectOf(f.h.i)' = f.obj
    <3>1. u # t /\ f \in Calls(u)
      BY <1>2, <1>6, <2>1
    <3>2. /\ f.h.i \in 1 .. Len(arr)
          /\ \A r \in issued : r.n # f.obj
          /\ \/ Wrapped
             \/ /\ arr[f.h.i].flags = {"ACTIVE"} /\ arr[f.h.i].count = f.h.count
                /\ ObjectOf(f.h.i) = f.obj
      BY <2>1, <3>1 DEF TagInv
    <3>3. f.obj # a0.n
      BY <1>2, <1>4, <2>1, <3>1 DEF TagInv
    <3>4. ObjectOf(f.h.i)' = ObjectOf(f.h.i)
      BY <1>8 DEF ObjectOf
    <3>5. QED
      BY <1>5, <1>8, <1>12, <3>2, <3>3, <3>4
  <2>2. ASSUME NEW u \in Threads, NEW v \in Threads, NEW f \in Calls(u)', NEW g \in Calls(v)',
               f.pc = "tag", g.pc = "tag", f.obj = g.obj
        PROVE  u = v
    <3>1. f \in Calls(u) /\ g \in Calls(v)
      BY <1>6, <2>2
    <3>2. QED
      BY <2>2, <3>1 DEF TagInv
  <2>3. QED
    BY <2>1, <2>2 DEF TagInv
<1>15. FreeingInv'
  <2>1. \A u \in Threads : \A f \in Calls(u) : f.pc \in FreePcs => RecordStays(f.i)
    BY <1>8 DEF RecordStays, ObjectOf
  <2>2. \A u \in Threads : \A f \in Calls(u) :
          f.pc = "finish" /\ f.e_type = "head" => arr'[f.i].auxcount = 0
    BY <1>8 DEF FreeingInv, FreePcs
  <2>3. Len(arr) \in Nat
    BY DEF HandleType
  <2>4. QED
    BY <1>7, <1>8, <1>10, <2>1, <2>2, <2>3, FreeingKeeps
<1>16. AutofreeInv'
  <2>1. \A u \in Threads : \A f \in Calls(u) : f.pc # "autofree"
    BY <1>1, <1>2, NoAutofree
  <2>2. QED
    BY <1>7, <1>10, <2>1, AutofreeKeeps
<1>17. ProgramInv'
  <2>1. ~Valid(f0.h) => Wrapped
    BY <1>2 DEF TagInv, Valid, get_h_ctrl_from_handle, NULL_IDX, ui2_num_total, Active
  <2>2. QED
    BY <1>5, <1>6, <1>8, <1>12, <2>1 DEF ProgramInv
<1>18. QED
  BY <1>6, <1>7, <1>12, <1>13, <1>14, <1>15, <1>16, <1>17

\* The call that frees a record.
LEMMA FreeingCall ==
  ASSUME HandleInv, NEW t \in Threads, ~Idle(t), Top(t).pc \in FreePcs
  PROVE  LET f == Top(t)
         IN /\ f \in Calls(t) /\ f \in FreeingFrame /\ t \in setup.threads
            /\ f.i \in 1 .. Len(arr) /\ f.h.i = f.i /\ Active(f.i) /\ Valid(f.h)
            /\ arr[f.i].flags = {"ACTIVE", "FREEING"} /\ arr[f.i] \in CtrlRec
            /\ ObjectOf(f.i) \in 1 .. MaxAllocs
            /\ freed[ObjectOf(f.i)] = IF f.pc = "finish" THEN 1 ELSE 0
            /\ \A j \in 1 .. Len(arr) : Active(j) /\ j # f.i => ObjectOf(j) # ObjectOf(f.i)
            /\ \A u \in Threads : \A g \in Calls(u) : g.pc \in FreePcs /\ g.i = f.i => u = t /\ g = f
            /\ \A u \in Threads : \A g \in Calls(u) : g.pc # "autofree"
<1> USE DEF HandleInv
<1>1. PICK f : f = Top(t)
  OBVIOUS
<1>2. f \in Calls(t) /\ f \in Frame /\ t \in setup.threads /\ f.pc \in FreePcs
  BY <1>1, TopIsCall
<1>3. f \in FreeingFrame
  BY <1>2 DEF Frame, FillFrame, TagFrame, AutoFrame, FreePcs
<1>4. /\ f.i \in 1 .. Len(arr) /\ f.h.i = f.i
      /\ arr[f.i].flags = {"ACTIVE", "FREEING"} /\ arr[f.i].count = f.h.count
      /\ freed[ObjectOf(f.i)] = IF f.pc = "finish" THEN 1 ELSE 0
  BY <1>2 DEF FreeingInv
<1>5. Active(f.i) /\ f.i # 0
  BY <1>4 DEF Active
<1>6. Valid(f.h)
  BY <1>4, <1>5 DEF Valid, get_h_ctrl_from_handle, NULL_IDX, ui2_num_total
<1>7. arr[f.i] \in CtrlRec
  BY <1>4, FlagsAre
<1>8. ObjectOf(f.i) \in 1 .. MaxAllocs
  <2>1. ObjectOf(f.i) <= allocs /\ ObjectOf(f.i) >= 1 /\ ObjectOf(f.i) \in Nat
    BY <1>4, <1>5, ObjectIs DEF ObjectInv
  <2>2. QED
    BY <2>1, HandleAssumption DEF HandleType
<1>9. \A j \in 1 .. Len(arr) : Active(j) /\ j # f.i => ObjectOf(j) # ObjectOf(f.i)
  BY <1>4, <1>5 DEF ObjectInv
<1>10. \A u \in Threads : \A g \in Calls(u) : g.pc \in FreePcs /\ g.i = f.i => u = t /\ g = f
  BY <1>2 DEF FreeingInv
<1>11. \A u \in Threads : \A g \in Calls(u) : g.pc # "autofree"
  BY <1>1, <1>2, NoAutofree DEF FreePcs
<1>12. QED
  BY <1>1, <1>2, <1>3, <1>4, <1>5, <1>6, <1>7, <1>8, <1>9, <1>10, <1>11

\* The call that frees a record goes on with its callback or with the answer of that.
LEMMA FreeingMoves ==
  ASSUME HandleInv, NEW t \in Threads, ~Idle(t), NEW yes \in BOOLEAN,
         NEW q \in FreePcs \ {"marked"}, Top(t).pc \in {"marked", "callback"}, q # Top(t).pc,
         q = "finish" <=> yes, Replace(t, [Top(t) EXCEPT !.pc = q]),
         freed' = IF yes THEN [freed EXCEPT ![ObjectOf(Top(t).i)] = @ + 1] ELSE freed,
         Top(t).e_type = "head" /\ yes => arr[Top(t).i].auxcount = 0,
         UNCHANGED <<setup, arr, mem, ui2_free_handles, ui2_num_free, ui2_num_peak_used,
                     ui2_num_used_per_grp, issued, allocs, moved, wild>>,
         aborted' \in BOOLEAN, aborted' => aborted
  PROVE  HandleInv'
<1>1. PICK f0, i : f0 = Top(t) /\ i = f0.i
  OBVIOUS
<1>2. ~Idle(t) /\ f0.pc \in {"marked", "callback"}
  BY <1>1
<1>3. /\ f0 \in Calls(t) /\ f0 \in FreeingFrame /\ t \in setup.threads
      /\ i \in 1 .. Len(arr) /\ f0.h.i = i /\ Active(i) /\ Valid(f0.h)
      /\ arr[i].flags = {"ACTIVE", "FREEING"}
      /\ ObjectOf(i) \in 1 .. MaxAllocs /\ freed[ObjectOf(i)] = 0
      /\ \A j \in 1 .. Len(arr) : Active(j) /\ j # i => ObjectOf(j) # ObjectOf(i)
      /\ \A u \in Threads : \A g \in Calls(u) : g.pc \in FreePcs /\ g.i = i => u = t /\ g = f0
      /\ \A u \in Threads : \A g \in Calls(u) : g.pc # "autofree"
  BY <1>1, <1>2, FreeingCall DEF FreePcs
<1> USE DEF HandleInv
<1>4. /\ f0.e_type = "head" /\ yes => arr[i].auxcount = 0
      /\ Replace(t, [f0 EXCEPT !.pc = q])
      /\ freed' = IF yes THEN [freed EXCEPT ![ObjectOf(i)] = @ + 1] ELSE freed
  BY <1>1
<1>5. PICK f1 : f1 = [f0 EXCEPT !.pc = q]
  OBVIOUS
<1>6. /\ f1 \in FreeingFrame /\ f1.i = i /\ f1.h = f0.h /\ f1.mem = f0.mem /\ f1.e_type = f0.e_type
      /\ f1.pc = q
  BY <1>1, <1>3, <1>5 DEF FreeingFrame, FreePcs
<1>7. f1 \in Frame /\ f1.pc \in FreePcs /\ f1.pc # f0.pc /\ f1.pc # "autofree"
  BY <1>1, <1>6 DEF Frame, FreePcs
<1>8. f1 \notin Calls(t)
  BY <1>2, <1>3, <1>6, <1>7
<1>9. UNCHANGED <<setup, arr, mem, ui2_free_handles, ui2_num_free, ui2_num_peak_used,
                  ui2_num_used_per_grp, issued, allocs, moved, wild>>
  OBVIOUS
<1>10. /\ frames' \in [Threads -> Seq(Frame)] /\ CallsNest'
       /\ \A u \in Threads : Calls(u)' = IF u = t THEN (Calls(t) \ {f0}) \cup {f1} ELSE Calls(u)
  <2>1. Replace(t, f1)
    BY <1>4, <1>5
  <2>2. QED
    BY <1>1, <1>2, <1>7, <1>8, <1>9, <2>1, Replaced
<1>11. \A n \in 1 .. MaxAllocs : freed'[n] = IF yes /\ n = ObjectOf(i) THEN 1 ELSE freed[n]
  BY <1>3, <1>4 DEF HandleType
<1>12. freed' \in [1 .. MaxAllocs -> Nat]
  BY <1>3, <1>4 DEF HandleType
<1>13. aborted' \in BOOLEAN /\ (aborted' => aborted)
  OBVIOUS
<1>14. HandleType'
  BY <1>9, <1>10, <1>12, <1>13 DEF HandleType
<1>15. KeepsRecords /\ \A j : ObjectOf(j)' = ObjectOf(j) /\ (Active(j)' <=> Active(j))
  BY <1>9 DEF KeepsRecords, HandleType, Active, ObjectOf
<1>16. SameCalls({"fill"}) /\ SameCalls({"tag"}) /\ SameCalls({"autofree"})
  BY <1>2, <1>7, <1>10 DEF SameCalls, FreePcs
<1>17. Allocated' = Allocated
  BY <1>9, <1>14, <1>16, AllocatedKeeps
<1>18. IdentityInv' /\ FillInv' /\ FreeListInv' /\ StatisticsInv' /\ AuxInv' /\ (Wrapped => Wrapped')
  <2>1. \A n \in 1 .. MaxAllocs : freed'[n] # freed[n] => \E j \in 1 .. Len(arr) : Active(j) /\ n = ObjectOf(j)
    BY <1>3, <1>11
  <2>2. HandleInv
    OBVIOUS
  <2> HIDE DEF HandleInv
  <2>3. QED
    BY <1>9, <1>14, <1>15, <1>16, <1>17, <2>1, <2>2, QuietParts
<1>19. ObjectInv'
  <2>1. ASSUME NEW j \in 1 .. Len(arr), arr[j].flags = {"ACTIVE"} PROVE freed'[ObjectOf(j)] = 0
    <3>1. j # i /\ Active(j)
      BY <1>3, <2>1 DEF Active
    <3>2. freed[ObjectOf(j)] = 0 /\ ObjectOf(j) # ObjectOf(i)
      BY <1>3, <2>1, <3>1 DEF ObjectInv
    <3>3. ObjectOf(j) \in 1 .. MaxAllocs
      <4>1. ObjectOf(j) <= allocs /\ ObjectOf(j) >= 1 /\ ObjectOf(j) \in Nat
        BY <3>1, ObjectIs DEF ObjectInv
      <4>2. QED
        BY <4>1, HandleAssumption DEF HandleType
    <3>4. QED
      BY <1>11, <3>2, <3>3
  <2>2. \A n \in 1 .. MaxAllocs : freed'[n] <= 1 /\ (n > allocs => freed'[n] = 0)
    <3>1. ObjectOf(i) <= allocs /\ allocs \in Nat /\ ObjectOf(i) \in Nat
      BY <1>3 DEF ObjectInv, HandleType
    <3>2. QED
      BY <1>11, <3>1 DEF ObjectInv
  <2>3. QED
    BY <1>9, <1>15, <2>1, <2>2 DEF ObjectInv
<1>20. TagInv'
  <2>1. Wrapped => Wrapped'
    BY <1>18
  <2>2. QED
    BY <1>9, <1>14, <1>15, <1>16, <2>1, TagKeeps
<1>21. FreeingInv'
  <2>1. ASSUME NEW u \in Threads, NEW f \in Calls(u)', f.pc \in FreePcs
        PROVE  /\ f.i \in 1 .. Len(arr)' /\ f.h.i = f.i
               /\ arr'[f.i].flags = {"ACTIVE", "FREEING"}
               /\ arr'[f.i].count = f.h.count /\ arr'[f.i].e_type = f.e_type
               /\ freed'[ObjectOf(f.i)'] = IF f.pc = "finish" THEN 1 ELSE 0
               /\ f.pc = "finish" /\ f.e_type = "head" => arr'[f.i].auxcount = 0
               /\ f.e_type = "head" => "freehead" \in setup'.ops
    <3>1. CASE u = t /\ f = f1
      <4>1. /\ f0.pc \in FreePcs
            /\ arr[i].count = f0.h.count /\ arr[i].e_type = f0.e_type
            /\ f0.e_type = "head" => "freehead" \in setup.ops
        BY <1>1, <1>2, <1>3 DEF FreeingInv, FreePcs
      <4>2. freed'[ObjectOf(i)] = IF f1.pc = "finish" THEN 1 ELSE 0
        BY <1>3, <1>6, <1>11
      <4>3. f1.pc = "finish" /\ f1.e_type = "head" => arr[i].auxcount = 0
        BY <1>4, <1>6
      <4>4. QED
        BY <1>3, <1>6, <1>9, <1>15, <3>1, <4>1, <4>2, <4>3
    <3>2. CASE ~(u = t /\ f = f1)
      <4>1. f \in Calls(u) /\ f.i # i
        BY <1>3, <1>10, <2>1, <3>2
      <4>2. /\ f.i \in 1 .. Len(arr) /\ f.h.i = f.i
            /\ arr[f.i].flags = {"ACTIVE", "FREEING"}
            /\ arr[f.i].count = f.h.count /\ arr[f.i].e_type = f.e_type
            /\ freed[ObjectOf(f.i)] = IF f.pc = "finish" THEN 1 ELSE 0
            /\ f.pc = "finish" /\ f.e_type = "head" => arr[f.i].auxcount = 0
            /\ f.e_type = "head" => "freehead" \in setup.ops
        BY <2>1, <4>1 DEF FreeingInv
      <4>3. Active(f.i)
        BY <4>2 DEF Active
      <4>4. ObjectOf(f.i) # ObjectOf(i) /\ ObjectOf(f.i) \in 1 .. MaxAllocs
        <5>1. ObjectOf(f.i) <= allocs /\ ObjectOf(f.i) >= 1 /\ ObjectOf(f.i) \in Nat
          BY <4>2, <4>3, ObjectIs DEF ObjectInv
        <5>2. QED
          BY <1>3, <4>1, <4>2, <4>3, <5>1, HandleAssumption DEF HandleType
      <4>5. freed'[ObjectOf(f.i)] = freed[ObjectOf(f.i)]
        BY <1>11, <4>4
      <4>6. QED
        BY <1>9, <1>15, <4>2, <4>5
    <3>3. QED
      BY <3>1, <3>2
  <2>2. ASSUME NEW u \in Threads, NEW v \in Threads, NEW f \in Calls(u)', NEW g \in Calls(v)',
               f.pc \in FreePcs, g.pc \in FreePcs, f.i = g.i
        PROVE  u = v /\ f = g
    <3>1. CASE f.i = i
      <4>1. ASSUME NEW w \in Threads, NEW x \in Calls(w)', x.pc \in FreePcs, x.i = i
            PROVE  w = t /\ x = f1
        <5>1. x \in Calls(w) => w = t /\ x = f0
          BY <1>3, <4>1
        <5>2. QED
          BY <1>10, <4>1, <5>1
      <4>2. QED
        BY <2>2, <3>1, <4>1
    <3>2. CASE f.i # i
      <4>1. f \in Calls(u) /\ g \in Calls(v)
        BY <1>6, <1>10, <2>2, <3>2
      <4>2. QED
        BY <2>2, <4>1 DEF FreeingInv
    <3>3. QED
      BY <3>1, <3>2
  <2>3. ASSUME NEW j \in 1 .. Len(arr), arr[j].flags = {"ACTIVE", "FREEING"}
        PROVE  \E u \in Threads : \E f \in Calls(u)' : f.pc \in FreePcs /\ f.i = j
    <3>1. CASE j = i
      BY <1>6, <1>7, <1>10, <3>1
    <3>2. CASE j # i
      <4>1. PICK u \in Threads : \E f \in Calls(u) : f.pc \in FreePcs /\ f.i = j
        BY <2>3 DEF FreeingInv
      <4>2. \E f \in Calls(u)' : f.pc \in FreePcs /\ f.i = j
        BY <1>1, <1>10, <3>2, <4>1
      <4>3. QED
        BY <4>2
    <3>3. QED
      BY <3>1, <3>2
  <2>4. QED
    BY <1>9, <2>1, <2>2, <2>3 DEF FreeingInv
<1>22. AutofreeInv'
  BY <1>3, <1>14, <1>16, AutofreeKeeps
<1>23. ProgramInv'
  BY <1>3, <1>6, <1>9, <1>10, <1>13, <1>18 DEF ProgramInv
<1>24. QED
  BY <1>10, <1>14, <1>18, <1>19, <1>20, <1>21, <1>22, <1>23

\* The callback is called.
LEMMA FreeCallStep ==
  ASSUME HandleInv, NEW t \in Threads, FreeCall(t)
  PROVE  HandleInv'
<1>1. /\ ~Idle(t) /\ Top(t).pc = "marked" /\ Replace(t, [Top(t) EXCEPT !.pc = "callback"])
      /\ UNCHANGED <<setup, arr, mem, ui2_free_handles, ui2_num_free, ui2_num_peak_used,
                     ui2_num_used_per_grp, issued, allocs, freed, moved, wild, aborted>>
      /\ aborted \in BOOLEAN
  BY DEF FreeCall, HandleInv, HandleType
<1>2. "callback" \in FreePcs \ {"marked"} /\ FALSE \in BOOLEAN
  BY DEF FreePcs
<1>3. QED
  BY <1>1, <1>2, FreeingMoves

\* The callback allows the freeing or refuses it.
LEMMA CallbackStep ==
  ASSUME HandleInv, NEW t \in Threads, Callback(t)
  PROVE  HandleInv'
<1>1. ~Idle(t) /\ Top(t).pc = "callback"
  BY DEF Callback
<1>2. PICK yes \in BOOLEAN :
        /\ Top(t).e_type = "head" => yes = (arr[Top(t).i].auxcount = 0)
        /\ Replace(t, [Top(t) EXCEPT !.pc = IF yes THEN "finish" ELSE "refused"])
        /\ freed' = IF yes THEN [freed EXCEPT ![ObjectOf(Top(t).i)] = @ + 1] ELSE freed
  BY DEF Callback, aux_link_head_free, handle_num_aux_links
<1>3. PICK q : q = IF yes THEN "finish" ELSE "refused"
  OBVIOUS
<1>4. q \in FreePcs \ {"marked"} /\ q # Top(t).pc /\ (q = "finish" <=> yes)
  BY <1>1, <1>3 DEF FreePcs
<1>5. Valid(Top(t).h)
  BY <1>1, FreeingCall DEF FreePcs
<1>6. /\ UNCHANGED <<setup, arr, mem, ui2_free_handles, ui2_num_free, ui2_num_peak_used,
                     ui2_num_used_per_grp, issued, allocs, moved, wild>>
      /\ aborted' = FALSE
  BY <1>5 DEF Callback
<1>7. QED
  BY <1>1, <1>2, <1>3, <1>4, <1>6, FreeingMoves

\* A call goes on with the old address of the array.
LEMMA WritesAstrayStep ==
  ASSUME HandleInv, NEW t \in Threads, WritesAstray(t)
  PROVE  HandleInv'
<1>1. /\ UNCHANGED <<setup, arr, mem, ui2_free_handles, ui2_num_free, ui2_num_peak_used,
                     ui2_num_used_per_grp, frames, issued, allocs, freed, moved, aborted>>
      /\ wild' = TRUE /\ ~Idle(t) /\ Top(t).mem # mem
  BY DEF WritesAstray
<1>2. moved
  <2>1. Top(t) \in Calls(t)
    BY <1>1, TopIsCall DEF HandleInv
  <2>2. QED
    BY <1>1, <2>1 DEF HandleInv, ProgramInv, HandleType
<1>3. AuxInv'
  <2>1. AuxNextOf' = AuxNextOf /\ AuxPrevOf' = AuxPrevOf
    BY <1>1 DEF AuxNextOf, AuxPrevOf
  <2>2. ASSUME NEW i, NEW s, AuxListIs(i, s) PROVE AuxListIs(i, s)'
    BY <1>1, <2>1, <2>2 DEF AuxListIs
  <2>3. QED
    BY <1>1, <2>2 DEF AuxInv, HandleInv, Active
<1>4. \A u \in Threads : \A f \in Calls(u) :
        f.pc = "finish" /\ f.e_type = "head" => arr'[f.i].auxcount = 0
  BY <1>1 DEF HandleInv, FreeingInv, FreePcs
<1>5. arr' \in Seq(CtrlRec) /\ Len(arr') = Len(arr) /\ \A i \in 1 .. Len(arr) : ObjectOf(i)' = ObjectOf(i)
  BY <1>1 DEF HandleInv, HandleType, ObjectOf
<1>6. QED
  BY <1>1, <1>2, <1>3, <1>4, <1>5, QuietStep

\* A record that is in use is marked as being freed, or no longer so.
StoreFlags(i, F) == arr' = [arr EXCEPT ![i].flags = F]

\* Only the flags of record i are others.
NowFlags(i, F) ==
  /\ arr' \in Seq(CtrlRec) /\ Len(arr') = Len(arr) /\ KeepsRecords
  /\ arr'[i].flags = F
  /\ \A j \in 1 .. Len(arr) :
       /\ j # i => arr'[j].flags = arr[j].flags
       /\ arr'[j].obj = arr[j].obj /\ arr'[j].e_type = arr[j].e_type
       /\ arr'[j].count = arr[j].count /\ arr'[j].next = arr[j].next
       /\ arr'[j].auxnext = arr[j].auxnext /\ arr'[j].auxprev = arr[j].auxprev
       /\ arr'[j].auxhead = arr[j].auxhead /\ arr'[j].auxcount = arr[j].auxcount
       /\ ObjectOf(j)' = ObjectOf(j) /\ (Active(j)' <=> Active(j))

\* What storing the flags of a record writes.
LEMMA FlagsStored ==
  ASSUME HandleType, NEW i \in 1 .. Len(arr), NEW F \in SUBSET Flags, Active(i), "ACTIVE" \in F,
         StoreFlags(i, F)
  PROVE  NowFlags(i, F)
<1>1. arr \in Seq(CtrlRec) /\ arr[i] \in CtrlRec /\ Len(arr) \in Nat
  BY FlagsAre DEF HandleType
<1> DEFINE c == [arr[i] EXCEPT !.flags = F]
<1>2. arr' = [arr EXCEPT ![i] = c]
  BY DEF StoreFlags
<1>3. /\ c \in CtrlRec /\ c.flags = F /\ c.obj = arr[i].obj
      /\ c.count = arr[i].count /\ c.e_type = arr[i].e_type
      /\ c.next = arr[i].next /\ c.auxnext = arr[i].auxnext /\ c.auxprev = arr[i].auxprev
      /\ c.auxhead = arr[i].auxhead /\ c.auxcount = arr[i].auxcount
  BY <1>1 DEF CtrlRec
<1> HIDE DEF c
<1>4. /\ arr' \in Seq(CtrlRec) /\ Len(arr') = Len(arr) /\ arr'[i] = c
      /\ \A j \in 1 .. Len(arr) : j # i => arr'[j] = arr[j]
  BY <1>1, <1>2, <1>3, Stored
<1>5. \A j \in 1 .. Len(arr) :
        /\ arr'[j].obj = arr[j].obj /\ arr'[j].e_type = arr[j].e_type
        /\ arr'[j].count = arr[j].count /\ arr'[j].next = arr[j].next
        /\ arr'[j].auxnext = arr[j].auxnext /\ arr'[j].auxprev = arr[j].auxprev
        /\ arr'[j].auxhead = arr[j].auxhead /\ arr'[j].auxcount = arr[j].auxcount
  BY <1>3, <1>4
<1>6. \A j \in 1 .. Len(arr) : ObjectOf(j)' = ObjectOf(j) /\ (Active(j)' <=> Active(j))
  BY <1>3, <1>4, <1>5 DEF ObjectOf, Active
<1>7. KeepsRecords
  BY <1>1, <1>4, <1>5, <1>6 DEF KeepsRecords
<1>8. QED
  BY <1>3, <1>4, <1>5, <1>6, <1>7 DEF NowFlags

\* The callback refused: the handle can be freed again.
LEMMA FreeRefusedStep ==
  ASSUME HandleInv, NEW t \in Threads, FreeRefused(t)
  PROVE  HandleInv'
<1>1. PICK f0, i : f0 = Top(t) /\ i = f0.i
  OBVIOUS
<1>2. ~Idle(t) /\ f0.pc = "refused"
  BY <1>1 DEF FreeRefused
<1>3. /\ f0 \in Calls(t) /\ f0 \in FreeingFrame /\ t \in setup.threads
      /\ i \in 1 .. Len(arr) /\ Active(i)
      /\ arr[i].flags = {"ACTIVE", "FREEING"}
      /\ freed[ObjectOf(i)] = 0
      /\ \A u \in Threads : \A g \in Calls(u) : g.pc \in FreePcs /\ g.i = i => u = t /\ g = f0
      /\ \A u \in Threads : \A g \in Calls(u) : g.pc # "autofree"
  BY <1>1, <1>2, FreeingCall DEF FreePcs
<1> USE DEF HandleInv
<1>4. UNCHANGED <<setup, mem, ui2_free_handles, ui2_num_free, ui2_num_peak_used,
                  ui2_num_used_per_grp, issued, allocs, freed, moved, wild, aborted>>
  BY DEF FreeRefused
<1>5. StoreFlags(i, {"ACTIVE"})
  <2>1. arr' = [arr EXCEPT ![i].flags = @ \ {"FREEING"}]
    BY <1>1 DEF FreeRefused
  <2>2. arr[i].flags \ {"FREEING"} = {"ACTIVE"}
    BY <1>3
  <2>3. QED
    BY <2>1, <2>2 DEF StoreFlags
<1>6. /\ arr' \in Seq(CtrlRec) /\ Len(arr') = Len(arr) /\ KeepsRecords
      /\ arr'[i].flags = {"ACTIVE"}
      /\ \A j \in 1 .. Len(arr) :
           /\ j # i => arr'[j].flags = arr[j].flags
           /\ arr'[j].e_type = arr[j].e_type
           /\ arr'[j].count = arr[j].count /\ arr'[j].next = arr[j].next
           /\ arr'[j].auxnext = arr[j].auxnext /\ arr'[j].auxprev = arr[j].auxprev
           /\ arr'[j].auxhead = arr[j].auxhead /\ arr'[j].auxcount = arr[j].auxcount
           /\ ObjectOf(j)' = ObjectOf(j) /\ (Active(j)' <=> Active(j))
  <2>1. {"ACTIVE"} \in SUBSET Flags
    BY DEF Flags
  <2>2. NowFlags(i, {"ACTIVE"})
    BY <1>3, <1>5, <2>1, FlagsStored
  <2>3. QED
    BY <2>2 DEF NowFlags
<1>7. /\ frames' \in [Threads -> Seq(Frame)] /\ CallsNest'
      /\ \A u \in Threads : Calls(u)' = IF u = t THEN Calls(t) \ {f0} ELSE Calls(u)
  BY <1>1, <1>2, <1>4, Popped DEF FreeRefused
<1>8. HandleType'
  BY <1>4, <1>6, <1>7 DEF HandleType
<1>9. SameCalls({"fill"}) /\ SameCalls({"tag"}) /\ SameCalls({"autofree"})
  BY <1>2, <1>7 DEF SameCalls
<1>10. Allocated' = Allocated
  BY <1>4, <1>8, <1>9, AllocatedKeeps
<1>11. IdentityInv' /\ FillInv' /\ FreeListInv' /\ StatisticsInv' /\ AuxInv' /\ (Wrapped => Wrapped')
  <2>1. HandleInv
    OBVIOUS
  <2> HIDE DEF HandleInv
  <2>2. QED
    BY <1>4, <1>6, <1>8, <1>9, <1>10, <2>1, QuietParts
<1>12. ObjectInv'
  <2>1. ASSUME NEW j \in 1 .. Len(arr), arr'[j].flags = {"ACTIVE"} PROVE freed[ObjectOf(j)] = 0
    <3>1. CASE j = i
      BY <1>3, <3>1
    <3>2. CASE j # i
      BY <1>6, <2>1, <3>2 DEF ObjectInv
    <3>3. QED
      BY <3>1, <3>2
  <2>2. QED
    BY <1>4, <1>6, <2>1 DEF ObjectInv
<1>13. TagInv'
  <2>1. \A u \in Threads : \A f \in Calls(u) : f.pc = "tag" =>
          Wrapped' \/ arr'[f.h.i].flags = arr[f.h.i].flags
    BY <1>3, <1>6, <1>11 DEF TagInv
  <2>2. Wrapped => Wrapped'
    BY <1>11
  <2>3. QED
    BY <1>4, <1>6, <1>8, <1>9, <2>1, <2>2, TagKeeps
<1>14. FreeingInv'
  <2>1. ASSUME NEW u \in Threads, NEW f \in Calls(u)', f.pc \in FreePcs
        PROVE  f \in Calls(u) /\ f.i # i
    BY <1>3, <1>7, <2>1
  <2>2. ASSUME NEW u \in Threads, NEW f \in Calls(u)', f.pc \in FreePcs
        PROVE  /\ f.i \in 1 .. Len(arr)' /\ f.h.i = f.i
               /\ arr'[f.i].flags = {"ACTIVE", "FREEING"}
               /\ arr'[f.i].count = f.h.count /\ arr'[f.i].e_type = f.e_type
               /\ freed'[ObjectOf(f.i)'] = IF f.pc = "finish" THEN 1 ELSE 0
               /\ f.pc = "finish" /\ f.e_type = "head" => arr'[f.i].auxcount = 0
               /\ f.e_type = "head" => "freehead" \in setup'.ops
    <3>1. /\ f.i \in 1 .. Len(arr) /\ f.h.i = f.i
          /\ arr[f.i].flags = {"ACTIVE", "FREEING"}
          /\ arr[f.i].count = f.h.count /\ arr[f.i].e_type = f.e_type
          /\ freed[ObjectOf(f.i)] = IF f.pc = "finish" THEN 1 ELSE 0
          /\ f.pc = "finish" /\ f.e_type = "head" => arr[f.i].auxcount = 0
          /\ f.e_type = "head" => "freehead" \in setup.ops
      BY <2>1, <2>2 DEF FreeingInv
    <3>2. f.i # i
      BY <2>1, <2>2
    <3>3. QED
      BY <1>4, <1>6, <3>1, <3>2
  <2>3. ASSUME NEW u \in Threads, NEW v \in Threads, NEW f \in Calls(u)', NEW g \in Calls(v)',
               f.pc \in FreePcs, g.pc \in FreePcs, f.i = g.i
        PROVE  u = v /\ f = g
    BY <2>1, <2>3 DEF FreeingInv
  <2>4. ASSUME NEW j \in 1 .. Len(arr), arr'[j].flags = {"ACTIVE", "FREEING"}
        PROVE  \E u \in Threads : \E f \in Calls(u)' : f.pc \in FreePcs /\ f.i = j
    <3>1. j # i /\ arr[j].flags = {"ACTIVE", "FREEING"}
      BY <1>6, <2>4
    <3>2. PICK u \in Threads : \E f \in Calls(u) : f.pc \in FreePcs /\ f.i = j
      BY <3>1 DEF FreeingInv
    <3>3. \E f \in Calls(u)' : f.pc \in FreePcs /\ f.i = j
      BY <1>1, <1>7, <3>1, <3>2
    <3>4. QED
      BY <3>3
  <2>5. QED
    BY <1>4, <1>6, <2>2, <2>3, <2>4 DEF FreeingInv
<1>15. AutofreeInv'
  BY <1>3, <1>8, <1>9, AutofreeKeeps
<1>16. ProgramInv'
  BY <1>4, <1>6, <1>7, <1>11 DEF ProgramInv
<1>17. QED
  BY <1>7, <1>8, <1>11, <1>12, <1>13, <1>14, <1>15, <1>16

\* A valid handle leads to its own object, unless its count came round.
LEMMA IdentityHolds ==
  ASSUME HandleType, IdentityInv, NEW a \in Allocated, Valid(a.h), Later(a) < CountMod \div 2
  PROVE  ObjectOf(a.h.i) = a.n
<1>1. PICK d \in 0 .. Later(a), e \in Nat : CountOf(a, d, e)
  BY DEF IdentityInv, CountFits
<1>2. a.h.i \in 1 .. Len(arr) /\ arr[a.h.i].count = a.h.count /\ Active(a.h.i)
  BY ValidIs
<1>3. a.h.count \in Nat /\ Later(a) \in Nat /\ CountMod \in Nat \ {0}
  <2>1. a \in Allocation
    BY DEF Allocated, Tagged, HandleType
  <2>2. IsFiniteSet(Newer(a))
    <3>1. Newer(a) \in SUBSET Allocated
      BY DEF Newer
    <3>2. QED
      BY <3>1, FS_Subset DEF IdentityInv
  <2>3. Later(a) \in Nat
    BY <2>2, FS_CardinalityType DEF Later
  <2>4. a.h.count \in 0 .. (CountMod - 1)
    BY <2>1 DEF Allocation, HandleSet
  <2>5. QED
    BY <2>3, <2>4, HandleAssumption
<1>4. arr[a.h.i].count + CountMod * e = a.h.count + 2 * d + 0
  BY <1>1, <1>2 DEF CountOf
<1>5. PICK M \in Nat, c \in Nat : M = CountMod /\ c = a.h.count /\ M # 0
  BY <1>3
<1>6. M * e = 2 * d
  <2>1. c + M * e = c + 2 * d
    BY <1>2, <1>4, <1>5
  <2>2. M * e \in Nat /\ 2 * d \in Nat
    BY <1>1, <1>3
  <2>3. QED
    BY <1>5, <2>1, <2>2
<1>7. d < M \div 2
  BY <1>1, <1>3, <1>5
<1>8. 2 * d < M
  BY <1>5, <1>7, <1>1, <1>3
<1>9. e = 0
  <2>1. SUFFICES ASSUME e >= 1 PROVE FALSE
    BY <1>1
  <2>2. M * e >= M
    <3>1. PICK k \in Nat : e = k + 1
      <4>1. e - 1 \in Nat /\ e = (e - 1) + 1
        BY <1>1, <2>1
      <4>2. QED
        BY <4>1
    <3>2. M * (k + 1) = M * k + M /\ M * k \in Nat
      BY <1>5
    <3>3. QED
      BY <3>1, <3>2, <1>5
  <2>3. QED
    BY <1>5, <1>6, <1>8, <2>2, <1>1, <1>3
<1>10. d = 0
  BY <1>1, <1>3, <1>5, <1>6, <1>9
<1>11. QED
  BY <1>1, <1>2, <1>10 DEF CountOf

\* A handle is marked as being freed.
LEMMA FreeMarkStep ==
  ASSUME HandleInv, NEW t \in Threads, NEW h \in Handles, FreeMark(t, h)
  PROVE  HandleInv'
<1> USE DEF HandleInv
<1>1. PICK i \in {h.i}, r \in issued : i = h.i /\ r.h = h
  BY DEF Handles
<1>2. r \in Allocation /\ h \in HandleSet /\ i \in Nat
  BY <1>1 DEF HandleType, Allocation, HandleSet
<1>3. /\ i \in 1 .. Len(arr) /\ arr[i].count = h.count /\ Active(i) /\ Valid(h)
      /\ arr[i].flags = {"ACTIVE"}
  BY <1>1, ValidIs, FlagsAre DEF FreeMark, MayFree
<1>4. UNCHANGED <<setup, mem, ui2_free_handles, ui2_num_free, ui2_num_peak_used,
                  ui2_num_used_per_grp, issued, allocs, freed, moved, wild, aborted>>
  BY DEF FreeMark
<1>5. StoreFlags(i, {"ACTIVE", "FREEING"})
  <2>1. arr' = [arr EXCEPT ![i].flags = @ \cup {"FREEING"}]
    BY <1>1 DEF FreeMark
  <2>2. arr[i].flags \cup {"FREEING"} = {"ACTIVE", "FREEING"}
    BY <1>3
  <2>3. QED
    BY <2>1, <2>2 DEF StoreFlags
<1>6. /\ arr' \in Seq(CtrlRec) /\ Len(arr') = Len(arr) /\ KeepsRecords
      /\ arr'[i].flags = {"ACTIVE", "FREEING"}
      /\ \A j \in 1 .. Len(arr) :
           /\ j # i => arr'[j].flags = arr[j].flags
           /\ arr'[j].e_type = arr[j].e_type
           /\ arr'[j].count = arr[j].count /\ arr'[j].next = arr[j].next
           /\ arr'[j].auxnext = arr[j].auxnext /\ arr'[j].auxprev = arr[j].auxprev
           /\ arr'[j].auxhead = arr[j].auxhead /\ arr'[j].auxcount = arr[j].auxcount
           /\ ObjectOf(j)' = ObjectOf(j) /\ (Active(j)' <=> Active(j))
  <2>1. {"ACTIVE", "FREEING"} \in SUBSET Flags
    BY DEF Flags
  <2>2. NowFlags(i, {"ACTIVE", "FREEING"})
    BY <1>3, <1>5, <2>1, FlagsStored
  <2>3. QED
    BY <2>2 DEF NowFlags
<1>7. PICK f1 : f1 = [pc |-> "marked", i |-> h.i, mem |-> mem, h |-> h, e_type |-> arr[h.i].e_type]
  OBVIOUS
<1>8. /\ f1 \in Frame /\ f1.pc = "marked" /\ f1.pc \in FreePcs /\ f1.i = i /\ f1.mem = mem /\ f1.h = h
      /\ f1.e_type = arr[i].e_type
  <2>1. arr[i].e_type \in Types
    BY <1>3 DEF ObjectInv
  <2>2. f1 \in FreeingFrame
    BY <1>1, <1>2, <1>7, <2>1 DEF FreeingFrame, FreePcs, HandleType
  <2>3. QED
    BY <1>1, <1>7, <2>2 DEF Frame, FreePcs
<1>9. \A u \in Threads : \A f \in Calls(u) : f.pc \in FreePcs => f.i # i
  <2>1. \A u \in Threads : \A f \in Calls(u) : f.pc \in FreePcs => arr[f.i].flags = {"ACTIVE", "FREEING"}
    BY DEF FreeingInv
  <2>2. {"ACTIVE"} # {"ACTIVE", "FREEING"}
    OBVIOUS
  <2>3. QED
    BY <1>3, <2>1, <2>2
<1>10. t \in setup.threads /\ (frames[t] = <<>> \/ (Top(t).pc = "callback" /\ Top(t).e_type = "user"))
       /\ (~Idle(t) => Top(t).pc = "callback")
  BY DEF FreeMark, CanCall, InCallback, Idle
<1>11. /\ frames' \in [Threads -> Seq(Frame)] /\ CallsNest'
       /\ \A u \in Threads : Calls(u)' = IF u = t THEN Calls(t) \cup {f1} ELSE Calls(u)
  <2>1. Push(t, f1)
    BY <1>7 DEF FreeMark
  <2>2. f1 \notin Calls(t)
    BY <1>8, <1>9
  <2>3. QED
    BY <1>4, <1>8, <1>10, <2>1, <2>2, Pushed
<1>12. HandleType'
  BY <1>4, <1>6, <1>11 DEF HandleType
<1>13. SameCalls({"fill"}) /\ SameCalls({"tag"}) /\ SameCalls({"autofree"})
  BY <1>8, <1>11 DEF SameCalls
<1>14. Allocated' = Allocated
  BY <1>4, <1>12, <1>13, AllocatedKeeps
<1>15. IdentityInv' /\ FillInv' /\ FreeListInv' /\ StatisticsInv' /\ AuxInv' /\ (Wrapped => Wrapped')
  <2>1. HandleInv
    OBVIOUS
  <2> HIDE DEF HandleInv
  <2>2. QED
    BY <1>4, <1>6, <1>12, <1>13, <1>14, <2>1, QuietParts
<1>16. ObjectInv'
  <2>1. ASSUME NEW j \in 1 .. Len(arr), arr'[j].flags = {"ACTIVE"} PROVE arr[j].flags = {"ACTIVE"}
    <3>1. {"ACTIVE"} # {"ACTIVE", "FREEING"}
      OBVIOUS
    <3>2. QED
      BY <1>6, <2>1, <3>1
  <2>2. allocs \in Nat /\ allocs' >= allocs
    BY <1>4 DEF HandleType
  <2>3. KeepsObjects
    BY <1>6, ObjectsAreKept
  <2>4. QED
    BY <1>4, <1>6, <2>1, <2>2, <2>3, ObjectKeeps
<1>17. TagInv'
  <2>1. ASSUME NEW u \in Threads, NEW f \in Calls(u), f.pc = "tag", f.h.i = i, ~Wrapped PROVE FALSE
    <3>1. arr[i].count = f.h.count /\ ObjectOf(i) = f.obj /\ r.n # f.obj
      BY <2>1 DEF TagInv
    <3>2. Later(r) < CountMod \div 2
      <4>1. ~(Later(r) >= CountMod \div 2)
        BY <2>1 DEF Wrapped
      <4>2. IsFiniteSet(Newer(r))
        <5>1. Newer(r) \in SUBSET Allocated
          BY DEF Newer
        <5>2. QED
          BY <5>1, FS_Subset DEF IdentityInv
      <4>3. Later(r) \in Nat
        BY <4>2, FS_CardinalityType DEF Later
      <4>4. QED
        BY <4>1, <4>3, HandleAssumption
    <3>3. r \in Allocated
      BY DEF Allocated
    <3>4. ObjectOf(i) = r.n
      BY <1>1, <1>3, <3>2, <3>3, IdentityHolds
    <3>5. QED
      BY <3>1, <3>4
  <2>2. Wrapped => Wrapped'
    BY <1>15
  <2>3. ASSUME NEW u \in Threads, NEW f \in Calls(u), f.pc = "tag"
        PROVE  Wrapped' \/ arr'[f.h.i].flags = arr[f.h.i].flags
    <3>1. f.h.i \in 1 .. Len(arr)
      BY <2>3 DEF TagInv
    <3>2. QED
      BY <1>6, <2>1, <2>2, <2>3, <3>1
  <2>4. QED
    BY <1>4, <1>6, <1>12, <1>13, <2>2, <2>3, TagKeeps
<1>18. FreeingInv'
  <2>1. ASSUME NEW u \in Threads, NEW f \in Calls(u)', f.pc \in FreePcs
        PROVE  (u = t /\ f = f1) \/ (f \in Calls(u) /\ f.i # i)
    BY <1>9, <1>11, <2>1
  <2>2. ASSUME NEW u \in Threads, NEW f \in Calls(u)', f.pc \in FreePcs
        PROVE  /\ f.i \in 1 .. Len(arr)' /\ f.h.i = f.i
               /\ arr'[f.i].flags = {"ACTIVE", "FREEING"}
               /\ arr'[f.i].count = f.h.count /\ arr'[f.i].e_type = f.e_type
               /\ freed'[ObjectOf(f.i)'] = IF f.pc = "finish" THEN 1 ELSE 0
               /\ f.pc = "finish" /\ f.e_type = "head" => arr'[f.i].auxcount = 0
               /\ f.e_type = "head" => "freehead" \in setup'.ops
    <3>1. CASE u = t /\ f = f1
      <4>1. f1.e_type = "head" => "freehead" \in setup.ops
        BY <1>1, <1>8 DEF FreeMark
      <4>2. freed[ObjectOf(i)] = 0
        BY <1>3 DEF ObjectInv
      <4>3. QED
        BY <1>1, <1>3, <1>4, <1>6, <1>8, <3>1, <4>1, <4>2
    <3>2. CASE f \in Calls(u) /\ f.i # i
      <4>1. /\ f.i \in 1 .. Len(arr) /\ f.h.i = f.i
            /\ arr[f.i].flags = {"ACTIVE", "FREEING"}
            /\ arr[f.i].count = f.h.count /\ arr[f.i].e_type = f.e_type
            /\ freed[ObjectOf(f.i)] = IF f.pc = "finish" THEN 1 ELSE 0
            /\ f.pc = "finish" /\ f.e_type = "head" => arr[f.i].auxcount = 0
            /\ f.e_type = "head" => "freehead" \in setup.ops
        BY <2>2, <3>2 DEF FreeingInv
      <4>2. QED
        BY <1>4, <1>6, <3>2, <4>1
    <3>3. QED
      BY <2>1, <2>2, <3>1, <3>2
  <2>3. ASSUME NEW u \in Threads, NEW v \in Threads, NEW f \in Calls(u)', NEW g \in Calls(v)',
               f.pc \in FreePcs, g.pc \in FreePcs, f.i = g.i
        PROVE  u = v /\ f = g
    <3>1. CASE f.i = i
      BY <2>1, <2>3, <3>1
    <3>2. CASE f.i # i
      <4>1. f \in Calls(u) /\ g \in Calls(v)
        BY <1>8, <2>1, <2>3, <3>2
      <4>2. QED
        BY <2>3, <4>1 DEF FreeingInv
    <3>3. QED
      BY <3>1, <3>2
  <2>4. ASSUME NEW j \in 1 .. Len(arr), arr'[j].flags = {"ACTIVE", "FREEING"}
        PROVE  \E u \in Threads : \E f \in Calls(u)' : f.pc \in FreePcs /\ f.i = j
    <3>1. CASE j = i
      BY <1>8, <1>11, <3>1
    <3>2. CASE j # i
      <4>1. arr[j].flags = {"ACTIVE", "FREEING"}
        BY <1>6, <2>4, <3>2
      <4>2. PICK u \in Threads : \E f \in Calls(u) : f.pc \in FreePcs /\ f.i = j
        BY <4>1 DEF FreeingInv
      <4>3. \E f \in Calls(u)' : f.pc \in FreePcs /\ f.i = j
        BY <1>11, <4>2
      <4>4. QED
        BY <4>3
    <3>3. QED
      BY <3>1, <3>2
  <2>5. QED
    BY <1>4, <1>6, <2>2, <2>3, <2>4 DEF FreeingInv
<1>19. AutofreeInv'
  <2>1. \A u \in Threads : \A f \in Calls(u) : f.pc # "autofree"
    BY <1>10, NoAutofree
  <2>2. QED
    BY <1>12, <1>13, <2>1, AutofreeKeeps
<1>20. ProgramInv'
  <2>1. ~moved => ~wild /\ \A u \in Threads : \A f \in Calls(u)' : f.mem = mem
    BY <1>8, <1>11 DEF ProgramInv
  <2>2. aborted => Wrapped
    BY DEF ProgramInv
  <2>3. aborted' => Wrapped'
    BY <1>4, <1>15, <2>2
  <2>4. QED
    BY <1>4, <1>6, <2>1, <2>2, <2>3 DEF ProgramInv
<1>21. QED
  BY <1>11, <1>12, <1>15, <1>16, <1>17, <1>18, <1>19, <1>20

\* u_handle_autofree looks the type up.
LEMMA AutofreeStep ==
  ASSUME HandleInv, NEW t \in Threads, NEW h \in Handles, Autofree(t, h)
  PROVE  HandleInv'
<1> USE DEF HandleInv
<1>1. h \in HandleSet
  BY DEF Handles, HandleType, Allocation
<1>2. h.i \in 1 .. Len(arr) /\ arr[h.i].count = h.count /\ Active(h.i)
      /\ get_h_ctrl_from_handle(h) = h.i
  BY ValidIs DEF Autofree, MayFree
<1>3. UNCHANGED <<setup, arr, mem, ui2_free_handles, ui2_num_free, ui2_num_peak_used,
                  ui2_num_used_per_grp, issued, allocs, freed, moved, wild, aborted>>
  BY DEF Autofree
<1>4. /\ t \in setup.threads /\ CanCall(t) /\ OneThread(setup) /\ arr[h.i].e_type = "user"
      /\ "FREEING" \notin arr[h.i].flags
  <2>1. "autofree" \in setup.ops /\ t \in setup.threads /\ CanCall(t)
    BY DEF Autofree, CanCall
  <2>2. OneThread(setup)
    BY <2>1, ProgramIs DEF Disciplined
  <2>3. arr[h.i].e_type = "user" /\ "FREEING" \notin arr[h.i].flags
    BY <1>2 DEF Autofree, u_handle_get_type_obj, MayFree
  <2>4. QED
    BY <2>1, <2>2, <2>3
<1>5. \A u \in Threads : \A f \in Calls(u) : f.pc = "callback" /\ f.e_type = "user"
  BY <1>4, OnlyCallbacks
<1>6. arr[h.i].flags = {"ACTIVE"}
  BY <1>2, <1>4, FlagsAre
<1>7. PICK f1 : f1 = [pc |-> "autofree", h |-> h, mem |-> mem]
  OBVIOUS
<1>8. f1 \in Frame /\ f1.pc = "autofree" /\ f1.h = h /\ f1.mem = mem
  <2>1. f1 \in AutoFrame
    BY <1>1, <1>7 DEF AutoFrame, HandleType
  <2>2. QED
    BY <1>7, <2>1 DEF Frame
<1>9. /\ frames' \in [Threads -> Seq(Frame)] /\ CallsNest'
      /\ \A u \in Threads : Calls(u)' = IF u = t THEN Calls(t) \cup {f1} ELSE Calls(u)
  <2>1. Push(t, f1)
    BY <1>7 DEF Autofree
  <2>2. f1 \notin Calls(t)
    BY <1>5, <1>8
  <2>3. \/ frames[t] = <<>>
        \/ frames[t] # <<>> /\ Top(t).pc = "callback" /\ Top(t).e_type = "user"
    BY <1>4 DEF CanCall, Idle, InCallback
  <2>4. QED
    BY <1>3, <1>4, <1>8, <2>1, <2>2, <2>3, Pushed
<1>10. HandleType'
  BY <1>3, <1>9 DEF HandleType
<1>11. KeepsRecords /\ \A j : ObjectOf(j)' = ObjectOf(j) /\ (Active(j)' <=> Active(j))
  BY <1>3 DEF KeepsRecords, HandleType, Active, ObjectOf
<1>12. SameCalls({"fill"}) /\ SameCalls({"tag"}) /\ SameCalls(FreePcs)
  BY <1>8, <1>9 DEF SameCalls, FreePcs
<1>13. Allocated' = Allocated
  BY <1>3, <1>10, <1>12, AllocatedKeeps
<1>14. IdentityInv' /\ FillInv' /\ FreeListInv' /\ StatisticsInv' /\ AuxInv' /\ (Wrapped => Wrapped')
  <2>1. HandleInv
    OBVIOUS
  <2> HIDE DEF HandleInv
  <2>2. QED
    BY <1>3, <1>10, <1>11, <1>12, <1>13, <2>1, QuietParts
<1>15. ObjectInv'
  BY <1>3, <1>11 DEF ObjectInv
<1>16. TagInv'
  <2>1. \A u \in Threads : \A f \in Calls(u)' : f.pc # "tag"
    BY <1>5, <1>8, <1>9
  <2>2. QED
    BY <2>1 DEF TagInv
<1>17. FreeingInv'
  <2>1. \A u \in Threads : \A f \in Calls(u)' : f.pc \in FreePcs => f \in Calls(u)
    BY <1>8, <1>9 DEF FreePcs
  <2>2. \A u \in Threads : \A f \in Calls(u) : f \in Calls(u)'
    BY <1>9
  <2>3. ASSUME NEW u \in Threads, NEW f \in Calls(u)', f.pc \in FreePcs
        PROVE  /\ f.i \in 1 .. Len(arr) /\ f.h.i = f.i
               /\ arr[f.i].flags = {"ACTIVE", "FREEING"}
               /\ arr[f.i].count = f.h.count /\ arr[f.i].e_type = f.e_type
               /\ freed[ObjectOf(f.i)] = IF f.pc = "finish" THEN 1 ELSE 0
               /\ f.pc = "finish" /\ f.e_type = "head" => arr[f.i].auxcount = 0
               /\ f.e_type = "head" => "freehead" \in setup.ops
    BY <2>1, <2>3 DEF FreeingInv
  <2>4. \A u, v \in Threads : \A f \in Calls(u)', g \in Calls(v)' :
          f.pc \in FreePcs /\ g.pc \in FreePcs /\ f.i = g.i => u = v /\ f = g
    BY <2>1 DEF FreeingInv
  <2>5. \A k \in 1 .. Len(arr) : arr[k].flags = {"ACTIVE", "FREEING"} =>
          \E u \in Threads : \E f \in Calls(u)' : f.pc \in FreePcs /\ f.i = k
    BY <2>2 DEF FreeingInv
  <2>6. QED
    BY <1>3, <1>11, <2>3, <2>4, <2>5 DEF FreeingInv
<1>18. AutofreeInv'
  <2>1. ASSUME NEW u \in Threads, NEW f \in Calls(u)', f.pc = "autofree" PROVE f = f1
    BY <1>5, <1>9, <2>1
  <2>2. QED
    BY <1>2, <1>3, <1>4, <1>6, <1>8, <2>1 DEF AutofreeInv
<1>19. ProgramInv'
  <2>1. ~moved => ~wild /\ \A u \in Threads : \A f \in Calls(u)' : f.mem = mem
    BY <1>8, <1>9 DEF ProgramInv
  <2>2. aborted => Wrapped
    BY DEF ProgramInv
  <2>3. aborted' => Wrapped'
    BY <1>3, <1>14, <2>2
  <2>4. QED
    BY <1>3, <2>1, <2>2, <2>3 DEF ProgramInv
<1>20. QED
  BY <1>9, <1>10, <1>14, <1>15, <1>16, <1>17, <1>18, <1>19

\* u_handle_autofree frees, and never finds the handle gone.
LEMMA AutofreeCallStep ==
  ASSUME HandleInv, NEW t \in Threads, AutofreeCall(t)
  PROVE  HandleInv'
<1> USE DEF HandleInv
<1>1. PICK f0 : f0 = Top(t)
  OBVIOUS
<1>2. f0.pc = "autofree" /\ f0 \in Frame /\ ~Idle(t) /\ t \in setup.threads /\ f0 \in Calls(t)
      /\ \A f \in Calls(t) : f # f0 => f.pc = "callback" /\ f.e_type = "user"
  BY <1>1, TopIsCall DEF AutofreeCall, FreePcs
<1>3. PICK h, i : h = f0.h /\ i = h.i
  OBVIOUS
<1>4. /\ OneThread(setup) /\ i \in 1 .. Len(arr) /\ arr[i].flags = {"ACTIVE"}
      /\ arr[i].count = h.count /\ arr[i].e_type = "user"
  BY <1>2, <1>3 DEF AutofreeInv
<1>5. h \in HandleSet /\ i \in Nat /\ i # 0
  <2>1. f0 \in AutoFrame
    BY <1>2 DEF Frame, FillFrame, TagFrame, FreeingFrame, FreePcs
  <2>2. QED
    BY <1>3, <1>4, <2>1 DEF AutoFrame, HandleSet
<1>6. Active(i) /\ MayFree(h)
  BY <1>3, <1>4, <1>5 DEF Active, MayFree, Valid, get_h_ctrl_from_handle, NULL_IDX, ui2_num_total
<1>7. \A u \in Threads : u # t => Calls(u) = {}
  <2>1. ASSUME NEW u \in Threads, u # t PROVE frames[u] = <<>>
    BY <1>2, <1>4, <2>1 DEF CallsNest, OneThread
  <2>2. QED
    BY <2>1 DEF Calls, Range
<1>7a. \A u \in Threads : \A f \in Calls(u) : u = t /\ (f = f0 \/ (f.pc = "callback" /\ f.e_type = "user"))
  BY <1>2, <1>7
<1>8. UNCHANGED <<setup, mem, ui2_free_handles, ui2_num_free, ui2_num_peak_used,
                  ui2_num_used_per_grp, issued, allocs, moved, wild>>
  BY DEF AutofreeCall
<1>9. PICK f1 : f1 = [pc |-> "finish", i |-> i, mem |-> mem, h |-> h, e_type |-> "user"]
  OBVIOUS
<1>10. /\ arr' = [arr EXCEPT ![i].flags = @ \cup {"FREEING"}]
       /\ freed' = [freed EXCEPT ![ObjectOf(i)] = @ + 1]
       /\ Replace(t, f1) /\ aborted' = FALSE
  BY <1>1, <1>3, <1>6, <1>9 DEF AutofreeCall
<1>11. /\ f1 \in Frame /\ f1.pc = "finish" /\ f1.pc \in FreePcs /\ f1.i = i /\ f1.mem = mem /\ f1.h = h
       /\ f1.e_type = "user"
  <2>1. f1 \in FreeingFrame
    BY <1>5, <1>9 DEF FreeingFrame, FreePcs, HandleType, Types
  <2>2. QED
    BY <1>9, <2>1 DEF Frame, FreePcs
<1>12. StoreFlags(i, {"ACTIVE", "FREEING"})
  <2>1. arr[i].flags \cup {"FREEING"} = {"ACTIVE", "FREEING"}
    BY <1>4
  <2>2. QED
    BY <1>10, <2>1 DEF StoreFlags
<1>13. /\ arr' \in Seq(CtrlRec) /\ Len(arr') = Len(arr) /\ KeepsRecords
       /\ arr'[i].flags = {"ACTIVE", "FREEING"}
       /\ \A j \in 1 .. Len(arr) :
            /\ j # i => arr'[j].flags = arr[j].flags
            /\ arr'[j].e_type = arr[j].e_type
            /\ arr'[j].count = arr[j].count /\ arr'[j].next = arr[j].next
            /\ arr'[j].auxnext = arr[j].auxnext /\ arr'[j].auxprev = arr[j].auxprev
            /\ arr'[j].auxhead = arr[j].auxhead /\ arr'[j].auxcount = arr[j].auxcount
            /\ ObjectOf(j)' = ObjectOf(j) /\ (Active(j)' <=> Active(j))
  <2>1. {"ACTIVE", "FREEING"} \in SUBSET Flags
    BY DEF Flags
  <2>2. NowFlags(i, {"ACTIVE", "FREEING"})
    BY <1>4, <1>6, <1>12, <2>1, FlagsStored
  <2>3. QED
    BY <2>2 DEF NowFlags
<1>14. /\ frames' \in [Threads -> Seq(Frame)] /\ CallsNest'
       /\ \A u \in Threads : Calls(u)' = IF u = t THEN (Calls(t) \ {f0}) \cup {f1} ELSE Calls(u)
  <2>1. f1 \notin Calls(t) \ {f0}
    BY <1>2, <1>11
  <2>2. QED
    BY <1>1, <1>2, <1>8, <1>10, <1>11, <2>1, Replaced
<1>14a. ASSUME NEW u \in Threads, NEW f \in Calls(u)'
       PROVE  u = t /\ (f = f1 \/ (f \in Calls(t) /\ f.pc = "callback" /\ f.e_type = "user"))
  BY <1>14, <1>7a
<1>15. ObjectOf(i) \in 1 .. MaxAllocs /\ ObjectOf(i) <= allocs /\ freed[ObjectOf(i)] = 0
  <2>1. ObjectOf(i) <= allocs /\ ObjectOf(i) >= 1 /\ ObjectOf(i) \in Nat
    BY <1>4, <1>6, ObjectIs DEF ObjectInv
  <2>2. ObjectOf(i) \in 1 .. MaxAllocs
    BY <2>1, HandleAssumption DEF HandleType
  <2>3. QED
    BY <1>4, <2>1, <2>2 DEF ObjectInv
<1>16. freed' \in [1 .. MaxAllocs -> Nat]
       /\ \A n \in 1 .. MaxAllocs : freed'[n] = IF n = ObjectOf(i) THEN 1 ELSE freed[n]
  BY <1>10, <1>15 DEF HandleType
<1>17. HandleType'
  BY <1>8, <1>10, <1>13, <1>14, <1>16 DEF HandleType
<1>18. SameCalls({"fill"}) /\ SameCalls({"tag"})
  BY <1>2, <1>7, <1>11, <1>14 DEF SameCalls
<1>19. Allocated' = Allocated
  BY <1>8, <1>17, <1>18, AllocatedKeeps
<1>20. IdentityInv' /\ FillInv' /\ FreeListInv' /\ StatisticsInv' /\ AuxInv'
  <2>1. \A n \in 1 .. MaxAllocs : freed'[n] # freed[n] => \E j \in 1 .. Len(arr) : Active(j) /\ n = ObjectOf(j)
    BY <1>4, <1>6, <1>16
  <2>2. HandleInv
    OBVIOUS
  <2> HIDE DEF HandleInv
  <2>3. QED
    BY <1>8, <1>13, <1>17, <1>18, <1>19, <2>1, <2>2, QuietParts
<1>21. ObjectInv'
  <2>1. ASSUME NEW j \in 1 .. Len(arr), arr'[j].flags = {"ACTIVE"} PROVE freed'[ObjectOf(j)] = 0
    <3>1. j # i /\ arr[j].flags = {"ACTIVE"}
      <4>1. {"ACTIVE"} # {"ACTIVE", "FREEING"}
        OBVIOUS
      <4>2. j # i
        BY <1>13, <2>1, <4>1
      <4>3. QED
        BY <1>13, <2>1, <4>2
    <3>2. Active(j) /\ freed[ObjectOf(j)] = 0
      BY <3>1 DEF ObjectInv, Active
    <3>3. ObjectOf(j) # ObjectOf(i)
      BY <1>4, <1>6, <3>1, <3>2 DEF ObjectInv
    <3>4. ObjectOf(j) \in 1 .. MaxAllocs
      <4>1. ObjectOf(j) <= allocs /\ ObjectOf(j) >= 1 /\ ObjectOf(j) \in Nat
        BY <3>2, ObjectIs DEF ObjectInv
      <4>2. QED
        BY <4>1, HandleAssumption DEF HandleType
    <3>5. QED
      BY <1>16, <3>2, <3>3, <3>4
  <2>2. \A n \in 1 .. MaxAllocs : freed'[n] <= 1 /\ (n > allocs => freed'[n] = 0)
    <3>1. allocs \in Nat /\ ObjectOf(i) \in Nat
      BY <1>15 DEF HandleType
    <3>2. QED
      BY <1>15, <1>16, <3>1 DEF ObjectInv
  <2>3. QED
    BY <1>8, <1>13, <2>1, <2>2 DEF ObjectInv
<1>22. TagInv'
  <2>1. \A u \in Threads : \A f \in Calls(u)' : f.pc # "tag"
    BY <1>11, <1>14a
  <2>2. QED
    BY <2>1 DEF TagInv
<1>23. FreeingInv'
  <2>1. ASSUME NEW f \in Calls(t), f.pc = "callback"
        PROVE  /\ f.i # i /\ f.i \in 1 .. Len(arr) /\ f.h.i = f.i
               /\ arr'[f.i].flags = {"ACTIVE", "FREEING"}
               /\ arr'[f.i].count = f.h.count /\ arr'[f.i].e_type = f.e_type
               /\ freed'[ObjectOf(f.i)'] = 0
    <3>1. /\ f.i \in 1 .. Len(arr) /\ f.h.i = f.i /\ arr[f.i].flags = {"ACTIVE", "FREEING"}
          /\ arr[f.i].count = f.h.count /\ arr[f.i].e_type = f.e_type
          /\ freed[ObjectOf(f.i)] = 0
      BY <2>1 DEF FreeingInv, FreePcs
    <3>2. f.i # i /\ Active(f.i)
      BY <1>4, <3>1 DEF Active
    <3>3. ObjectOf(f.i) # ObjectOf(i)
      BY <1>4, <1>6, <3>1, <3>2 DEF ObjectInv
    <3>4. ObjectOf(f.i) \in 1 .. MaxAllocs
      <4>1. ObjectOf(f.i) <= allocs /\ ObjectOf(f.i) >= 1 /\ ObjectOf(f.i) \in Nat
        BY <3>1, <3>2, ObjectIs DEF ObjectInv
      <4>2. QED
        BY <4>1, HandleAssumption DEF HandleType
    <3>5. QED
      BY <1>13, <1>16, <3>1, <3>2, <3>3, <3>4
  <2>2. freed'[ObjectOf(i)'] = 1
    BY <1>4, <1>13, <1>15, <1>16
  <2>3. \A f \in Calls(t) : f \in Calls(t)' \/ f = f0
    BY <1>14
  <2>4. f1 \in Calls(t)' /\ f0.pc \notin FreePcs
    BY <1>2, <1>14 DEF FreePcs
  <2>5. ASSUME NEW u \in Threads, NEW f \in Calls(u)'
        PROVE  /\ f.i \in 1 .. Len(arr)' /\ f.h.i = f.i
               /\ arr'[f.i].flags = {"ACTIVE", "FREEING"}
               /\ arr'[f.i].count = f.h.count /\ arr'[f.i].e_type = f.e_type
               /\ freed'[ObjectOf(f.i)'] = IF f.pc = "finish" THEN 1 ELSE 0
               /\ f.e_type # "head"
    <3>1. CASE f = f1
      BY <1>3, <1>4, <1>11, <1>13, <2>2, <3>1
    <3>2. CASE f # f1
      BY <1>13, <1>14a, <2>1, <3>2
    <3>3. QED
      BY <3>1, <3>2
  <2>6. ASSUME NEW u \in Threads, NEW v \in Threads, NEW f \in Calls(u)', NEW g \in Calls(v)', f.i = g.i
        PROVE  u = v /\ f = g
    <3>1. u = t /\ v = t
      BY <1>14a
    <3>2. CASE f = f1
      BY <1>11, <1>14a, <2>1, <2>6, <3>1, <3>2
    <3>3. CASE f # f1
      <4>1. f \in Calls(t) /\ f.pc = "callback" /\ g # f1
        BY <1>11, <1>14a, <2>1, <2>6, <3>3
      <4>2. g \in Calls(t) /\ g.pc = "callback"
        BY <1>14a, <4>1
      <4>3. QED
        BY <2>6, <3>1, <4>1, <4>2 DEF FreeingInv, FreePcs
    <3>4. QED
      BY <3>2, <3>3
  <2>7. ASSUME NEW j \in 1 .. Len(arr), arr'[j].flags = {"ACTIVE", "FREEING"}
        PROVE  \E f \in Calls(t)' : f.pc \in FreePcs /\ f.i = j
    <3>1. CASE j = i
      BY <1>11, <2>4, <3>1
    <3>2. CASE j # i
      <4>1. arr[j].flags = {"ACTIVE", "FREEING"}
        BY <1>13, <2>7, <3>2
      <4>2. PICK u \in Threads : \E f \in Calls(u) : f.pc \in FreePcs /\ f.i = j
        BY <4>1 DEF FreeingInv
      <4>3. QED
        BY <1>7a, <2>3, <2>4, <4>2
    <3>3. QED
      BY <3>1, <3>2
  <2>8. QED
    BY <1>13, <2>5, <2>6, <2>7 DEF FreeingInv
<1>24. AutofreeInv'
  <2>1. \A u \in Threads : \A f \in Calls(u)' : f.pc # "autofree"
    BY <1>11, <1>14a
  <2>2. QED
    BY <2>1 DEF AutofreeInv
<1>25. ProgramInv'
  <2>1. ~moved => ~wild /\ \A u \in Threads : \A f \in Calls(u)' : f.mem = mem
    BY <1>11, <1>14a DEF ProgramInv
  <2>2. QED
    BY <1>8, <1>10, <2>1 DEF ProgramInv
<1>26. QED
  BY <1>14, <1>17, <1>20, <1>21, <1>22, <1>23, <1>24, <1>25

-----------------------------------------------------------------------------
\* The stores of u_handle_free to a record that goes on the free list.
FreeStored(b, a, i, x) ==
  b = [a EXCEPT ![i].count = NextCount(@), ![i].flags = @ \ {"ACTIVE"}, ![i].next = x]

\* What putting a record on the free list writes.
LEMMA FreedShape ==
  ASSUME NEW a \in Seq(CtrlRec), NEW i \in 1 .. Len(a), NEW x \in Nat, NEW b,
         FreeStored(b, a, i, x)
  PROVE  /\ b \in Seq(CtrlRec) /\ Len(b) = Len(a)
         /\ b[i].count = NextCount(a[i].count) /\ b[i].flags = a[i].flags \ {"ACTIVE"} /\ b[i].next = x
         /\ \A j \in 1 .. Len(a) :
              /\ j # i => b[j] = a[j]
              /\ b[j].obj = a[j].obj /\ b[j].e_type = a[j].e_type
              /\ b[j].auxnext = a[j].auxnext /\ b[j].auxprev = a[j].auxprev
              /\ b[j].auxhead = a[j].auxhead /\ b[j].auxcount = a[j].auxcount
<1>1. a[i] \in CtrlRec /\ DOMAIN a = 1 .. Len(a) /\ Len(a) \in Nat
  OBVIOUS
<1>2. a[i].count \in 0 .. (CountMod - 1) /\ a[i].flags \in SUBSET Flags
  BY <1>1 DEF CtrlRec
<1>3. NextCount(a[i].count) \in 0 .. (CountMod - 1)
  BY <1>2, HandleAssumption DEF NextCount
<1> DEFINE n == NextCount(a[i].count)
           F == a[i].flags \ {"ACTIVE"}
           c == [a[i] EXCEPT !.count = n, !.flags = F, !.next = x]
<1>4. b = [a EXCEPT ![i] = c]
  BY <1>1 DEF FreeStored
<1>5. n \in 0 .. (CountMod - 1) /\ F \in SUBSET Flags
  BY <1>2, <1>3
<1> HIDE DEF n, F
<1>6. /\ c \in CtrlRec /\ c.count = n /\ c.flags = F /\ c.next = x
      /\ c.obj = a[i].obj /\ c.e_type = a[i].e_type
      /\ c.auxnext = a[i].auxnext /\ c.auxprev = a[i].auxprev
      /\ c.auxhead = a[i].auxhead /\ c.auxcount = a[i].auxcount
  BY <1>1, <1>5 DEF CtrlRec
<1> HIDE DEF c
<1>7. b \in Seq(CtrlRec) /\ Len(b) = Len(a) /\ b[i] = c /\ \A j \in 1 .. Len(a) : j # i => b[j] = a[j]
  BY <1>4, <1>6, Stored
<1>8. QED
  BY <1>6, <1>7 DEF n, F

\* The callback allowed it: the record is on the free list again.
LEMMA FreeFinishStep ==
  ASSUME HandleInv, NEW t \in Threads, FreeFinish(t)
  PROVE  HandleInv'
<1>1. PICK f0, i, e : f0 = Top(t) /\ i = f0.i /\ e = arr[f0.i].e_type
  OBVIOUS
<1>2. ~Idle(t) /\ f0.pc = "finish"
  BY <1>1 DEF FreeFinish
<1>3. /\ f0 \in Calls(t) /\ f0 \in FreeingFrame /\ t \in setup.threads
      /\ i \in 1 .. Len(arr) /\ Active(i)
      /\ arr[i].flags = {"ACTIVE", "FREEING"}
      /\ \A u \in Threads : \A g \in Calls(u) : g.pc \in FreePcs /\ g.i = i => u = t /\ g = f0
      /\ \A u \in Threads : \A g \in Calls(u) : g.pc # "autofree"
  BY <1>1, <1>2, FreeingCall DEF FreePcs
<1> USE DEF HandleInv
<1>4. UNCHANGED <<setup, mem, ui2_num_peak_used, issued, allocs, freed, moved, wild, aborted>>
      /\ ui2_free_handles' = i /\ ui2_num_free' = ui2_num_free + 1
      /\ ui2_num_used_per_grp' = [ui2_num_used_per_grp EXCEPT ![e] = IF @ > 0 THEN @ - 1 ELSE @]
  BY <1>1 DEF FreeFinish
<1>5. arr \in Seq(CtrlRec) /\ Len(arr) \in Nat /\ ui2_free_handles \in Nat
      /\ \A j \in 1 .. Len(arr) : arr[j] \in CtrlRec
  BY DEF HandleType
<1> DEFINE a == IF arr[i].auxhead # 0 THEN delink_from_aux(arr, i) ELSE arr
<1>6. FreeStored(arr', a, i, ui2_free_handles)
  BY <1>1 DEF FreeFinish, FreeStored, NULL_IDX
<1>7. arr[i].auxhead # 0 => IsDelinked(a, i)
  BY <1>3, <1>5, DelinkShape
<1>8. arr[i].auxhead = 0 => a = arr
  OBVIOUS
<1> HIDE DEF a
<1>9. /\ a \in Seq(CtrlRec) /\ Len(a) = Len(arr)
      /\ \A j \in 1 .. Len(arr) :
           /\ a[j].obj = arr[j].obj /\ a[j].e_type = arr[j].e_type
           /\ a[j].count = arr[j].count /\ a[j].flags = arr[j].flags /\ a[j].next = arr[j].next
           /\ arr[j].auxcount = 0 => a[j].auxcount = 0
  BY <1>5, <1>7, <1>8 DEF IsDelinked
<1>10. /\ arr' \in Seq(CtrlRec) /\ Len(arr') = Len(a)
       /\ arr'[i].count = NextCount(a[i].count) /\ arr'[i].flags = a[i].flags \ {"ACTIVE"}
       /\ arr'[i].next = ui2_free_handles
       /\ \A j \in 1 .. Len(a) :
            /\ j # i => arr'[j] = a[j]
            /\ arr'[j].obj = a[j].obj /\ arr'[j].e_type = a[j].e_type
            /\ arr'[j].auxnext = a[j].auxnext /\ arr'[j].auxprev = a[j].auxprev
            /\ arr'[j].auxhead = a[j].auxhead /\ arr'[j].auxcount = a[j].auxcount
  BY <1>3, <1>5, <1>6, <1>9, FreedShape
<1>11. /\ arr' \in Seq(CtrlRec) /\ Len(arr') = Len(arr)
       /\ arr'[i].count = NextCount(arr[i].count) /\ arr'[i].flags = {"FREEING"}
       /\ arr'[i].next = ui2_free_handles
       /\ \A j \in 1 .. Len(arr) :
            /\ j # i => /\ arr'[j].count = arr[j].count /\ arr'[j].flags = arr[j].flags
                        /\ arr'[j].next = arr[j].next
            /\ arr'[j].obj = arr[j].obj /\ arr'[j].e_type = arr[j].e_type
            /\ arr[j].auxcount = 0 => arr'[j].auxcount = 0
  <2>1. arr[i].flags \ {"ACTIVE"} = {"FREEING"}
    BY <1>3
  <2>2. QED
    BY <1>3, <1>9, <1>10, <2>1
<1>12. /\ ~Active(i)'
       /\ \A j \in 1 .. Len(arr) : j # i => (Active(j)' <=> Active(j))
       /\ \A j \in 1 .. Len(arr) : ObjectOf(j)' = ObjectOf(j)
  BY <1>11 DEF Active, ObjectOf
<1>13. KeepsObjects
  <2>1. \A j \in 1 .. Len(arr) : Active(j)' => Active(j)
    BY <1>12
  <2>2. QED
    BY <1>5, <1>11, <1>12, <2>1 DEF KeepsObjects
<1>14. /\ frames' \in [Threads -> Seq(Frame)] /\ CallsNest'
       /\ \A u \in Threads : Calls(u)' = IF u = t THEN Calls(t) \ {f0} ELSE Calls(u)
  BY <1>1, <1>2, <1>4, Popped DEF FreeFinish
<1>15. e \in Types /\ ui2_num_used_per_grp' \in [Types -> Nat]
  <2>1. e \in Types /\ ui2_num_used_per_grp \in [Types -> Nat]
    BY <1>1, <1>3 DEF ObjectInv, HandleType
  <2>2. (IF ui2_num_used_per_grp[e] > 0 THEN ui2_num_used_per_grp[e] - 1 ELSE ui2_num_used_per_grp[e]) \in Nat
    BY <2>1
  <2>3. QED
    BY <1>4, <2>1, <2>2
<1>16. HandleType'
  BY <1>3, <1>4, <1>11, <1>14, <1>15 DEF HandleType
<1>17. SameCalls({"fill"}) /\ SameCalls({"tag"}) /\ SameCalls({"autofree"})
  BY <1>2, <1>14 DEF SameCalls
<1>18. Allocated' = Allocated
  BY <1>4, <1>16, <1>17, AllocatedKeeps
<1>19. IdentityInv'
  <2>1. ASSUME NEW b \in Allocated PROVE CountFits(b)'
    <3>1. b.h.i \in 1 .. Len(arr) /\ CountFits(b)
      BY DEF IdentityInv
    <3>2. PICK d \in 0 .. Later(b), c \in Nat : CountOf(b, d, c)
      BY <3>1 DEF CountFits
    <3>3. Later(b)' = Later(b)
      BY <1>18 DEF Later, Newer
    <3>4. CASE b.h.i # i
      <4>1. CountOf(b, d, c)'
        BY <1>11, <1>12, <3>1, <3>2, <3>4 DEF CountOf
      <4>2. QED
        BY <3>3, <4>1 DEF CountFits
    <3>5. CASE b.h.i = i
      <4>1. PICK k, M, hc : k = arr[i].count /\ M = CountMod /\ hc = b.h.count
        OBVIOUS
      <4>2. k \in 0 .. (M - 1) /\ M \in Nat \ {0} /\ hc \in Nat /\ d \in Nat
        <5>1. b \in Allocation
          BY DEF Allocated, Tagged, HandleType
        <5>2. b.h.count \in 0 .. (CountMod - 1)
          BY <5>1 DEF Allocation, HandleSet
        <5>3. IsFiniteSet(Newer(b))
          <6>1. Newer(b) \in SUBSET Allocated
            BY DEF Newer
          <6>2. QED
            BY <6>1, FS_Subset DEF IdentityInv
        <5>4. Later(b) \in Nat
          BY <5>3, FS_CardinalityType DEF Later
        <5>5. arr[i].count \in 0 .. (CountMod - 1)
          BY <1>3, <1>5 DEF CtrlRec
        <5>6. QED
          BY <3>2, <4>1, <5>2, <5>4, <5>5, HandleAssumption
      <4>3. k + M * c = hc + 2 * d
        <5>1. k + M * c = (hc + 2 * d) + 0
          BY <1>3, <3>2, <3>5, <4>1 DEF CountOf
        <5>2. QED
          BY <4>2, <5>1
      <4>4. PICK c2 \in Nat : arr'[i].count + M * c2 = (hc + 2 * d) + 1
        <5>1. arr'[i].count = (k + 1) % M
          BY <1>11, <4>1 DEF NextCount
        <5>2. CASE k + 1 < M
          <6>1. (k + 1) % M = k + 1
            BY <4>2, <5>2
          <6>2. (k + 1) + M * c = (hc + 2 * d) + 1
            <7>1. PICK x \in Nat : x = M * c
              BY <3>2, <4>2
            <7>2. QED
              BY <4>2, <4>3, <7>1
          <6>3. QED
            BY <3>2, <5>1, <6>1, <6>2
        <5>3. CASE k + 1 = M
          <6>1. (k + 1) % M = 0
            BY <4>2, <5>3
          <6>2. 0 + M * (c + 1) = (hc + 2 * d) + 1
            <7>1. M * (c + 1) = M * c + M
              BY <3>2, <4>2
            <7>2. PICK x \in Nat : x = M * c
              BY <3>2, <4>2
            <7>3. QED
              BY <4>2, <4>3, <5>3, <7>1, <7>2
          <6>3. c + 1 \in Nat
            BY <3>2
          <6>4. QED
            BY <5>1, <6>1, <6>2, <6>3
        <5>4. QED
          BY <4>2, <5>2, <5>3
      <4>5. CountOf(b, d, c2)'
        BY <1>12, <3>5, <4>1, <4>4 DEF CountOf
      <4>6. QED
        BY <3>2, <3>3, <4>5 DEF CountFits
    <3>6. QED
      BY <3>4, <3>5
  <2>2. \A b \in Allocated : b.h.i \in 1 .. Len(arr)' /\ b.n <= allocs'
    BY <1>4, <1>11 DEF IdentityInv
  <2>3. QED
    BY <1>18, <2>1, <2>2 DEF IdentityInv
<1>20. Wrapped' <=> Wrapped
  BY <1>4, <1>18 DEF Wrapped, Later, Newer
<1>21. ObjectInv'
  <2>1. ASSUME NEW j \in 1 .. Len(arr), arr'[j].flags = {"ACTIVE"} PROVE arr[j].flags = {"ACTIVE"}
    BY <1>11, <2>1
  <2>2. allocs \in Nat /\ allocs' >= allocs
    BY <1>4 DEF HandleType
  <2>3. QED
    BY <1>4, <1>13, <2>1, <2>2, ObjectKeeps
<1>22. FillInv'
  <2>1. allocs' >= allocs
    BY <1>4 DEF HandleType
  <2>2. QED
    BY <1>4, <1>13, <1>16, <1>17, <1>18, <2>1, FillKeeps
<1>23. TagInv'
  <2>1. \A u \in Threads : \A f \in Calls(u)' : f.pc = "tag" => f \in Calls(u)
    BY <1>14
  <2>2. ASSUME NEW u \in Threads, NEW f \in Calls(u)', f.pc = "tag"
        PROVE  /\ f.h.i \in 1 .. Len(arr)'
               /\ \A r \in issued' : r.n # f.obj
               /\ \/ Wrapped'
                  \/ /\ arr'[f.h.i].flags = {"ACTIVE"} /\ arr'[f.h.i].count = f.h.count
                     /\ ObjectOf(f.h.i)' = f.obj
    <3>1. /\ f.h.i \in 1 .. Len(arr)
          /\ \A r \in issued : r.n # f.obj
          /\ \/ Wrapped
             \/ /\ arr[f.h.i].flags = {"ACTIVE"} /\ arr[f.h.i].count = f.h.count
                /\ ObjectOf(f.h.i) = f.obj
      BY <2>1, <2>2 DEF TagInv
    <3>2. {"ACTIVE"} # {"ACTIVE", "FREEING"}
      OBVIOUS
    <3>3. QED
      BY <1>3, <1>4, <1>11, <1>12, <1>20, <3>1, <3>2
  <2>3. ASSUME NEW u \in Threads, NEW v \in Threads, NEW f \in Calls(u)', NEW g \in Calls(v)',
               f.pc = "tag", g.pc = "tag", f.obj = g.obj
        PROVE  u = v
    BY <2>1, <2>3 DEF TagInv
  <2>4. QED
    BY <2>2, <2>3 DEF TagInv
<1>24. FreeingInv'
  <2>1. ASSUME NEW u \in Threads, NEW f \in Calls(u)', f.pc \in FreePcs
        PROVE  f \in Calls(u) /\ f.i # i
    BY <1>3, <1>14, <2>1
  <2>2. ASSUME NEW u \in Threads, NEW f \in Calls(u)', f.pc \in FreePcs
        PROVE  /\ f.i \in 1 .. Len(arr)' /\ f.h.i = f.i
               /\ arr'[f.i].flags = {"ACTIVE", "FREEING"}
               /\ arr'[f.i].count = f.h.count /\ arr'[f.i].e_type = f.e_type
               /\ freed'[ObjectOf(f.i)'] = IF f.pc = "finish" THEN 1 ELSE 0
               /\ f.pc = "finish" /\ f.e_type = "head" => arr'[f.i].auxcount = 0
               /\ f.e_type = "head" => "freehead" \in setup'.ops
    <3>1. /\ f.i \in 1 .. Len(arr) /\ f.h.i = f.i
          /\ arr[f.i].flags = {"ACTIVE", "FREEING"}
          /\ arr[f.i].count = f.h.count /\ arr[f.i].e_type = f.e_type
          /\ freed[ObjectOf(f.i)] = IF f.pc = "finish" THEN 1 ELSE 0
          /\ f.pc = "finish" /\ f.e_type = "head" => arr[f.i].auxcount = 0
          /\ f.e_type = "head" => "freehead" \in setup.ops
      BY <2>1, <2>2 DEF FreeingInv
    <3>2. f.i # i
      BY <2>1, <2>2
    <3>3. QED
      BY <1>4, <1>11, <1>12, <3>1, <3>2
  <2>3. ASSUME NEW u \in Threads, NEW v \in Threads, NEW f \in Calls(u)', NEW g \in Calls(v)',
               f.pc \in FreePcs, g.pc \in FreePcs, f.i = g.i
        PROVE  u = v /\ f = g
    BY <2>1, <2>3 DEF FreeingInv
  <2>4. ASSUME NEW j \in 1 .. Len(arr), arr'[j].flags = {"ACTIVE", "FREEING"}
        PROVE  \E u \in Threads : \E f \in Calls(u)' : f.pc \in FreePcs /\ f.i = j
    <3>1. j # i /\ arr[j].flags = {"ACTIVE", "FREEING"}
      <4>1. {"FREEING"} # {"ACTIVE", "FREEING"}
        OBVIOUS
      <4>2. QED
        BY <1>11, <2>4, <4>1
    <3>2. PICK u \in Threads : \E f \in Calls(u) : f.pc \in FreePcs /\ f.i = j
      BY <3>1 DEF FreeingInv
    <3>3. \E f \in Calls(u)' : f.pc \in FreePcs /\ f.i = j
      BY <1>1, <1>14, <3>1, <3>2
    <3>4. QED
      BY <3>3
  <2>5. QED
    BY <1>4, <1>11, <2>2, <2>3, <2>4 DEF FreeingInv
<1>25. AutofreeInv'
  BY <1>3, <1>16, <1>17, AutofreeKeeps
<1>26. FreeListInv'
  <2>1. PICK s : FreeListIs(s)
    BY DEF FreeListInv
  <2>2. /\ s \in Seq(Recs(Len(arr))) /\ Distinct(s) /\ Len(s) = ui2_num_free
        /\ \A j \in 1 .. Len(arr) : j \in Range(s) <=> ~Active(j) /\ ~Filled(j)
        /\ Chain(s, ui2_free_handles, NextOf)
    BY <2>1 DEF FreeListIs
  <2>3. i \notin Range(s) /\ i \in Recs(Len(arr))
    BY <1>3, <2>2 DEF Recs
  <2> DEFINE r == Cons(i, s)
             next == NextOf
             next2 == NextOf'
  <2>4. r \in Seq(Recs(Len(arr))) /\ Distinct(r) /\ Range(r) = Range(s) \cup {i} /\ Len(r) = Len(s) + 1
    BY <1>5, <2>2, <2>3, Prepended, NthPrepended
  <2>5. DOMAIN arr = 1 .. Len(arr) /\ DOMAIN arr' = 1 .. Len(arr)
    BY <1>5, <1>11
  <2>6. next2[i] = ui2_free_handles /\ \A x \in Range(s) : next2[x] = next[x]
    <3>1. \A x \in Range(s) : x \in 1 .. Len(arr)
      BY <2>2 DEF Range, Recs
    <3>2. QED
      BY <1>3, <1>11, <2>3, <2>5, <3>1 DEF NextOf
  <2>7. Chain(r, i, next2)
    <3>1. Chain(s, ui2_free_handles, next) /\ s \in Seq(Recs(Len(arr)))
      BY <2>2
    <3> HIDE DEF next, next2
    <3>2. QED
      BY <1>5, <2>3, <2>6, <3>1, ChainPrepended
  <2> HIDE DEF r
  <2>8. ASSUME NEW j \in 1 .. Len(arr) PROVE j \in Range(r) <=> ~Active(j)' /\ ~Filled(j)'
    <3>1. Filled(j)' <=> Filled(j)
      BY <1>16, <1>17, FilledKeeps
    <3>2. ~Filled(i)
      BY <1>3 DEF FillInv, Filled
    <3>3. QED
      BY <1>12, <2>2, <2>4, <3>1, <3>2
  <2>9. FreeListIs(r)'
    BY <1>4, <1>11, <2>2, <2>4, <2>7, <2>8 DEF FreeListIs
  <2>10. \A j \in 1 .. Len(arr) : arr'[j].next \in 0 .. Len(arr)
    <3>1. ui2_free_handles \in 0 .. Len(arr)
      BY <1>5, <2>2, NthIs DEF Chain
    <3>2. QED
      BY <1>11, <3>1 DEF FreeListInv
  <2>11. QED
    BY <1>11, <2>9, <2>10 DEF FreeListInv
<1>27. StatisticsInv'
  <2>1. ~\E u \in Threads : \E f \in Calls(u) : f.pc = "fill" /\ f.i = i
    BY <1>3 DEF FillInv
  <2>2. ASSUME NEW c \in Types, NEW j \in 1 .. Len(arr)
        PROVE  (\E u \in Threads : \E f \in Calls(u)' : f.pc = "fill" /\ f.i = j /\ f.e_type = c)
               <=> (\E u \in Threads : \E f \in Calls(u) : f.pc = "fill" /\ f.i = j /\ f.e_type = c)
    BY <1>2, <1>14
  <2>3. ASSUME NEW c \in Types PROVE UsedBy(c)' = UsedBy(c) \ {i}
    <3>1. ASSUME NEW j \in 1 .. Len(arr) PROVE j \in UsedBy(c)' <=> j \in UsedBy(c) /\ j # i
      <4>1. CASE j = i
        BY <1>11, <1>12, <2>1, <2>2, <4>1 DEF UsedBy
      <4>2. CASE j # i
        BY <1>11, <1>12, <2>2, <4>2 DEF UsedBy
      <4>3. QED
        BY <4>1, <4>2
    <3>2. UsedBy(c) \in SUBSET (1 .. Len(arr)) /\ UsedBy(c)' \in SUBSET (1 .. Len(arr))
      BY <1>11 DEF UsedBy
    <3>3. QED
      BY <3>1, <3>2
  <2>4. i \in UsedBy(e) /\ \A c \in Types : c # e => i \notin UsedBy(c)
    BY <1>1, <1>3, <2>1 DEF UsedBy
  <2>5. ASSUME NEW c \in Types PROVE IsFiniteSet(UsedBy(c)) /\ Cardinality(UsedBy(c)) \in Nat
    <3>1. UsedBy(c) \in SUBSET (1 .. Len(arr)) /\ IsFiniteSet(1 .. Len(arr))
      BY <1>5, FS_Interval DEF UsedBy
    <3>2. QED
      BY <3>1, FS_Subset, FS_CardinalityType
  <2>6. Cardinality(UsedBy(e)') = Cardinality(UsedBy(e)) - 1
    BY <1>15, <2>3, <2>4, <2>5, FS_RemoveElement
  <2>7. \A c \in Types : c # e => UsedBy(c)' = UsedBy(c)
    BY <2>3, <2>4
  <2>8. ui2_num_used_per_grp[e] >= 1 /\ ui2_num_used_per_grp[e] = Cardinality(UsedBy(e))
    <3>1. Cardinality(UsedBy(e)) # 0
      BY <1>15, <2>4, <2>5, FS_EmptySet
    <3>2. QED
      BY <1>15, <2>5, <3>1 DEF StatisticsInv
  <2>9. /\ ui2_num_used_per_grp'[e] = ui2_num_used_per_grp[e] - 1
        /\ \A c \in Types : c # e => ui2_num_used_per_grp'[c] = ui2_num_used_per_grp[c]
    BY <1>4, <1>15, <2>8 DEF HandleType
  <2>10. \A c \in Types : ui2_num_used_per_grp'[c] = Cardinality(UsedBy(c)')
    BY <2>6, <2>7, <2>8, <2>9 DEF StatisticsInv
  <2>11. ui2_num_used_per_grp'["head"] + ui2_num_used_per_grp'["user"]
           = (ui2_num_used_per_grp["head"] + ui2_num_used_per_grp["user"]) - 1
    <3>1. ui2_num_used_per_grp["head"] \in Nat /\ ui2_num_used_per_grp["user"] \in Nat
      BY DEF HandleType, Types
    <3>2. e = "head" \/ e = "user"
      BY <1>15 DEF Types
    <3>3. QED
      BY <2>9, <3>1, <3>2 DEF Types
  <2>12. ui2_num_free \in Nat /\ ui2_num_peak_used \in Nat
    BY DEF HandleType
  <2>13. QED
    BY <1>4, <1>5, <1>11, <2>10, <2>11, <2>12 DEF StatisticsInv
<1>28. AuxInv'
  <2>1. CASE arr[i].auxhead # 0
    <3>1. NowDelinked(i)
      BY <1>7, <1>9, <1>10, <2>1 DEF IsDelinked, NowDelinked
    <3>2. QED
      BY <1>3, <1>11, <1>12, <1>16, <2>1, <3>1, AuxDelinks
  <2>2. CASE arr[i].auxhead = 0
    <3>1. arr[i].auxcount = 0
      BY <1>1, <1>2, <1>3 DEF FreeingInv, FreePcs, AuxInv
    <3>2. \A j \in 1 .. Len(arr) :
            /\ arr'[j].auxnext = arr[j].auxnext /\ arr'[j].auxprev = arr[j].auxprev
            /\ arr'[j].auxhead = arr[j].auxhead /\ arr'[j].auxcount = arr[j].auxcount
      BY <1>8, <1>10, <2>2
    <3>3. QED
      BY <1>3, <1>11, <1>12, <1>16, <2>2, <3>1, <3>2, AuxUnlinked
  <2>3. QED
    BY <2>1, <2>2
<1>29. ProgramInv'
  <2>1. ~moved => ~wild /\ \A u \in Threads : \A f \in Calls(u)' : f.mem = mem
    BY <1>14 DEF ProgramInv
  <2>2. aborted => Wrapped
    BY DEF ProgramInv
  <2>3. aborted' => Wrapped'
    BY <1>4, <1>20, <2>2
  <2>4. QED
    BY <1>4, <1>11, <2>1, <2>2, <2>3 DEF ProgramInv
<1>30. QED
  BY <1>14, <1>16, <1>19, <1>21, <1>22, <1>23, <1>24, <1>25, <1>26, <1>27, <1>28, <1>29

-----------------------------------------------------------------------------
\* The array as realloc_handle leaves it.
IsGrown(b, a, first) ==
  /\ b \in Seq(CtrlRec) /\ Len(b) = Len(a) + AddNum
  /\ \A j \in 1 .. Len(a) : b[j] = a[j]
  /\ \A j \in 1 .. (Len(a) + AddNum) : j > Len(a) =>
       /\ b[j].flags = {} /\ b[j].obj = 0
       /\ b[j].auxnext = 0 /\ b[j].auxprev = 0
       /\ b[j].auxhead = 0 /\ b[j].auxcount = 0
       /\ b[j].next = IF j = Len(a) + 1 THEN first ELSE j - 1

\* The array after its growth.
LEMMA GrownShape ==
  ASSUME NEW a \in Seq(CtrlRec), NEW first \in Nat
  PROVE  IsGrown(Grown(a, first), a, first)
<1>1. PICK m \in Nat, n \in Nat : n = Len(a) /\ m = Len(a) + AddNum /\ m >= n
  BY HandleAssumption
<1> DEFINE g == Grown(a, first)
<1>2. g = [j \in 1 .. m |-> IF j <= n THEN a[j] ELSE FreshCtrl(IF j = n + 1 THEN first ELSE j - 1)]
  BY <1>1 DEF Grown
<1>3. \A x \in Nat : FreshCtrl(x) \in CtrlRec
  BY HandleAssumption DEF FreshCtrl, CtrlRec, NULL_IDX
<1> HIDE DEF g
<1>4. \A j \in 1 .. n : g[j] = a[j] /\ a[j] \in CtrlRec
  BY <1>1, <1>2
<1>5. \A j \in 1 .. m : j > n => g[j] = FreshCtrl(IF j = n + 1 THEN first ELSE j - 1) /\ j - 1 \in Nat
  BY <1>1, <1>2
<1>6. \A j \in 1 .. m : j <= n => j \in 1 .. n
  BY <1>1
<1>7. \A j \in 1 .. m : g[j] \in CtrlRec
  BY <1>1, <1>3, <1>4, <1>5, <1>6
<1>8. g \in [1 .. m -> CtrlRec]
  BY <1>2, <1>7
<1>9. g \in Seq(CtrlRec) /\ Len(g) = m
  BY <1>8
<1>10. ASSUME NEW j \in 1 .. m, j > n
       PROVE  /\ g[j].flags = {} /\ g[j].obj = 0 /\ g[j].auxnext = 0 /\ g[j].auxprev = 0
              /\ g[j].auxhead = 0 /\ g[j].auxcount = 0
              /\ g[j].next = IF j = n + 1 THEN first ELSE j - 1
  <2>1. PICK x : x = IF j = n + 1 THEN first ELSE j - 1
    OBVIOUS
  <2>2. g[j] = FreshCtrl(x)
    BY <1>5, <1>10, <2>1
  <2>3. QED
    BY <2>1, <2>2 DEF FreshCtrl, NULL_IDX
<1>11. QED
  BY <1>1, <1>4, <1>9, <1>10 DEF g, IsGrown

\* New records are on no auxiliary list.
LEMMA AuxGrows ==
  ASSUME HandleType, HandleType', AuxInv, KeepsRecords,
         \A i \in 1 .. Len(arr) :
            /\ arr'[i].auxnext = arr[i].auxnext /\ arr'[i].auxprev = arr[i].auxprev
            /\ arr'[i].auxhead = arr[i].auxhead /\ arr'[i].auxcount = arr[i].auxcount,
         \A i \in 1 .. Len(arr') : i > Len(arr) =>
            /\ arr'[i].auxnext = 0 /\ arr'[i].auxprev = 0
            /\ arr'[i].auxhead = 0 /\ arr'[i].auxcount = 0
  PROVE  AuxInv'
<1>1. /\ DOMAIN arr = 1 .. Len(arr) /\ DOMAIN arr' = 1 .. Len(arr')
      /\ Len(arr) \in Nat /\ Len(arr') \in Nat /\ Len(arr') >= Len(arr)
  BY DEF HandleType, KeepsRecords
<1>2. \A j \in 1 .. Len(arr) : j \in 1 .. Len(arr')
  BY <1>1
<1>3. \A j \in 1 .. Len(arr') : j > Len(arr) \/ j \in 1 .. Len(arr)
  BY <1>1
<1>4. \A j \in 1 .. Len(arr) : AuxNextOf'[j] = AuxNextOf[j] /\ AuxPrevOf'[j] = AuxPrevOf[j]
  BY <1>1, <1>2 DEF AuxNextOf, AuxPrevOf
<1>5. ASSUME NEW j \in 1 .. Len(arr), NEW s, AuxListIs(j, s) PROVE AuxListIs(j, s)'
  <2>1. /\ s \in Seq(Recs(Len(arr))) /\ Distinct(s) /\ Len(s) = arr[j].auxcount
        /\ \A k \in 1 .. Len(arr) : k \in Range(s) <=> arr[k].auxhead = j
        /\ Chain(s, arr[j].auxnext, AuxNextOf) /\ BackChain(s, AuxPrevOf)
    BY <1>5 DEF AuxListIs
  <2>2. \A x \in Range(s) : x \in 1 .. Len(arr)
    BY <2>1 DEF Range, Recs
  <2>3. s \in Seq(Recs(Len(arr')))
    <3>1. Recs(Len(arr)) \in SUBSET Recs(Len(arr'))
      BY <1>2 DEF Recs
    <3>2. QED
      BY <2>1, <3>1
  <2>4. Chain(s, arr[j].auxnext, AuxNextOf') /\ BackChain(s, AuxPrevOf')
    <3>1. PICK nx, nx2, pv, pv2 : nx = AuxNextOf /\ nx2 = AuxNextOf' /\ pv = AuxPrevOf /\ pv2 = AuxPrevOf'
      OBVIOUS
    <3>2. \A x \in Range(s) : nx2[x] = nx[x] /\ pv2[x] = pv[x]
      BY <1>4, <2>2, <3>1
    <3>3. Chain(s, arr[j].auxnext, nx) /\ BackChain(s, pv)
      BY <2>1, <3>1
    <3>4. Chain(s, arr[j].auxnext, nx2)
      BY <1>1, <2>1, <3>2, <3>3, ChainKeeps
    <3>5. BackChain(s, pv2)
      BY <1>1, <2>1, <3>2, <3>3, BackKeeps
    <3>6. QED
      BY <3>1, <3>4, <3>5
  <2>5. ASSUME NEW k \in 1 .. Len(arr') PROVE k \in Range(s) <=> arr'[k].auxhead = j
    <3>1. CASE k \in 1 .. Len(arr)
      BY <2>1, <3>1
    <3>2. CASE k > Len(arr)
      <4>1. k \notin Range(s)
        BY <1>1, <2>2, <3>2
      <4>2. arr'[k].auxhead = 0 /\ j # 0
        BY <1>1, <3>2
      <4>3. QED
        BY <4>1, <4>2
    <3>3. QED
      BY <1>3, <3>1, <3>2
  <2>6. QED
    BY <2>1, <2>3, <2>4, <2>5 DEF AuxListIs
<1>6. ASSUME NEW j \in 1 .. Len(arr'), Active(j)', arr'[j].e_type = "head" PROVE \E s : AuxListIs(j, s)'
  <2>1. j \in 1 .. Len(arr) /\ Active(j) /\ arr[j].e_type = "head"
    BY <1>3, <1>6 DEF KeepsRecords
  <2>2. PICK s : AuxListIs(j, s)
    BY <2>1 DEF AuxInv
  <2>3. QED
    BY <1>5, <2>1, <2>2
<1>7. ASSUME NEW j \in 1 .. Len(arr')
      PROVE  /\ arr'[j].auxnext \in 0 .. Len(arr') /\ arr'[j].auxprev \in 0 .. Len(arr')
             /\ arr'[j].auxhead \in 0 .. Len(arr')
             /\ ~(Active(j)' /\ arr'[j].e_type = "head") => arr'[j].auxcount = 0
             /\ arr'[j].auxhead # 0 =>
                  /\ Active(j)' /\ arr'[j].e_type = "user"
                  /\ "ACTIVE" \in arr'[arr'[j].auxhead].flags
                  /\ arr'[arr'[j].auxhead].e_type = "head"
  <2>1. CASE j > Len(arr)
    BY <1>1, <2>1
  <2>2. CASE j \in 1 .. Len(arr)
    <3>1. /\ arr[j].auxnext \in 0 .. Len(arr) /\ arr[j].auxprev \in 0 .. Len(arr)
          /\ arr[j].auxhead \in 0 .. Len(arr)
          /\ ~(Active(j) /\ arr[j].e_type = "head") => arr[j].auxcount = 0
          /\ arr[j].auxhead # 0 =>
               /\ Active(j) /\ arr[j].e_type = "user"
               /\ Active(arr[j].auxhead) /\ arr[arr[j].auxhead].e_type = "head"
      BY <2>2 DEF AuxInv
    <3>2. arr[j].auxhead # 0 => arr[j].auxhead \in 1 .. Len(arr)
      BY <1>1, <3>1
    <3>3. arr[j].auxhead # 0 =>
            "ACTIVE" \in arr'[arr[j].auxhead].flags /\ arr'[arr[j].auxhead].e_type = "head"
      BY <3>1, <3>2 DEF KeepsRecords, Active
    <3>4. (Active(j)' <=> Active(j)) /\ arr'[j].e_type = arr[j].e_type
      BY <2>2 DEF KeepsRecords
    <3>5. QED
      BY <1>1, <2>2, <3>1, <3>3, <3>4
  <2>3. QED
    BY <1>3, <2>1, <2>2
<1>8. QED
  BY <1>6, <1>7 DEF AuxInv, Active

\* What u_handle_alloc leaves of the array: as it was, or with new records.
Taken(i) ==
  \/ /\ ui2_free_handles' = arr[i].next /\ ui2_num_free' = ui2_num_free - 1
     /\ arr' = arr /\ mem' = mem
  \/ /\ arr' = Grown(arr, arr[i].next) /\ mem' \in {mem, mem + 1}
     /\ ui2_free_handles' = Len(arr) + AddNum
     /\ ui2_num_free' = (ui2_num_free - 1) + AddNum

\* The first free record leaves the free list.
LEMMA TakenFirst ==
  ASSUME HandleType, FreeListInv, StatisticsInv, ui2_free_handles # 0
  PROVE  /\ ui2_free_handles \in 1 .. Len(arr) /\ ~Active(ui2_free_handles) /\ ~Filled(ui2_free_handles)
         /\ ui2_num_free \in 1 .. Len(arr) /\ arr[ui2_free_handles].next \in 0 .. Len(arr)
<1>1. PICK s : FreeListIs(s)
  BY DEF FreeListInv
<1>2. PICK N, nx : N \in Nat /\ N = Len(arr) /\ nx = NextOf
  BY DEF HandleType
<1>3. /\ s \in Seq(Recs(N)) /\ Distinct(s) /\ Len(s) = ui2_num_free
      /\ Chain(s, ui2_free_handles, nx)
  BY <1>1, <1>2 DEF FreeListIs
<1>4. ui2_free_handles \in Recs(N) /\ ui2_free_handles \in Range(s) /\ s # <<>>
  BY <1>2, <1>3, ChainTail
<1>5. Len(s) <= N /\ Len(s) \in Nat /\ Len(s) >= 1
  <2>1. Len(s) <= N
    BY <1>2, <1>3, DistinctFits
  <2>2. Len(s) \in Nat /\ Len(s) # 0
    BY <1>3, <1>4
  <2>3. QED
    BY <2>1, <2>2
<1>6. ui2_free_handles \in 1 .. Len(arr)
  BY <1>2, <1>4 DEF Recs
<1>7. QED
  BY <1>1, <1>2, <1>3, <1>4, <1>5, <1>6 DEF FreeListIs, FreeListInv

\* The free list without it, and with the new records.
LEMMA TakenFreeList ==
  ASSUME HandleType, HandleType', FreeListInv, KeepsRecords, NEW i, i = ui2_free_handles, i # 0, Taken(i),
         i \in 1 .. Len(arr),
         \A j \in 1 .. Len(arr') : Filled(j)' <=> Filled(j) \/ j = i,
         \A j \in 1 .. Len(arr') : j > Len(arr) => ~Filled(j)
  PROVE  FreeListInv'
<1>1. PICK s : FreeListIs(s)
  BY DEF FreeListInv
<1>2. PICK N, nx, nx2 : N \in Nat /\ N = Len(arr) /\ nx = NextOf /\ nx2 = NextOf'
  <2>1. Len(arr) \in Nat
    BY DEF HandleType
  <2>2. QED
    BY <2>1
<1>3. /\ s \in Seq(Recs(N)) /\ Distinct(s) /\ Len(s) = ui2_num_free
      /\ Chain(s, i, nx)
  BY <1>1, <1>2 DEF FreeListIs
<1>4. PICK q : q = Tail(s)
  OBVIOUS
<1>5. /\ q \in Seq(Recs(N)) /\ Len(q) = ui2_num_free - 1 /\ Distinct(q) /\ Range(q) = Range(s) \ {i}
      /\ Chain(q, nx[i], nx)
  BY <1>2, <1>3, <1>4, ChainTail
<1>6. DOMAIN arr = 1 .. Len(arr) /\ DOMAIN arr' = 1 .. Len(arr') /\ arr \in Seq(CtrlRec)
      /\ arr[i].next \in 0 .. Len(arr) /\ nx[i] = arr[i].next
  <2>1. arr \in Seq(CtrlRec) /\ arr' \in Seq(CtrlRec)
    BY DEF HandleType
  <2>2. DOMAIN arr = 1 .. Len(arr) /\ DOMAIN arr' = 1 .. Len(arr')
    BY <2>1
  <2>3. arr[i].next \in 0 .. Len(arr)
    BY DEF FreeListInv
  <2>4. nx[i] = arr[i].next
    BY <1>2, <2>2 DEF NextOf
  <2>5. QED
    BY <2>1, <2>2, <2>3, <2>4
<1>7. \A j \in 1 .. N : j \in Range(q) <=> ~Active(j) /\ ~Filled(j) /\ j # i
  BY <1>1, <1>2, <1>5 DEF FreeListIs
<1>8. CASE arr' = arr /\ ui2_free_handles' = arr[i].next /\ ui2_num_free' = ui2_num_free - 1
  <2>1. nx2 = nx
    BY <1>2, <1>8 DEF NextOf
  <2>2. \A j \in 1 .. Len(arr') : j \in Range(q) <=> ~Active(j)' /\ ~Filled(j)'
    BY <1>2, <1>7, <1>8 DEF Active
  <2>3. FreeListIs(q)'
    BY <1>2, <1>5, <1>6, <1>8, <2>1, <2>2 DEF FreeListIs
  <2>4. QED
    BY <1>8, <2>3 DEF FreeListInv
<1>9. CASE /\ arr' = Grown(arr, arr[i].next) /\ ui2_free_handles' = Len(arr) + AddNum
           /\ ui2_num_free' = (ui2_num_free - 1) + AddNum
  <2>1. PICK A, first : A = AddNum /\ first = arr[i].next
    OBVIOUS
  <2> A \in Nat \ {0} /\ first \in Nat /\ N \in Nat
    BY <1>2, <1>6, <2>1, HandleAssumption
  <2>2. /\ Len(arr') = N + A
        /\ \A j \in 1 .. N : arr'[j] = arr[j]
        /\ \A j \in 1 .. (N + A) : j > N => arr'[j].next = IF j = N + 1 THEN first ELSE j - 1
    <3>1. arr' = Grown(arr, first)
      BY <1>9, <2>1
    <3>2. IsGrown(Grown(arr, first), arr, first)
      BY <1>6, GrownShape
    <3>3. IsGrown(arr', arr, first)
      BY <3>1, <3>2
    <3>4. QED
      BY <1>2, <2>1, <3>3 DEF IsGrown
  <2>3. \A x \in Recs(N) : nx2[x] = nx[x]
    BY <1>2, <1>6, <2>2 DEF NextOf, Recs
  <2>4. nx2[N + 1] = first
    <3>1. N + 1 \in 1 .. (N + A) /\ N + 1 > N
      OBVIOUS
    <3>2. QED
      BY <1>2, <1>6, <2>2, <3>1 DEF NextOf
  <2>5. ASSUME NEW x \in (N + 2) .. (N + A) PROVE nx2[x] = x - 1
    <3>1. x \in 1 .. (N + A) /\ x > N /\ x # N + 1
      OBVIOUS
    <3>2. QED
      BY <1>2, <1>6, <2>2, <3>1 DEF NextOf
  <2>6. Chain(q, first, nx)
    BY <1>5, <1>6, <2>1
  <2>7. PICK r : LongerChain(N, A, q, r, nx2)
    <3>1. NewLinks(N, A, first, nx, nx2)
      BY <2>3, <2>4, <2>5 DEF NewLinks
    <3>2. QED
      BY <1>5, <2>6, <3>1, ChainGrown
  <2>8. /\ r \in Seq(Recs(N + A)) /\ Distinct(r) /\ Len(r) = Len(q) + A
        /\ \A x \in Recs(N + A) : x \in Range(r) <=> x > N \/ x \in Range(q)
        /\ Chain(r, N + A, nx2)
    BY <2>7 DEF LongerChain
  <2>9. ASSUME NEW j \in 1 .. (N + A) PROVE j \in Range(r) <=> ~Active(j)' /\ ~Filled(j)'
    <3>1. j \in Range(r) <=> j > N \/ j \in Range(q)
      BY <2>8 DEF Recs
    <3>2. Filled(j)' <=> Filled(j) \/ j = i
      BY <2>2
    <3>3. CASE j > N
      <4>1. ~Active(j)' /\ ~Filled(j) /\ j # i
        BY <1>2, <2>2, <3>3 DEF KeepsRecords
      <4>2. QED
        BY <3>1, <3>2, <3>3, <4>1
    <3>4. CASE j \in 1 .. N
      <4>1. Active(j)' <=> Active(j)
        BY <1>2, <3>4 DEF KeepsRecords
      <4>2. ~(j > N)
        BY <3>4
      <4>3. QED
        BY <1>7, <3>1, <3>2, <3>4, <4>1, <4>2
    <3>5. QED
      BY <3>3, <3>4
  <2>10. FreeListIs(r)'
    <3>1. Len(r) = ui2_num_free'
      BY <1>5, <1>9, <2>1, <2>8
    <3>2. QED
      BY <1>2, <1>9, <2>1, <2>2, <2>8, <2>9, <3>1 DEF FreeListIs
  <2>11. ASSUME NEW j \in 1 .. Len(arr') PROVE arr'[j].next \in 0 .. Len(arr')
    <3>1. CASE j \in 1 .. N
      <4>1. arr[j].next \in 0 .. N
        BY <1>2, <3>1 DEF FreeListInv
      <4>2. QED
        BY <2>2, <3>1, <4>1
    <3>2. CASE j > N
      BY <1>2, <1>6, <2>1, <2>2, <3>2
    <3>3. QED
      BY <2>2, <3>1, <3>2
  <2>12. QED
    BY <2>10, <2>11 DEF FreeListInv
<1>10. QED
  BY <1>8, <1>9 DEF Taken

\* u_handle_alloc takes the first free record; the array may grow.
LEMMA AllocTakeStep ==
  ASSUME HandleInv, NEW t \in Threads, NEW e \in Types, AllocTake(t, e)
  PROVE  HandleInv'
<1>1. PICK i : i = ui2_free_handles
  OBVIOUS
<1> USE DEF HandleInv
<1>2. /\ CanCall(t) /\ allocs < MaxAllocs /\ Len(arr) - ui2_num_free < setup.live
      /\ i # 0 /\ allocs' = allocs + 1
      /\ UNCHANGED <<setup, issued, freed, wild, aborted>>
      /\ ui2_num_used_per_grp' = [ui2_num_used_per_grp EXCEPT ![e] = @ + 1]
      /\ moved' = (moved \/ (mem' # mem /\ \E u \in Threads : ~Idle(u)))
  BY <1>1 DEF AllocTake, NULL_IDX, ui2_num_total
<1>3. /\ arr \in Seq(CtrlRec) /\ Len(arr) \in Nat /\ mem \in Nat /\ ui2_free_handles \in Nat
      /\ ui2_num_free \in Nat /\ ui2_num_peak_used \in Nat /\ allocs \in Nat /\ MaxAllocs \in Nat
      /\ \A j \in 1 .. Len(arr) : arr[j] \in CtrlRec
  BY HandleAssumption DEF HandleType
<1>4. /\ i \in 1 .. Len(arr) /\ ~Active(i) /\ ~Filled(i)
      /\ ui2_num_free \in 1 .. Len(arr) /\ arr[i].next \in 0 .. Len(arr)
  BY <1>1, <1>2, TakenFirst
<1>5. PICK f1 : f1 = [pc |-> "fill", i |-> i, mem |-> mem', e_type |-> e, obj |-> allocs + 1]
  OBVIOUS
<1>6. Push(t, f1)
  BY <1>1, <1>5 DEF AllocTake, AddressTaken
<1>7. /\ t \in setup.threads /\ (~Idle(t) => Top(t).pc = "callback")
      /\ frames[t] = <<>> \/ (frames[t] # <<>> /\ Top(t).pc = "callback" /\ Top(t).e_type = "user")
  BY <1>2 DEF CanCall, InCallback, Idle
<1>8. Taken(i)
  <2>1. CASE ui2_num_free - 1 <= LowWater
    <3>1. realloc_handle(arr[i].next)
      BY <1>1, <2>1 DEF AllocTake
    <3>2. QED
      BY <3>1 DEF realloc_handle, Taken
  <2>2. CASE ~(ui2_num_free - 1 <= LowWater)
    BY <1>1, <2>2 DEF AllocTake, Taken
  <2>3. QED
    BY <2>1, <2>2
<1>9. /\ arr' = arr \/ IsGrown(arr', arr, arr[i].next)
      /\ mem' \in Nat
  BY <1>3, <1>4, <1>8, GrownShape DEF Taken
<1>10. /\ arr' \in Seq(CtrlRec) /\ Len(arr') \in Nat /\ Len(arr') >= Len(arr)
       /\ \A j \in 1 .. Len(arr) : arr'[j] = arr[j]
       /\ \A j \in 1 .. Len(arr') : j > Len(arr) =>
            /\ arr'[j].flags = {} /\ arr'[j].obj = 0
            /\ arr'[j].auxnext = 0 /\ arr'[j].auxprev = 0
            /\ arr'[j].auxhead = 0 /\ arr'[j].auxcount = 0
  <2>1. CASE arr' = arr
    BY <1>3, <2>1
  <2>2. CASE IsGrown(arr', arr, arr[i].next)
    BY <1>3, <2>2, HandleAssumption DEF IsGrown
  <2>3. QED
    BY <1>9, <2>1, <2>2
<1>11. KeepsRecords
  <2>1. \A j \in 1 .. Len(arr) : (Active(j)' <=> Active(j)) /\ ObjectOf(j)' = ObjectOf(j)
    BY <1>10 DEF Active, ObjectOf
  <2>2. \A j \in 1 .. Len(arr') : j > Len(arr) => ~Active(j)' /\ ObjectOf(j)' = 0
    BY <1>10 DEF Active, ObjectOf
  <2>3. QED
    BY <1>3, <1>10, <2>1, <2>2 DEF KeepsRecords
<1>12. f1 \in Frame /\ f1.pc = "fill" /\ f1.i = i /\ f1.e_type = e /\ f1.obj = allocs + 1 /\ f1.mem = mem'
  <2>1. allocs + 1 \in 1 .. MaxAllocs
    BY <1>2, <1>3
  <2>2. f1 \in FillFrame
    BY <1>3, <1>4, <1>5, <1>9, <2>1 DEF FillFrame
  <2>3. QED
    BY <1>5, <2>2 DEF Frame
<1>13. \A f \in Calls(t) : f.pc = "callback"
  <2>1. CASE frames[t] = <<>>
    BY <2>1 DEF Calls, Range
  <2>2. CASE frames[t] # <<>>
    BY <1>7, <2>2, TopIsCall DEF Idle
  <2>3. QED
    BY <2>1, <2>2
<1>14. /\ frames' \in [Threads -> Seq(Frame)] /\ CallsNest'
       /\ \A u \in Threads : Calls(u)' = IF u = t THEN Calls(t) \cup {f1} ELSE Calls(u)
  <2>1. f1 \notin Calls(t) /\ f1.pc # "autofree"
    BY <1>12, <1>13
  <2>2. QED
    BY <1>2, <1>6, <1>7, <1>12, <2>1, Pushed
<1>15. ~moved' => ~moved /\ (mem' = mem \/ \A u \in Threads : Calls(u) = {})
  <2>1. \A u \in Threads : Idle(u) => Calls(u) = {}
    BY DEF Idle, Calls, Range
  <2>2. QED
    BY <1>2, <2>1
<1>16. moved' \in BOOLEAN /\ wild' \in BOOLEAN
  BY <1>2 DEF HandleType
<1>17. HandleType'
  <2>1. ui2_num_used_per_grp' \in [Types -> Nat]
    <3>1. ui2_num_used_per_grp \in [Types -> Nat]
      BY DEF HandleType
    <3>2. ui2_num_used_per_grp[e] + 1 \in Nat
      BY <3>1
    <3>3. QED
      BY <1>2, <3>1, <3>2
  <2>2. allocs' \in 0 .. MaxAllocs
    BY <1>2, <1>3
  <2>3. ui2_free_handles' \in Nat /\ ui2_num_free' \in Nat
    BY <1>3, <1>4, <1>8, HandleAssumption DEF Taken
  <2>4. ui2_num_peak_used' \in Nat
    <3>1. PICK x : x = Len(arr') - ui2_num_free'
      OBVIOUS
    <3>2. ui2_num_peak_used' = IF x > ui2_num_peak_used THEN x ELSE ui2_num_peak_used
      BY <3>1 DEF AllocTake
    <3>3. x \in Int
      BY <1>10, <2>3, <3>1
    <3>4. QED
      BY <1>3, <3>2, <3>3
  <2>5. setup' \in Setups /\ issued' \in SUBSET Allocation /\ freed' \in [1 .. MaxAllocs -> Nat]
        /\ aborted' \in BOOLEAN
    BY <1>2 DEF HandleType
  <2>6. QED
    BY <1>9, <1>10, <1>14, <1>16, <2>1, <2>2, <2>3, <2>4, <2>5 DEF HandleType
<1>18. SameCalls({"tag"}) /\ SameCalls({"autofree"}) /\ SameCalls(FreePcs)
  BY <1>12, <1>14 DEF SameCalls, FreePcs
<1>19. Allocated' = Allocated
  BY <1>2, <1>17, <1>18, AllocatedKeeps
<1>20. \A a \in Allocated : a \in Allocation /\ a.n \in Nat
  BY DEF Allocated, Tagged, HandleType, Allocation
<1>21. IdentityInv'
  <2>1. allocs' \in Nat /\ allocs' >= allocs
    BY <1>2, <1>3
  <2>2. QED
    BY <1>3, <1>11, <1>19, <1>20, <2>1, IdentityKeeps
<1>22. Wrapped' <=> Wrapped
  BY <1>2, <1>19 DEF Wrapped, Later, Newer
<1>23. ObjectInv'
  <2>1. allocs' \in Nat /\ allocs' >= allocs
    BY <1>2, <1>3
  <2>2. KeepsObjects
    BY <1>11, ObjectsAreKept
  <2>3. QED
    BY <1>2, <1>3, <1>10, <2>1, <2>2, ObjectKeeps
<1>24. TagInv'
  <2>1. \A u \in Threads : \A f \in Calls(u) : f.pc = "tag" => arr'[f.h.i].flags = arr[f.h.i].flags
    BY <1>10 DEF TagInv
  <2>2. QED
    BY <1>2, <1>11, <1>17, <1>18, <1>22, <2>1, TagKeeps
<1>25. FreeingInv'
  <2>1. \A j \in 1 .. Len(arr) : RecordStays(j)
    BY <1>10, <1>11 DEF RecordStays, KeepsRecords
  <2>2. \A u \in Threads : \A f \in Calls(u) : f.pc \in FreePcs => f.i \in 1 .. Len(arr)
    BY DEF FreeingInv
  <2>3. ASSUME NEW j \in 1 .. Len(arr'), arr'[j].flags = {"ACTIVE", "FREEING"}
        PROVE  j <= Len(arr) /\ arr[j].flags = {"ACTIVE", "FREEING"}
    <3>1. {} # {"ACTIVE", "FREEING"}
      OBVIOUS
    <3>2. ~(j > Len(arr))
      BY <1>10, <2>3, <3>1
    <3>3. j \in 1 .. Len(arr)
      BY <1>3, <1>10, <3>2
    <3>4. QED
      BY <1>10, <2>3, <3>3
  <2>4. \A u \in Threads : \A f \in Calls(u) :
          f.pc = "finish" /\ f.e_type = "head" => arr'[f.i].auxcount = 0
    BY <1>10 DEF FreeingInv, FreePcs
  <2>5. \A u \in Threads : \A f \in Calls(u) : f.pc \in FreePcs => RecordStays(f.i)
    BY <2>1, <2>2
  <2>6. QED
    BY <1>2, <1>3, <1>10, <1>17, <1>18, <2>3, <2>4, <2>5, FreeingKeeps
<1>26. AutofreeInv'
  <2>1. \A u \in Threads : \A f \in Calls(u) : f.pc # "autofree"
    BY <1>7, NoAutofree
  <2>2. QED
    BY <1>17, <1>18, <2>1, AutofreeKeeps
<1>27. \A u \in Threads : \A f \in Calls(u)' : f.pc = "fill" => f \in Calls(u) \/ (u = t /\ f = f1)
  BY <1>14
<1>28. FillInv'
  <2>1. \A j \in 1 .. Len(arr) : j \in 1 .. Len(arr')
    BY <1>3, <1>10
  <2>2. \A j \in 1 .. Len(arr') : Active(j)' => j \in 1 .. Len(arr) /\ Active(j) /\ ObjectOf(j)' = ObjectOf(j)
    <3>1. \A j \in 1 .. Len(arr') : j > Len(arr) \/ j \in 1 .. Len(arr)
      BY <1>3, <1>10
    <3>2. QED
      BY <1>11, <3>1 DEF KeepsRecords
  <2>3. ASSUME NEW u \in Threads, NEW f \in Calls(u)', f.pc = "fill"
        PROVE  /\ f.i \in 1 .. Len(arr') /\ ~Active(f.i)'
               /\ f.obj <= allocs' /\ freed'[f.obj] = 0
               /\ \A a \in Allocated' : a.n # f.obj /\ (a.h.i = f.i => a.n < f.obj)
               /\ \A j \in 1 .. Len(arr') : Active(j)' => ObjectOf(j)' # f.obj
    <3>1. CASE f \in Calls(u)
      <4>1. /\ f.i \in 1 .. Len(arr) /\ ~Active(f.i)
            /\ f.obj <= allocs /\ freed[f.obj] = 0
            /\ \A a \in Allocated : a.n # f.obj /\ (a.h.i = f.i => a.n < f.obj)
            /\ \A j \in 1 .. Len(arr) : Active(j) => ObjectOf(j) # f.obj
        BY <2>3, <3>1 DEF FillInv
      <4>2. f.obj \in Nat
        <5>1. f \in Frame
          BY <3>1, CallsAreFrames
        <5>2. QED
          BY <2>3, <5>1 DEF Frame, FillFrame, TagFrame, FreeingFrame, FreePcs, AutoFrame
      <4>3. f.obj <= allocs'
        BY <1>2, <1>3, <4>1, <4>2
      <4>4. ~Active(f.i)'
        BY <2>1, <2>2, <4>1
      <4>5. QED
        BY <1>2, <1>19, <2>1, <2>2, <4>1, <4>3, <4>4
    <3>2. CASE f = f1
      <4>1. f.i \in 1 .. Len(arr') /\ ~Active(f.i)'
        BY <1>4, <1>12, <2>1, <2>2, <3>2
      <4>2. f.obj = allocs' /\ f.obj \in 1 .. MaxAllocs /\ f.obj > allocs
        BY <1>2, <1>3, <1>12, <3>2
      <4>3. freed'[f.obj] = 0
        BY <1>2, <4>2 DEF ObjectInv
      <4>4. ASSUME NEW a \in Allocated PROVE a.n < f.obj /\ a.n # f.obj
        <5>1. a.n <= allocs /\ a.n \in Nat
          BY <1>20 DEF IdentityInv
        <5>2. QED
          BY <1>3, <4>2, <5>1
      <4>5. ASSUME NEW j \in 1 .. Len(arr'), Active(j)' PROVE ObjectOf(j)' # f.obj
        <5>1. ObjectOf(j)' = ObjectOf(j) /\ ObjectOf(j) <= allocs /\ ObjectOf(j) \in Nat
          BY <2>2, <4>5, ObjectIs DEF ObjectInv
        <5>2. QED
          BY <1>3, <4>2, <5>1
      <4>6. f.obj <= allocs'
        BY <1>2, <1>3, <4>2
      <4>7. QED
        BY <1>19, <4>1, <4>3, <4>4, <4>5, <4>6
    <3>3. QED
      BY <1>27, <2>3, <3>1, <3>2
  <2>4. ASSUME NEW u \in Threads, NEW g \in Calls(u), g.pc = "fill"
        PROVE  g.i # f1.i /\ g.obj # f1.obj
    <3>1. g.i # i
      BY <1>4, <2>4 DEF Filled
    <3>2. g.obj <= allocs
      BY <2>4 DEF FillInv
    <3>3. g.obj \in Nat
      <4>1. g \in Frame
        BY CallsAreFrames
      <4>2. QED
        BY <2>4, <4>1 DEF Frame, FillFrame, TagFrame, FreeingFrame, FreePcs, AutoFrame
    <3>4. QED
      BY <1>3, <1>12, <3>1, <3>2, <3>3
  <2>5. ASSUME NEW u \in Threads, NEW v \in Threads, NEW f \in Calls(u)', NEW g \in Calls(v)',
               f.pc = "fill", g.pc = "fill", f.i = g.i \/ f.obj = g.obj
        PROVE  u = v
    <3>1. CASE f \in Calls(u) /\ g \in Calls(v)
      BY <2>5, <3>1 DEF FillInv
    <3>2. CASE f \in Calls(u) /\ (v = t /\ g = f1)
      BY <2>4, <2>5, <3>2
    <3>3. CASE (u = t /\ f = f1) /\ g \in Calls(v)
      BY <2>4, <2>5, <3>3
    <3>4. CASE (u = t /\ f = f1) /\ (v = t /\ g = f1)
      BY <3>4
    <3>5. QED
      BY <1>27, <2>5, <3>1, <3>2, <3>3, <3>4
  <2>6. QED
    BY <2>3, <2>5 DEF FillInv
<1>29. ASSUME NEW j PROVE Filled(j)' <=> Filled(j) \/ j = i
  BY <1>12, <1>14 DEF Filled
<1>30. FreeListInv'
  <2>1. \A j \in 1 .. Len(arr') : j > Len(arr) => ~Filled(j)
    <3>1. \A j : Filled(j) => j \in 1 .. Len(arr)
      BY DEF Filled, FillInv
    <3>2. QED
      BY <1>3, <1>10, <3>1
  <2>2. QED
    BY <1>1, <1>2, <1>4, <1>8, <1>11, <1>17, <1>29, <2>1, TakenFreeList
<1>31. StatisticsInv'
  <2>1. ASSUME NEW c \in Types, NEW j
        PROVE  (\E u \in Threads : \E f \in Calls(u)' : f.pc = "fill" /\ f.i = j /\ f.e_type = c)
               <=> \/ \E u \in Threads : \E f \in Calls(u) : f.pc = "fill" /\ f.i = j /\ f.e_type = c
                   \/ j = i /\ c = e
    BY <1>12, <1>14
  <2>2. ASSUME NEW c \in Types PROVE UsedBy(c)' = UsedBy(c) \cup (IF c = e THEN {i} ELSE {})
    <3>1. ASSUME NEW j \in 1 .. Len(arr) PROVE j \in UsedBy(c)' <=> j \in UsedBy(c) \/ (j = i /\ c = e)
      <4>1. j \in 1 .. Len(arr') /\ arr'[j].e_type = arr[j].e_type /\ (Active(j)' <=> Active(j))
        BY <1>3, <1>10, <1>11 DEF KeepsRecords
      <4>2. j \in UsedBy(c)' <=>
              \/ Active(j)' /\ arr'[j].e_type = c
              \/ \E u \in Threads : \E f \in Calls(u)' : f.pc = "fill" /\ f.i = j /\ f.e_type = c
        BY <4>1 DEF UsedBy
      <4>3. j \in UsedBy(c) <=>
              \/ Active(j) /\ arr[j].e_type = c
              \/ \E u \in Threads : \E f \in Calls(u) : f.pc = "fill" /\ f.i = j /\ f.e_type = c
        BY DEF UsedBy
      <4>4. (\E u \in Threads : \E f \in Calls(u)' : f.pc = "fill" /\ f.i = j /\ f.e_type = c)
            <=> \/ \E u \in Threads : \E f \in Calls(u) : f.pc = "fill" /\ f.i = j /\ f.e_type = c
                \/ j = i /\ c = e
        BY <2>1
      <4>5. (Active(j)' /\ arr'[j].e_type = c) <=> (Active(j) /\ arr[j].e_type = c)
        BY <4>1
      <4>6. QED
        BY <4>2, <4>3, <4>4, <4>5
    <3>2. ASSUME NEW j \in 1 .. Len(arr'), j > Len(arr) PROVE j \notin UsedBy(c)'
      <4>1. ~Active(j)' /\ j # i
        BY <1>3, <1>4, <1>11, <3>2 DEF KeepsRecords
      <4>2. ~\E u \in Threads : \E f \in Calls(u) : f.pc = "fill" /\ f.i = j /\ f.e_type = c
        BY <1>3, <3>2 DEF FillInv
      <4>3. QED
        BY <2>1, <4>1, <4>2 DEF UsedBy
    <3>3. UsedBy(c) \in SUBSET (1 .. Len(arr)) /\ UsedBy(c)' \in SUBSET (1 .. Len(arr'))
      BY DEF UsedBy
    <3>4. \A j \in 1 .. Len(arr') : j > Len(arr) \/ j \in 1 .. Len(arr)
      BY <1>3, <1>10
    <3>5. UsedBy(c)' \in SUBSET (1 .. Len(arr))
      BY <3>2, <3>3, <3>4
    <3>6. QED
      BY <1>4, <3>1, <3>3, <3>5
  <2>3. ASSUME NEW c \in Types PROVE IsFiniteSet(UsedBy(c)) /\ Cardinality(UsedBy(c)) \in Nat
    <3>1. UsedBy(c) \in SUBSET (1 .. Len(arr)) /\ IsFiniteSet(1 .. Len(arr))
      BY <1>3, FS_Interval DEF UsedBy
    <3>2. QED
      BY <3>1, FS_Subset, FS_CardinalityType
  <2>4. i \notin UsedBy(e)
    BY <1>4 DEF UsedBy, Filled
  <2>5. Cardinality(UsedBy(e)') = Cardinality(UsedBy(e)) + 1
    <3>1. UsedBy(e)' = UsedBy(e) \cup {i}
      BY <2>2
    <3>2. QED
      BY <2>3, <2>4, <3>1, FS_AddElement
  <2>6. \A c \in Types : c # e => UsedBy(c)' = UsedBy(c)
    BY <2>2
  <2>7. /\ ui2_num_used_per_grp'[e] = ui2_num_used_per_grp[e] + 1
        /\ \A c \in Types : c # e => ui2_num_used_per_grp'[c] = ui2_num_used_per_grp[c]
    BY <1>2 DEF HandleType
  <2>8. \A c \in Types : ui2_num_used_per_grp'[c] = Cardinality(UsedBy(c)')
    BY <2>5, <2>6, <2>7 DEF StatisticsInv
  <2>9. ui2_num_used_per_grp'["head"] + ui2_num_used_per_grp'["user"]
          = (ui2_num_used_per_grp["head"] + ui2_num_used_per_grp["user"]) + 1
    <3>1. ui2_num_used_per_grp["head"] \in Nat /\ ui2_num_used_per_grp["user"] \in Nat
      BY DEF HandleType, Types
    <3>2. e = "head" \/ e = "user"
      BY DEF Types
    <3>3. QED
      BY <2>7, <3>1, <3>2 DEF Types
  <2>10. PICK x : x = Len(arr') - ui2_num_free'
    OBVIOUS
  <2>11. x = (Len(arr) - ui2_num_free) + 1 /\ x \in Int
    <3>1. CASE arr' = arr /\ ui2_num_free' = ui2_num_free - 1
      BY <1>3, <2>10, <3>1
    <3>2. CASE arr' = Grown(arr, arr[i].next) /\ ui2_num_free' = (ui2_num_free - 1) + AddNum
      <4>1. Len(arr') = Len(arr) + AddNum
        <5>1. IsGrown(Grown(arr, arr[i].next), arr, arr[i].next)
          BY <1>3, <1>4, GrownShape
        <5>2. QED
          BY <3>2, <5>1 DEF IsGrown
      <4>2. QED
        BY <1>3, <2>10, <3>2, <4>1, HandleAssumption
    <3>3. QED
      BY <1>8, <3>1, <3>2 DEF Taken
  <2>12. ui2_num_peak_used' = IF x > ui2_num_peak_used THEN x ELSE ui2_num_peak_used
    BY <2>10 DEF AllocTake
  <2>13. ui2_num_free' \in Nat /\ ui2_num_peak_used <= Len(arr)
    BY <1>17 DEF HandleType, StatisticsInv
  <2>14. ui2_num_peak_used' >= x /\ ui2_num_peak_used' <= Len(arr')
    BY <1>3, <1>10, <2>10, <2>11, <2>12, <2>13
  <2>15. ui2_num_used_per_grp'["head"] + ui2_num_used_per_grp'["user"] = x
    BY <1>3, <2>9, <2>11 DEF StatisticsInv
  <2>16. QED
    BY <2>8, <2>10, <2>14, <2>15 DEF StatisticsInv
<1>32. AuxInv'
  BY <1>10, <1>11, <1>17, AuxGrows
<1>33. ProgramInv'
  <2>1. ASSUME ~moved', NEW u \in Threads, NEW f \in Calls(u)' PROVE f.mem = mem'
    <3>1. CASE f = f1
      BY <1>12, <3>1
    <3>2. CASE f \in Calls(u)
      BY <1>15, <2>1, <3>2 DEF ProgramInv
    <3>3. QED
      BY <1>14, <3>1, <3>2
  <2>2. ~moved' => ~wild'
    BY <1>2, <1>15 DEF ProgramInv
  <2>3. aborted' => Wrapped'
    BY <1>2, <1>22 DEF ProgramInv
  <2>4. QED
    BY <2>1, <2>2, <2>3 DEF ProgramInv
<1>34. QED
  BY <1>14, <1>17, <1>21, <1>23, <1>24, <1>25, <1>26, <1>28, <1>30, <1>31, <1>32, <1>33

-----------------------------------------------------------------------------
\* ui1_count++ goes up by one, but for the rounds.
LEMMA CountGoesUp ==
  ASSUME NEW M \in Nat \ {0}, NEW k \in 0 .. (M - 1), NEW c \in Nat, NEW x \in Int, k + M * c = x
  PROVE  \E c2 \in Nat : ((k + 1) % M) + M * c2 = x + 1
<1>1. PICK y \in Nat : y = M * c
  OBVIOUS
<1>2. CASE k + 1 < M
  <2>1. (k + 1) % M = k + 1
    BY <1>2
  <2>2. (k + 1) + M * c = x + 1
    BY <1>1
  <2>3. QED
    BY <2>1, <2>2
<1>3. CASE k + 1 = M
  <2>1. (k + 1) % M = 0
    BY <1>3
  <2>2. M * (c + 1) = M * c + M
    OBVIOUS
  <2>3. 0 + M * (c + 1) = x + 1
    BY <1>1, <1>3, <2>2
  <2>4. c + 1 \in Nat
    OBVIOUS
  <2>5. QED
    BY <2>1, <2>3, <2>4
<1>4. QED
  BY <1>2, <1>3

\* A record that nobody linked to comes into use, with an empty list.
LEMMA AuxAppears ==
  ASSUME HandleType, HandleType', AuxInv, NEW i \in 1 .. Len(arr), Len(arr') = Len(arr),
         ~Active(i), Active(i)',
         arr'[i].auxnext = 0, arr'[i].auxprev = 0, arr'[i].auxhead = 0, arr'[i].auxcount = 0,
         \A j \in 1 .. Len(arr) : j # i => arr'[j] = arr[j]
  PROVE  AuxInv'
<1>1. DOMAIN arr = 1 .. Len(arr) /\ DOMAIN arr' = 1 .. Len(arr) /\ Len(arr) \in Nat
  BY DEF HandleType
<1>2. \A j \in 1 .. Len(arr) : j # i => AuxNextOf'[j] = AuxNextOf[j] /\ AuxPrevOf'[j] = AuxPrevOf[j]
  BY <1>1 DEF AuxNextOf, AuxPrevOf
<1>3. \A j \in 1 .. Len(arr) : arr[j].auxhead # i /\ arr'[j].auxhead = arr[j].auxhead
  <2>1. \A j \in 1 .. Len(arr) : arr[j].auxhead # i
    BY <1>1 DEF AuxInv
  <2>2. arr[i].auxhead = 0
    BY DEF AuxInv
  <2>3. QED
    BY <2>1, <2>2
<1>4. \A j \in 1 .. Len(arr) : j # i => (Active(j)' <=> Active(j))
  BY DEF Active
<1>5. ASSUME NEW j \in 1 .. Len(arr), j # i, NEW s, AuxListIs(j, s) PROVE AuxListIs(j, s)'
  <2>1. /\ s \in Seq(Recs(Len(arr))) /\ Distinct(s) /\ Len(s) = arr[j].auxcount
        /\ \A k \in 1 .. Len(arr) : k \in Range(s) <=> arr[k].auxhead = j
        /\ Chain(s, arr[j].auxnext, AuxNextOf) /\ BackChain(s, AuxPrevOf)
    BY <1>5 DEF AuxListIs
  <2>2. \A x \in Range(s) : x \in 1 .. Len(arr) /\ x # i
    BY <1>5, AuxMembers
  <2>3. Chain(s, arr[j].auxnext, AuxNextOf') /\ BackChain(s, AuxPrevOf')
    <3>1. PICK nx, nx2, pv, pv2 : nx = AuxNextOf /\ nx2 = AuxNextOf' /\ pv = AuxPrevOf /\ pv2 = AuxPrevOf'
      OBVIOUS
    <3>2. \A x \in Range(s) : nx2[x] = nx[x] /\ pv2[x] = pv[x]
      BY <1>2, <2>2, <3>1
    <3>3. Chain(s, arr[j].auxnext, nx) /\ BackChain(s, pv)
      BY <2>1, <3>1
    <3>4. Chain(s, arr[j].auxnext, nx2)
      BY <1>1, <2>1, <3>2, <3>3, ChainKeeps
    <3>5. BackChain(s, pv2)
      BY <1>1, <2>1, <3>2, <3>3, BackKeeps
    <3>6. QED
      BY <3>1, <3>4, <3>5
  <2>4. QED
    BY <1>3, <1>5, <2>1, <2>3 DEF AuxListIs
<1>6. ASSUME NEW j \in 1 .. Len(arr), Active(j)', arr'[j].e_type = "head" PROVE \E s : AuxListIs(j, s)'
  <2>1. CASE j # i
    <3>1. PICK s : AuxListIs(j, s)
      BY <1>4, <1>6, <2>1 DEF AuxInv
    <3>2. QED
      BY <1>5, <2>1, <3>1
  <2>2. CASE j = i
    <3>1. PICK s : s = <<>>
      OBVIOUS
    <3>2. s \in Seq(Recs(Len(arr'))) /\ Distinct(s) /\ Len(s) = 0 /\ Range(s) = {}
      BY <3>1 DEF Distinct, Range
    <3>3. Chain(s, 0, AuxNextOf') /\ BackChain(s, AuxPrevOf')
      BY <3>2 DEF Chain, BackChain, Nth
    <3>4. AuxListIs(j, s)'
      BY <1>3, <2>2, <3>2, <3>3 DEF AuxListIs
    <3>5. QED
      BY <3>4
  <2>3. QED
    BY <2>1, <2>2
<1>7. ASSUME NEW j \in 1 .. Len(arr)
      PROVE  /\ arr'[j].auxnext \in 0 .. Len(arr) /\ arr'[j].auxprev \in 0 .. Len(arr)
             /\ arr'[j].auxhead \in 0 .. Len(arr)
             /\ ~(Active(j)' /\ arr'[j].e_type = "head") => arr'[j].auxcount = 0
             /\ arr'[j].auxhead # 0 =>
                  /\ Active(j)' /\ arr'[j].e_type = "user"
                  /\ "ACTIVE" \in arr'[arr'[j].auxhead].flags
                  /\ arr'[arr'[j].auxhead].e_type = "head"
  <2>1. CASE j = i
    BY <1>1, <2>1
  <2>2. CASE j # i
    <3>1. /\ arr[j].auxnext \in 0 .. Len(arr) /\ arr[j].auxprev \in 0 .. Len(arr)
          /\ arr[j].auxhead \in 0 .. Len(arr)
          /\ ~(Active(j) /\ arr[j].e_type = "head") => arr[j].auxcount = 0
          /\ arr[j].auxhead # 0 =>
               /\ Active(j) /\ arr[j].e_type = "user"
               /\ Active(arr[j].auxhead) /\ arr[arr[j].auxhead].e_type = "head"
      BY DEF AuxInv
    <3>2. arr[j].auxhead # 0 => arr[j].auxhead \in 1 .. Len(arr) /\ arr[j].auxhead # i
      BY <1>1, <1>3, <3>1
    <3>3. arr[j].auxhead # 0 =>
            "ACTIVE" \in arr'[arr[j].auxhead].flags /\ arr'[arr[j].auxhead].e_type = "head"
      BY <3>1, <3>2 DEF Active
    <3>4. arr'[j] = arr[j] /\ (Active(j)' <=> Active(j))
      BY <1>4, <2>2
    <3>5. QED
      BY <3>1, <3>3, <3>4
  <2>3. QED
    BY <2>1, <2>2
<1>8. QED
  BY <1>6, <1>7 DEF AuxInv, Active

\* The record as u_handle_alloc fills it.
FillStored(b, a, i, n, e) ==
  b = [a EXCEPT ![i] = [a[i] EXCEPT !.obj = n, !.e_type = e,
                    !.next = NULL_IDX, !.auxnext = NULL_IDX, !.auxprev = NULL_IDX,
                    !.auxhead = NULL_IDX, !.auxcount = 0, !.flags = {"ACTIVE"},
                    !.count = NextCount(@)]]

\* What filling a new record writes.
LEMMA FilledShape ==
  ASSUME NEW a \in Seq(CtrlRec), NEW i \in 1 .. Len(a), NEW n \in Nat, NEW e \in Types, NEW b,
         FillStored(b, a, i, n, e)
  PROVE  /\ b \in Seq(CtrlRec) /\ Len(b) = Len(a)
         /\ \A j \in 1 .. Len(a) : j # i => b[j] = a[j]
         /\ b[i].obj = n /\ b[i].e_type = e /\ b[i].next = 0 /\ b[i].flags = {"ACTIVE"}
         /\ b[i].auxnext = 0 /\ b[i].auxprev = 0 /\ b[i].auxhead = 0 /\ b[i].auxcount = 0
         /\ b[i].count = NextCount(a[i].count) /\ b[i].count \in 0 .. (CountMod - 1)
<1>1. PICK c : c = [a[i] EXCEPT !.obj = n, !.e_type = e,
                    !.next = NULL_IDX, !.auxnext = NULL_IDX, !.auxprev = NULL_IDX,
                    !.auxhead = NULL_IDX, !.auxcount = 0, !.flags = {"ACTIVE"},
                    !.count = NextCount(@)]
  OBVIOUS
<1>2. b = [a EXCEPT ![i] = c]
  BY <1>1 DEF FillStored
<1>3. a[i] \in CtrlRec
  OBVIOUS
<1>4. NextCount(a[i].count) \in 0 .. (CountMod - 1)
  <2>1. PICK k, M : k = a[i].count /\ M = CountMod
    OBVIOUS
  <2>2. k \in 0 .. (M - 1) /\ M \in Nat \ {0}
    BY <1>3, <2>1, HandleAssumption DEF CtrlRec
  <2>3. k + 1 < M \/ k + 1 = M
    BY <2>2
  <2>4. (k + 1) % M \in 0 .. (M - 1)
    <3>1. CASE k + 1 < M
      <4>1. (k + 1) % M = k + 1
        BY <2>2, <3>1
      <4>2. QED
        BY <2>2, <3>1, <4>1
    <3>2. CASE k + 1 = M
      <4>1. (k + 1) % M = 0
        BY <2>2, <3>2
      <4>2. QED
        BY <2>2, <4>1
    <3>3. QED
      BY <2>3, <3>1, <3>2
  <2>5. QED
    BY <2>1, <2>4 DEF NextCount
<1>5. /\ c.obj = n /\ c.e_type = e /\ c.next = 0 /\ c.flags = {"ACTIVE"}
      /\ c.auxnext = 0 /\ c.auxprev = 0 /\ c.auxhead = 0 /\ c.auxcount = 0
      /\ c.count = NextCount(a[i].count)
  BY <1>1, <1>3 DEF CtrlRec, NULL_IDX
<1>6. c = [obj |-> n, e_type |-> e, count |-> NextCount(a[i].count), flags |-> {"ACTIVE"},
           next |-> 0, auxnext |-> 0, auxprev |-> 0, auxhead |-> 0, auxcount |-> 0]
  BY <1>1, <1>3 DEF CtrlRec, NULL_IDX
<1>7. c \in CtrlRec
  BY <1>4, <1>6 DEF CtrlRec, Flags
<1>8. QED
  BY <1>2, <1>4, <1>5, <1>7, Stored

\* u_handle_alloc fills the record and makes the handle, which it returns or, for
\* a head, tags first.
LEMMA AllocFillStep ==
  ASSUME HandleInv, NEW t \in Threads, AllocFill(t)
  PROVE  HandleInv'
<1>1. PICK f0, i, o, e : f0 = Top(t) /\ i = f0.i /\ o = f0.obj /\ e = f0.e_type
  OBVIOUS
<1> USE DEF HandleInv
<1>2. /\ ~Idle(t) /\ f0.pc = "fill" /\ f0.mem = mem
      /\ UNCHANGED <<setup, mem, ui2_free_handles, ui2_num_free, ui2_num_peak_used,
                     ui2_num_used_per_grp, allocs, freed, moved, wild, aborted>>
  BY <1>1 DEF AllocFill
<1>3. /\ f0 \in Calls(t) /\ f0 \in FillFrame /\ t \in setup.threads
      /\ \A f \in Calls(t) : f # f0 => f.pc = "callback"
      /\ o \in 1 .. MaxAllocs /\ e \in Types
  <2>1. /\ f0 \in Calls(t) /\ f0 \in Frame /\ t \in setup.threads
        /\ \A f \in Calls(t) : f # f0 => f.pc = "callback"
    BY <1>1, <1>2, TopIsCall
  <2>2. f0 \in FillFrame
    BY <1>2, <2>1 DEF Frame, FillFrame, TagFrame, FreeingFrame, FreePcs, AutoFrame
  <2>3. QED
    BY <1>1, <2>1, <2>2 DEF FillFrame
<1>4. /\ i \in 1 .. Len(arr) /\ ~Active(i) /\ o <= allocs /\ freed[o] = 0
      /\ \A a \in Allocated : a.n # o /\ (a.h.i = i => a.n < o)
      /\ \A j \in 1 .. Len(arr) : Active(j) => ObjectOf(j) # o
  BY <1>1, <1>2, <1>3 DEF FillInv
<1>5. \A u \in Threads : \A g \in Calls(u) : g.pc = "fill" /\ (g.i = i \/ g.obj = o) => u = t /\ g = f0
  BY <1>1, <1>2, <1>3 DEF FillInv
<1>6. /\ arr \in Seq(CtrlRec) /\ Len(arr) \in Nat /\ MaxAllocs \in Nat /\ allocs \in Nat
      /\ \A j \in 1 .. Len(arr) : arr[j] \in CtrlRec
  BY HandleAssumption DEF HandleType
<1>7. FillStored(arr', arr, i, o, e)
  BY <1>1 DEF AllocFill, FillStored
<1>8. /\ arr' \in Seq(CtrlRec) /\ Len(arr') = Len(arr)
      /\ \A j \in 1 .. Len(arr) : j # i => arr'[j] = arr[j]
      /\ arr'[i].obj = o /\ arr'[i].e_type = e /\ arr'[i].next = 0 /\ arr'[i].flags = {"ACTIVE"}
      /\ arr'[i].auxnext = 0 /\ arr'[i].auxprev = 0 /\ arr'[i].auxhead = 0 /\ arr'[i].auxcount = 0
      /\ arr'[i].count = NextCount(arr[i].count) /\ arr'[i].count \in 0 .. (CountMod - 1)
  <2>1. o \in Nat
    BY <1>3
  <2>2. QED
    BY <1>3, <1>4, <1>6, <1>7, <2>1, FilledShape
<1>9. /\ Active(i)' /\ ObjectOf(i)' = o
      /\ \A j \in 1 .. Len(arr) : j # i => (Active(j)' <=> Active(j)) /\ ObjectOf(j)' = ObjectOf(j)
  <2>1. o > 0
    BY <1>3
  <2>2. QED
    BY <1>8, <2>1 DEF Active, ObjectOf
<1>10. PICK h1, a1, f1 :
         /\ h1 = [i |-> i, count |-> arr'[i].count] /\ a1 = [h |-> h1, n |-> o]
         /\ f1 = [pc |-> "tag", h |-> h1, mem |-> mem, obj |-> o]
  OBVIOUS
<1>11. /\ h1 \in HandleSet /\ a1 \in Allocation /\ f1 \in Frame /\ f1.pc = "tag"
       /\ h1.i = i /\ h1.count = arr'[i].count /\ a1.h = h1 /\ a1.n = o
       /\ f1.h = h1 /\ f1.obj = o /\ f1.mem = mem
  <2>1. h1 \in HandleSet
    BY <1>4, <1>6, <1>8, <1>10 DEF HandleSet
  <2>2. a1 \in Allocation
    BY <1>3, <1>10, <2>1 DEF Allocation
  <2>3. f1 \in TagFrame
    BY <1>3, <1>10, <2>1 DEF TagFrame, HandleType
  <2>4. QED
    BY <1>10, <2>1, <2>2, <2>3 DEF Frame
<1>12. /\ frames' \in [Threads -> Seq(Frame)] /\ CallsNest'
       /\ \A u \in Threads : u # t => Calls(u)' = Calls(u)
       /\ IF e = "head" THEN Calls(t)' = (Calls(t) \ {f0}) \cup {f1} /\ issued' = issued
                        ELSE Calls(t)' = Calls(t) \ {f0} /\ issued' = issued \cup {a1}
  <2>1. CASE e = "head"
    <3>1. Replace(t, f1) /\ issued' = issued
      BY <1>1, <1>10, <2>1 DEF AllocFill, make_handle
    <3>2. f1 \notin Calls(t) \ {Top(t)} /\ f1.pc # "autofree"
      BY <1>1, <1>3, <1>11
    <3>3. /\ frames' \in [Threads -> Seq(Frame)] /\ CallsNest'
          /\ \A u \in Threads :
               Calls(u)' = IF u = t THEN (Calls(t) \ {Top(t)}) \cup {f1} ELSE Calls(u)
      BY <1>2, <1>11, <3>1, <3>2, Replaced
    <3>4. QED
      BY <1>1, <1>3, <2>1, <3>1, <3>3
  <2>2. CASE e # "head"
    <3>1. Pop(t) /\ issued' = issued \cup {a1}
      BY <1>1, <1>10, <2>2 DEF AllocFill, make_handle
    <3>2. /\ frames' \in [Threads -> Seq(Frame)] /\ CallsNest'
          /\ \A u \in Threads : Calls(u)' = IF u = t THEN Calls(t) \ {Top(t)} ELSE Calls(u)
      BY <1>2, <3>1, Popped
    <3>3. QED
      BY <1>1, <1>3, <2>2, <3>1, <3>2
  <2>3. QED
    BY <2>1, <2>2
<1>13. HandleType'
  <2>1. issued' \in SUBSET Allocation
    BY <1>11, <1>12 DEF HandleType
  <2>2. QED
    BY <1>2, <1>8, <1>12, <2>1 DEF HandleType
<1>14. \A u \in Threads : \A f \in Calls(u)' :
         \/ f \in Calls(u) /\ (u = t => f.pc = "callback")
         \/ u = t /\ f = f1 /\ e = "head"
  BY <1>3, <1>12
<1>15. \A u \in Threads : \A f \in Calls(u) : f \in Calls(u)' \/ (u = t /\ f = f0)
  BY <1>3, <1>12
<1>16. SameCalls({"autofree"}) /\ SameCalls(FreePcs)
  <2>1. \A u \in Threads : \A f \in Frame : f.pc # "fill" /\ f.pc # "tag" => (f \in Calls(u)' <=> f \in Calls(u))
    BY <1>2, <1>11, <1>14, <1>15
  <2>2. QED
    BY <2>1 DEF SameCalls, FreePcs
<1>17. Allocated' = Allocated \cup {a1}
  <2>1. ASSUME NEW b \in Allocation
        PROVE  (\E u \in Threads : \E f \in Calls(u)' : f.pc = "tag" /\ f.h = b.h /\ f.obj = b.n)
               <=> \/ \E u \in Threads : \E f \in Calls(u) : f.pc = "tag" /\ f.h = b.h /\ f.obj = b.n
                   \/ e = "head" /\ b = a1
    <3>1. ASSUME NEW u \in Threads, NEW f \in Calls(u)', f.pc = "tag", f.h = b.h, f.obj = b.n
          PROVE  \/ \E v \in Threads : \E g \in Calls(v) : g.pc = "tag" /\ g.h = b.h /\ g.obj = b.n
                 \/ e = "head" /\ b = a1
      <4>1. CASE f \in Calls(u)
        BY <3>1, <4>1
      <4>2. CASE f = f1 /\ e = "head"
        <5>1. b = [h |-> b.h, n |-> b.n]
          BY DEF Allocation
        <5>2. QED
          BY <1>10, <1>11, <3>1, <4>2, <5>1
      <4>3. QED
        BY <1>14, <3>1, <4>1, <4>2
    <3>2. ASSUME NEW u \in Threads, NEW f \in Calls(u), f.pc = "tag", f.h = b.h, f.obj = b.n
          PROVE  \E v \in Threads : \E g \in Calls(v)' : g.pc = "tag" /\ g.h = b.h /\ g.obj = b.n
      BY <1>2, <1>15, <3>2
    <3>3. ASSUME e = "head", b = a1
          PROVE  \E v \in Threads : \E g \in Calls(v)' : g.pc = "tag" /\ g.h = b.h /\ g.obj = b.n
      <4>1. f1 \in Calls(t)'
        BY <1>12, <3>3
      <4>2. QED
        BY <1>11, <3>3, <4>1
    <3>4. QED
      BY <3>1, <3>2, <3>3
  <2>2. CASE e = "head"
    <3>1. Tagged' = Tagged \cup {a1} /\ issued' = issued
      BY <1>11, <1>12, <2>1, <2>2 DEF Tagged
    <3>2. QED
      BY <3>1 DEF Allocated
  <2>3. CASE e # "head"
    <3>1. Tagged' = Tagged /\ issued' = issued \cup {a1}
      BY <1>12, <2>1, <2>3 DEF Tagged
    <3>2. QED
      BY <3>1 DEF Allocated
  <2>4. QED
    BY <2>2, <2>3
<1>18. \A a \in Allocated : a \in Allocation /\ a.n \in Nat /\ a.h \in HandleSet
  BY DEF Allocated, Tagged, HandleType, Allocation
<1>19. IsFiniteSet(Allocated') /\ a1 \notin Allocated
  <2>1. a1 \notin Allocated
    BY <1>4, <1>11
  <2>2. QED
    BY <1>17, <2>1, FS_AddElement DEF IdentityInv
<1>20. Wrapped => Wrapped'
  BY <1>12, <1>17, <1>19, WrappedKeeps, HandleAssumption
<1>21. IdentityInv'
  <2>1. ASSUME NEW b \in Allocated PROVE CountFits(b)'
    <3>1. b.h.i \in 1 .. Len(arr) /\ b.n <= allocs /\ CountFits(b)
      BY DEF IdentityInv
    <3>2. PICK d \in 0 .. Later(b), c \in Nat : CountOf(b, d, c)
      BY <3>1 DEF CountFits
    <3>3. CASE b.h.i # i
      <4>1. Newer(b)' = Newer(b)
        BY <1>11, <1>17, <3>3 DEF Newer
      <4>2. CountOf(b, d, c)'
        BY <1>8, <1>9, <3>1, <3>2, <3>3 DEF CountOf
      <4>3. QED
        BY <3>2, <4>1, <4>2 DEF CountFits, Later
    <3>4. CASE b.h.i = i
      <4>1. b.n < o
        BY <1>4, <3>4
      <4>2. Newer(b)' = Newer(b) \cup {a1}
        BY <1>11, <1>17, <3>4, <4>1 DEF Newer
      <4>3. a1 \notin Newer(b) /\ IsFiniteSet(Newer(b))
        <5>1. Newer(b) \in SUBSET Allocated
          BY DEF Newer
        <5>2. QED
          BY <1>19, <5>1, FS_Subset DEF IdentityInv
      <4>4. Later(b)' = Later(b) + 1 /\ Later(b) \in Nat
        BY <4>2, <4>3, FS_AddElement, FS_CardinalityType DEF Later
      <4>5. PICK k, M, hc : k = arr[i].count /\ M = CountMod /\ hc = b.h.count
        OBVIOUS
      <4>6. k \in 0 .. (M - 1) /\ M \in Nat \ {0} /\ hc \in Nat /\ d \in Nat
        <5>1. hc \in 0 .. (CountMod - 1)
          BY <1>18, <4>5 DEF HandleSet
        <5>2. k \in 0 .. (CountMod - 1)
          BY <1>4, <1>6, <4>5 DEF CtrlRec
        <5>3. QED
          BY <3>2, <4>4, <4>5, <5>1, <5>2, HandleAssumption
      <4>7. k + M * c = (hc + 2 * d) + 1
        BY <1>4, <3>2, <3>4, <4>5 DEF CountOf
      <4>8. PICK x \in Int : x = (hc + 2 * d) + 1
        BY <4>6
      <4>9. PICK c2 \in Nat : ((k + 1) % M) + M * c2 = x + 1
        BY <4>6, <4>7, <4>8, CountGoesUp
      <4>10. arr'[i].count = (k + 1) % M
        BY <1>8, <4>5 DEF NextCount
      <4>11. arr'[i].count + M * c2 = (hc + 2 * (d + 1)) + 0
        BY <4>6, <4>8, <4>9, <4>10
      <4>12. d + 1 \in 0 .. Later(b)' /\ d + 1 # 0
        BY <3>2, <4>4, <4>6
      <4>13. CountOf(b, d + 1, c2)'
        BY <1>9, <3>4, <4>5, <4>11, <4>12 DEF CountOf
      <4>14. QED
        BY <4>12, <4>13 DEF CountFits
    <3>5. QED
      BY <3>3, <3>4
  <2>2. CountFits(a1)'
    <3>1. Newer(a1)' = {}
      <4>1. \A q \in Allocated : q.h.i = i => ~(q.n > o)
        BY <1>3, <1>4, <1>18
      <4>2. ~(a1.n > o)
        BY <1>3, <1>11
      <4>3. QED
        BY <1>11, <1>17, <4>1, <4>2 DEF Newer
    <3>2. Later(a1)' = 0
      BY <3>1, FS_EmptySet DEF Later
    <3>3. CountOf(a1, 0, 0)'
      <4>1. PICK k \in Nat, M \in Nat : k = arr'[i].count /\ M = CountMod
        BY <1>8, HandleAssumption
      <4>2. k + M * 0 = k + 2 * 0 + 0
        OBVIOUS
      <4>3. QED
        BY <1>9, <1>11, <4>1, <4>2 DEF CountOf
    <3>4. QED
      BY <3>2, <3>3 DEF CountFits
  <2>3. \A b \in Allocated' : b.h.i \in 1 .. Len(arr)' /\ b.n <= allocs'
    BY <1>2, <1>4, <1>8, <1>11, <1>17 DEF IdentityInv
  <2>4. QED
    BY <1>17, <1>19, <2>1, <2>2, <2>3 DEF IdentityInv
<1>22. ObjectInv'
  <2>1. ASSUME NEW j \in 1 .. Len(arr)
        PROVE  /\ ObjectOf(j)' <= allocs'
               /\ Active(j)' => ObjectOf(j)' >= 1 /\ arr'[j].e_type \in Types
               /\ arr'[j].flags = {"ACTIVE"} => freed'[ObjectOf(j)'] = 0
    <3>1. CASE j = i
      BY <1>2, <1>3, <1>4, <1>8, <1>9, <3>1
    <3>2. CASE j # i
      BY <1>2, <1>8, <1>9, <3>2 DEF ObjectInv
    <3>3. QED
      BY <3>1, <3>2
  <2>2. ASSUME NEW j \in 1 .. Len(arr), NEW k \in 1 .. Len(arr), Active(j)', Active(k)', j # k
        PROVE  ObjectOf(j)' # ObjectOf(k)'
    <3>1. CASE j = i
      BY <1>4, <1>9, <2>2, <3>1
    <3>2. CASE k = i
      BY <1>4, <1>9, <2>2, <3>2
    <3>3. CASE j # i /\ k # i
      BY <1>9, <2>2, <3>3 DEF ObjectInv
    <3>4. QED
      BY <3>1, <3>2, <3>3
  <2>3. \A n \in 1 .. MaxAllocs : freed'[n] <= 1 /\ (n > allocs' => freed'[n] = 0)
    BY <1>2 DEF ObjectInv
  <2>4. QED
    BY <1>8, <2>1, <2>2, <2>3 DEF ObjectInv
<1>23. \A u \in Threads : \A f \in Calls(u)' : f.pc = "fill" => f \in Calls(u) /\ f.i # i /\ f.obj # o
  <2>1. ASSUME NEW u \in Threads, NEW f \in Calls(u)', f.pc = "fill"
        PROVE  f \in Calls(u) /\ f.i # i /\ f.obj # o
    <3>1. f \in Calls(u) /\ u # t
      BY <1>11, <1>14, <2>1
    <3>2. QED
      BY <1>5, <2>1, <3>1
  <2>2. QED
    BY <2>1
<1>24. FillInv'
  <2>1. ASSUME NEW u \in Threads, NEW f \in Calls(u)', f.pc = "fill"
        PROVE  /\ f.i \in 1 .. Len(arr)' /\ ~Active(f.i)'
               /\ f.obj <= allocs' /\ freed'[f.obj] = 0
               /\ \A a \in Allocated' : a.n # f.obj /\ (a.h.i = f.i => a.n < f.obj)
               /\ \A j \in 1 .. Len(arr)' : Active(j)' => ObjectOf(j)' # f.obj
    <3>1. /\ f.i \in 1 .. Len(arr) /\ ~Active(f.i)
          /\ f.obj <= allocs /\ freed[f.obj] = 0
          /\ \A a \in Allocated : a.n # f.obj /\ (a.h.i = f.i => a.n < f.obj)
          /\ \A j \in 1 .. Len(arr) : Active(j) => ObjectOf(j) # f.obj
      BY <1>23, <2>1 DEF FillInv
    <3>2. f.i # i /\ f.obj # o
      BY <1>23, <2>1
    <3>3. QED
      BY <1>2, <1>8, <1>9, <1>11, <1>17, <3>1, <3>2
  <2>2. ASSUME NEW u \in Threads, NEW v \in Threads, NEW f \in Calls(u)', NEW g \in Calls(v)',
               f.pc = "fill", g.pc = "fill", f.i = g.i \/ f.obj = g.obj
        PROVE  u = v
    BY <1>23, <2>2 DEF FillInv
  <2>3. QED
    BY <2>1, <2>2 DEF FillInv
<1>25. \A u \in Threads : \A f \in Calls(u) : f.pc = "tag" => f.obj # o
  <2>1. ASSUME NEW u \in Threads, NEW f \in Calls(u), f.pc = "tag" PROVE f.obj # o
    <3>1. f \in TagFrame
      <4>1. f \in Frame
        BY CallsAreFrames
      <4>2. QED
        BY <2>1, <4>1 DEF Frame, FillFrame, TagFrame, FreeingFrame, FreePcs, AutoFrame
    <3>2. [h |-> f.h, n |-> f.obj] \in Allocation
      BY <3>1 DEF TagFrame, Allocation
    <3>3. [h |-> f.h, n |-> f.obj] \in Tagged
      BY <2>1, <3>2 DEF Tagged
    <3>4. [h |-> f.h, n |-> f.obj] \in Allocated
      BY <3>3 DEF Allocated
    <3>5. QED
      BY <1>4, <3>4
  <2>2. QED
    BY <2>1
<1>26. TagInv'
  <2>1. ASSUME NEW u \in Threads, NEW f \in Calls(u)', f.pc = "tag"
        PROVE  /\ f.h.i \in 1 .. Len(arr)'
               /\ \A r \in issued' : r.n # f.obj
               /\ \/ Wrapped'
                  \/ /\ arr'[f.h.i].flags = {"ACTIVE"} /\ arr'[f.h.i].count = f.h.count
                     /\ ObjectOf(f.h.i)' = f.obj
    <3>1. CASE f \in Calls(u)
      <4>1. /\ f.h.i \in 1 .. Len(arr)
            /\ \A r \in issued : r.n # f.obj
            /\ \/ Wrapped
               \/ /\ arr[f.h.i].flags = {"ACTIVE"} /\ arr[f.h.i].count = f.h.count
                  /\ ObjectOf(f.h.i) = f.obj
        BY <2>1, <3>1 DEF TagInv
      <4>2. \A r \in issued' : r.n # f.obj
        BY <1>11, <1>12, <1>25, <2>1, <3>1, <4>1
      <4>3. arr[f.h.i].flags = {"ACTIVE"} => f.h.i # i
        BY <1>4 DEF Active
      <4>4. QED
        BY <1>8, <1>9, <1>20, <4>1, <4>2, <4>3
    <3>2. CASE f = f1 /\ e = "head"
      <4>1. issued' = issued
        BY <1>12, <3>2
      <4>2. \A r \in issued' : r.n # f.obj
        BY <1>4, <1>11, <3>2, <4>1 DEF Allocated
      <4>3. QED
        BY <1>4, <1>8, <1>9, <1>11, <3>2, <4>2
    <3>3. QED
      BY <1>14, <2>1, <3>1, <3>2
  <2>2. ASSUME NEW u \in Threads, NEW v \in Threads, NEW f \in Calls(u)', NEW g \in Calls(v)',
               f.pc = "tag", g.pc = "tag", f.obj = g.obj
        PROVE  u = v
    <3>1. CASE f \in Calls(u) /\ g \in Calls(v)
      BY <2>2, <3>1 DEF TagInv
    <3>2. CASE f \in Calls(u) /\ v = t /\ g = f1
      BY <1>11, <1>25, <2>2, <3>2
    <3>3. CASE u = t /\ f = f1 /\ g \in Calls(v)
      BY <1>11, <1>25, <2>2, <3>3
    <3>4. CASE u = t /\ v = t
      BY <3>4
    <3>5. QED
      BY <1>14, <3>1, <3>2, <3>3, <3>4
  <2>3. QED
    BY <2>1, <2>2 DEF TagInv
<1>27. \A u \in Threads : \A f \in Calls(u) : f.pc \in FreePcs => f.i \in 1 .. Len(arr) /\ f.i # i
  BY <1>4 DEF FreeingInv, Active
<1>28. FreeingInv'
  <2>1. \A u \in Threads : \A f \in Calls(u) : f.pc \in FreePcs => RecordStays(f.i)
    BY <1>8, <1>9, <1>27 DEF RecordStays
  <2>2. ASSUME NEW j \in 1 .. Len(arr'), arr'[j].flags = {"ACTIVE", "FREEING"}
        PROVE  j <= Len(arr) /\ arr[j].flags = {"ACTIVE", "FREEING"}
    <3>1. {"ACTIVE"} # {"ACTIVE", "FREEING"}
      OBVIOUS
    <3>2. j # i /\ j \in 1 .. Len(arr)
      BY <1>8, <2>2, <3>1
    <3>3. QED
      BY <1>6, <1>8, <2>2, <3>2
  <2>3. \A u \in Threads : \A f \in Calls(u) :
          f.pc = "finish" /\ f.e_type = "head" => arr'[f.i].auxcount = 0
    BY <1>8, <1>27 DEF FreeingInv, FreePcs
  <2>4. QED
    BY <1>2, <1>6, <1>8, <1>13, <1>16, <2>1, <2>2, <2>3, FreeingKeeps
<1>29. AutofreeInv'
  <2>1. \A u \in Threads : \A f \in Calls(u) : f.pc # "autofree"
    BY <1>1, <1>2, <1>3, NoAutofree
  <2>2. QED
    BY <1>13, <1>16, <2>1, AutofreeKeeps
<1>30. ASSUME NEW j PROVE Filled(j)' <=> Filled(j) /\ j # i
  <2>1. ASSUME Filled(j)' PROVE Filled(j) /\ j # i
    BY <1>23, <2>1 DEF Filled
  <2>2. ASSUME Filled(j), j # i PROVE Filled(j)'
    <3>1. PICK u \in Threads : \E f \in Calls(u) : f.pc = "fill" /\ f.i = j
      BY <2>2 DEF Filled
    <3>2. PICK f \in Calls(u) : f.pc = "fill" /\ f.i = j
      BY <3>1
    <3>3. f \in Calls(u)'
      BY <1>1, <1>15, <2>2, <3>2
    <3>4. QED
      BY <3>2, <3>3 DEF Filled
  <2>3. QED
    BY <2>1, <2>2
<1>31. FreeListInv'
  <2>1. PICK s : FreeListIs(s)
    BY DEF FreeListInv
  <2>2. PICK N, nx, nx2 : N \in Nat /\ N = Len(arr) /\ nx = NextOf /\ nx2 = NextOf'
    BY <1>6
  <2>3. /\ s \in Seq(Recs(N)) /\ Distinct(s) /\ Len(s) = ui2_num_free
        /\ \A j \in 1 .. N : j \in Range(s) <=> ~Active(j) /\ ~Filled(j)
        /\ Chain(s, ui2_free_handles, nx)
    BY <2>1, <2>2 DEF FreeListIs
  <2>4. Filled(i)
    BY <1>1, <1>2, <1>3 DEF Filled
  <2>5. \A x \in Range(s) : x \in 1 .. N /\ x # i
    <3>1. \A x \in Range(s) : x \in 1 .. N
      BY <2>2, <2>3 DEF Range, Recs
    <3>2. QED
      BY <1>4, <2>2, <2>3, <2>4, <3>1
  <2>6. \A x \in Range(s) : nx2[x] = nx[x]
    BY <1>6, <1>8, <2>2, <2>5 DEF NextOf
  <2>7. Chain(s, ui2_free_handles, nx2)
    BY <2>2, <2>3, <2>6, ChainKeeps
  <2>8. \A j \in 1 .. N : j \in Range(s) <=> ~Active(j)' /\ ~Filled(j)'
    BY <1>9, <1>30, <2>2, <2>3, <2>5
  <2>9. FreeListIs(s)'
    BY <1>2, <1>8, <2>2, <2>3, <2>7, <2>8 DEF FreeListIs
  <2>10. \A j \in 1 .. Len(arr) : arr'[j].next \in 0 .. Len(arr)
    BY <1>6, <1>8 DEF FreeListInv
  <2>11. QED
    BY <1>8, <2>9, <2>10 DEF FreeListInv
<1>32. StatisticsInv'
  <2>1. ASSUME NEW c \in Types PROVE UsedBy(c)' = UsedBy(c)
    <3>1. ASSUME NEW j \in 1 .. Len(arr) PROVE j \in UsedBy(c)' <=> j \in UsedBy(c)
      <4>1. j \in UsedBy(c)' <=>
              \/ Active(j)' /\ arr'[j].e_type = c
              \/ \E u \in Threads : \E f \in Calls(u)' : f.pc = "fill" /\ f.i = j /\ f.e_type = c
        BY <1>8 DEF UsedBy
      <4>2. j \in UsedBy(c) <=>
              \/ Active(j) /\ arr[j].e_type = c
              \/ \E u \in Threads : \E f \in Calls(u) : f.pc = "fill" /\ f.i = j /\ f.e_type = c
        BY DEF UsedBy
      <4>3. CASE j = i
        <5>1. j \in UsedBy(c)' <=> e = c
          BY <1>8, <1>9, <1>23, <4>1, <4>3
        <5>2. j \in UsedBy(c) <=> e = c
          BY <1>1, <1>2, <1>3, <1>4, <1>5, <4>2, <4>3
        <5>3. QED
          BY <5>1, <5>2
      <4>4. CASE j # i
        <5>1. (\E u \in Threads : \E f \in Calls(u)' : f.pc = "fill" /\ f.i = j /\ f.e_type = c)
              <=> (\E u \in Threads : \E f \in Calls(u) : f.pc = "fill" /\ f.i = j /\ f.e_type = c)
          BY <1>1, <1>15, <1>23, <4>4
        <5>2. (Active(j)' /\ arr'[j].e_type = c) <=> (Active(j) /\ arr[j].e_type = c)
          BY <1>8, <1>9, <4>4
        <5>3. QED
          BY <4>1, <4>2, <5>1, <5>2
      <4>5. QED
        BY <4>3, <4>4
    <3>2. UsedBy(c) \in SUBSET (1 .. Len(arr)) /\ UsedBy(c)' \in SUBSET (1 .. Len(arr))
      BY <1>8 DEF UsedBy
    <3>3. QED
      BY <3>1, <3>2
  <2>2. QED
    BY <1>2, <1>8, <2>1 DEF StatisticsInv
<1>33. AuxInv'
  BY <1>4, <1>8, <1>9, <1>13, AuxAppears
<1>34. ProgramInv'
  <2>1. ~moved => ~wild /\ \A u \in Threads : \A f \in Calls(u)' : f.mem = mem
    BY <1>11, <1>14 DEF ProgramInv
  <2>2. aborted => Wrapped
    BY DEF ProgramInv
  <2>3. aborted' => Wrapped'
    BY <1>2, <1>20, <2>2
  <2>4. QED
    BY <1>2, <1>8, <2>1, <2>2, <2>3 DEF ProgramInv
<1>35. QED
  BY <1>12, <1>13, <1>21, <1>22, <1>24, <1>26, <1>28, <1>29, <1>31, <1>32, <1>33, <1>34

-----------------------------------------------------------------------------
\* Every step of a program keeps it all.
LEMMA HandleStep ==
  ASSUME HandleInv, [Next]_vars
  PROVE  HandleInv'
<1>1. ASSUME NEW t \in Threads, NEW e \in Types, AllocTake(t, e) PROVE HandleInv'
  BY <1>1, AllocTakeStep
<1>2. ASSUME NEW t \in Threads, AllocFill(t) PROVE HandleInv'
  BY <1>2, AllocFillStep
<1>3. ASSUME NEW t \in Threads, AllocAuxTag(t) PROVE HandleInv'
  BY <1>3, AllocAuxTagStep
<1>4. ASSUME NEW t \in Threads, NEW h \in Handles, SetObj(t, h) PROVE HandleInv'
  BY <1>4, SetObjStep
<1>5. ASSUME NEW t \in Threads, NEW h \in Handles, FreeMark(t, h) PROVE HandleInv'
  BY <1>5, FreeMarkStep
<1>6. ASSUME NEW t \in Threads, NEW h \in Handles, DelinkFromAux(t, h) PROVE HandleInv'
  BY <1>6, DelinkFromAuxStep
<1>7. ASSUME NEW t \in Threads, NEW h \in Handles, Autofree(t, h) PROVE HandleInv'
  BY <1>7, AutofreeStep
<1>8. ASSUME NEW t \in Threads, NEW hd \in Handles, NEW h \in Handles, LinkToAux(t, hd, h) PROVE HandleInv'
  BY <1>8, LinkToAuxStep
<1>9. ASSUME NEW t \in Threads, Callback(t) PROVE HandleInv'
  BY <1>9, CallbackStep
<1>10. ASSUME NEW t \in Threads, FreeFinish(t) PROVE HandleInv'
  BY <1>10, FreeFinishStep
<1>11. ASSUME NEW t \in Threads, FreeRefused(t) PROVE HandleInv'
  BY <1>11, FreeRefusedStep
<1>12. ASSUME NEW t \in Threads, AutofreeCall(t) PROVE HandleInv'
  BY <1>12, AutofreeCallStep
<1>13. ASSUME NEW t \in Threads, FreeCall(t) PROVE HandleInv'
  BY <1>13, FreeCallStep
<1>14. ASSUME NEW t \in Threads, WritesAstray(t) PROVE HandleInv'
  BY <1>14, WritesAstrayStep
<1>15. ASSUME UNCHANGED vars PROVE HandleInv'
  <2>1. /\ UNCHANGED <<setup, mem, ui2_free_handles, ui2_num_free, ui2_num_peak_used,
                       ui2_num_used_per_grp, frames, issued, allocs, freed, moved, wild, aborted>>
        /\ arr' = arr
    BY <1>15 DEF vars
  <2>2. arr \in Seq(CtrlRec) /\ Len(arr') = Len(arr) /\ \A j : ObjectOf(j)' = ObjectOf(j)
    BY <2>1 DEF HandleInv, HandleType, ObjectOf
  <2>3. AuxInv'
    <3>1. AuxNextOf' = AuxNextOf /\ AuxPrevOf' = AuxPrevOf
      BY <2>1 DEF AuxNextOf, AuxPrevOf
    <3>2. \A j, s : AuxListIs(j, s) => AuxListIs(j, s)'
      BY <2>1, <3>1 DEF AuxListIs
    <3>3. \A j : Active(j)' = Active(j)
      BY <2>1 DEF Active
    <3>4. AuxInv
      BY DEF HandleInv
    <3>5. QED
      BY <2>1, <3>2, <3>3, <3>4 DEF AuxInv
  <2>4. \A t \in Threads : \A f \in Calls(t) :
          f.pc = "finish" /\ f.e_type = "head" => arr'[f.i].auxcount = 0
    BY <2>1 DEF HandleInv, FreeingInv, FreePcs
  <2>5. wild' \in BOOLEAN /\ (wild' => wild)
    BY <2>1 DEF HandleInv, HandleType
  <2>6. QED
    BY <2>1, <2>2, <2>3, <2>4, <2>5, QuietStep
<1>16. QED
  BY <1>1, <1>2, <1>3, <1>4, <1>5, <1>6, <1>7, <1>8, <1>9, <1>10, <1>11, <1>12, <1>13, <1>14, <1>15 DEF Next

-----------------------------------------------------------------------------
\* The handles that are not returned yet are those of the calls that tag a head.
LEMMA TagIsTop ==
  ASSUME HandleType, CallsNest, NEW t \in Threads, NEW f \in Calls(t), f.pc = "tag"
  PROVE  ~Idle(t) /\ f = Top(t) /\ f \in TagFrame
<1>1. frames[t] # <<>>
  BY DEF Calls, Range
<1>2. f = Top(t)
  BY <1>1 DEF CallsNest
<1>3. f \in Frame
  BY CallsAreFrames
<1>4. QED
  BY <1>1, <1>2, <1>3 DEF Idle, Frame, FillFrame, TagFrame, FreeingFrame, FreePcs, AutoFrame

Tagging(i) == {t \in Threads : ~Idle(t) /\ Top(t).pc = "tag" /\ Top(t).h.i = i}

\* A later allocation of the record is one of its reuses.
LEMMA LaterIsReuses ==
  ASSUME HandleInv, NEW r \in issued
  PROVE  Later(r) <= Reuses(r) /\ Later(r) \in Nat /\ Reuses(r) \in Nat
<1> USE DEF HandleInv
<1> DEFINE A == {q \in issued : q.h.i = r.h.i /\ q.n > r.n}
           T == Tagging(r.h.i)
           B == Newer(r) \ issued
<1>1. Reuses(r) = Cardinality(A) + Cardinality(T)
  BY DEF Reuses, Tagging
<1>2. ASSUME NEW t \in T
      PROVE  t \in Threads /\ Top(t) \in Calls(t) /\ Top(t).pc = "tag" /\ Top(t) \in TagFrame
  <2>1. t \in Threads /\ ~Idle(t) /\ Top(t).pc = "tag"
    BY DEF Tagging
  <2>2. Top(t) \in Calls(t)
    BY <2>1, TopIsCall
  <2>3. QED
    BY <2>1, <2>2, TagIsTop
<1>3. IsFiniteSet(T)
  <2> DEFINE g == [t \in T |-> Top(t).obj]
  <2>1. g \in [T -> 1 .. MaxAllocs]
    BY <1>2 DEF TagFrame
  <2>2. ASSUME NEW t \in T, NEW u \in T, g[t] = g[u] PROVE t = u
    <3>1. Top(t).obj = Top(u).obj
      BY <2>2
    <3>2. QED
      BY <1>2, <3>1 DEF TagInv
  <2> HIDE DEF g
  <2>3. g \in Injection(T, 1 .. MaxAllocs)
    BY <2>1, <2>2 DEF Injection, IsInjective
  <2>4. IsFiniteSet(1 .. MaxAllocs)
    BY FS_Interval, HandleAssumption
  <2>5. QED
    BY <2>3, <2>4, FS_Injection
<1>4. ASSUME NEW q \in B
      PROVE  \E t \in T : q.h = Top(t).h /\ q.n = Top(t).obj /\ q \in Allocation
  <2>1. q \in Tagged /\ q.h.i = r.h.i
    BY DEF Newer, Allocated
  <2>2. PICK t \in Threads : \E f \in Calls(t) : f.pc = "tag" /\ f.h = q.h /\ f.obj = q.n
    BY <2>1 DEF Tagged
  <2>3. PICK f \in Calls(t) : f.pc = "tag" /\ f.h = q.h /\ f.obj = q.n
    BY <2>2
  <2>4. ~Idle(t) /\ f = Top(t)
    BY <2>3, TagIsTop
  <2>5. t \in T
    BY <2>1, <2>3, <2>4 DEF Tagging
  <2>6. QED
    BY <2>1, <2>3, <2>4, <2>5 DEF Tagged
<1>5. IsFiniteSet(B) /\ Cardinality(B) <= Cardinality(T)
  <2> DEFINE g == [q \in B |-> CHOOSE t \in T : q.h = Top(t).h /\ q.n = Top(t).obj]
  <2>1. \A q \in B : g[q] \in T /\ q.h = Top(g[q]).h /\ q.n = Top(g[q]).obj
    BY <1>4
  <2>2. g \in [B -> T]
    BY <2>1
  <2> HIDE DEF g
  <2>3. ASSUME NEW q \in B, NEW p \in B, g[q] = g[p] PROVE q = p
    <3>1. q.h = p.h /\ q.n = p.n
      BY <2>1, <2>3
    <3>2. q = [h |-> q.h, n |-> q.n] /\ p = [h |-> p.h, n |-> p.n]
      BY <1>4 DEF Allocation
    <3>3. QED
      BY <3>1, <3>2
  <2>4. g \in Injection(B, T)
    BY <2>2, <2>3 DEF Injection, IsInjective
  <2>5. QED
    BY <1>3, <2>4, FS_Injection
<1>6. Newer(r) = A \cup B /\ A \cap B = {}
  BY DEF Newer, Allocated
<1>7. IsFiniteSet(A) /\ IsFiniteSet(Newer(r))
  <2>1. A \in SUBSET Allocated /\ Newer(r) \in SUBSET Allocated
    BY DEF Newer, Allocated
  <2>2. QED
    BY <2>1, FS_Subset DEF IdentityInv
<1> HIDE DEF A, B, T
<1>8. /\ Cardinality(A) \in Nat /\ Cardinality(B) \in Nat /\ Cardinality(T) \in Nat
      /\ Cardinality(Newer(r)) \in Nat /\ Cardinality(A \cap B) = 0
  BY <1>3, <1>5, <1>6, <1>7, FS_CardinalityType, FS_EmptySet
<1>9. Cardinality(Newer(r)) = Cardinality(A) + Cardinality(B) - Cardinality(A \cap B)
  BY <1>5, <1>6, <1>7, FS_Union
<1>10. QED
  BY <1>1, <1>5, <1>8, <1>9 DEF Later

-----------------------------------------------------------------------------
\* What the invariant says of the properties.
LEMMA TypesHold ==
  ASSUME HandleInv
  PROVE  TypeOK
<1> USE DEF HandleInv
<1>1. /\ arr \in Seq(CtrlRec) /\ Len(arr) \in Nat /\ MaxAllocs \in Nat /\ allocs \in 0 .. MaxAllocs
      /\ ui2_num_free \in Nat /\ ui2_num_peak_used \in Nat
  BY HandleAssumption DEF HandleType
<1>2. PICK s : FreeListIs(s)
  BY DEF FreeListInv
<1>3. Len(s) <= Len(arr) /\ Len(s) = ui2_num_free
  BY <1>1, <1>2, DistinctFits DEF FreeListIs
<1>4. ui2_free_handles \in 0 .. Len(arr)
  <2>1. ui2_free_handles = Nth(s, 1) /\ s \in Seq(Recs(Len(arr)))
    BY <1>2 DEF FreeListIs, Chain
  <2>2. QED
    BY <1>1, <2>1, NthIs
<1>5. ASSUME NEW i \in 1 .. Len(arr) PROVE arr[i] \in Ctrl
  <2>1. arr[i] \in CtrlRec
    BY <1>1
  <2>2. arr[i].obj \in (-MaxAllocs) .. MaxAllocs
    <3>1. ObjectOf(i) <= allocs /\ arr[i].obj \in Int
      BY <2>1 DEF ObjectInv, CtrlRec
    <3>2. QED
      BY <1>1, <3>1 DEF ObjectOf
  <2>3. arr[i].auxcount \in 0 .. Len(arr)
    <3>1. CASE Active(i) /\ arr[i].e_type = "head"
      <4>1. PICK l : AuxListIs(i, l)
        BY <3>1 DEF AuxInv
      <4>2. l \in Seq(Recs(Len(arr))) /\ Distinct(l) /\ Len(l) = arr[i].auxcount
        BY <4>1 DEF AuxListIs
      <4>3. Len(l) <= Len(arr) /\ Len(l) \in Nat
        <5>1. Len(l) <= Len(arr)
          BY <1>1, <4>2, DistinctFits
        <5>2. QED
          BY <4>2, <5>1
      <4>4. QED
        BY <1>1, <4>2, <4>3
    <3>2. CASE ~(Active(i) /\ arr[i].e_type = "head")
      BY <1>1, <3>2 DEF AuxInv
    <3>3. QED
      BY <3>1, <3>2
  <2>4. /\ arr[i].next \in 0 .. Len(arr) /\ arr[i].auxnext \in 0 .. Len(arr)
        /\ arr[i].auxprev \in 0 .. Len(arr) /\ arr[i].auxhead \in 0 .. Len(arr)
    BY DEF FreeListInv, AuxInv
  <2>5. QED
    BY <2>1, <2>2, <2>3, <2>4 DEF Ctrl, CtrlRec, Flags, ui2_num_total
<1>6. ui2_num_free \in 0 .. Len(arr) /\ ui2_num_peak_used \in 0 .. Len(arr)
  BY <1>1, <1>3 DEF StatisticsInv
<1>7. QED
  BY <1>1, <1>4, <1>5, <1>6 DEF TypeOK, HandleType, ui2_num_total

\* HandleIdentity: a handle finds its own object or none.
LEMMA IdentityIs ==
  ASSUME HandleInv
  PROVE  HandleIdentity
<1> USE DEF HandleInv
<1> SUFFICES ASSUME NEW r \in issued, Valid(r.h), Reuses(r) < CountMod \div 2
             PROVE  handle_get_obj(r.h) \in {r.n, -r.n}
  BY DEF HandleIdentity
<1>1. r.h.i \in 1 .. Len(arr) /\ get_h_ctrl_from_handle(r.h) = r.h.i
  BY ValidIs
<1>2. PICK m \in Int : m = CountMod \div 2
  BY HandleAssumption
<1>3. Later(r) <= Reuses(r) /\ Later(r) \in Nat /\ Reuses(r) \in Nat
  BY LaterIsReuses
<1>4. Later(r) < CountMod \div 2
  BY <1>2, <1>3
<1>5. r \in Allocated
  BY DEF Allocated
<1>6. ObjectOf(r.h.i) = r.n
  BY <1>4, <1>5, IdentityHolds
<1>7. arr[r.h.i].obj \in Int
  <2>1. arr \in Seq(CtrlRec)
    BY DEF HandleType
  <2>2. arr[r.h.i] \in CtrlRec
    BY <1>1, <2>1
  <2>3. QED
    BY <2>2 DEF CtrlRec
<1>8. arr[r.h.i].obj = r.n \/ arr[r.h.i].obj = -r.n
  BY <1>6, <1>7 DEF ObjectOf
<1>9. QED
  BY <1>1, <1>8 DEF handle_get_obj

\* NoAbort: an ABORT needs a count that came round.
LEMMA AbortIs ==
  ASSUME HandleInv
  PROVE  NoAbort
<1> USE DEF HandleInv
<1> SUFFICES ASSUME aborted PROVE \E r \in issued : Reuses(r) >= CountMod \div 2
  BY DEF NoAbort
<1>1. PICK r \in issued : Later(r) >= CountMod \div 2
  BY DEF ProgramInv, Wrapped
<1>2. PICK m \in Int : m = CountMod \div 2
  BY HandleAssumption
<1>3. Later(r) <= Reuses(r) /\ Later(r) \in Nat /\ Reuses(r) \in Nat
  BY LaterIsReuses
<1>4. Reuses(r) >= CountMod \div 2
  BY <1>1, <1>2, <1>3
<1>5. QED
  BY <1>4

\* FreedOnce and NoStalePointer: one release for each object, and none through an old
\* address of the array unless that moved under a call.
LEMMA FreedIs ==
  ASSUME HandleInv
  PROVE  FreedOnce /\ NoStalePointer
<1> USE DEF HandleInv
<1>1. FreedOnce
  BY DEF FreedOnce, ObjectInv, HandleType, ui2_num_total
<1>2. ASSUME ~moved, NEW t \in Threads, NEW k \in DOMAIN frames[t] PROVE frames[t][k].mem = mem
  <2>1. frames[t][k] \in Calls(t)
    BY DEF Calls, Range
  <2>2. QED
    BY <1>2, <2>1 DEF ProgramInv
<1>3. ~moved => ~wild
  BY DEF ProgramInv
<1>4. QED
  BY <1>1, <1>2, <1>3 DEF NoStalePointer

\* The walks of the properties are the walk along a chain.
LEMMA WalkedIs ==
  ASSUME HandleType, NEW first, NEW nx, NEW s \in Seq(Recs(Len(arr))), Distinct(s), Chain(s, first, nx)
  PROVE  Walked(first, nx) = s /\ Len(s) <= Len(arr)
<1>1. Len(arr) \in Nat
  BY DEF HandleType
<1>2. Walked(first, nx) = ChainWalk(Len(arr), first, nx)
  BY DEF Walked, ChainWalk, ChainBody, ui2_num_total, NULL_IDX
<1>3. QED
  BY <1>1, <1>2, ChainWalkIs

\* FreeListExact: the walk over the free list finds the free records.
LEMMA FreeIs ==
  ASSUME HandleInv
  PROVE  FreeListExact
<1> USE DEF HandleInv
<1>1. PICK s : FreeListIs(s)
  BY DEF FreeListInv
<1>2. /\ s \in Seq(Recs(Len(arr))) /\ Distinct(s) /\ Len(s) = ui2_num_free
      /\ \A i \in 1 .. Len(arr) : i \in Range(s) <=> ~Active(i) /\ ~Filled(i)
      /\ Chain(s, ui2_free_handles, NextOf) /\ Len(arr) \in Nat
  BY <1>1 DEF FreeListIs, HandleType
<1>3. FreeList = s
  <2>1. PICK nx : nx = NextOf
    OBVIOUS
  <2>2. Walked(ui2_free_handles, nx) = s
    BY <1>2, <2>1, WalkedIs
  <2>3. QED
    BY <2>1, <2>2 DEF FreeList, NextOf
<1>4. Cardinality({s[k] : k \in DOMAIN s}) = Len(s)
  BY <1>2, DistinctFits
<1>5. ASSUME NEW i \in 1 .. Len(arr)
      PROVE  i \in {s[k] : k \in DOMAIN s} <=> ~Active(i) /\ i \notin BeingAllocated
  <2>1. i \in {s[k] : k \in DOMAIN s} <=> ~Active(i) /\ ~Filled(i)
    BY <1>2 DEF Range
  <2>2. Filled(i) <=> i \in BeingAllocated
    <3>1. ASSUME Filled(i) PROVE i \in BeingAllocated
      <4>1. PICK t \in Threads : \E f \in Calls(t) : f.pc = "fill" /\ f.i = i
        BY <3>1 DEF Filled
      <4>2. PICK f \in Calls(t) : f.pc = "fill" /\ f.i = i
        BY <4>1
      <4>3. frames[t] # <<>>
        BY <4>2 DEF Calls, Range
      <4>4. f = Top(t)
        BY <4>2, <4>3 DEF CallsNest
      <4>5. QED
        BY <4>2, <4>3, <4>4 DEF BeingAllocated, Idle
    <3>2. ASSUME i \in BeingAllocated PROVE Filled(i)
      <4>1. PICK t \in Threads : ~Idle(t) /\ Top(t).pc = "fill" /\ i = Top(t).i
        BY <3>2 DEF BeingAllocated
      <4>2. Top(t) \in Calls(t)
        BY <4>1, TopIsCall
      <4>3. QED
        BY <4>1, <4>2 DEF Filled
    <3>3. QED
      BY <3>1, <3>2
  <2>3. QED
    BY <2>1, <2>2
<1>6. /\ Len(FreeList) = ui2_num_free
      /\ Cardinality({FreeList[k] : k \in DOMAIN FreeList}) = ui2_num_free
      /\ \A i \in 1 .. Len(arr) :
           i \in {FreeList[k] : k \in DOMAIN FreeList} <=> ~Active(i) /\ i \notin BeingAllocated
  BY <1>2, <1>3, <1>4, <1>5
<1>7. QED
  BY <1>6 DEF FreeListExact, StatisticsInv, ui2_num_total

\* AuxListsExact: the walk over a head's list finds its handles, both ways.
LEMMA AuxIs ==
  ASSUME HandleInv
  PROVE  AuxListsExact
<1> USE DEF HandleInv
<1> SUFFICES ASSUME NEW i \in 1 .. Len(arr), Active(i)
             PROVE  /\ arr[i].auxhead # 0 => Active(arr[i].auxhead) /\ arr[arr[i].auxhead].e_type = "head"
                    /\ arr[i].e_type = "head" =>
                         /\ {AuxList(i)[k] : k \in DOMAIN AuxList(i)} =
                               {j \in 1 .. Len(arr) : Active(j) /\ arr[j].auxhead = i}
                         /\ Len(AuxList(i)) = handle_num_aux_links(i)
                         /\ \A k \in DOMAIN AuxList(i) :
                              arr[AuxList(i)[k]].auxprev = IF k = 1 THEN 0 ELSE AuxList(i)[k - 1]
  BY DEF AuxListsExact, ui2_num_total, NULL_IDX
<1>1. arr[i].auxhead # 0 => Active(arr[i].auxhead) /\ arr[arr[i].auxhead].e_type = "head"
  BY DEF AuxInv
<1>2. ASSUME arr[i].e_type = "head"
      PROVE  /\ {AuxList(i)[k] : k \in DOMAIN AuxList(i)} =
                   {j \in 1 .. Len(arr) : Active(j) /\ arr[j].auxhead = i}
             /\ Len(AuxList(i)) = handle_num_aux_links(i)
             /\ \A k \in DOMAIN AuxList(i) :
                  arr[AuxList(i)[k]].auxprev = IF k = 1 THEN 0 ELSE AuxList(i)[k - 1]
  <2>1. PICK s : AuxListIs(i, s)
    BY <1>2 DEF AuxInv
  <2>2. /\ s \in Seq(Recs(Len(arr))) /\ Distinct(s) /\ Len(s) = arr[i].auxcount /\ Len(arr) \in Nat
        /\ \A j \in 1 .. Len(arr) : j \in Range(s) <=> arr[j].auxhead = i
        /\ Chain(s, arr[i].auxnext, AuxNextOf) /\ BackChain(s, AuxPrevOf)
    BY <2>1 DEF AuxListIs, HandleType
  <2>3. \A x \in Range(s) : x \in 1 .. Len(arr) /\ Active(x)
    BY <2>1, AuxMembers
  <2>4. \A j \in 1 .. Len(arr) : Active(j) => u_handle_next_aux_linked(make_handle(arr, j)) = arr[j].auxnext
    <3>1. ASSUME NEW j \in 1 .. Len(arr), Active(j)
          PROVE  get_h_ctrl_from_handle(make_handle(arr, j)) = j
      BY <3>1 DEF get_h_ctrl_from_handle, make_handle, ui2_num_total
    <3>2. QED
      BY <3>1 DEF u_handle_next_aux_linked
  <2>5. PICK nx, nx2, pv :
          /\ nx = AuxNextOf /\ pv = AuxPrevOf
          /\ nx2 = [j \in DOMAIN arr |-> u_handle_next_aux_linked(make_handle(arr, j))]
    OBVIOUS
  <2>6. DOMAIN arr = 1 .. Len(arr)
    BY DEF HandleType
  <2>7. \A x \in Range(s) : nx2[x] = nx[x]
    BY <2>3, <2>4, <2>5, <2>6 DEF AuxNextOf
  <2>8. Chain(s, arr[i].auxnext, nx2)
    <3>1. /\ Len(arr) \in Nat /\ s \in Seq(Recs(Len(arr)))
          /\ Chain(s, arr[i].auxnext, nx)
      BY <2>2, <2>5
    <3>2. QED
      BY <2>7, <3>1, ChainKeeps
  <2>9. AuxList(i) = s
    <3>1. Walked(arr[i].auxnext, nx2) = s
      BY <2>2, <2>8, WalkedIs
    <3>2. u_handle_next_aux_linked(make_handle(arr, i)) = arr[i].auxnext
      BY <2>4
    <3>3. QED
      BY <2>5, <3>1, <3>2 DEF AuxList
  <2>10. {s[k] : k \in DOMAIN s} = {j \in 1 .. Len(arr) : Active(j) /\ arr[j].auxhead = i}
    <3>1. Range(s) = {j \in 1 .. Len(arr) : Active(j) /\ arr[j].auxhead = i}
      BY <2>2, <2>3
    <3>2. QED
      BY <3>1 DEF Range
  <2>11. ASSUME NEW k \in DOMAIN s PROVE arr[s[k]].auxprev = IF k = 1 THEN 0 ELSE s[k - 1]
    <3>1. k \in 1 .. Len(s) /\ Len(s) \in Nat /\ s[k] \in 1 .. Len(arr)
      BY <2>2 DEF Recs
    <3>2. pv[s[k]] = Nth(s, k - 1)
      BY <2>2, <2>5, <3>1 DEF BackChain
    <3>3. pv[s[k]] = arr[s[k]].auxprev
      BY <2>5, <2>6, <3>1 DEF AuxPrevOf
    <3>4. Nth(s, k - 1) = IF k = 1 THEN 0 ELSE s[k - 1]
      BY <3>1 DEF Nth
    <3>5. QED
      BY <3>2, <3>3, <3>4
  <2>12. QED
    BY <2>2, <2>9, <2>10, <2>11 DEF handle_num_aux_links
<1>3. QED
  BY <1>1, <1>2

-----------------------------------------------------------------------------
\* The handle library: a handle leads to its own object only, the free list and the
\* auxiliary lists are exact, a handle is freed once, no ABORT is reached unless a
\* count came round, and no call has an old address of the array unless that moved
\* under a call in progress; all of it up to the first use of such an address.
THEOREM HandlesAre == Spec => []HandlesExact
<1>1. Init => HandleInv
  BY HandleStarts
<1>2. HandleInv /\ [Next]_vars => HandleInv'
  BY HandleStep
<1>3. HandleInv => HandlesExact
  BY TypesHold, IdentityIs, FreeIs, FreedIs, AuxIs, AbortIs DEF HandlesExact
<1>4. QED
  BY <1>1, <1>2, <1>3, PTL DEF Spec
=============================================================================
