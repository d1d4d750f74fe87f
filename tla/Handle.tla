------------------------------- MODULE Handle -------------------------------
(***************************************************************************)
(* The handle library (mw/handle.c) without its link structures: the array *)
(* of handle control records, its free list, its growth, the allocation    *)
(* and the freeing of handles with their callbacks, and the auxiliary      *)
(* lists.  A stretch between u_crit_start and u_crit_end is one action,    *)
(* what the code does after u_crit_end is another.                         *)
(*                                                                         *)
(* A handle is an index and the reuse count of its record.  The record's   *)
(* object is the number of its allocation; u_handle_set_obj replaces it by *)
(* the negative number.                                                    *)
(*                                                                         *)
(* u_handle_alloc and u_handle_free go on with the address of their record *)
(* after they left the critical section, while another thread or their own *)
(* callback may make the array grow, and realloc may move it.  What they   *)
(* read or write then is no longer the array, and is not followed.         *)
(***************************************************************************)
EXTENDS Integers, Sequences, FiniteSets

CONSTANTS Threads,    \* the threads that may call the library
          Setups,     \* the programs: [threads, total, live, ops]
          CountMod,   \* ui1_count is a number below this (2^8 in the code)
          LowWater,   \* the array grows when so few records are free (10)
          AddNum,     \* by so many records (HANDLE_REALLOC_NUM, 1000)
          MaxAllocs,  \* bound on the number of allocations
          MaxDepth    \* bound on the calls nested in free callbacks

\* A program with several threads keeps to what the library allows them: a head
\* that handles are linked to is not freed beside, and a handle that is freed
\* beside is not autofreed.
OneThread(s) == \E t \in Threads : s.threads = {t}
Disciplined(s) == ~({"aux", "freehead"} \subseteq s.ops) /\ "autofree" \notin s.ops

ASSUME HandleAssumption ==
    /\ CountMod \in Nat \ {0} /\ LowWater \in Nat /\ AddNum \in Nat \ {0}
    /\ MaxAllocs \in Nat /\ MaxDepth \in Nat
    /\ \A s \in Setups : /\ s.total \in Nat \ {0} /\ s.live \in Nat
                         /\ OneThread(s) \/ Disciplined(s)

VARIABLES setup,      \* the program that runs, one of Setups
          arr,        \* pt_h_ctrl_arr [1..ui2_num_total]
          mem,        \* which block of memory pt_h_ctrl_arr points to
          ui2_free_handles, ui2_num_free, ui2_num_peak_used,
          ui2_num_used_per_grp,
          frames,     \* for each thread its calls in progress, innermost first
          issued,     \* the handles returned to callers
          allocs,     \* number of allocations so far
          freed,      \* per allocation, how often its free callback said TRUE
          moved,      \* realloc moved the array under a call in progress
          wild,       \* such a call used the old address
          aborted     \* an ABORT was reached

vars == <<setup, arr, mem, ui2_free_handles, ui2_num_free, ui2_num_peak_used,
          ui2_num_used_per_grp, frames, issued, allocs, freed, moved, wild, aborted>>

NULL_IDX == 0
Types == {"head", "user"}          \* HT_AUX_LINK_HEAD, any other type
ui2_num_total == Len(arr)

\* A control record as realloc_handle_init and handle_init leave it.
FreshCtrl(next) ==
    [obj |-> 0, e_type |-> "none", count |-> 0, flags |-> {}, next |-> next,
     auxnext |-> NULL_IDX, auxprev |-> NULL_IDX, auxhead |-> NULL_IDX, auxcount |-> 0]

\* handle_init: every record is free, the last one is the first of the list.
Init ==
    /\ setup \in Setups
    /\ arr = [i \in 1..setup.total |-> FreshCtrl(i - 1)]
    /\ mem = 0
    /\ ui2_free_handles = setup.total
    /\ ui2_num_free = setup.total
    /\ ui2_num_peak_used = 0
    /\ ui2_num_used_per_grp = [e \in Types |-> 0]
    /\ frames = [t \in Threads |-> <<>>]
    /\ issued = {} /\ allocs = 0
    /\ freed = [n \in 1..MaxAllocs |-> 0]
    /\ moved = FALSE /\ wild = FALSE /\ aborted = FALSE

-----------------------------------------------------------------------------
\* ui1_count++.
NextCount(c) == (c + 1) % CountMod

make_handle(a, i) == [i |-> i, count |-> a[i].count]

Active(i) == "ACTIVE" \in arr[i].flags

\* The number of the allocation whose object a record has.
ObjectOf(i) == IF arr[i].obj > 0 THEN arr[i].obj ELSE -arr[i].obj

\* The record a handle leads to, NULL_IDX if the handle is not valid.
get_h_ctrl_from_handle(h) ==
    IF h.i \in 1..ui2_num_total /\ arr[h.i].count = h.count /\ Active(h.i)
    THEN h.i ELSE NULL_IDX

handle_get_obj(h) == arr[get_h_ctrl_from_handle(h)].obj

u_handle_get_type_obj(h) ==
    [e_type |-> arr[get_h_ctrl_from_handle(h)].e_type, obj |-> handle_get_obj(h)]

Valid(h) == get_h_ctrl_from_handle(h) # NULL_IDX

Top(t) == Head(frames[t])
Push(t, f) == frames' = [frames EXCEPT ![t] = <<f>> \o @]
Replace(t, f) == frames' = [frames EXCEPT ![t] = <<f>> \o Tail(@)]
Pop(t) == frames' = [frames EXCEPT ![t] = Tail(@)]

\* A thread calls the library when it is not in it, or from a free callback of
\* an object of its own.
Idle(t) == frames[t] = <<>>
InCallback(t) ==
    /\ frames[t] # <<>> /\ Top(t).pc = "callback" /\ Top(t).e_type = "user"
    /\ Len(frames[t]) < MaxDepth /\ "nested" \in setup.ops
CanCall(t) == t \in setup.threads /\ (Idle(t) \/ InCallback(t))

-----------------------------------------------------------------------------
(* Allocation                                                              *)

\* realloc_handle, realloc_handle_init: new records are pushed on the free
\* list one after the other; realloc may move the array.
Grown(a, first) ==
    [i \in 1..(Len(a) + AddNum) |->
        IF i <= Len(a) THEN a[i] ELSE FreshCtrl(IF i = Len(a) + 1 THEN first ELSE i - 1)]

realloc_handle(first) ==
    /\ arr' = Grown(arr, first)
    /\ mem' \in {mem, mem + 1}
    /\ ui2_free_handles' = Len(arr) + AddNum
    /\ ui2_num_free' = (ui2_num_free - 1) + AddNum

\* Mutant of AddressTaken: the pointer is not taken again after the array grew.
AddressTakenBefore == mem

\* The block the pointer to the new record points into (it is taken again
\* after realloc_handle).
AddressTaken == mem'

\* u_handle_alloc up to u_crit_end: the first free record leaves the list.
AllocTake(t, e_type) ==
    /\ CanCall(t)
    /\ allocs < MaxAllocs /\ ui2_num_total - ui2_num_free < setup.live
    /\ e_type = "head" => "heads" \in setup.ops
    /\ ui2_free_handles # NULL_IDX
    /\ LET i == ui2_free_handles
       IN /\ IF ui2_num_free - 1 <= LowWater
             THEN realloc_handle(arr[i].next)
             ELSE /\ ui2_free_handles' = arr[i].next
                  /\ ui2_num_free' = ui2_num_free - 1
                  /\ UNCHANGED <<arr, mem>>
          /\ Push(t, [pc |-> "fill", i |-> i, mem |-> AddressTaken, e_type |-> e_type, obj |-> allocs + 1])
    /\ ui2_num_used_per_grp' = [ui2_num_used_per_grp EXCEPT ![e_type] = @ + 1]
    /\ LET inuse == Len(arr') - ui2_num_free'
       IN ui2_num_peak_used' = IF inuse > ui2_num_peak_used THEN inuse ELSE ui2_num_peak_used
    /\ allocs' = allocs + 1
    /\ moved' = (moved \/ (mem' # mem /\ \E u \in Threads : ~Idle(u)))
    /\ UNCHANGED <<setup, issued, freed, wild, aborted>>

\* u_handle_alloc after u_crit_end: the record is filled and the handle is made.
AllocFill(t) ==
    /\ ~Idle(t) /\ Top(t).pc = "fill" /\ Top(t).mem = mem
    /\ LET i == Top(t).i
           c == [arr[i] EXCEPT !.obj = Top(t).obj, !.e_type = Top(t).e_type,
                    !.next = NULL_IDX, !.auxnext = NULL_IDX, !.auxprev = NULL_IDX,
                    !.auxhead = NULL_IDX, !.auxcount = 0, !.flags = {"ACTIVE"},
                    !.count = NextCount(@)]
       IN /\ arr' = [arr EXCEPT ![i] = c]
          /\ IF Top(t).e_type = "head"
             THEN Replace(t, [pc |-> "tag", h |-> make_handle(arr', i), mem |-> mem,
                              obj |-> Top(t).obj]) /\ UNCHANGED issued
             ELSE /\ Pop(t)
                  /\ issued' = issued \cup {[h |-> make_handle(arr', i), n |-> Top(t).obj]}
    /\ UNCHANGED <<setup, mem, ui2_free_handles, ui2_num_free, ui2_num_peak_used,
                   ui2_num_used_per_grp, allocs, freed, moved, wild, aborted>>

\* The end of u_handle_alloc_aux_link_head, which stores pf_aux_free.
AllocAuxTag(t) ==
    /\ ~Idle(t) /\ Top(t).pc = "tag"
    /\ aborted' = ~Valid(Top(t).h)
    /\ Pop(t)
    /\ issued' = issued \cup {[h |-> Top(t).h, n |-> Top(t).obj]}
    /\ UNCHANGED <<setup, arr, mem, ui2_free_handles, ui2_num_free, ui2_num_peak_used,
                   ui2_num_used_per_grp, allocs, freed, moved, wild>>

\* u_handle_set_obj.
SetObj(t, h) ==
    /\ CanCall(t) /\ "set" \in setup.ops /\ Valid(h)
    /\ arr' = [arr EXCEPT ![h.i].obj = IF @ > 0 THEN -@ ELSE @]
    /\ UNCHANGED <<setup, mem, ui2_free_handles, ui2_num_free, ui2_num_peak_used,
                   ui2_num_used_per_grp, frames, issued, allocs, freed, moved, wild, aborted>>

-----------------------------------------------------------------------------
(* Auxiliary lists                                                         *)

\* delink_from_aux on the array a: record i leaves the list of its head.
delink_from_aux(a, i) ==
    LET hd == a[i].auxhead
        nx == a[i].auxnext
        pv == a[i].auxprev
    IN [j \in DOMAIN a |->
          IF j = i
          THEN [a[i] EXCEPT !.auxnext = NULL_IDX, !.auxprev = NULL_IDX, !.auxhead = NULL_IDX]
          ELSE [a[j] EXCEPT
                  !.auxprev = IF j = nx THEN pv ELSE @,
                  !.auxnext = IF j = pv \/ (pv = NULL_IDX /\ j = hd) THEN nx ELSE @,
                  !.auxcount = IF j = hd /\ @ > 0 THEN @ - 1 ELSE @]]

\* The handle is on an auxiliary list.
handle_is_be_linked(h) == arr[get_h_ctrl_from_handle(h)].auxhead # NULL_IDX

\* u_handle_link_to_aux: the handle becomes the first of the head's list.
LinkToAux(t, h_aux_head, h) ==
    /\ CanCall(t) /\ "aux" \in setup.ops
    /\ Valid(h_aux_head) /\ arr[h_aux_head.i].e_type = "head"
    /\ Valid(h) /\ arr[h.i].e_type # "head"
    /\ ~handle_is_be_linked(h)
    /\ LET hd == h_aux_head.i
           first == arr[hd].auxnext
       IN arr' = [j \in DOMAIN arr |->
             [arr[j] EXCEPT
                !.auxprev = IF j = first THEN h.i ELSE IF j = h.i THEN NULL_IDX ELSE @,
                !.auxnext = IF j = hd THEN h.i ELSE IF j = h.i THEN first ELSE @,
                !.auxhead = IF j = h.i THEN hd ELSE @,
                !.auxcount = IF j = hd THEN @ + 1 ELSE @]]
    /\ UNCHANGED <<setup, mem, ui2_free_handles, ui2_num_free, ui2_num_peak_used,
                   ui2_num_used_per_grp, frames, issued, allocs, freed, moved, wild, aborted>>

\* u_handle_delink_from_aux.
DelinkFromAux(t, h) ==
    /\ CanCall(t)
    /\ Valid(h) /\ arr[h.i].e_type # "head"
    /\ handle_is_be_linked(h)
    /\ arr' = delink_from_aux(arr, h.i)
    /\ UNCHANGED <<setup, mem, ui2_free_handles, ui2_num_free, ui2_num_peak_used,
                   ui2_num_used_per_grp, frames, issued, allocs, freed, moved, wild, aborted>>

\* u_handle_next_aux_linked: the record of the next handle of an auxiliary list,
\* of the first one for a head, NULL_IDX for NULL_HANDLE.
u_handle_next_aux_linked(h) == arr[get_h_ctrl_from_handle(h)].auxnext

handle_num_aux_links(hd) == arr[hd].auxcount

-----------------------------------------------------------------------------
(* Freeing                                                                 *)

\* Only one call frees a handle.
MayFree(h) == Valid(h) /\ "FREEING" \notin arr[h.i].flags

\* u_handle_free up to the callback; a handle being freed is left alone.
FreeMark(t, h) ==
    /\ CanCall(t)
    /\ MayFree(h)
    /\ arr[h.i].e_type = "head" => "freehead" \in setup.ops
    /\ arr' = [arr EXCEPT ![h.i].flags = @ \cup {"FREEING"}]
    /\ Push(t, [pc |-> "marked", i |-> h.i, mem |-> mem, h |-> h, e_type |-> arr[h.i].e_type])
    /\ UNCHANGED <<setup, mem, ui2_free_handles, ui2_num_free, ui2_num_peak_used,
                   ui2_num_used_per_grp, issued, allocs, freed, moved, wild, aborted>>

\* The callback is read from the record and called ...
FreeCall(t) ==
    /\ ~Idle(t) /\ Top(t).pc = "marked" /\ Top(t).mem = mem
    /\ Replace(t, [Top(t) EXCEPT !.pc = "callback"])
    /\ UNCHANGED <<setup, arr, mem, ui2_free_handles, ui2_num_free, ui2_num_peak_used,
                   ui2_num_used_per_grp, issued, allocs, freed, moved, wild, aborted>>

\* The callback of a head allows it when the head's list is empty.
aux_link_head_free(i) == handle_num_aux_links(i) = 0

\* ... and answers.  The callback of an object may say anything.
Callback(t) ==
    /\ ~Idle(t) /\ Top(t).pc = "callback"
    /\ \E yes \in BOOLEAN :
         /\ Top(t).e_type = "head" => yes = aux_link_head_free(Top(t).i)
         /\ Replace(t, [Top(t) EXCEPT !.pc = IF yes THEN "finish" ELSE "refused"])
         /\ freed' = IF yes THEN [freed EXCEPT ![ObjectOf(Top(t).i)] = @ + 1] ELSE freed
    /\ aborted' = (Top(t).e_type = "head" /\ ~Valid(Top(t).h))
    /\ UNCHANGED <<setup, arr, mem, ui2_free_handles, ui2_num_free, ui2_num_peak_used,
                   ui2_num_used_per_grp, issued, allocs, moved, wild>>

\* The callback allowed it: the record leaves its auxiliary list, its handles
\* become invalid and it becomes the first free one.
FreeFinish(t) ==
    /\ ~Idle(t) /\ Top(t).pc = "finish" /\ Top(t).mem = mem
    /\ LET i == Top(t).i
           a == IF arr[i].auxhead # NULL_IDX THEN delink_from_aux(arr, i) ELSE arr
           e == arr[i].e_type
       IN /\ arr' = [a EXCEPT ![i].count = NextCount(@), ![i].flags = @ \ {"ACTIVE"},
                              ![i].next = ui2_free_handles]
          /\ ui2_free_handles' = i
          /\ ui2_num_free' = ui2_num_free + 1
          /\ ui2_num_used_per_grp' =
                [ui2_num_used_per_grp EXCEPT ![e] = IF @ > 0 THEN @ - 1 ELSE @]
    /\ Pop(t)
    /\ UNCHANGED <<setup, mem, ui2_num_peak_used, issued, allocs, freed, moved, wild, aborted>>

\* The callback refused.
FreeRefused(t) ==
    /\ ~Idle(t) /\ Top(t).pc = "refused" /\ Top(t).mem = mem
    /\ arr' = [arr EXCEPT ![Top(t).i].flags = @ \ {"FREEING"}]
    /\ Pop(t)
    /\ UNCHANGED <<setup, mem, ui2_free_handles, ui2_num_free, ui2_num_peak_used,
                   ui2_num_used_per_grp, issued, allocs, freed, moved, wild, aborted>>

\* A call that goes on with the old address reads or writes freed memory.
WritesAstray(t) ==
    /\ ~Idle(t) /\ Top(t).pc \in {"fill", "marked", "finish", "refused"} /\ Top(t).mem # mem
    /\ wild' = TRUE
    /\ UNCHANGED <<setup, arr, mem, ui2_free_handles, ui2_num_free, ui2_num_peak_used,
                   ui2_num_used_per_grp, frames, issued, allocs, freed, moved, aborted>>

\* u_handle_autofree: the type is looked up, then the function registered for
\* it frees the handle; anything but success of that is an ABORT.  Its caller,
\* the callback aee_free_handle, gives it no handle that is being freed.
Autofree(t, h) ==
    /\ CanCall(t) /\ "autofree" \in setup.ops
    /\ MayFree(h) /\ u_handle_get_type_obj(h).e_type = "user"
    /\ Push(t, [pc |-> "autofree", h |-> h, mem |-> mem])
    /\ UNCHANGED <<setup, arr, mem, ui2_free_handles, ui2_num_free, ui2_num_peak_used,
                   ui2_num_used_per_grp, issued, allocs, freed, moved, wild, aborted>>

AutofreeCall(t) ==
    /\ ~Idle(t) /\ Top(t).pc = "autofree"
    /\ LET h == Top(t).h
           ok == MayFree(h)
       IN /\ aborted' = ~ok
          /\ IF ok
             THEN /\ arr' = [arr EXCEPT ![h.i].flags = @ \cup {"FREEING"}]
                  /\ freed' = [freed EXCEPT ![ObjectOf(h.i)] = @ + 1]
                  /\ Replace(t, [pc |-> "finish", i |-> h.i, mem |-> mem, h |-> h, e_type |-> "user"])
             ELSE UNCHANGED <<arr, freed, frames>>
    /\ UNCHANGED <<setup, mem, ui2_free_handles, ui2_num_free, ui2_num_peak_used,
                   ui2_num_used_per_grp, issued, allocs, moved, wild>>

Handles == {r.h : r \in issued}

\* An ABORT ends the process; what a wild write does is not known.
Next ==
    /\ ~aborted /\ ~wild
    /\ \E t \in Threads :
        \/ \E e \in Types : AllocTake(t, e)
        \/ AllocFill(t)
        \/ AllocAuxTag(t)
        \/ \E h \in Handles : \/ SetObj(t, h) \/ FreeMark(t, h)
                              \/ DelinkFromAux(t, h) \/ Autofree(t, h)
        \/ \E hd \in Handles, h \in Handles : LinkToAux(t, hd, h)
        \/ FreeCall(t) \/ Callback(t) \/ FreeFinish(t) \/ FreeRefused(t)
        \/ AutofreeCall(t) \/ WritesAstray(t)

Spec == Init /\ [][Next]_vars

-----------------------------------------------------------------------------
(* Properties                                                              *)

Ctrl == [obj : -MaxAllocs..MaxAllocs, e_type : Types \cup {"none"}, count : 0..(CountMod - 1),
         flags : SUBSET {"ACTIVE", "FREEING"}, next : 0..ui2_num_total,
         auxnext : 0..ui2_num_total, auxprev : 0..ui2_num_total,
         auxhead : 0..ui2_num_total, auxcount : 0..ui2_num_total]

\* Types: indices stay inside the array, counts inside their width.
TypeOK ==
    /\ \A i \in 1..ui2_num_total : arr[i] \in Ctrl
    /\ ui2_free_handles \in 0..ui2_num_total
    /\ ui2_num_free \in 0..ui2_num_total
    /\ ui2_num_peak_used \in 0..ui2_num_total
    /\ allocs \in 0..MaxAllocs /\ {moved, wild, aborted} \subseteq BOOLEAN

\* How often the record of an issued handle was allocated since.
Reuses(r) ==
    Cardinality({q \in issued : q.h.i = r.h.i /\ q.n > r.n})
        + Cardinality({t \in Threads : ~Idle(t) /\ Top(t).pc = "tag" /\ Top(t).h.i = r.h.i})

\* A valid handle leads to the object it was issued for, unless its record was
\* reused CountMod / 2 times since (the reuse count of u_handle_alloc and
\* u_handle_free wraps): an old handle never reaches a newer object.
HandleIdentity ==
    \A r \in issued :
        Valid(r.h) /\ Reuses(r) < CountMod \div 2
        => handle_get_obj(r.h) \in {r.n, -r.n}

\* The records from the first one on, each followed by its next one.
Walked(first, next) ==
    LET w[n \in 0..ui2_num_total] ==
            IF n = 0 THEN <<>>
            ELSE LET nx == IF n = 1 THEN first
                           ELSE IF Len(w[n - 1]) < n - 1 THEN NULL_IDX ELSE next[w[n - 1][n - 1]]
                 IN IF nx = NULL_IDX THEN w[n - 1] ELSE Append(w[n - 1], nx)
    IN w[ui2_num_total]

\* The free list, and the records taken from it by an unfinished u_handle_alloc.
FreeList == Walked(ui2_free_handles, [i \in DOMAIN arr |-> arr[i].next])

BeingAllocated == {Top(t).i : t \in {u \in Threads : ~Idle(u) /\ Top(u).pc = "fill"}}

\* The handles of a head's list as aee_free_handle walks them.
AuxList(hd) ==
    Walked(u_handle_next_aux_linked(make_handle(arr, hd)),
           [i \in DOMAIN arr |-> u_handle_next_aux_linked(make_handle(arr, i))])

\* A record is never lost and never handed out twice: the free list holds
\* exactly the records that are not in use, as many as ui2_num_free says, and
\* the statistics of u_handle_alloc and u_handle_free agree with it.
FreeListExact ==
    /\ LET fl == FreeList
           records == {fl[k] : k \in DOMAIN fl}
       IN /\ Len(fl) = ui2_num_free /\ Cardinality(records) = ui2_num_free
          /\ \A i \in 1..ui2_num_total :
                i \in records <=> ~Active(i) /\ i \notin BeingAllocated
    /\ ui2_num_used_per_grp["head"] + ui2_num_used_per_grp["user"] = ui2_num_total - ui2_num_free
    /\ ui2_num_peak_used >= ui2_num_total - ui2_num_free

\* The callback of an object says yes at most once, and a handle that can
\* still be freed has an object that was not released (the flag
\* H_CTRL_FLAG_FREEING of u_handle_free).
FreedOnce ==
    /\ \A n \in DOMAIN freed : freed[n] <= 1
    /\ \A i \in 1..ui2_num_total :
          arr[i].flags = {"ACTIVE"} => freed[ObjectOf(i)] = 0

\* Every auxiliary list is a proper doubly linked list of exactly the handles
\* that name its head, the head is alive, and its count is right.
AuxListsExact ==
    \A i \in 1..ui2_num_total : Active(i) =>
        /\ arr[i].auxhead # NULL_IDX =>
              /\ Active(arr[i].auxhead)
              /\ arr[arr[i].auxhead].e_type = "head"
        /\ arr[i].e_type = "head" =>
              LET l == AuxList(i)
              IN /\ {l[k] : k \in DOMAIN l} =
                      {j \in 1..ui2_num_total : Active(j) /\ arr[j].auxhead = i}
                 /\ Len(l) = handle_num_aux_links(i)
                 /\ \A k \in DOMAIN l : arr[l[k]].auxprev = IF k = 1 THEN NULL_IDX ELSE l[k - 1]

\* No ABORT of the library is reached as long as no reuse count wrapped.
NoAbort == aborted => \E r \in issued : Reuses(r) >= CountMod \div 2

\* A call uses the old address of the array only if realloc moved it while that
\* call had left the critical section, not in the call that makes it grow.
NoStalePointer ==
    ~moved => /\ ~wild
              /\ \A t \in Threads : \A k \in DOMAIN frames[t] : frames[t][k].mem = mem

\* A handle in use finds its own object and no other's, the free list is exact
\* while the array grows, a handle is freed once though callbacks call back in,
\* the auxiliary lists are exact, no ABORT is reached before a reuse count came
\* round, and no record is written through the address of the array before it moved
\* unless it moved under a call in progress; all of it holds up to that write.
HandlesExact == /\ TypeOK /\ HandleIdentity /\ FreeListExact /\ FreedOnce
                /\ AuxListsExact /\ NoAbort /\ NoStalePointer
=============================================================================
