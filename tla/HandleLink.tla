----------------------------- MODULE HandleLink -----------------------------
(***************************************************************************)
(* The link structures of the handle library (mw/handle.c): a data object  *)
(* keeps its handles on a doubly linked list that u_handle_link,           *)
(* u_handle_delink, handle_parse, u_handle_free and u_handle_free_all      *)
(* change, and that callbacks change while handle_parse or                 *)
(* u_handle_free_all walk it.  The list is the object's own: one thread    *)
(* uses it, and what the library does between two callbacks is one action. *)
(***************************************************************************)
EXTENDS Integers, Sequences, FiniteSets

CONSTANTS N,          \* number of handles; index 0 is NULL_IDX
          MaxDepth,   \* bound on the nesting of callbacks
          MaxSteps    \* bound on the calls made by the program and its callbacks

VARIABLES ctrl,       \* the control records
          pt_h_link,  \* the H_LINK_T
          stack,      \* calls whose callback is running, innermost first
          steps,      \* calls made so far
          aborted     \* an ABORT was reached

LinkAssumption == N \in Nat

lvars == <<ctrl, pt_h_link, stack, steps, aborted>>

Idx == 1..N

\* handle_link_init; the handles are allocated and not linked.
LInit ==
    /\ ctrl = [i \in Idx |-> [next |-> 0, prev |-> 0, flags |-> {"ACTIVE"}]]
    /\ pt_h_link = [head |-> 0, tail |-> 0, count |-> 0, flags |-> {}]
    /\ stack = <<>> /\ steps = 0 /\ aborted = FALSE

Has(i, f) == f \in ctrl[i].flags
handle_num_links == pt_h_link.count

\* The program, or the callback that is running, may make another call.
Calling == ~aborted /\ steps < MaxSteps /\ (IF stack = <<>> THEN TRUE ELSE Head(stack).pc = "callback")
Nesting == Calling /\ Len(stack) < MaxDepth
Count == steps' = steps + 1

-----------------------------------------------------------------------------
\* u_handle_link: the handle becomes the last one.
u_handle_link(i) ==
    /\ Calling /\ Has(i, "ACTIVE") /\ ~Has(i, "LINKED")
    /\ LET last == pt_h_link.tail
       IN /\ ctrl' = [j \in Idx |->
                 IF j = i THEN [next |-> 0, prev |-> last, flags |-> ctrl[i].flags \cup {"LINKED"}]
                 ELSE IF j = last THEN [ctrl[j] EXCEPT !.next = i] ELSE ctrl[j]]
          /\ pt_h_link' = [pt_h_link EXCEPT !.head = IF last = 0 THEN i ELSE @, !.tail = i,
                                            !.count = @ + 1]
    /\ Count /\ UNCHANGED <<stack, aborted>>

\* Mutant of MayDelink: a callback of handle_parse may delink any handle.
MayDelinkAny(i) == TRUE

\* While the list is parsed only the handle being parsed may leave it.
MayDelink(i) == "PARSING" \in pt_h_link.flags => Has(i, "PARSING")

\* The tail of the list after handle i left it.
Tail1(i) == IF ctrl[i].next = 0 THEN ctrl[i].prev ELSE pt_h_link.tail

\* u_handle_delink.
u_handle_delink(i) ==
    /\ Calling /\ Has(i, "ACTIVE") /\ Has(i, "LINKED") /\ MayDelink(i)
    /\ LET nx == ctrl[i].next
           pv == ctrl[i].prev
       IN /\ ctrl' = [j \in Idx |->
                 IF j = i THEN [next |-> 0, prev |-> 0, flags |-> ctrl[i].flags \ {"LINKED"}]
                 ELSE [ctrl[j] EXCEPT !.prev = IF j = nx THEN pv ELSE @,
                                      !.next = IF j = pv THEN nx ELSE @]]
          /\ pt_h_link' = [pt_h_link EXCEPT !.tail = Tail1(i), !.head = IF pv = 0 THEN nx ELSE @,
                                            !.count = IF @ > 0 THEN @ - 1 ELSE 0]
    /\ stack' = [k \in DOMAIN stack |-> [stack[k] EXCEPT !.stay = @ \ {i}]]
    /\ Count /\ UNCHANGED aborted

-----------------------------------------------------------------------------
(* handle_parse                                                            *)

\* The frame of a parse whose callback is called for record i: the next record
\* and the number of links are remembered.  seen and stay are history: the
\* records visited, and those that were linked all the time.
Visit(i, seen, stay) ==
    [op |-> "parse", pc |-> "callback", i |-> i, nxt |-> ctrl[i].next, cnt |-> handle_num_links,
     seen |-> Append(seen, i), stay |-> stay]

Linked == {i \in Idx : Has(i, "LINKED")}

\* handle_parse up to its first callback.
ParseStart ==
    /\ Nesting /\ "PARSING" \notin pt_h_link.flags
    /\ pt_h_link.head # 0
    /\ pt_h_link' = [pt_h_link EXCEPT !.flags = @ \cup {"PARSING"}]
    /\ stack' = <<Visit(pt_h_link.head, <<>>, Linked)>> \o stack
    /\ ctrl' = [ctrl EXCEPT ![pt_h_link.head].flags = @ \cup {"PARSING"}]
    /\ Count /\ UNCHANGED aborted

\* The record to visit after a callback returned HP_NEXT; the number of links
\* may have shrunk by one at most.
ParseNext(f) ==
    /\ aborted' = (f.cnt - handle_num_links > 1)
    /\ IF f.nxt # 0 /\ ~aborted'
       THEN /\ stack' = <<Visit(f.nxt, f.seen, f.stay)>> \o Tail(stack)
            /\ ctrl' = [ctrl EXCEPT ![f.i].flags = @ \ {"PARSING"}, ![f.nxt].flags = @ \cup {"PARSING"}]
            /\ UNCHANGED pt_h_link
       ELSE /\ stack' = <<[f EXCEPT !.pc = "done"]>> \o Tail(stack)
            /\ ctrl' = [ctrl EXCEPT ![f.i].flags = @ \ {"PARSING"}]
            /\ pt_h_link' = [pt_h_link EXCEPT !.flags = @ \ {"PARSING"}]

\* HP_BREAK, or HP_RESTART on a list that became empty.
ParseStop(f) ==
    /\ ctrl' = [ctrl EXCEPT ![f.i].flags = @ \ {"PARSING"}]
    /\ pt_h_link' = [pt_h_link EXCEPT !.flags = @ \ {"PARSING"}]
    /\ stack' = Tail(stack) /\ UNCHANGED aborted

ParseRestart(f) ==
    LET hd == pt_h_link.head
    IN /\ hd # 0
       /\ ctrl' = [j \in Idx |-> [ctrl[j] EXCEPT !.flags = IF j = hd THEN @ \cup {"PARSING"}
                                                     ELSE IF j = f.i THEN @ \ {"PARSING"} ELSE @]]
       /\ stack' = <<Visit(hd, <<>>, Linked)>> \o Tail(stack)
       /\ UNCHANGED <<pt_h_link, aborted>>

\* The parse callback returns.
ParseReturn ==
    /\ stack # <<>> /\ ~aborted
    /\ Head(stack).op = "parse" /\ Head(stack).pc = "callback"
    /\ LET f == Head(stack)
       IN \/ ParseNext(f)
          \/ ParseStop(f)
          \/ steps < MaxSteps /\ ParseRestart(f)
    /\ UNCHANGED steps

\* handle_parse returns.
ParseEnd ==
    /\ stack # <<>> /\ Head(stack).pc = "done"
    /\ stack' = Tail(stack)
    /\ UNCHANGED <<ctrl, pt_h_link, steps, aborted>>

-----------------------------------------------------------------------------
(* u_handle_free and u_handle_free_all                                     *)

\* The free callback of record i is called; all tells a call of u_handle_free_all.
FreeCall(i, all, rest) ==
    /\ ctrl' = [ctrl EXCEPT ![i].flags = @ \cup {"FREEING"}]
    /\ stack' = <<[op |-> "free", pc |-> "callback", i |-> i, all |-> all, stay |-> {}]>> \o rest

u_handle_free(i) ==
    /\ Nesting /\ Has(i, "ACTIVE") /\ ~Has(i, "FREEING")
    /\ FreeCall(i, FALSE, stack)
    /\ Count /\ UNCHANGED <<pt_h_link, aborted>>

\* u_handle_free_all, to its first callback.
FreeAllStart ==
    /\ Nesting /\ pt_h_link.flags = {} /\ pt_h_link.head # 0
    /\ ~Has(pt_h_link.head, "FREEING")
    /\ pt_h_link' = [pt_h_link EXCEPT !.flags = {"FREE_ALL"}]
    /\ FreeCall(pt_h_link.head, TRUE, stack)
    /\ Count /\ UNCHANGED aborted

\* The free callback refused: FREEING is cleared; u_handle_free_all gives up.
FreeRefused ==
    /\ stack # <<>> /\ ~aborted
    /\ Head(stack).op = "free" /\ Head(stack).pc = "callback"
    /\ LET f == Head(stack)
       IN /\ ctrl' = [ctrl EXCEPT ![f.i].flags = @ \ {"FREEING"}]
          /\ pt_h_link' = IF f.all THEN [pt_h_link EXCEPT !.flags = @ \ {"FREE_ALL"}] ELSE pt_h_link
          /\ stack' = Tail(stack)
    /\ UNCHANGED <<steps, aborted>>

\* The free callback allowed it.  A callback has delinked its handle, and it
\* cannot when another handle is being parsed.  The handle becomes invalid;
\* u_handle_free_all goes on with the first handle of the list.
FreeAllowed ==
    /\ stack # <<>> /\ ~aborted
    /\ Head(stack).op = "free" /\ Head(stack).pc = "callback"
    /\ ~Has(Head(stack).i, "LINKED")
    /\ LET f == Head(stack)
           c == [ctrl EXCEPT ![f.i].flags = @ \ {"ACTIVE"}, ![f.i].next = 0, ![f.i].prev = 0]
           hd == pt_h_link.head
           more == f.all /\ hd # 0 /\ ~Has(hd, "FREEING")
       IN /\ IF more
             THEN /\ ctrl' = [c EXCEPT ![hd].flags = @ \cup {"FREEING"}]
                  /\ stack' = <<[f EXCEPT !.i = hd]>> \o Tail(stack)
             ELSE ctrl' = c /\ stack' = Tail(stack)
          /\ pt_h_link' = IF f.all /\ ~more THEN [pt_h_link EXCEPT !.flags = @ \ {"FREE_ALL"}]
                          ELSE pt_h_link
    /\ UNCHANGED <<steps, aborted>>

\* u_handle_alloc gives a freed record out again.
Realloc(i) ==
    /\ Calling /\ ~Has(i, "ACTIVE")
    /\ ctrl' = [ctrl EXCEPT ![i] = [next |-> 0, prev |-> 0, flags |-> {"ACTIVE"}]]
    /\ Count /\ UNCHANGED <<pt_h_link, stack, aborted>>

LNext ==
    \/ \E i \in Idx : u_handle_link(i) \/ u_handle_delink(i) \/ u_handle_free(i) \/ Realloc(i)
    \/ ParseStart \/ ParseReturn \/ ParseEnd
    \/ FreeAllStart \/ FreeRefused \/ FreeAllowed

LSpec == LInit /\ [][LNext]_lvars

-----------------------------------------------------------------------------
\* The records of the list from the head, at most N of them.
Walk ==
    LET w[n \in 0..N] ==
            IF n = 0 THEN <<>>
            ELSE LET nx == IF n = 1 THEN pt_h_link.head
                           ELSE IF Len(w[n - 1]) < n - 1 THEN 0 ELSE ctrl[w[n - 1][n - 1]].next
                 IN IF nx = 0 THEN w[n - 1] ELSE Append(w[n - 1], nx)
    IN w[N]

\* Whatever the callbacks do, the list is a doubly linked list of exactly the
\* handles flagged H_CTRL_FLAG_LINKED, all of them alive, and head, tail and
\* ui2_h_count agree with it.
ListExact ==
    LET w == Walk
    IN /\ {w[k] : k \in DOMAIN w} = Linked /\ Len(w) = handle_num_links
       /\ \A k \in DOMAIN w : /\ ctrl[w[k]].prev = IF k = 1 THEN 0 ELSE w[k - 1]
                              /\ Has(w[k], "ACTIVE")
       /\ pt_h_link.tail = IF w = <<>> THEN 0 ELSE w[Len(w)]

\* The next record handle_parse remembered is still on the list when the
\* callback returns, and so the ABORT of handle_parse is not reached.
NextStaysLinked ==
    /\ ~aborted
    /\ \A k \in DOMAIN stack :
          stack[k].op = "parse" /\ stack[k].pc = "callback" /\ stack[k].nxt # 0
              => Has(stack[k].nxt, "LINKED")

\* A parse that runs to its end has visited every handle that was on the list
\* from its start to its end, once and in order.
ParseVisitsAll ==
    \A k \in DOMAIN stack :
        stack[k].pc = "done" =>
            \A i \in stack[k].stay :
                Cardinality({n \in DOMAIN stack[k].seen : stack[k].seen[n] = i}) = 1
=============================================================================
