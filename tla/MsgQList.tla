------------------------------ MODULE MsgQList ------------------------------
(***************************************************************************)
(* The list of message queues in mw/os_pthread/os_pthread_msg_q.c.         *)
(* x_msg_q_create puts a queue under its name into a circular doubly       *)
(* linked list, x_msg_q_attach finds it and counts another user,           *)
(* x_msg_q_delete takes a user off and after the last one removes and      *)
(* frees the queue.  s_msg_q_list_mutex is held for the list, not for the  *)
(* freeing.  A user sends and receives as long as it has a reference and   *)
(* gives it back once.                                                     *)
(***************************************************************************)
EXTENDS Integers, FiniteSets

CONSTANTS Users,       \* threads
          Names,       \* names, equal up to MSGQ_NAME_LEN characters
          MaxQueues    \* bound on the queues ever allocated

QueueAssumption == IsFiniteSet(Users) /\ MaxQueues \in Nat

VARIABLES queue,       \* the objects: name, i2_refcount, previous, next, state
          s_msg_q_list,\* head of the list
          user,        \* what a thread is doing, and with which queue
          refs,        \* the queues a thread has a reference to
          wild         \* a freed queue was read or written

qvars == <<queue, s_msg_q_list, user, refs, wild>>

Queues == 1..MaxQueues
NULL == 0
None == [name |-> "none", i2_refcount |-> 0, previous |-> NULL, next |-> NULL, state |-> "none"]
Resting == [at |-> "idle", q |-> NULL]

\* msg_q_init.
QInit == /\ queue = [q \in Queues |-> None] /\ s_msg_q_list = NULL
         /\ user = [u \in Users |-> Resting] /\ refs = [u \in Users |-> {}]
         /\ wild = FALSE

Freed(q) == q # NULL /\ queue[q].state = "freed"

\* What the list holds: the queues that one comes to from the head along next.
AlongNext(S) == s_msg_q_list \in S /\ \A q \in S : queue[q].next \in S \union {NULL}
InList == IF s_msg_q_list = NULL THEN {}
          ELSE {q \in Queues : \A S \in SUBSET Queues : AlongNext(S) => q \in S}

-----------------------------------------------------------------------------
\* In front of the head is the end of the list.
msg_q_list_add(qs, q) ==
    IF s_msg_q_list = NULL THEN [qs EXCEPT ![q].previous = q, ![q].next = q]
    ELSE LET last == qs[s_msg_q_list].previous
             one  == [qs EXCEPT ![q].previous = last, ![q].next = s_msg_q_list]
             two  == [one EXCEPT ![last].next = q]
         IN  [two EXCEPT ![s_msg_q_list].previous = q]

msg_q_list_remove(qs, q) ==
    IF qs[q].previous = q THEN qs
    ELSE LET one == [qs EXCEPT ![qs[q].previous].next = qs[q].next]
         IN  [one EXCEPT ![one[q].next].previous = one[q].previous]

HeadAfterRemove(q) ==
    IF queue[q].previous = q THEN NULL
    ELSE IF s_msg_q_list = q THEN queue[q].next ELSE s_msg_q_list

\* The queue of this name: none or one.
msg_q_find_obj(name) == {q \in InList : queue[q].name = name}

\* x_msg_q_create fills the new object ...
Create(u, name) ==
    /\ user[u] = Resting
    /\ \E q \in Queues :
          /\ queue[q].state = "none" /\ \A p \in 1..(q - 1) : queue[p].state # "none"
          /\ queue' = [queue EXCEPT ![q] = [None EXCEPT !.name = name, !.i2_refcount = 1, !.state = "private"]]
          /\ user' = [user EXCEPT ![u] = [at |-> "create", q |-> q]]
    /\ UNCHANGED <<s_msg_q_list, refs, wild>>

\* ... and adds it, unless the name is taken.
CreateAdds(u) ==
    LET q == user[u].q
        found == msg_q_find_obj(queue[q].name)
    IN
    /\ user[u].at = "create" /\ user' = [user EXCEPT ![u] = Resting]
    /\ IF found # {} THEN queue' = [queue EXCEPT ![q] = [None EXCEPT !.state = "freed"]] /\ UNCHANGED <<s_msg_q_list, refs>>
       ELSE /\ queue' = [msg_q_list_add(queue, q) EXCEPT ![q].state = "listed"]
            /\ s_msg_q_list' = IF s_msg_q_list = NULL THEN q ELSE s_msg_q_list
            /\ refs' = [refs EXCEPT ![u] = @ \union {q}]
    /\ UNCHANGED wild

\* Mutant of x_msg_q_attach: the user is not counted.
x_msg_q_attach_uncounted(u, name) ==
    /\ user[u] = Resting
    /\ \E q \in msg_q_find_obj(name) : q \notin refs[u] /\ refs' = [refs EXCEPT ![u] = @ \union {q}]
    /\ UNCHANGED <<queue, s_msg_q_list, user, wild>>

\* x_msg_q_attach; it says OSR_NOT_EXIST for a name that is not there.
x_msg_q_attach(u, name) ==
    /\ user[u] = Resting
    /\ \E q \in msg_q_find_obj(name) :
          /\ q \notin refs[u] /\ refs' = [refs EXCEPT ![u] = @ \union {q}]
          /\ queue' = [queue EXCEPT ![q].i2_refcount = @ + 1]
    /\ UNCHANGED <<s_msg_q_list, user, wild>>

\* x_msg_q_delete: under the mutex a user goes, and with the last one the queue
\* leaves the list ...
Delete(u, q) ==
    /\ user[u] = Resting /\ q \in refs[u] /\ refs' = [refs EXCEPT ![u] = @ \ {q}]
    /\ wild' = (wild \/ Freed(q))
    /\ LET less == [queue EXCEPT ![q].i2_refcount = @ - 1] IN
       IF less[q].i2_refcount > 0 THEN queue' = less /\ UNCHANGED <<s_msg_q_list, user>>
       ELSE /\ queue' = [msg_q_list_remove(less, q) EXCEPT ![q].state = "removed"]
            /\ s_msg_q_list' = HeadAfterRemove(q)
            /\ user' = [user EXCEPT ![u] = [at |-> "free", q |-> q]]

\* ... and is freed outside it.
DeleteFrees(u) ==
    /\ user[u].at = "free" /\ user' = [user EXCEPT ![u] = Resting]
    /\ wild' = (wild \/ Freed(user[u].q))
    /\ queue' = [queue EXCEPT ![user[u].q] = [None EXCEPT !.state = "freed"]]
    /\ UNCHANGED <<s_msg_q_list, refs>>

QNext == \E u \in Users :
    \/ \E name \in Names : Create(u, name) \/ x_msg_q_attach(u, name)
    \/ CreateAdds(u) \/ DeleteFrees(u)
    \/ \E q \in Queues : Delete(u, q)

-----------------------------------------------------------------------------
\* The list is a ring: its queues are those that were added and not removed,
\* previous undoes next, the head is one of them, and no name is there twice.
RingExact ==
    LET listed == {q \in Queues : queue[q].state = "listed"} IN
    /\ InList = listed /\ (s_msg_q_list = NULL) = (listed = {})
    /\ \A q \in listed : /\ queue[q].next \in listed /\ queue[queue[q].next].previous = q
                         /\ \A p \in listed : p # q => queue[p].name # queue[q].name

\* A queue that somebody may send to or receive from is in the list, however its
\* other users give theirs back; the count is the references there are, and no
\* queue is freed twice.
ReferencesKeep ==
    /\ ~wild
    /\ \A u \in Users : \A q \in refs[u] : queue[q].state = "listed"
    /\ \A q \in Queues : queue[q].state = "listed" =>
          queue[q].i2_refcount = Cardinality({u \in Users : q \in refs[u]})
=============================================================================
