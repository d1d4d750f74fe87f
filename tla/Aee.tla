-------------------------------- MODULE Aee --------------------------------
(***************************************************************************)
(* The execution environments of src/am/aee/aee.c as objects: an AEE_T is  *)
(* allocated by the thread that starts an application, linked into pt_aees *)
(* by the application's own thread, and freed by that thread inside the    *)
(* free callback of its primary handle, while its creator, its children    *)
(* and the owners of secondary handles have pointers or handles to it.     *)
(*                                                                         *)
(* Environment e is also its primary handle; 0 is NULL_HANDLE and, as a    *)
(* creator, a thread without an environment.  Environment 1, the           *)
(* Application Manager, does not exit.  A creator waits for the answer to  *)
(* its INIT and EXIT message, as the manager does (am.c:596), and lets go  *)
(* of the handle when the application is not there any more.  Every        *)
(* section under h_aee_sem is one step.                                    *)
(***************************************************************************)
EXTENDS Naturals, Sequences, FiniteSets, SequencesExt

CONSTANTS Names,       \* names of the applications beside the manager
          MaxEnv,      \* bound: environments created
          MaxDepth,    \* bound: generations
          Users        \* threads that ask for secondary handles

\* The manager, its applications and one generation more than the program has, where
\* only main and the manager call u_app_start (see ParentsLive).
AeeAssumption == MaxEnv \in Nat /\ MaxDepth \in Nat /\ MaxDepth <= 3

VARIABLES obj,         \* AEE_T by environment
          pt_aees,     \* the list, the newest first
          valid,       \* environments whose primary handle is valid
          thr,         \* thr[e]: where the thread of e is
          msg,         \* msg[e]: its message queue
          cre,         \* cre[c]: what creator c is doing, for which environment
          own,         \* own[c]: the environments c has handles of
          sec,         \* sec[u]: the object of u's secondary handle
          touched      \* freed objects that were read or written after that

evars == <<obj, pt_aees, valid, thr, msg, cre, own, sec, touched>>

Env == 1 .. MaxEnv
AM == "AM"
NoObj == [st |-> "none", name |-> AM, parent |-> 0, h_thread |-> FALSE, depth |-> 0]

\* aee_init: no environment yet.
EInit == /\ obj = [e \in Env |-> NoObj] /\ pt_aees = <<>> /\ valid = {}
         /\ thr = [e \in Env |-> "none"] /\ msg = [e \in Env |-> <<>>]
         /\ cre = [c \in {0} \cup Env |-> [pc |-> "idle", e |-> 0]]
         /\ own = [c \in {0} \cup Env |-> {}]
         /\ sec = [u \in Users |-> "none"] /\ touched = {}

Running(e) == thr[e] # "none"
Touch(e) == touched' = IF obj[e].st = "freed" THEN touched \cup {e} ELSE touched
SetCre(c, pc, e) == cre' = [cre EXCEPT ![c] = [pc |-> pc, e |-> e]]
Listed == {pt_aees[i] : i \in 1 .. Len(pt_aees)}
InFront(e) == Cons(e, pt_aees)
Without(e) == RemoveFirst(pt_aees, e)

(***************************************************************************)
(* aee_create_op, first part: the object, its handle, its list head, its   *)
(* argument; the creator's environment is the parent.                      *)
(***************************************************************************)
Alloc(c, name) ==
  /\ cre[c].pc = "idle"
  /\ IF c = 0 THEN name = AM /\ obj[1].st = "none"
     ELSE name # AM /\ thr[c] = "main" /\ obj[c].depth < MaxDepth
  /\ \E e \in Env :
       /\ obj[e].st = "none" /\ \A f \in 1 .. e - 1 : obj[f].st # "none"
       /\ obj' = [obj EXCEPT ![e] = [st |-> "alloc", name |-> name, parent |-> c, h_thread |-> FALSE,
                                     depth |-> IF c = 0 THEN 1 ELSE obj[c].depth + 1]]
       /\ valid' = valid \cup {e}
       /\ SetCre(c, "thread", e)
  /\ UNCHANGED <<pt_aees, thr, msg, own, sec, touched>>

\* No handle, no list head, no argument or no thread of this name: the object
\* is freed, by aee_free_handle when it has a handle.
CreateFails(c) ==
  /\ cre[c].pc = "thread"
  /\ obj' = [obj EXCEPT ![cre[c].e].st = "freed"]
  /\ valid' = valid \ {cre[c].e}
  /\ SetCre(c, "idle", 0)
  /\ UNCHANGED <<pt_aees, thr, msg, own, sec, touched>>

\* u_thread_create refuses the name of a thread that still exists.
CreateThread(c) ==
  /\ cre[c].pc = "thread"
  /\ \A f \in Env : Running(f) => obj[f].name # obj[cre[c].e].name
  /\ thr' = [thr EXCEPT ![cre[c].e] = "start"]
  /\ SetCre(c, "write", cre[c].e)
  /\ UNCHANGED <<obj, pt_aees, valid, msg, own, sec, touched>>

\* u_thread_create stores the new handle in pt_aee->h_thread when the new
\* thread may already be running.
WriteThread(c) ==
  /\ cre[c].pc = "write"
  /\ Touch(cre[c].e)
  /\ obj' = [obj EXCEPT ![cre[c].e].h_thread = TRUE]
  /\ SetCre(c, "queue", cre[c].e)
  /\ UNCHANGED <<pt_aees, valid, thr, msg, own, sec>>

\* _app_start goes on: aee_set_msg_queue and the INIT message.
SetMsgQueue(c) ==
  /\ cre[c].pc = "queue"
  /\ LET e == cre[c].e
     IN  /\ IF e \in valid THEN Touch(e) ELSE UNCHANGED touched
         /\ msg' = [msg EXCEPT ![e] = Append(@, "INIT")]
         /\ SetCre(c, "init", e)
  /\ UNCHANGED <<obj, pt_aees, valid, thr, own, sec>>

aee_get_msg_queue(e) == Touch(e)

\* u_app_exit: aee_get_msg_queue reads the object of the handle.
AppExit(c, e) ==
  /\ cre[c].pc = "idle" /\ c # 0 /\ thr[c] = "main" /\ e \in own[c]
  /\ IF e \in valid
     THEN aee_get_msg_queue(e) /\ msg' = [msg EXCEPT ![e] = Append(@, "EXIT")] /\ SetCre(c, "exit", e)
     ELSE UNCHANGED <<touched, msg, cre>>
  /\ UNCHANGED <<obj, pt_aees, valid, thr, own, sec>>

(***************************************************************************)
(* aee_main, with appman_main as the application's main function.          *)
(***************************************************************************)
aee_add(e) ==
  /\ thr[e] = "start"
  /\ Touch(e)
  /\ pt_aees' = InFront(e)
  /\ thr' = [thr EXCEPT ![e] = "wait"]
  /\ UNCHANGED <<obj, valid, msg, cre, own, sec>>

\* The INIT message: pf_init succeeds, or fails and the thread leaves.
HandleInit(e) ==
  /\ thr[e] = "wait" /\ msg[e] # <<>> /\ Head(msg[e]) = "INIT"
  /\ msg' = [msg EXCEPT ![e] = Tail(@)]
  /\ \E c \in {0} \cup Env :
       /\ cre[c] = [pc |-> "init", e |-> e]
       /\ SetCre(c, "idle", 0)
       /\ \/ thr' = [thr EXCEPT ![e] = "main"] /\ own' = [own EXCEPT ![c] = @ \cup {e}]
          \/ e # 1 /\ thr' = [thr EXCEPT ![e] = "leave"] /\ UNCHANGED own
  /\ UNCHANGED <<obj, pt_aees, valid, sec, touched>>

\* Mutant of Forget: the manager keeps the handle.
ForgetNot(c, e) == own[c]

\* The manager sets the handle to NULL_HANDLE.
Forget(c, e) == own[c] \ {e}

\* The EXIT message, which the thread takes when it creates nothing itself.
HandleExit(e) ==
  /\ thr[e] = "main" /\ cre[e].pc = "idle"
  /\ msg[e] # <<>> /\ Head(msg[e]) = "EXIT"
  /\ msg' = [msg EXCEPT ![e] = Tail(@)]
  /\ thr' = [thr EXCEPT ![e] = "leave"]
  /\ \E c \in Env : /\ cre[c] = [pc |-> "exit", e |-> e]
                    /\ SetCre(c, "idle", 0)
                    /\ own' = [own EXCEPT ![c] = Forget(c, e)]
  /\ UNCHANGED <<obj, pt_aees, valid, sec, touched>>

\* A message of the owner of a secondary handle.
HandleMsg(e) ==
  /\ thr[e] = "main" /\ cre[e].pc = "idle" /\ msg[e] # <<>> /\ Head(msg[e]) = "MSG"
  /\ msg' = [msg EXCEPT ![e] = Tail(@)]
  /\ UNCHANGED <<obj, pt_aees, valid, thr, cre, own, sec, touched>>

\* aee_clean_up: aee_remove, then the primary handle.
Left(e) == Without(e)

aee_remove(e) ==
  /\ thr[e] = "leave"
  /\ pt_aees' = Left(e)
  /\ thr' = [thr EXCEPT ![e] = "relations"]
  /\ UNCHANGED <<obj, valid, msg, cre, own, sec, touched>>

\* aee_clean_relationships: the listed children of e lose their parent, but
\* only if e itself has one.
Orphaned(e, f) ==
  IF obj[e].parent # 0 /\ f \in Listed /\ obj[f].parent = e THEN 0 ELSE obj[f].parent

Relations(e) ==
  /\ thr[e] = "relations"
  /\ obj' = [f \in Env |-> [obj[f] EXCEPT !.parent = Orphaned(e, f)]]
  /\ thr' = [thr EXCEPT ![e] = "free"]
  /\ UNCHANGED <<pt_aees, valid, msg, cre, own, sec, touched>>

\* The end of aee_free_handle: the object is freed before the handle is.
FreeObject(e) ==
  /\ thr[e] = "free"
  /\ obj' = [obj EXCEPT ![e].st = "freed"]
  /\ thr' = [thr EXCEPT ![e] = "handle"]
  /\ UNCHANGED <<pt_aees, valid, msg, cre, own, sec, touched>>

FreeHandle(e) ==
  /\ thr[e] = "handle"
  /\ valid' = valid \ {e}
  /\ thr' = [thr EXCEPT ![e] = "none"]
  /\ UNCHANGED <<obj, pt_aees, msg, cre, own, sec, touched>>

(***************************************************************************)
(* Secondary handles: aee_get_handle_op allocates one and then gives it    *)
(* the object of that name, or frees it again.                             *)
(***************************************************************************)
aee_find_by_name(name) ==
  LET hits == {i \in 1 .. Len(pt_aees) : obj[pt_aees[i]].name = name}
  IN  IF hits = {} THEN 0 ELSE pt_aees[CHOOSE i \in hits : \A j \in hits : i =< j]

GetHandle(u) ==
  /\ sec[u] = "none"
  /\ sec' = [sec EXCEPT ![u] = "alloc"]
  /\ UNCHANGED <<obj, pt_aees, valid, thr, msg, cre, own, touched>>

GetHandleFind(u) ==
  /\ sec[u] = "alloc"
  /\ LET e == aee_find_by_name(AM)
     IN  IF e # 0 THEN sec' = [sec EXCEPT ![u] = "ready"] /\ Touch(e)
         ELSE sec' = [sec EXCEPT ![u] = "none"] /\ UNCHANGED touched
  /\ UNCHANGED <<obj, pt_aees, valid, thr, msg, cre, own>>

\* u_aee_send_data, through appman_receive_data to the manager's queue.
aee_send_data_op(u) ==
  /\ sec[u] = "ready" /\ Len(msg[1]) < 1
  /\ Touch(1)
  /\ msg' = [msg EXCEPT ![1] = Append(@, "MSG")]
  /\ UNCHANGED <<obj, pt_aees, valid, thr, cre, own, sec>>

u_aee_free_handle(u) ==
  /\ sec[u] = "ready"
  /\ sec' = [sec EXCEPT ![u] = "none"]
  /\ UNCHANGED <<obj, pt_aees, valid, thr, msg, cre, own, touched>>

Creator(c) == CreateThread(c) \/ WriteThread(c) \/ SetMsgQueue(c)
aee_main(e) == \/ aee_add(e) \/ HandleInit(e) \/ HandleExit(e) \/ HandleMsg(e) \/ aee_remove(e)
               \/ Relations(e) \/ FreeObject(e) \/ FreeHandle(e)

ENext == \/ \E c \in {0} \cup Env : \/ \E n \in Names \cup {AM} : Alloc(c, n)
                                    \/ CreateFails(c) \/ Creator(c)
                                    \/ \E e \in Env : AppExit(c, e)
         \/ \E e \in Env : aee_main(e)
         \/ \E u \in Users : \/ GetHandle(u) \/ GetHandleFind(u)
                             \/ aee_send_data_op(u) \/ u_aee_free_handle(u)

(***************************************************************************)
(* The list names exactly the environments whose thread is between aee_add *)
(* and aee_remove, each once, none of them freed, and no two of one name,  *)
(* so that a look-up by name has one answer.                               *)
(***************************************************************************)
EnvironmentsListed ==
  /\ Listed = {e \in Env : thr[e] \in {"wait", "main", "leave"}}
  /\ Len(pt_aees) = Cardinality(Listed)
  /\ \A e \in Listed : obj[e].st = "alloc"
  /\ \A e, f \in Listed : obj[e].name = obj[f].name => e = f

(***************************************************************************)
(* No freed environment is read or written: not by the creator that stores *)
(* the thread's handle late, not by a sender that holds the primary handle *)
(* while the free callback runs, not through a secondary handle.           *)
(***************************************************************************)
NoUseAfterFree == touched = {}

(***************************************************************************)
(* An environment's h_parent_app is a live environment or NULL_HANDLE.     *)
(* aee_clean_relationships skips the children of an environment without a  *)
(* parent.  In three generations only the first has none, and it does not  *)
(* exit; in four, an environment that loses its parent while it leaves     *)
(* keeps its children's h_parent_app on itself.                            *)
(***************************************************************************)
ParentsLive ==
  \A e \in Listed : obj[e].parent # 0 => obj[obj[e].parent].st = "alloc"

=============================================================================
