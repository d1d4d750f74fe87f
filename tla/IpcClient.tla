----------------------------- MODULE IpcClient -----------------------------
(***************************************************************************)
(* src/library/ipcd_ipc/libipcd.c: the clients of the command daemon ipcd. *)
(* Each call builds a request on the heap, sends it and waits for the      *)
(* answer (request_for_ipcd), during which the request's two string        *)
(* pointers are replaced by markers and then by pointers into the request; *)
(* the caller puts the heap pointers back before it frees the request.     *)
(* ipcd_exec_async does this in a detached thread and reports by callback. *)
(*                                                                         *)
(* A pointer is "null", "env" (a string of the caller), "cmd" or "priv"    *)
(* (the heap blocks), "marker" or "area" (inside the request).  The daemon *)
(* itself is not part of the repository: it answers with any status, with  *)
(* or without the value of a variable, or the exchange fails at any step.  *)
(*                                                                         *)
(* Three things in this code stop the program: the callback's address      *)
(* travels in an int, a value that did not come is read, and the thread    *)
(* of ipcd_exec_async does not put a private string's pointer back.        *)
(***************************************************************************)
EXTENDS Naturals, Sequences

CONSTANTS Callers, MaxCalls

VARIABLES icall,    \* what each caller is doing
          cbs,      \* callbacks of the caller's asynchronous call
          low,      \* the program's code lies where an int can name it
          fault     \* what has stopped the program: "none", or "callback", "value", "free"

ivars == <<icall, cbs, low, fault>>

Sync == {"set_env", "get_env", "exec", "exec_security"}
Idle == [pc |-> "idle", fn |-> "none", cmd |-> "null", priv |-> "null", heap |-> {},
         status |-> "none", ret |-> "none", calls |-> 0]

PInit == /\ icall = [c \in Callers |-> Idle]
         /\ cbs = [c \in Callers |-> <<>>]
         /\ low \in BOOLEAN /\ fault = "none"

Blocks(ps) == ps \cap {"cmd", "priv"}

(***************************************************************************)
(* ipcd_free_request: both strings and the request.                        *)
(***************************************************************************)
Freed(cmd, priv) == {p \in {cmd, priv} : p # "null"} \cup {"req"}

(***************************************************************************)
(* Building the request.  malloc may fail at each of its calls, and then   *)
(* what was allocated so far is freed and the call fails.                  *)
(***************************************************************************)
Begin(c, fn, cmd, priv) ==
  /\ fault = "none" /\ icall[c].pc = "idle" /\ icall[c].calls < MaxCalls
  /\ LET all == {"req"} \cup Blocks({cmd, priv})
     IN  \/ icall' = [icall EXCEPT ![c] = [icall[c] EXCEPT !.pc = "asking", !.fn = fn, !.priv = priv,
                         !.cmd = cmd, !.heap = all, !.ret = "none", !.calls = @ + 1]]
         \/ icall' = [icall EXCEPT ![c] = [Idle EXCEPT !.fn = fn, !.ret = "-1", !.calls = icall[c].calls + 1]]
  /\ cbs' = [cbs EXCEPT ![c] = <<>>]
  /\ UNCHANGED <<low, fault>>

\* The environment calls lend the caller's strings, the others copy them.
ipcd_set_env(c) == Begin(c, "set_env", "env", "env")
ipcd_get_env(c) == Begin(c, "get_env", "env", "null")
ipcd_exec(c) == \E p \in {"null", "priv"} : Begin(c, "exec", "cmd", p)
ipcd_exec_security(c) == \E p \in {"null", "priv"} : Begin(c, "exec_security", "cmd", p)
ipcd_exec_async(c) == \E p \in {"null", "priv"} : Begin(c, "exec_async", "cmd", p)

(***************************************************************************)
(* ipcd_exec_async hands the request to a detached thread and returns 0;   *)
(* when the thread cannot be created it frees the request itself.          *)
(***************************************************************************)
Spawn(c) ==
  /\ fault = "none" /\ icall[c].pc = "asking" /\ icall[c].fn = "exec_async"
  /\ \/ icall' = [icall EXCEPT ![c].pc = "thread", ![c].ret = "0"]
     \/ icall' = [icall EXCEPT ![c].pc = "free", ![c].ret = "-1"]
  /\ UNCHANGED <<cbs, low, fault>>

(***************************************************************************)
(* request_for_ipcd: what it leaves in the two pointers and what it        *)
(* returns.  A string that does not fit stops the packing; an exchange     *)
(* that fails leaves what the packing or the unpacking had reached; the    *)
(* answer leaves pointers into the request.  A value of the environment is *)
(* the only string that the daemon adds, and it may have none.             *)
(***************************************************************************)
Outcomes(fn, cmd, priv) ==
  LET moved(p) == IF p = "null" /\ fn # "get_env" THEN {"null"} ELSE {p, "marker", "area"}
      came == IF fn = "get_env" THEN {"null", "area"} ELSE IF priv = "null" THEN {"null"} ELSE {"area"}
  IN  [cmd : moved(cmd), priv : moved(priv), status : {"fail"}]
      \cup [cmd : {"area"}, priv : came, status : {"0", "1"}]

\* Mutant of Restored: the private string is not put back.
RestoredCmd(fn, cmd, priv, o) == <<cmd, o.priv>>

\* The pointers the caller frees: its own of before the exchange, or NULL for
\* the borrowed ones; the thread of ipcd_exec_async puts back only the command.
Restored(fn, cmd, priv, o) ==
  CASE fn \in {"set_env", "get_env"} -> <<"null", "null">>
    [] fn = "exec_async" -> <<cmd, o.priv>>
    [] OTHER -> <<cmd, priv>>

\* What the call returns: ipcd_get_env returns 0 whatever happened.
Result(fn, status) ==
  CASE fn = "get_env" -> "0"
    [] fn = "exec_security" -> (IF status = "fail" THEN "-1" ELSE status)
    [] OTHER -> (IF status = "0" THEN "0" ELSE "-1")

\* The callbacks of the thread of ipcd_exec_async, as far as its pointer came
\* whole through (int)callback and back.
Called(status) == IF ~low THEN <<>> ELSE IF status = "0" THEN <<"success">> ELSE <<"failed">>

\* A pointer that was cut is called; strlen of the value that did not come.
Stops(fn, o) ==
  IF fn = "exec_async" /\ ~low THEN "callback"
  ELSE IF fn = "get_env" /\ o.status = "0" /\ o.priv = "null" THEN "value" ELSE "none"

Exchange(c) ==
  /\ fault = "none" /\ icall[c].pc = IF icall[c].fn \in Sync THEN "asking" ELSE "thread"
  /\ \E o \in Outcomes(icall[c].fn, icall[c].cmd, icall[c].priv) :
       LET r == Restored(icall[c].fn, icall[c].cmd, icall[c].priv, o)
       IN  /\ icall' = [icall EXCEPT ![c].pc = "free", ![c].cmd = r[1], ![c].priv = r[2],
                         ![c].status = o.status,
                         ![c].ret = IF icall[c].fn \in Sync THEN Result(icall[c].fn, o.status) ELSE @]
           /\ cbs' = IF icall[c].fn = "exec_async"
                     THEN [cbs EXCEPT ![c] = @ \o Called(o.status)]
                     ELSE cbs
           /\ fault' = Stops(icall[c].fn, o)
  /\ UNCHANGED low

(***************************************************************************)
(* The request is freed and the call, or its thread, is over, unless       *)
(* free() gets something else than a heap block.                           *)
(***************************************************************************)
Release(c) ==
  /\ fault = "none" /\ icall[c].pc = "free"
  /\ LET ps == Freed(icall[c].cmd, icall[c].priv)
     IN  IF ps \subseteq icall[c].heap
         THEN icall' = [icall EXCEPT ![c].pc = "idle", ![c].heap = @ \ ps] /\ UNCHANGED fault
         ELSE fault' = "free" /\ UNCHANGED icall
  /\ UNCHANGED <<cbs, low>>

PNext == \E c \in Callers :
            \/ ipcd_set_env(c) \/ ipcd_get_env(c) \/ ipcd_exec(c)
            \/ ipcd_exec_security(c) \/ ipcd_exec_async(c)
            \/ Spawn(c) \/ Exchange(c) \/ Release(c)

PFair == \A c \in Callers : WF_ivars(Exchange(c)) /\ WF_ivars(Spawn(c)) /\ WF_ivars(Release(c))

(***************************************************************************)
(* Every heap block of a request is freed, nothing else is: the markers    *)
(* and the pointers into the request never reach free(), although they     *)
(* replace the heap pointers during the exchange, but for the private      *)
(* string of an asynchronous call, which nobody in the program passes.     *)
(***************************************************************************)
RequestFreedExactly ==
  \A c \in Callers :
    /\ icall[c].pc = "free" =>
         \/ Freed(icall[c].cmd, icall[c].priv) = icall[c].heap
         \/ icall[c].fn = "exec_async" /\ "priv" \in icall[c].heap
    /\ icall[c].pc = "idle" => icall[c].heap = {}

(***************************************************************************)
(* A call that changes something reports success exactly when the daemon   *)
(* reported it (ipcd_get_env, which does not, is left out); a value that   *)
(* did not come is read by ipcd_get_env only.                              *)
(***************************************************************************)
SuccessIsTheDaemons ==
  /\ \A c \in Callers :
       (icall[c].pc = "free" /\ icall[c].fn \in {"set_env", "exec", "exec_security"}) =>
         (icall[c].ret = "0" <=> icall[c].status = "0")
  /\ fault = "value" => \E c \in Callers : icall[c].fn = "get_env" /\ icall[c].status = "0"

(***************************************************************************)
(* The callback of ipcd_exec_async runs once if the call returned 0 and    *)
(* not at all if it returned -1; another address is called only where an   *)
(* int cannot name the program's code.                                     *)
(***************************************************************************)
CallbackAtMostOnce ==
  /\ \A c \in Callers : Len(cbs[c]) =< (IF icall[c].fn = "exec_async" /\ icall[c].ret = "0" THEN 1 ELSE 0)
  /\ fault = "callback" => ~low

\* An accepted asynchronous command is called back, unless the program stops.
CallbackComes ==
  \A c \in Callers : icall[c].pc = "thread" ~> cbs[c] # <<>> \/ fault # "none"
=============================================================================
