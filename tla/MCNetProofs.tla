---------------------------- MODULE MCNetProofs ----------------------------
(***************************************************************************)
(* Proofs for what MCNet checks, for any threads, callbacks, hosts and     *)
(* sets of scripts, and any bounds: NetJob, NetWol and NetScript, and the  *)
(* list of NiMonitor.                                                      *)
(***************************************************************************)
EXTENDS MCNet, ListProofs

-----------------------------------------------------------------------------
(* NetJob.                                                                   *)

JobPlace == {"idle", "test", "claim", "create", "wait", "look", "use"}
JobType ==
  /\ kind \in J!Kinds /\ jfg \in BOOLEAN /\ alone \in BOOLEAN /\ stuck \in BOOLEAN
  /\ res \in JobUrls \cup {J!Null}
  /\ worker \in [at : {"none", "work", "clear", "leave", "astray"}, url : JobUrls \cup {J!Null},
                 by : JobCallers \cup {J!Null}]
  /\ worker.at = "work" => worker.url \in JobUrls
  /\ call \in [JobCallers -> [at : JobPlace, url : JobUrls \cup {J!Null}, joined : BOOLEAN,
                              got : JobUrls \cup {J!Null}]]
  /\ \A c \in JobCallers : call[c].at # "idle" => call[c].url \in JobUrls

\* One call at a time, where the program sees to it.
OneCall == alone => \A c, d \in JobCallers : call[c].at # "idle" /\ call[d].at # "idle" => c = d

\* While no failure left the BOOL set it is set exactly while the thread runs or is
\* being made, and it is not made while the last one runs.
FlagInv ==
  alone /\ ~stuck =>
    /\ jfg <=> (worker.at \in {"work", "clear"} \/ J!Starting)
    /\ \A c \in JobCallers : call[c].at \in {"claim", "create"} => worker.at \notin {"work", "clear"}
    /\ \A c \in JobCallers : call[c].at = "claim" => ~jfg

\* Only the kinds that pass a pointer get stuck, only those that wait look for an answer.
KindInv ==
  /\ kind \in J!Waiting => ~stuck
  /\ \A c \in JobCallers : call[c].at \in {"wait", "look"} => kind \in J!Waiting
  /\ \A c \in JobCallers : call[c].at = "use" => kind = "addr"
  /\ kind \notin J!Waiting => \A c \in JobCallers : call[c].got = J!Null

\* The call that made the thread finds its own host's answer or none.
AnswerInv ==
  alone /\ kind # "addr" => \A c \in JobCallers :
    /\ call[c].at \in {"wait", "look"} /\ ~call[c].joined =>
         IF worker.at = "work" THEN worker.url = call[c].url ELSE res \in {call[c].url, J!Null}
    /\ call[c].at # "idle" => call[c].got = J!Null
    /\ call[c].got # J!Null /\ call[c].got # call[c].url => call[c].joined

JobInv == JobType /\ OneCall /\ FlagInv /\ KindInv /\ AnswerInv

\* It holds at the start.
LEMMA JobInit == J!JInit => JobInv
<1> SUFFICES ASSUME J!JInit PROVE JobInv
  OBVIOUS
<1>1. \A c \in JobCallers : call[c] = [at |-> "idle", url |-> "null", joined |-> FALSE, got |-> "null"]
  BY DEF J!JInit, J!Idle, J!Null
<1>2. worker = [at |-> "none", url |-> "null", by |-> "null"]
  BY DEF J!JInit, J!NoWorker, J!Null
<1>3. JobType
  <2>1. [at |-> "idle", url |-> "null", joined |-> FALSE, got |-> "null"] \in
          [at : JobPlace, url : JobUrls \cup {"null"}, joined : BOOLEAN, got : JobUrls \cup {"null"}]
    BY DEF JobPlace
  <2>2. call \in [JobCallers -> [at : JobPlace, url : JobUrls \cup {"null"}, joined : BOOLEAN,
                                got : JobUrls \cup {"null"}]]
    BY <2>1 DEF J!JInit, J!Idle, J!Null
  <2>3. worker \in [at : {"none", "work", "clear", "leave", "astray"}, url : JobUrls \cup {J!Null},
                    by : JobCallers \cup {J!Null}]
    BY <1>2 DEF J!Null
  <2>4. /\ worker.at = "work" => worker.url \in JobUrls
        /\ \A c \in JobCallers : call[c].at # "idle" => call[c].url \in JobUrls
    BY <1>1, <1>2
  <2>5. /\ kind \in J!Kinds /\ jfg \in BOOLEAN /\ alone \in BOOLEAN /\ stuck \in BOOLEAN
        /\ res \in JobUrls \cup {J!Null}
    BY DEF J!JInit
  <2>6. QED
    BY <2>2, <2>3, <2>4, <2>5 DEF JobType, J!Null
<1>4. OneCall /\ FlagInv /\ KindInv /\ AnswerInv
  BY <1>1, <1>2 DEF J!JInit, OneCall, FlagInv, KindInv, AnswerInv, J!Starting, J!Null
<1>5. QED
  BY <1>3, <1>4 DEF JobInv

\* A call begins.
LEMMA JobBegins ==
  ASSUME JobInv, NEW c \in JobCallers, NEW u \in JobUrls, J!Call(c, u)
  PROVE  JobInv'
<1> USE DEF JobInv
<1>1. JobType'
  BY DEF JobType, J!Call, J!NoWorker, J!Idle, JobPlace, J!Null, J!Goto, J!Return
<1>2. OneCall'
  BY DEF JobType, OneCall, J!Call, J!Idle, J!Goto, J!Return
<1>3. FlagInv'
  BY DEF JobType, OneCall, FlagInv, KindInv, J!Call, J!NoWorker, J!Idle, J!Starting, J!Goto, J!Return, J!Waiting
<1>4. KindInv'
  BY DEF JobType, KindInv, FlagInv, J!Call, J!Idle, J!Goto, J!Return, J!Waiting, J!Allocating, J!Null
<1>5. AnswerInv'
  BY DEF JobType, OneCall, FlagInv, KindInv, AnswerInv, J!Call, J!NoWorker, J!Idle, J!Starting, J!Goto, J!Return, J!Null, J!Waiting
<1>6. QED
  BY <1>1, <1>2, <1>3, <1>4, <1>5

\* The call reads the BOOL.
LEMMA JobTest ==
  ASSUME JobInv, NEW c \in JobCallers, J!Test(c)
  PROVE  JobInv'
<1> USE DEF JobInv
<1>1. JobType'
  <2> USE DEF JobType, J!Test, JobPlace, J!Null, J!Goto, J!Return
  <2>1. CASE ~jfg
    BY <2>1
  <2>2. CASE jfg /\ kind \in J!Waiting
    BY <2>2
  <2>3. CASE jfg /\ kind \notin J!Waiting
    BY <2>3
  <2>4. QED
    BY <2>1, <2>2, <2>3
<1>2. OneCall'
  BY DEF JobType, OneCall, J!Test, J!Idle, J!Goto, J!Return
<1>3. FlagInv'
  BY DEF JobType, OneCall, FlagInv, KindInv, J!Test, J!NoWorker, J!Idle, J!Starting, J!Goto, J!Return, J!Waiting
<1>4. KindInv'
  BY DEF JobType, KindInv, FlagInv, J!Test, J!Idle, J!Goto, J!Return, J!Waiting, J!Allocating, J!Null
<1>5. AnswerInv'
  BY DEF JobType, OneCall, FlagInv, KindInv, AnswerInv, J!Test, J!NoWorker, J!Idle, J!Starting, J!Goto, J!Return, J!Null, J!Waiting
<1>6. QED
  BY <1>1, <1>2, <1>3, <1>4, <1>5

\* It sets the BOOL.
LEMMA JobClaim ==
  ASSUME JobInv, NEW c \in JobCallers, J!Claim(c)
  PROVE  JobInv'
<1> USE DEF JobInv
<1>1. JobType'
  BY DEF JobType, J!Claim, J!NoWorker, J!Idle, JobPlace, J!Null, J!Goto, J!Return
<1>2. OneCall'
  BY DEF JobType, OneCall, J!Claim, J!Idle, J!Goto, J!Return
<1>3. FlagInv'
  BY DEF JobType, OneCall, FlagInv, KindInv, J!Claim, J!NoWorker, J!Idle, J!Starting, J!Goto, J!Return, J!Waiting
<1>4. KindInv'
  BY DEF JobType, KindInv, FlagInv, J!Claim, J!Idle, J!Goto, J!Return, J!Waiting, J!Allocating, J!Null
<1>5. AnswerInv'
  BY DEF JobType, OneCall, FlagInv, KindInv, AnswerInv, J!Claim, J!NoWorker, J!Idle, J!Starting, J!Goto, J!Return, J!Null, J!Waiting
<1>6. QED
  BY <1>1, <1>2, <1>3, <1>4, <1>5

JobCall == [at : JobPlace, url : JobUrls \cup {J!Null}, joined : BOOLEAN, got : JobUrls \cup {J!Null}]

\* A call returns.
LEMMA ReturnShape ==
  ASSUME JobType, NEW c \in JobCallers, J!Return(c, J!Null)
  PROVE  call' \in [JobCallers -> JobCall] /\ \A d \in JobCallers : call'[d].at # "idle" => call'[d].url \in JobUrls
<1> DEFINE r == [call[c] EXCEPT !.at = "idle", !.got = J!Null]
<1>1. call \in [JobCallers -> JobCall] /\ \A d \in JobCallers : call[d].at # "idle" => call[d].url \in JobUrls
  BY DEF JobType, JobCall
<1>2. call' = [call EXCEPT ![c] = r]
  BY <1>1 DEF J!Return
<1>3. r \in JobCall /\ r.at = "idle"
  BY <1>1 DEF JobCall, JobPlace, J!Null
<1> HIDE DEF r
<1>4. QED
  BY <1>1, <1>2, <1>3

\* It gets no memory.
LEMMA JobAllocFails ==
  ASSUME JobInv, NEW c \in JobCallers, kind \in J!Allocating, J!AllocFails(c)
  PROVE  JobInv'
<1> USE DEF JobInv
<1>1. JobType'
  <2>1. J!Return(c, J!Null) /\ UNCHANGED <<kind, res, worker, alone>>
    BY DEF J!AllocFails
  <2>2. stuck' \in BOOLEAN
    BY DEF J!AllocFails, JobType
  <2>3. jfg' \in BOOLEAN
    BY DEF J!AllocFails, JobType
  <2>4. call' \in [JobCallers -> JobCall] /\ \A d \in JobCallers : call'[d].at # "idle" => call'[d].url \in JobUrls
    BY <2>1, ReturnShape
  <2>5. QED
    BY <2>1, <2>2, <2>3, <2>4 DEF JobType, JobCall
<1>2. OneCall'
  BY DEF JobType, OneCall, J!AllocFails, J!Idle, J!Goto, J!Return
<1>3. FlagInv'
  BY DEF JobType, OneCall, FlagInv, KindInv, J!AllocFails, J!NoWorker, J!Idle, J!Starting, J!Goto, J!Return, J!Waiting
<1>4. KindInv'
  BY DEF JobType, KindInv, FlagInv, J!AllocFails, J!Idle, J!Goto, J!Return, J!Waiting, J!Allocating, J!Null
<1>5. AnswerInv'
  BY DEF JobType, OneCall, FlagInv, KindInv, AnswerInv, J!AllocFails, J!NoWorker, J!Idle, J!Starting, J!Goto, J!Return, J!Null, J!Waiting
<1>6. QED
  BY <1>1, <1>2, <1>3, <1>4, <1>5

\* It makes the thread.
LEMMA JobCreate ==
  ASSUME JobInv, NEW c \in JobCallers, J!Create(c)
  PROVE  JobInv'
<1> USE DEF JobInv
<1>1. JobType'
  <2> USE DEF JobType, J!Create, JobPlace, J!Null, J!Goto, J!Return
  <2>1. call[c].url \in JobUrls
    OBVIOUS
  <2>2. CASE kind \in J!Waiting
    BY <2>1, <2>2
  <2>3. CASE kind \notin J!Waiting
    BY <2>1, <2>3
  <2>4. QED
    BY <2>2, <2>3
<1>2. OneCall'
  BY DEF JobType, OneCall, J!Create, J!Idle, J!Goto, J!Return
<1>3. FlagInv'
  BY DEF JobType, OneCall, FlagInv, KindInv, J!Create, J!NoWorker, J!Idle, J!Starting, J!Goto, J!Return, J!Waiting
<1>4. KindInv'
  BY DEF JobType, KindInv, FlagInv, J!Create, J!Idle, J!Goto, J!Return, J!Waiting, J!Allocating, J!Null
<1>5. AnswerInv'
  BY DEF JobType, OneCall, FlagInv, KindInv, AnswerInv, J!Create, J!NoWorker, J!Idle, J!Starting, J!Goto, J!Return, J!Null, J!Waiting
<1>6. QED
  BY <1>1, <1>2, <1>3, <1>4, <1>5

\* It makes no thread.
LEMMA JobCreateFails ==
  ASSUME JobInv, NEW c \in JobCallers, J!CreateFails(c)
  PROVE  JobInv'
<1> USE DEF JobInv
<1>1. JobType'
  <2>1. J!Return(c, J!Null) /\ UNCHANGED <<kind, res, worker, alone>>
    BY DEF J!CreateFails
  <2>2. stuck' \in BOOLEAN
    BY DEF J!CreateFails, JobType
  <2>3. jfg' \in BOOLEAN
    BY DEF J!CreateFails, JobType
  <2>4. call' \in [JobCallers -> JobCall] /\ \A d \in JobCallers : call'[d].at # "idle" => call'[d].url \in JobUrls
    BY <2>1, ReturnShape
  <2>5. QED
    BY <2>1, <2>2, <2>3, <2>4 DEF JobType, JobCall
<1>2. OneCall'
  BY DEF JobType, OneCall, J!CreateFails, J!Idle, J!Goto, J!Return
<1>3. FlagInv'
  BY DEF JobType, OneCall, FlagInv, KindInv, J!CreateFails, J!NoWorker, J!Idle, J!Starting, J!Goto, J!Return, J!Waiting
<1>4. KindInv'
  BY DEF JobType, KindInv, FlagInv, J!CreateFails, J!Idle, J!Goto, J!Return, J!Waiting, J!Allocating, J!Null
<1>5. AnswerInv'
  BY DEF JobType, OneCall, FlagInv, KindInv, AnswerInv, J!CreateFails, J!NoWorker, J!Idle, J!Starting, J!Goto, J!Return, J!Null, J!Waiting
<1>6. QED
  BY <1>1, <1>2, <1>3, <1>4, <1>5

\* It waits no longer.
LEMMA JobWaitEnds ==
  ASSUME JobInv, NEW c \in JobCallers, J!WaitEnds(c)
  PROVE  JobInv'
<1> USE DEF JobInv
<1>1. JobType'
  BY DEF JobType, J!WaitEnds, J!NoWorker, J!Idle, JobPlace, J!Null, J!Goto, J!Return
<1>2. OneCall'
  BY DEF JobType, OneCall, J!WaitEnds, J!Idle, J!Goto, J!Return
<1>3. FlagInv'
  BY DEF JobType, OneCall, FlagInv, KindInv, J!WaitEnds, J!NoWorker, J!Idle, J!Starting, J!Goto, J!Return, J!Waiting
<1>4. KindInv'
  BY DEF JobType, KindInv, FlagInv, J!WaitEnds, J!Idle, J!Goto, J!Return, J!Waiting, J!Allocating, J!Null
<1>5. AnswerInv'
  BY DEF JobType, OneCall, FlagInv, KindInv, AnswerInv, J!WaitEnds, J!NoWorker, J!Idle, J!Starting, J!Goto, J!Return, J!Null, J!Waiting
<1>6. QED
  BY <1>1, <1>2, <1>3, <1>4, <1>5

\* It takes the answer.
LEMMA JobLook ==
  ASSUME JobInv, NEW c \in JobCallers, J!Look(c)
  PROVE  JobInv'
<1> USE DEF JobInv
<1>1. JobType'
  <2> USE DEF JobType, J!Look, JobPlace, J!Null, J!Goto, J!Return
  <2> DEFINE v == IF jfg THEN J!Null ELSE res
  <2>0. v \in JobUrls \cup {J!Null}
    OBVIOUS
  <2>1. CASE kind = "addr" /\ v # J!Null
    BY <2>0, <2>1
  <2>2. CASE ~(kind = "addr" /\ v # J!Null)
    BY <2>0, <2>2
  <2>3. QED
    BY <2>1, <2>2
<1>2. OneCall'
  BY DEF JobType, OneCall, J!Look, J!Idle, J!Goto, J!Return
<1>3. FlagInv'
  BY DEF JobType, OneCall, FlagInv, KindInv, J!Look, J!NoWorker, J!Idle, J!Starting, J!Goto, J!Return, J!Waiting
<1>4. KindInv'
  BY DEF JobType, KindInv, FlagInv, J!Look, J!Idle, J!Goto, J!Return, J!Waiting, J!Allocating, J!Null
<1>5. AnswerInv'
  BY DEF JobType, OneCall, FlagInv, KindInv, AnswerInv, J!Look, J!NoWorker, J!Idle, J!Starting, J!Goto, J!Return, J!Null, J!Waiting
<1>6. QED
  BY <1>1, <1>2, <1>3, <1>4, <1>5

\* It frees the answer.
LEMMA JobDnsFree ==
  ASSUME JobInv, NEW c \in JobCallers, J!DnsFree(c)
  PROVE  JobInv'
<1> USE DEF JobInv
<1>1. JobType'
  BY DEF JobType, J!DnsFree, J!NoWorker, J!Idle, JobPlace, J!Null, J!Goto, J!Return
<1>2. OneCall'
  BY DEF JobType, OneCall, J!DnsFree, J!Idle, J!Goto, J!Return
<1>3. FlagInv'
  BY DEF JobType, OneCall, FlagInv, KindInv, J!DnsFree, J!NoWorker, J!Idle, J!Starting, J!Goto, J!Return, J!Waiting
<1>4. KindInv'
  BY DEF JobType, KindInv, FlagInv, J!DnsFree, J!Idle, J!Goto, J!Return, J!Waiting, J!Allocating, J!Null
<1>5. AnswerInv'
  BY DEF JobType, OneCall, FlagInv, KindInv, AnswerInv, J!DnsFree, J!NoWorker, J!Idle, J!Starting, J!Goto, J!Return, J!Null, J!Waiting
<1>6. QED
  BY <1>1, <1>2, <1>3, <1>4, <1>5

\* The thread stores its answer.
LEMMA JobAnswers ==
  ASSUME JobInv, NEW k \in J!Waiting, NEW v, k # "addr" => v = J!Null, v \in {res, J!Null}, J!Answers(k, v)
  PROVE  JobInv'
<1> USE DEF JobInv
<1>1. JobType'
  BY DEF JobType, J!Answers, J!NoWorker, J!Idle, JobPlace, J!Null, J!Goto, J!Return
<1>2. OneCall'
  BY DEF JobType, OneCall, J!Answers, J!Idle, J!Goto, J!Return
<1>3. FlagInv'
  BY DEF JobType, OneCall, FlagInv, KindInv, J!Answers, J!NoWorker, J!Idle, J!Starting, J!Goto, J!Return, J!Waiting
<1>4. KindInv'
  BY DEF JobType, KindInv, FlagInv, J!Answers, J!Idle, J!Goto, J!Return, J!Waiting, J!Allocating, J!Null
<1>5. AnswerInv'
  BY DEF JobType, OneCall, FlagInv, KindInv, AnswerInv, J!Answers, J!NoWorker, J!Idle, J!Starting, J!Goto, J!Return, J!Null, J!Waiting
<1>6. QED
  BY <1>1, <1>2, <1>3, <1>4, <1>5

\* The thread calls back.
LEMMA JobCallsBack ==
  ASSUME JobInv, NEW k \in J!Kinds \ J!Waiting, J!CallsBack(k)
  PROVE  JobInv'
<1> USE DEF JobInv
<1>1. JobType'
  BY DEF JobType, J!CallsBack, J!NoWorker, J!Idle, JobPlace, J!Null, J!Goto, J!Return
<1>2. OneCall'
  BY DEF JobType, OneCall, J!CallsBack, J!Idle, J!Goto, J!Return
<1>3. FlagInv'
  BY DEF JobType, OneCall, FlagInv, KindInv, J!CallsBack, J!NoWorker, J!Idle, J!Starting, J!Goto, J!Return, J!Waiting
<1>4. KindInv'
  BY DEF JobType, KindInv, FlagInv, J!CallsBack, J!Idle, J!Goto, J!Return, J!Waiting, J!Allocating, J!Null
<1>5. AnswerInv'
  BY DEF JobType, OneCall, FlagInv, KindInv, AnswerInv, J!CallsBack, J!NoWorker, J!Idle, J!Starting, J!Goto, J!Return, J!Null, J!Waiting
<1>6. QED
  BY <1>1, <1>2, <1>3, <1>4, <1>5

\* The thread does not find its request.
LEMMA JobAstray ==
  ASSUME JobInv, NEW k \in J!Allocating, J!GoesAstray(k)
  PROVE  JobInv'
<1> USE DEF JobInv
<1>1. JobType'
  BY DEF JobType, J!GoesAstray, J!NoWorker, J!Idle, JobPlace, J!Null, J!Goto, J!Return
<1>2. OneCall'
  BY DEF JobType, OneCall, J!GoesAstray, J!Idle, J!Goto, J!Return
<1>3. FlagInv'
  BY DEF JobType, OneCall, FlagInv, KindInv, J!GoesAstray, J!NoWorker, J!Idle, J!Starting, J!Goto, J!Return, J!Waiting
<1>4. KindInv'
  BY DEF JobType, KindInv, FlagInv, J!GoesAstray, J!Idle, J!Goto, J!Return, J!Waiting, J!Allocating, J!Null
<1>5. AnswerInv'
  BY DEF JobType, OneCall, FlagInv, KindInv, AnswerInv, J!GoesAstray, J!NoWorker, J!Idle, J!Starting, J!Goto, J!Return, J!Null, J!Waiting, J!Allocating
<1>6. QED
  BY <1>1, <1>2, <1>3, <1>4, <1>5

\* The thread ends without it.
LEMMA JobSpeedFails ==
  ASSUME JobInv, J!SpeedFails
  PROVE  JobInv'
<1> USE DEF JobInv
<1>1. JobType'
  BY DEF JobType, J!SpeedFails, J!NoWorker, J!Idle, JobPlace, J!Null, J!Goto, J!Return
<1>2. OneCall'
  BY DEF JobType, OneCall, J!SpeedFails, J!Idle, J!Goto, J!Return
<1>3. FlagInv'
  BY DEF JobType, OneCall, FlagInv, KindInv, J!SpeedFails, J!NoWorker, J!Idle, J!Starting, J!Goto, J!Return, J!Waiting
<1>4. KindInv'
  BY DEF JobType, KindInv, FlagInv, J!SpeedFails, J!Idle, J!Goto, J!Return, J!Waiting, J!Allocating, J!Null
<1>5. AnswerInv'
  BY DEF JobType, OneCall, FlagInv, KindInv, AnswerInv, J!SpeedFails, J!NoWorker, J!Idle, J!Starting, J!Goto, J!Return, J!Null, J!Waiting
<1>6. QED
  BY <1>1, <1>2, <1>3, <1>4, <1>5

\* The thread resets the BOOL.
LEMMA JobClear ==
  ASSUME JobInv, J!Clear
  PROVE  JobInv'
<1> USE DEF JobInv
<1>1. JobType'
  BY DEF JobType, J!Clear, J!NoWorker, J!Idle, JobPlace, J!Null, J!Goto, J!Return
<1>2. OneCall'
  BY DEF JobType, OneCall, J!Clear, J!Idle, J!Goto, J!Return
<1>3. FlagInv'
  BY DEF JobType, OneCall, FlagInv, KindInv, J!Clear, J!NoWorker, J!Idle, J!Starting, J!Goto, J!Return, J!Waiting
<1>4. KindInv'
  BY DEF JobType, KindInv, FlagInv, J!Clear, J!Idle, J!Goto, J!Return, J!Waiting, J!Allocating, J!Null
<1>5. AnswerInv'
  BY DEF JobType, OneCall, FlagInv, KindInv, AnswerInv, J!Clear, J!NoWorker, J!Idle, J!Starting, J!Goto, J!Return, J!Null, J!Waiting
<1>6. QED
  BY <1>1, <1>2, <1>3, <1>4, <1>5

\* The thread leaves the list.
LEMMA JobLeave ==
  ASSUME JobInv, J!Leave
  PROVE  JobInv'
<1> USE DEF JobInv
<1>1. JobType'
  BY DEF JobType, J!Leave, J!NoWorker, J!Idle, JobPlace, J!Null, J!Goto, J!Return
<1>2. OneCall'
  BY DEF JobType, OneCall, J!Leave, J!Idle, J!Goto, J!Return
<1>3. FlagInv'
  BY DEF JobType, OneCall, FlagInv, KindInv, J!Leave, J!NoWorker, J!Idle, J!Starting, J!Goto, J!Return, J!Waiting
<1>4. KindInv'
  BY DEF JobType, KindInv, FlagInv, J!Leave, J!Idle, J!Goto, J!Return, J!Waiting, J!Allocating, J!Null
<1>5. AnswerInv'
  BY DEF JobType, OneCall, FlagInv, KindInv, AnswerInv, J!Leave, J!NoWorker, J!Idle, J!Starting, J!Goto, J!Return, J!Null, J!Waiting
<1>6. QED
  BY <1>1, <1>2, <1>3, <1>4, <1>5

\* Every step keeps it.
LEMMA JobStep ==
  ASSUME JobInv, [J!JNext]_jvars
  PROVE  JobInv'
<1>1. ASSUME NEW c \in JobCallers, J!CallerStep(c) PROVE JobInv'
  <2>1. \/ J!Starts(c) \/ J!Waits(c) \/ J!DnsFree(c)
        \/ kind \in J!Allocating /\ J!AllocFails(c)
    BY <1>1 DEF J!CallerStep, J!Allocating, J!c_net_get_ni_speed, J!c_net_ip_conflict, J!c_net_test_connection_async,
       J!c_net_gethostbyname, J!c_net_pinghostbyname, J!c_net_dns_lookup
  <2>2. QED
    BY <2>1, JobTest, JobClaim, JobAllocFails, JobCreate, JobCreateFails, JobWaitEnds, JobLook, JobDnsFree
       DEF J!Starts, J!Waits
<1>2. CASE J!Work
  <2>1. CASE J!host_mon_thread \/ J!ping_host_thread \/ J!addrinfo_mon_thread
    <3>1. {"host", "ping", "addr"} \subseteq J!Waiting
      BY DEF J!Waiting
    <3>2. QED
      BY <2>1, <3>1, JobAnswers DEF J!host_mon_thread, J!ping_host_thread, J!addrinfo_mon_thread
  <2>2. CASE J!net_cmd_thread \/ J!c_net_get_ni_speed_thread \/ J!c_net_test_connection_thread
    <3>1. {"cmd", "speed", "conn"} \subseteq J!Kinds \ J!Waiting /\ {"speed", "conn"} \subseteq J!Allocating
      BY DEF J!Kinds, J!Waiting, J!Allocating
    <3>2. QED
      BY <2>2, <3>1, JobCallsBack, JobAstray
         DEF J!net_cmd_thread, J!c_net_get_ni_speed_thread, J!c_net_test_connection_thread
  <2>3. QED
    BY <1>2, <2>1, <2>2 DEF J!Work
<1>3. CASE J!JNext
  BY <1>1, <1>2, <1>3, JobBegins, JobSpeedFails, JobClear, JobLeave DEF J!JNext, J!WorkerStep
<1>4. CASE UNCHANGED jvars
  BY <1>4 DEF jvars, JobInv, JobType, OneCall, FlagInv, KindInv, AnswerInv, J!Starting
<1>5. QED
  BY <1>3, <1>4

\* What the run checks follows.
LEMMA JobIsSafe == JobInv => J!FlagNamesThread /\ J!WrongAnswerOnlyJoined
BY DEF JobInv, FlagInv, AnswerInv, J!FlagNamesThread, J!WrongAnswerOnlyJoined

-----------------------------------------------------------------------------
(* NetWol.                                                                   *)

WolType ==
  /\ wfg \in BOOLEAN /\ lost \in BOOLEAN /\ wovertaken \in BOOLEAN /\ badfree \in BOOLEAN
  /\ wol \in [at : {"none", "open", "loop", "end", "reset", "leave", "astray"}, req : Nat]
  /\ starter \in [at : {"idle", "test", "try", "create", "set"}, req : Nat, tries : Int]
  /\ reqs \in Seq({"live", "freed"})

Listens == wol.at \in {"open", "loop", "end", "astray"}

\* The thread's request and the starter's are live and two; a starter that made the
\* thread has given its request away.
OwnerInv ==
  /\ ~badfree
  /\ wol.at = "astray" => ~low
  /\ Listens => wol.req \in DOMAIN reqs /\ reqs[wol.req] = "live"
  /\ starter.at # "idle" => starter.req \in DOMAIN reqs
  /\ starter.at \in {"test", "try", "create"} =>
       reqs[starter.req] = "live" /\ (Listens => wol.req # starter.req)
  /\ starter.at = "set" /\ reqs[starter.req] = "live" => Listens /\ wol.req = starter.req
  /\ \A r \in DOMAIN reqs : reqs[r] = "live" =>
       (starter.at # "idle" /\ starter.req = r) \/ (Listens /\ wol.req = r)

WolInv == WolType /\ OwnerInv /\ W!WolFlagIsThread

\* It holds at the start.
LEMMA WolInit == W!WInit => WolInv
<1> SUFFICES ASSUME W!WInit PROVE WolInv
  OBVIOUS
<1>1. wol = [at |-> "none", req |-> 0] /\ starter = [at |-> "idle", req |-> 0, tries |-> 0] /\ reqs = <<>>
  BY DEF W!WInit, W!NoThread, W!Idle
<1>2. WolType
  <2>1. wol \in [at : {"none", "open", "loop", "end", "reset", "leave", "astray"}, req : Nat]
    BY <1>1
  <2>2. starter \in [at : {"idle", "test", "try", "create", "set"}, req : Nat, tries : Int]
    BY <1>1
  <2>3. reqs \in Seq({"live", "freed"})
    BY <1>1
  <2>4. wfg \in BOOLEAN /\ lost \in BOOLEAN /\ wovertaken \in BOOLEAN /\ badfree \in BOOLEAN
    BY DEF W!WInit
  <2>5. QED
    BY <2>1, <2>2, <2>3, <2>4 DEF WolType
<1>3. OwnerInv /\ W!WolFlagIsThread
  BY <1>1 DEF W!WInit, OwnerInv, Listens, W!WolFlagIsThread
<1>4. QED
  BY <1>2, <1>3 DEF WolInv

\* A block that is live is freed.
LEMMA Frees ==
  ASSUME WolType, OwnerInv, NEW r \in DOMAIN reqs, reqs[r] = "live", W!Free(r)
  PROVE  /\ reqs' \in Seq({"live", "freed"}) /\ DOMAIN reqs' = DOMAIN reqs /\ badfree' = FALSE
         /\ \A q \in DOMAIN reqs : reqs'[q] = IF q = r THEN "freed" ELSE reqs[q]
BY DEF WolType, OwnerInv, W!Free

\* A call allocates a block.
LEMMA WolStart ==
  ASSUME WolInv, W!Start
  PROVE  WolInv'
<1> USE DEF WolInv
<1>1. /\ reqs' \in Seq({"live", "freed"}) /\ DOMAIN reqs' = DOMAIN reqs \cup {Len(reqs) + 1}
      /\ Len(reqs) + 1 \notin DOMAIN reqs /\ Len(reqs) + 1 \in Nat
      /\ reqs'[Len(reqs) + 1] = "live" /\ \A q \in DOMAIN reqs : reqs'[q] = reqs[q]
  BY DEF WolType, W!Start
<1>2. /\ starter' \in [at : {"idle", "test", "try", "create", "set"}, req : Nat, tries : Int]
      /\ starter'.at = "test" /\ starter'.req = Len(reqs) + 1 /\ starter.at = "idle"
  BY <1>1, NetAssumption DEF W!Start
<1>3. UNCHANGED <<low, wfg, wol, lost, wovertaken, badfree>>
  BY DEF W!Start
<1>4. WolType' /\ W!WolFlagIsThread'
  BY <1>1, <1>2, <1>3 DEF WolType, W!WolFlagIsThread
<1>5. OwnerInv'
  BY <1>1, <1>2, <1>3 DEF WolType, OwnerInv, Listens
<1>6. QED
  BY <1>4, <1>5

\* A call that does not start a thread frees its block.
LEMMA WolGivesUp ==
  ASSUME WolInv, starter.at \in {"test", "create"}, W!Free(starter.req), starter' = W!Idle,
         wfg' \in {wfg, FALSE}, UNCHANGED <<low, wol, lost, wovertaken>>, starter.at = "test" => wfg' = wfg,
         starter.at = "create" => wfg' = FALSE
  PROVE  WolInv'
<1> USE DEF WolInv
<1>1. starter.req \in DOMAIN reqs /\ reqs[starter.req] = "live" /\ (Listens => wol.req # starter.req)
  BY DEF OwnerInv
<1>2. /\ reqs' \in Seq({"live", "freed"}) /\ DOMAIN reqs' = DOMAIN reqs /\ badfree' = FALSE
      /\ \A q \in DOMAIN reqs : reqs'[q] = IF q = starter.req THEN "freed" ELSE reqs[q]
  BY <1>1, Frees
<1>3. /\ starter' = [at |-> "idle", req |-> 0, tries |-> 0]
      /\ starter' \in [at : {"idle", "test", "try", "create", "set"}, req : Nat, tries : Int]
  <2>1. starter' = [at |-> "idle", req |-> 0, tries |-> 0]
    BY DEF W!Idle
  <2>2. QED
    BY <2>1
<1>4. WolType'
  <2>1. wfg' \in BOOLEAN /\ badfree' \in BOOLEAN
    BY <1>2 DEF WolType
  <2>2. QED
    BY <1>2, <1>3, <2>1 DEF WolType
<1>5. W!WolFlagIsThread'
  BY <1>3 DEF WolType, W!WolFlagIsThread
<1>6. OwnerInv'
  BY <1>1, <1>2, <1>3 DEF OwnerInv, Listens
<1>7. QED
  BY <1>4, <1>5, <1>6

\* The thread frees its block.
LEMMA WolEnd ==
  ASSUME WolInv, W!End
  PROVE  WolInv'
<1> USE DEF WolInv
<1>1. wol.req \in DOMAIN reqs /\ reqs[wol.req] = "live" /\ wol.at = "end"
  BY DEF OwnerInv, Listens, W!End
<1>2. /\ reqs' \in Seq({"live", "freed"}) /\ DOMAIN reqs' = DOMAIN reqs /\ badfree' = FALSE
      /\ \A q \in DOMAIN reqs : reqs'[q] = IF q = wol.req THEN "freed" ELSE reqs[q]
  BY <1>1, Frees DEF W!End
<1>3. UNCHANGED <<low, wfg, starter, lost, wovertaken>> /\ wol' = [wol EXCEPT !.at = "reset"]
  BY DEF W!End
<1>4. WolType' /\ W!WolFlagIsThread'
  BY <1>1, <1>2, <1>3 DEF WolType, W!WolFlagIsThread
<1>5. OwnerInv'
  BY <1>1, <1>2, <1>3 DEF WolType, OwnerInv, Listens
<1>6. QED
  BY <1>4, <1>5

\* Every step keeps it.
LEMMA WolStep ==
  ASSUME WolInv, [W!WNext]_wvars
  PROVE  WolInv'
<1> USE DEF WolInv, WolType, OwnerInv, Listens, W!WolFlagIsThread, W!NoThread
<1>1. CASE W!Start
  BY <1>1, WolStart
<1>2. CASE W!Stop
  BY <1>2 DEF W!Stop
<1>3. CASE W!Test
  <2>1. CASE wfg
    BY <1>3, <2>1, WolGivesUp DEF W!Test
  <2>2. CASE ~wfg
    BY <1>3, <2>2 DEF W!Test
  <2>3. QED
    BY <2>1, <2>2
<1>4. CASE W!Attempt
  <2>1. /\ starter' \in [at : {"idle", "test", "try", "create", "set"}, req : Nat, tries : Int]
        /\ starter'.at = "create" /\ starter'.req = starter.req /\ starter.at = "try"
    <3> DEFINE s == [starter EXCEPT !.at = "create"]
    <3>1. /\ s \in [at : {"idle", "test", "try", "create", "set"}, req : Nat, tries : Int]
          /\ s.at = "create" /\ s.req = starter.req /\ s.tries = starter.tries
      OBVIOUS
    <3>2. starter' = [s EXCEPT !.tries = s.tries - 1] /\ starter.at = "try"
      BY <1>4, <3>1 DEF W!Attempt
    <3> HIDE DEF s
    <3>3. QED
      BY <3>1, <3>2
  <2>2. wfg' = TRUE /\ UNCHANGED <<low, wol, reqs, lost, wovertaken, badfree>>
    BY <1>4 DEF W!Attempt
  <2>3. WolType' /\ W!WolFlagIsThread'
    BY <2>1, <2>2
  <2>4. OwnerInv'
    BY <2>1, <2>2
  <2>5. QED
    BY <2>3, <2>4
<1>5. CASE W!Create
  <2>1. /\ wol' = [at |-> "open", req |-> starter.req] /\ starter.at = "create"
        /\ starter' = [starter EXCEPT !.at = "set"] /\ wol.at = "none"
        /\ UNCHANGED <<low, wfg, reqs, lost, wovertaken, badfree>>
    BY <1>5 DEF W!Create
  <2>2. WolType' /\ W!WolFlagIsThread'
    BY <2>1
  <2>3. OwnerInv'
    BY <2>1
  <2>4. QED
    BY <2>2, <2>3
<1>6. CASE W!CreateFails
  <2>1. CASE starter.tries > 0
    BY <1>6, <2>1 DEF W!CreateFails
  <2>2. CASE ~(starter.tries > 0)
    BY <1>6, <2>2, WolGivesUp DEF W!CreateFails
  <2>3. QED
    BY <2>1, <2>2
<1>7. CASE W!SetAgain
  <2>1. /\ starter.at = "set" /\ starter' = [at |-> "idle", req |-> 0, tries |-> 0]
        /\ wfg' = TRUE /\ lost' = (lost \/ ~wfg) /\ wovertaken' = (wovertaken \/ wol.at \in {"none", "leave"})
        /\ UNCHANGED <<low, wol, reqs, badfree>>
    BY <1>7 DEF W!SetAgain, W!Idle
  <2>2. starter' \in [at : {"idle", "test", "try", "create", "set"}, req : Nat, tries : Int]
    BY <2>1
  <2>3. WolType' /\ W!WolFlagIsThread'
    BY <2>1, <2>2
  <2>4. OwnerInv'
    BY <2>1
  <2>5. QED
    BY <2>3, <2>4
<1>8. CASE W!Open
  BY <1>8 DEF W!Open
<1>9. CASE W!Poll
  BY <1>9 DEF W!Poll
<1>10. CASE W!Wake
  BY <1>10 DEF W!Wake
<1>11. CASE W!End
  BY <1>11, WolEnd
<1>12. CASE W!Reset
  BY <1>12 DEF W!Reset
<1>13. CASE W!Leave
  <2>1. /\ wol.at = "leave" /\ wol' = [at |-> "none", req |-> 0]
        /\ UNCHANGED <<low, wfg, starter, reqs, lost, wovertaken, badfree>>
    BY <1>13 DEF W!Leave
  <2>2. wol' \in [at : {"none", "open", "loop", "end", "reset", "leave", "astray"}, req : Nat]
    BY <2>1
  <2>3. WolType' /\ W!WolFlagIsThread'
    BY <2>1, <2>2
  <2>4. OwnerInv'
    BY <2>1
  <2>5. QED
    BY <2>3, <2>4
<1>14. CASE UNCHANGED wvars
  BY <1>14 DEF wvars
<1>15. QED
  BY <1>1, <1>2, <1>3, <1>4, <1>5, <1>6, <1>7, <1>8, <1>9, <1>10, <1>11, <1>12, <1>13, <1>14
     DEF W!WNext, W!StarterStep, W!ThreadStep

\* What the run checks follows.
LEMMA WolIsSafe == WolInv => W!WolFlagIsThread /\ W!RequestOwned
BY DEF WolInv, OwnerInv, Listens, W!RequestOwned

-----------------------------------------------------------------------------
(* NetScript.                                                                *)

KidState == {"none", "run", "ok", "bad", "noexec"}
ActRec == [at : {"idle", "fork", "wait", "reset", "leave"}, res : {"none", "OK", "FAILED"}, own : KidState,
           stolen : BOOLEAN, nofork : BOOLEAN, cmd : {"none", "start", "restart"}, cb : ScriptClients \cup {"none"}]
ClientRec == [at : {"idle", "try", "set", "save", "giveup"}, cmd : {"none", "start", "restart"},
              cb : ScriptClients \cup {"none"}, tries : Int]

ScriptType ==
  /\ kid \in [S!Scripts -> KidState] /\ act \in [S!Scripts -> ActRec]
  /\ client \in ClientRec /\ saved \in ScriptClients \cup {"none"} /\ latest \in ScriptClients \cup {"none"}
  /\ sfg \in BOOLEAN /\ crossed \in BOOLEAN /\ unsaved \in BOOLEAN /\ sovertaken \in BOOLEAN /\ ready \in BOOLEAN
  /\ made \in Int /\ stold \in Int

\* A time that was set is the own child's work, and a caller waits without a child
\* only when another took its status.
OwnInv ==
  /\ S!ResultIsOwn
  /\ ready => act["ntp"].own = "ok"
  /\ \A a \in S!Scripts : act[a].at = "wait" => kid[a] # "none" \/ act[a].stolen

\* A DHCP thread is on the list until it has ended.  The callback that was given
\* last is that of the call in u_crit, and what a restart there will save again,
\* or it was written beside that call.
ClientInv ==
  /\ S!DhcpFlagIsThread /\ S!DhcpToldOnce /\ S!RestartTellsLatest
  /\ act["dhcp"].at # "idle" => "dhcp" \in listed
  /\ client.at # "idle" /\ ~unsaved =>
       IF crossed THEN saved = latest
       ELSE client.cb = latest /\ (client.cmd = "restart" => saved = latest)
  /\ client.at = "idle" => ~crossed
  /\ client.at # "idle" => client.cmd \in {"start", "restart"}
  /\ crossed => ~unsaved

ScriptInv == ScriptType /\ OwnInv /\ ClientInv

\* It holds at the start.
LEMMA ScriptInit == S!SInit => ScriptInv
<1> SUFFICES ASSUME S!SInit PROVE ScriptInv
  OBVIOUS
<1> DEFINE r == [at |-> "idle", res |-> "none", own |-> "none", stolen |-> FALSE, nofork |-> FALSE,
                 cmd |-> "none", cb |-> "none"]
<1>1. \A a \in S!Scripts : act[a] = r
  BY DEF S!SInit, S!NotCalled
<1>2. r \in ActRec
  BY DEF ActRec, KidState
<1>3. act \in [S!Scripts -> ActRec]
  BY <1>2 DEF S!SInit, S!NotCalled
<1>4. client = [at |-> "idle", cmd |-> "none", cb |-> "none", tries |-> 0]
  BY DEF S!SInit, S!NoCall
<1>5. client \in ClientRec
  BY <1>4 DEF ClientRec
<1>6. ScriptType
  <2>1. kid \in [S!Scripts -> KidState]
    BY DEF S!SInit, KidState
  <2>2. sfg \in BOOLEAN /\ crossed \in BOOLEAN /\ unsaved \in BOOLEAN /\ sovertaken \in BOOLEAN /\ ready \in BOOLEAN
    BY DEF S!SInit
  <2>3. saved \in ScriptClients \cup {"none"} /\ latest \in ScriptClients \cup {"none"} /\ made \in Int /\ stold \in Int
    BY DEF S!SInit
  <2>4. QED
    BY <1>3, <1>5, <2>1, <2>2, <2>3 DEF ScriptType
<1>7. "dhcp" \in S!Scripts /\ "ntp" \in S!Scripts
  BY DEF S!Scripts
<1>8. OwnInv /\ ClientInv
  BY <1>1, <1>4, <1>7 DEF OwnInv, ClientInv, S!SInit, S!ResultIsOwn, S!DhcpFlagIsThread, S!DhcpToldOnce,
     S!RestartTellsLatest
<1>9. QED
  BY <1>6, <1>8 DEF ScriptInv

\* One caller or thread comes to another place.
Turns(a, at, rs, own, stolen, nofork) ==
  /\ act' \in [S!Scripts -> ActRec] /\ \A b \in S!Scripts \ {a} : act'[b] = act[b]
  /\ act'[a].at = at /\ act'[a].res = rs /\ act'[a].own = own /\ act'[a].stolen = stolen
  /\ act'[a].nofork = nofork

\* A call begins.
LEMMA BeginsTurns ==
  ASSUME ScriptType, NEW a \in S!Scripts, NEW cmd \in {"none", "start", "restart"},
         NEW cb \in ScriptClients \cup {"none"}, S!Begins(a, cmd, cb)
  PROVE  Turns(a, "fork", "none", "none", FALSE, FALSE)
<1> DEFINE n == [at |-> "idle", res |-> "none", own |-> "none", stolen |-> FALSE, nofork |-> FALSE,
                 cmd |-> "none", cb |-> "none"]
           r == [n EXCEPT !.at = "fork", !.cmd = cmd, !.cb = cb]
<1>1. act' = [act EXCEPT ![a] = r]
  BY Zenon DEF S!Begins, S!NotCalled
<1>2. r \in ActRec
  <2>1. n \in ActRec
    BY DEF ActRec, KidState
  <2> HIDE DEF n
  <2>2. QED
    BY <2>1 DEF ActRec
<1>3. r.at = "fork" /\ r.res = "none" /\ r.own = "none" /\ r.stolen = FALSE /\ r.nofork = FALSE
  OBVIOUS
<1> HIDE DEF r
<1>4. QED
  BY <1>1, <1>2, <1>3 DEF Turns, ScriptType

\* Only the place changes.
LEMMA PlaceTurns ==
  ASSUME ScriptType, NEW a \in S!Scripts, NEW p \in {"idle", "fork", "wait", "reset", "leave"},
         act' = [act EXCEPT ![a].at = p]
  PROVE  Turns(a, p, act[a].res, act[a].own, act[a].stolen, act[a].nofork)
<1> DEFINE r == [act[a] EXCEPT !.at = p]
<1>1. act[a] \in ActRec /\ act' = [act EXCEPT ![a] = r]
  BY DEF ScriptType
<1>2. /\ r \in ActRec /\ r.at = p /\ r.res = act[a].res /\ r.own = act[a].own /\ r.stolen = act[a].stolen
      /\ r.nofork = act[a].nofork
  BY <1>1 DEF ActRec
<1> HIDE DEF r
<1>3. QED
  BY <1>1, <1>2 DEF Turns, ScriptType

\* A status is taken by another.
LEMMA StolenTurns ==
  ASSUME ScriptType, NEW b \in S!Scripts, act' = [act EXCEPT ![b].stolen = TRUE]
  PROVE  Turns(b, act[b].at, act[b].res, act[b].own, TRUE, act[b].nofork)
<1> DEFINE r == [act[b] EXCEPT !.stolen = TRUE]
<1>1. act[b] \in ActRec /\ act' = [act EXCEPT ![b] = r]
  BY DEF ScriptType
<1>2. /\ r \in ActRec /\ r.at = act[b].at /\ r.res = act[b].res /\ r.own = act[b].own /\ r.stolen = TRUE
      /\ r.nofork = act[b].nofork
  BY <1>1 DEF ActRec
<1> HIDE DEF r
<1>3. QED
  BY <1>1, <1>2 DEF Turns, ScriptType

AfterWait(a) == IF a = "dhcp" THEN "reset" ELSE IF a = "ntp" THEN "leave" ELSE "idle"

\* The caller is done.
LEMMA DoneTurns ==
  ASSUME ScriptType, NEW a \in S!Scripts, NEW ok \in BOOLEAN, NEW own \in KidState, S!Done(a, ok, own)
  PROVE  Turns(a, AfterWait(a), IF ok THEN "OK" ELSE "FAILED", own, act[a].stolen, act[a].nofork)
<1> DEFINE p == AfterWait(a)
           rs == IF ok THEN "OK" ELSE "FAILED"
           r == [act[a] EXCEPT !.at = p, !.res = rs, !.own = own]
<1>1. p \in {"idle", "reset", "leave"} /\ rs \in {"OK", "FAILED"}
  BY DEF AfterWait
<1>2. act' = [act EXCEPT ![a].at = p, ![a].res = rs, ![a].own = own]
  BY DEF S!Done, AfterWait
<1> HIDE DEF p, rs
<1>3. act[a] \in ActRec /\ act' = [act EXCEPT ![a] = r]
  BY <1>2 DEF ScriptType
<1>4. /\ r \in ActRec /\ r.at = p /\ r.res = rs /\ r.own = own /\ r.stolen = act[a].stolen
      /\ r.nofork = act[a].nofork
  BY <1>1, <1>3 DEF ActRec
<1> HIDE DEF r
<1>5. Turns(a, p, rs, own, act[a].stolen, act[a].nofork)
  BY <1>3, <1>4 DEF Turns, ScriptType
<1>6. QED
  BY <1>5 DEF p, rs

\* What a turn leaves of the invariant: the client's call is another thread's, a
\* turn of the DHCP thread is one of its own, a result is of the own child.
LEMMA TurnKeeps ==
  ASSUME ScriptInv, NEW a \in S!Scripts, NEW p, NEW rs, NEW o, NEW st, NEW nf, Turns(a, p, rs, o, st, nf),
         UNCHANGED <<sfg, client, saved, latest, crossed, unsaved, sovertaken, made>>,
         kid' \in [S!Scripts -> KidState], stold' \in Int, ready' \in BOOLEAN,
         \A b \in S!Scripts \ {a} : act[b].at = "wait" => kid'[b] # "none" \/ act[b].stolen,
         p = "wait" => kid'[a] # "none" \/ st,
         a # "dns" =>
           /\ rs = "OK" => S!Zero(a, o) \/ (a = "ip" /\ (st \/ nf))
           /\ rs = "FAILED" => (o \in S!Statuses /\ ~S!Zero(a, o)) \/ (a # "ip" /\ (st \/ nf)),
         ready' => IF a = "ntp" THEN o = "ok" ELSE ready,
         listed \ {a} \subseteq listed', p # "idle" /\ a = "dhcp" => "dhcp" \in listed',
         IF a = "dhcp"
         THEN /\ p \in {"fork", "wait", "reset"} <=> act[a].at \in {"fork", "wait", "reset"}
              /\ stold' + (IF p \in {"fork", "wait"} THEN 1 ELSE 0)
                   = stold + (IF act[a].at \in {"fork", "wait"} THEN 1 ELSE 0)
         ELSE stold' = stold
  PROVE  ScriptInv'
<1> USE DEF Turns
<1>1. ScriptType'
  BY DEF ScriptInv, ScriptType
<1>2. S!ResultIsOwn'
  <2> SUFFICES ASSUME NEW b \in S!Scripts \ {"dns"}
               PROVE  /\ act'[b].res = "OK" => S!Zero(b, act'[b].own) \/ (b = "ip" /\ (act'[b].stolen \/ act'[b].nofork))
                      /\ act'[b].res = "FAILED" => \/ act'[b].own \in S!Statuses /\ ~S!Zero(b, act'[b].own)
                                                   \/ b # "ip" /\ (act'[b].stolen \/ act'[b].nofork)
    BY DEF S!ResultIsOwn, S!Zero
  <2>1. CASE b = a
    BY <2>1
  <2>2. CASE b # a
    BY <2>2 DEF ScriptInv, OwnInv, S!ResultIsOwn
  <2>3. QED
    BY <2>1, <2>2
<1>3. ready' => act'["ntp"].own = "ok"
  BY DEF ScriptInv, OwnInv, S!Scripts
<1>4. \A b \in S!Scripts : act'[b].at = "wait" => kid'[b] # "none" \/ act'[b].stolen
  OBVIOUS
<1>5. ClientInv'
  <2>1. CASE a = "dhcp"
    BY <2>1 DEF ScriptInv, ClientInv, S!DhcpFlagIsThread, S!DhcpToldOnce, S!RestartTellsLatest, S!Scripts
  <2>2. CASE a # "dhcp"
    <3>1. act'["dhcp"] = act["dhcp"]
      BY <2>2 DEF S!Scripts
    <3>2. "dhcp" \in listed => "dhcp" \in listed'
      BY <2>2
    <3>3. QED
      BY <2>2, <3>1, <3>2 DEF ScriptInv, ClientInv, S!DhcpFlagIsThread, S!DhcpToldOnce, S!RestartTellsLatest
  <2>3. QED
    BY <2>1, <2>2
<1>6. QED
  BY <1>1, <1>2, <1>3, <1>4, <1>5 DEF ScriptInv, OwnInv

\* What OwnInv says of one caller.
LEMMA OwnHas ==
  ASSUME ScriptInv, NEW a \in S!Scripts
  PROVE  /\ act[a].at = "wait" => kid[a] # "none" \/ act[a].stolen
         /\ a # "dns" =>
              /\ act[a].res = "OK" => S!Zero(a, act[a].own) \/ (a = "ip" /\ (act[a].stolen \/ act[a].nofork))
              /\ act[a].res = "FAILED" => \/ act[a].own \in S!Statuses /\ ~S!Zero(a, act[a].own)
                                          \/ a # "ip" /\ (act[a].stolen \/ act[a].nofork)
         /\ a = "ntp" /\ ready => act[a].own = "ok"
         /\ a = "dhcp" /\ act[a].at # "idle" => "dhcp" \in listed
BY DEF ScriptInv, OwnInv, S!ResultIsOwn, ClientInv, S!Zero

\* A call of the scripts or of the time begins.
LEMMA CallKeeps ==
  ASSUME ScriptInv, NEW a \in S!Scripts, S!Call(a)
  PROVE  ScriptInv'
<1>1. ScriptType /\ a \in {"ip", "dns", "auto"} /\ act[a].at = "idle" /\ S!Begins(a, "none", "none")
      /\ UNCHANGED <<kid, listed, sfg, client, saved, latest, crossed, unsaved, sovertaken, made, stold, ready>>
  BY DEF S!Call, S!dvars, ScriptInv
<1>2. Turns(a, "fork", "none", "none", FALSE, FALSE)
  BY <1>1, BeginsTurns
<1>3. \A b \in S!Scripts : act[b].at = "wait" => kid[b] # "none" \/ act[b].stolen
  BY OwnHas
<1>4. kid' \in [S!Scripts -> KidState] /\ stold' \in Int /\ ready' \in BOOLEAN
  BY <1>1 DEF ScriptType
<1>5. QED
  BY <1>1, <1>2, <1>3, <1>4, TurnKeeps

LEMMA TimeSyncKeeps ==
  ASSUME ScriptInv, S!TimeSync
  PROVE  ScriptInv'
<1>1. "ntp" \in S!Scripts /\ ScriptType
      /\ UNCHANGED <<kid, sfg, client, saved, latest, crossed, unsaved, sovertaken, made, stold, ready>>
  BY DEF S!TimeSync, S!dvars, ScriptInv, S!Scripts
<1>2. \A b \in S!Scripts : act[b].at = "wait" => kid[b] # "none" \/ act[b].stolen
  BY OwnHas
<1>3. kid' \in [S!Scripts -> KidState] /\ stold' \in Int /\ ready' \in BOOLEAN
  BY <1>1 DEF ScriptType
<1>4. CASE ready
  <2> DEFINE r == [act["ntp"] EXCEPT !.res = "OK"]
  <2>1. act["ntp"] \in ActRec /\ act' = [act EXCEPT !["ntp"] = r] /\ listed' = listed
    BY <1>1, <1>4 DEF ScriptType, S!TimeSync
  <2>2. /\ r \in ActRec /\ r.at = act["ntp"].at /\ r.res = "OK" /\ r.own = act["ntp"].own
        /\ r.stolen = act["ntp"].stolen /\ r.nofork = act["ntp"].nofork
    BY <2>1 DEF ActRec
  <2> HIDE DEF r
  <2>3. Turns("ntp", act["ntp"].at, "OK", act["ntp"].own, act["ntp"].stolen, act["ntp"].nofork)
    BY <1>1, <2>1, <2>2 DEF Turns, ScriptType
  <2>4. act["ntp"].own = "ok"
    BY <1>1, <1>4, OwnHas
  <2>5. S!Zero("ntp", act["ntp"].own)
    BY <2>4 DEF S!Zero
  <2>6. QED
    BY <1>1, <1>2, <1>3, <2>1, <2>3, <2>4, <2>5, TurnKeeps
<1>5. CASE ~ready /\ "ntp" \in listed
  <2>1. UNCHANGED <<act, listed>>
    BY <1>5 DEF S!TimeSync
  <2>2. QED
    BY <1>1, <2>1 DEF ScriptInv, ScriptType, OwnInv, ClientInv, S!ResultIsOwn, S!Zero, S!DhcpFlagIsThread,
       S!DhcpToldOnce, S!RestartTellsLatest
<1>6. CASE ~ready /\ "ntp" \notin listed
  <2>1. S!Begins("ntp", "none", "none") /\ listed' = listed \union {"ntp"}
    BY <1>6 DEF S!TimeSync
  <2>2. Turns("ntp", "fork", "none", "none", FALSE, FALSE)
    BY <1>1, <2>1, BeginsTurns
  <2>3. QED
    BY <1>1, <1>2, <1>3, <1>6, <2>1, <2>2, TurnKeeps
<1>7. QED
  BY <1>4, <1>5, <1>6

\* A child is forked.
LEMMA ForkKeeps ==
  ASSUME ScriptInv, NEW a \in S!Scripts, S!Fork(a)
  PROVE  ScriptInv'
<1>1. /\ ScriptType /\ act[a].at = "fork" /\ kid' = [kid EXCEPT ![a] = "run"]
      /\ act' = [act EXCEPT ![a].at = "wait"]
      /\ UNCHANGED <<listed, sfg, client, saved, latest, crossed, unsaved, sovertaken, made, stold, ready>>
  BY DEF S!Fork, S!dvars, ScriptInv
<1>2. Turns(a, "wait", act[a].res, act[a].own, act[a].stolen, act[a].nofork)
  BY <1>1, PlaceTurns
<1>3. \A b \in S!Scripts : act[b].at = "wait" => kid[b] # "none" \/ act[b].stolen
  BY OwnHas
<1>4. kid' \in [S!Scripts -> KidState] /\ stold' \in Int /\ ready' \in BOOLEAN
  BY <1>1 DEF ScriptType, KidState
<1>5. kid'[a] = "run" /\ \A b \in S!Scripts \ {a} : kid'[b] = kid[b]
  BY <1>1 DEF ScriptType
<1>6. QED
  BY <1>1, <1>2, <1>3, <1>4, <1>5, OwnHas, TurnKeeps

\* No child can be made.
LEMMA ForkFailsKeeps ==
  ASSUME ScriptInv, NEW a \in S!Scripts, S!ForkFails(a)
  PROVE  ScriptInv'
<1>1. /\ ScriptType /\ act[a].at = "fork"
      /\ UNCHANGED <<kid, listed, sfg, client, saved, latest, crossed, unsaved, sovertaken, made, stold>>
  BY DEF S!ForkFails, S!dvars, ScriptInv
<1>2. \A b \in S!Scripts : act[b].at = "wait" => kid[b] # "none" \/ act[b].stolen
  BY OwnHas
<1>3. CASE a = "dhcp"
  <2>1. UNCHANGED <<act, ready>>
    BY <1>3 DEF S!ForkFails
  <2>2. QED
    BY <1>1, <2>1 DEF ScriptInv, ScriptType, OwnInv, ClientInv, S!ResultIsOwn, S!Zero, S!DhcpFlagIsThread,
       S!DhcpToldOnce, S!RestartTellsLatest
<1>4. CASE a # "dhcp"
  <2> DEFINE p == IF a = "ntp" THEN "leave" ELSE "idle"
             rs == IF a \in {"ip", "dns"} THEN "OK" ELSE "FAILED"
             r == [act[a] EXCEPT !.at = p, !.nofork = TRUE, !.res = rs]
  <2>1. p \in {"idle", "leave"} /\ rs \in {"OK", "FAILED"}
    OBVIOUS
  <2>2. act' = [act EXCEPT ![a].at = p, ![a].nofork = TRUE, ![a].res = rs] /\ ready' = IF a = "ntp" THEN FALSE ELSE ready
    BY <1>4 DEF S!ForkFails
  <2>3. (rs = "OK" => a \in {"ip", "dns"}) /\ (rs = "FAILED" => a \notin {"ip", "dns"})
    OBVIOUS
  <2> HIDE DEF p, rs
  <2>4. act[a] \in ActRec /\ act' = [act EXCEPT ![a] = r]
    BY <1>1, <2>2 DEF ScriptType
  <2>5. /\ r \in ActRec /\ r.at = p /\ r.res = rs /\ r.own = act[a].own /\ r.stolen = act[a].stolen
        /\ r.nofork = TRUE
    BY <2>1, <2>4 DEF ActRec
  <2> HIDE DEF r
  <2>6. Turns(a, p, rs, act[a].own, act[a].stolen, TRUE)
    BY <1>1, <2>4, <2>5 DEF Turns, ScriptType
  <2>7. kid' \in [S!Scripts -> KidState] /\ stold' \in Int /\ ready' \in BOOLEAN
    BY <1>1, <2>2 DEF ScriptType
  <2>8. QED
    BY <1>1, <1>2, <1>4, <2>1, <2>2, <2>3, <2>6, <2>7, TurnKeeps
<1>5. QED
  BY <1>3, <1>4

\* A script ends.
LEMMA KidEndsKeeps ==
  ASSUME ScriptInv, NEW a \in S!Scripts, S!KidEnds(a)
  PROVE  ScriptInv'
<1>1. PICK s \in S!Statuses : kid' = [kid EXCEPT ![a] = s]
  BY DEF S!KidEnds
<1>2. /\ ScriptType
      /\ UNCHANGED <<act, listed, sfg, client, saved, latest, crossed, unsaved, sovertaken, made, stold, ready>>
  BY DEF S!KidEnds, S!dvars, ScriptInv
<1>3. kid' \in [S!Scripts -> KidState]
  BY <1>1, <1>2 DEF ScriptType, KidState, S!Statuses
<1>4. \A b \in S!Scripts : kid[b] # "none" => kid'[b] # "none"
  BY <1>1, <1>2 DEF ScriptType, S!Statuses
<1>5. ScriptType'
  BY <1>2, <1>3 DEF ScriptType
<1>6. OwnInv'
  BY <1>2, <1>4 DEF ScriptInv, OwnInv, S!ResultIsOwn, S!Zero
<1>7. ClientInv'
  BY <1>2 DEF ScriptInv, ClientInv, S!DhcpFlagIsThread, S!DhcpToldOnce, S!RestartTellsLatest
<1>8. QED
  BY <1>5, <1>6, <1>7 DEF ScriptInv

\* Another thread, or main, takes the status.
LEMMA StolenKeeps ==
  ASSUME ScriptInv, NEW b \in S!Scripts, kid' = [kid EXCEPT ![b] = "none"],
         act' = [act EXCEPT ![b].stolen = TRUE],
         UNCHANGED <<listed, sfg, client, saved, latest, crossed, unsaved, sovertaken, made, stold, ready>>
  PROVE  ScriptInv'
<1>1. ScriptType
  BY DEF ScriptInv
<1>2. Turns(b, act[b].at, act[b].res, act[b].own, TRUE, act[b].nofork)
  BY <1>1, StolenTurns
<1>3. \A c \in S!Scripts : act[c].at = "wait" => kid[c] # "none" \/ act[c].stolen
  BY OwnHas
<1>4. kid' \in [S!Scripts -> KidState] /\ stold' \in Int /\ ready' \in BOOLEAN
  BY <1>1 DEF ScriptType, KidState
<1>5. \A c \in S!Scripts \ {b} : kid'[c] = kid[c]
  BY <1>1 DEF ScriptType
<1>6. /\ b # "dns" =>
           /\ act[b].res = "OK" => S!Zero(b, act[b].own) \/ (b = "ip" /\ (TRUE \/ act[b].nofork))
           /\ act[b].res = "FAILED" => \/ act[b].own \in S!Statuses /\ ~S!Zero(b, act[b].own)
                                       \/ b # "ip" /\ (TRUE \/ act[b].nofork)
      /\ ready' => IF b = "ntp" THEN act[b].own = "ok" ELSE ready
      /\ act[b].at # "idle" /\ b = "dhcp" => "dhcp" \in listed'
  BY OwnHas
<1>7. QED
  BY <1>2, <1>3, <1>4, <1>5, <1>6, TurnKeeps

\* The caller's result is said of its own child.
LEMMA DoneKeeps ==
  ASSUME ScriptInv, NEW a \in S!Scripts, NEW ok \in BOOLEAN, NEW own \in KidState, S!Done(a, ok, own),
         act[a].at = "wait", kid' \in [S!Scripts -> KidState], \A c \in S!Scripts \ {a} : kid'[c] = kid[c],
         UNCHANGED <<listed, sfg, client, saved, latest, crossed, unsaved, sovertaken, made>>,
         ok => S!Zero(a, own) \/ a = "dns" \/ (a = "ip" /\ act[a].stolen),
         ~ok => (own \in S!Statuses /\ ~S!Zero(a, own)) \/ (a # "ip" /\ act[a].stolen),
         ok /\ a = "ntp" => own = "ok"
  PROVE  ScriptInv'
<1> DEFINE p == AfterWait(a)
           rs == IF ok THEN "OK" ELSE "FAILED"
<1>1. ScriptType
  BY DEF ScriptInv
<1>2. /\ p # "wait" /\ p \notin {"fork", "wait"} /\ (a = "dhcp" => p = "reset")
      /\ rs = "OK" => ok
      /\ rs = "FAILED" => ~ok
  BY DEF AfterWait
<1>3. Turns(a, p, rs, own, act[a].stolen, act[a].nofork)
  BY <1>1, DoneTurns
<1> HIDE DEF p, rs
<1>4. stold' = (IF a = "dhcp" THEN stold + 1 ELSE stold) /\ ready' = IF a = "ntp" THEN ok ELSE ready
  BY DEF S!Done
<1>5. \A b \in S!Scripts \ {a} : act[b].at = "wait" => kid'[b] # "none" \/ act[b].stolen
  BY OwnHas
<1>6. stold \in Int /\ stold' \in Int /\ ready' \in BOOLEAN
  BY <1>1, <1>4 DEF ScriptType
<1>7. /\ a # "dns" =>
           /\ rs = "OK" => S!Zero(a, own) \/ (a = "ip" /\ (act[a].stolen \/ act[a].nofork))
           /\ rs = "FAILED" => (own \in S!Statuses /\ ~S!Zero(a, own)) \/ (a # "ip" /\ (act[a].stolen \/ act[a].nofork))
      /\ ready' => IF a = "ntp" THEN own = "ok" ELSE ready
  BY <1>2, <1>4
<1>8. p # "idle" /\ a = "dhcp" => "dhcp" \in listed'
  BY OwnHas
<1>9. IF a = "dhcp"
      THEN /\ p \in {"fork", "wait", "reset"} <=> act[a].at \in {"fork", "wait", "reset"}
           /\ stold' + (IF p \in {"fork", "wait"} THEN 1 ELSE 0)
                = stold + (IF act[a].at \in {"fork", "wait"} THEN 1 ELSE 0)
      ELSE stold' = stold
  BY <1>2, <1>4, <1>6
<1>10. QED
  BY <1>2, <1>3, <1>5, <1>6, <1>7, <1>8, <1>9, TurnKeeps

\* wait() or waitpid() returns the own child.
LEMMA TakesOwnKeeps ==
  ASSUME ScriptInv, NEW a \in S!Scripts, S!TakesOwn(a)
  PROVE  ScriptInv'
<1> DEFINE ok == S!Zero(a, kid[a]) \/ a = "dns"
<1>1. /\ ScriptType /\ act[a].at = "wait" /\ kid[a] \in S!Statuses /\ kid' = [kid EXCEPT ![a] = "none"]
      /\ S!Done(a, ok, kid[a])
      /\ UNCHANGED <<listed, sfg, client, saved, latest, crossed, unsaved, sovertaken, made>>
  BY DEF S!TakesOwn, S!dvars, ScriptInv, S!Zombie
<1>2. /\ ok \in BOOLEAN /\ kid[a] \in KidState
      /\ ok => S!Zero(a, kid[a]) \/ a = "dns"
      /\ ~ok => ~S!Zero(a, kid[a])
      /\ ok /\ a = "ntp" => kid[a] = "ok"
  BY <1>1 DEF ScriptType, S!Zero, S!Anychild
<1>3. kid' \in [S!Scripts -> KidState] /\ \A c \in S!Scripts \ {a} : kid'[c] = kid[c]
  BY <1>1 DEF ScriptType, KidState
<1> HIDE DEF ok
<1>4. QED
  BY <1>1, <1>2, <1>3, DoneKeeps

\* There is no child to wait for: another took the own one's status.
LEMMA NoChildKeeps ==
  ASSUME ScriptInv, NEW a \in S!Scripts, S!NoChild(a)
  PROVE  ScriptInv'
<1> DEFINE ok == a \in {"ip", "dns"}
<1>1. /\ ScriptType /\ act[a].at = "wait" /\ kid[a] = "none" /\ S!Done(a, ok, "none")
      /\ UNCHANGED <<kid, listed, sfg, client, saved, latest, crossed, unsaved, sovertaken, made>>
  BY DEF S!NoChild, S!dvars, ScriptInv
<1>2. /\ ok \in BOOLEAN /\ "none" \in KidState /\ act[a].stolen
      /\ ok => a \in {"ip", "dns"}
      /\ ~ok => a \notin {"ip", "dns"}
  BY <1>1, OwnHas DEF KidState
<1>3. kid' \in [S!Scripts -> KidState] /\ \A c \in S!Scripts \ {a} : kid'[c] = kid[c]
  BY <1>1 DEF ScriptType
<1> HIDE DEF ok
<1>4. QED
  BY <1>1, <1>2, <1>3, DoneKeeps

\* A thread leaves the list.
LEMMA LeavesKeeps ==
  ASSUME ScriptInv, NEW a \in S!Scripts, S!ThreadLeaves(a)
  PROVE  ScriptInv'
<1>1. /\ ScriptType /\ act[a].at = "leave" /\ act' = [act EXCEPT ![a].at = "idle"] /\ listed' = listed \ {a}
      /\ UNCHANGED <<kid, sfg, client, saved, latest, crossed, unsaved, sovertaken, made, stold, ready>>
  BY DEF S!ThreadLeaves, S!dvars, ScriptInv
<1>2. Turns(a, "idle", act[a].res, act[a].own, act[a].stolen, act[a].nofork)
  BY <1>1, PlaceTurns
<1>3. \A b \in S!Scripts : act[b].at = "wait" => kid[b] # "none" \/ act[b].stolen
  BY OwnHas
<1>4. kid' \in [S!Scripts -> KidState] /\ stold' \in Int /\ ready' \in BOOLEAN
  BY <1>1 DEF ScriptType
<1>5. QED
  BY <1>1, <1>2, <1>3, <1>4, OwnHas, TurnKeeps

\* The DHCP thread resets the BOOL.
LEMMA ResetsKeeps ==
  ASSUME ScriptInv, S!ThreadResets
  PROVE  ScriptInv'
<1>1. /\ ScriptType /\ act["dhcp"].at = "reset" /\ act' = [act EXCEPT !["dhcp"].at = "leave"] /\ sfg' = FALSE
      /\ UNCHANGED <<kid, listed, client, saved, latest, crossed, unsaved, sovertaken, made, stold, ready>>
  BY DEF S!ThreadResets, ScriptInv
<1>2. "dhcp" \in S!Scripts
  BY DEF S!Scripts
<1>3. Turns("dhcp", "leave", act["dhcp"].res, act["dhcp"].own, act["dhcp"].stolen, act["dhcp"].nofork)
  BY <1>1, <1>2, PlaceTurns
<1>4. /\ act' \in [S!Scripts -> ActRec] /\ act'["dhcp"].at = "leave"
      /\ \A b \in S!Scripts : /\ act'[b].res = act[b].res /\ act'[b].own = act[b].own /\ act'[b].stolen = act[b].stolen
                              /\ act'[b].nofork = act[b].nofork /\ (act'[b].at = "wait" => act[b].at = "wait")
  BY <1>2, <1>3 DEF Turns
<1>5. ScriptType'
  <2>1. sfg' \in BOOLEAN
    BY <1>1
  <2>2. QED
    BY <1>1, <1>4, <2>1 DEF ScriptType
<1>6. OwnInv'
  <2>1. S!ResultIsOwn'
    BY <1>4 DEF ScriptInv, OwnInv, S!ResultIsOwn, S!Zero
  <2>2. ready' => act'["ntp"].own = "ok"
    BY <1>1, <1>4 DEF ScriptInv, OwnInv, S!Scripts
  <2>3. \A b \in S!Scripts : act'[b].at = "wait" => kid'[b] # "none" \/ act'[b].stolen
    BY <1>1, <1>4 DEF ScriptInv, OwnInv
  <2>4. QED
    BY <2>1, <2>2, <2>3 DEF OwnInv
<1>7. ClientInv'
  BY <1>1, <1>4 DEF ScriptInv, ClientInv, S!DhcpFlagIsThread, S!DhcpToldOnce, S!RestartTellsLatest
<1>8. QED
  BY <1>5, <1>6, <1>7 DEF ScriptInv

\* A call of the DHCP client enters u_crit.
LEMMA EntersKeeps ==
  ASSUME ScriptInv, NEW cmd \in {"start", "restart"}, NEW cb \in ScriptClients \cup {"none"}, S!Enters(cmd, cb),
         IF cmd = "start" THEN latest' = cb /\ unsaved' = FALSE
         ELSE cb = saved /\ latest' = latest /\ unsaved' = unsaved
  PROVE  ScriptInv'
<1> DEFINE r == [at |-> IF sfg THEN "save" ELSE "try", cmd |-> cmd, cb |-> cb, tries |-> ScriptTries]
<1>1. /\ client.at = "idle" /\ client' = r
      /\ UNCHANGED <<kid, act, sfg, listed, saved, crossed, sovertaken, made, stold, ready>>
  BY DEF S!Enters
<1>2. /\ r \in ClientRec /\ r.at \in {"save", "try"} /\ r.cb = cb /\ r.cmd = cmd
  <2>1. ScriptTries \in Int
    BY NetAssumption
  <2>2. QED
    BY <2>1 DEF ClientRec
<1> HIDE DEF r
<1>3. ScriptType'
  <2>1. latest' \in ScriptClients \cup {"none"} /\ unsaved' \in BOOLEAN
    BY DEF ScriptInv, ScriptType
  <2>2. QED
    BY <1>1, <1>2, <2>1 DEF ScriptInv, ScriptType
<1>4. OwnInv'
  BY <1>1 DEF ScriptInv, OwnInv, S!ResultIsOwn, S!Zero
<1>5. ClientInv'
  BY <1>1, <1>2 DEF ScriptInv, ClientInv, S!DhcpFlagIsThread, S!DhcpToldOnce, S!RestartTellsLatest
<1>6. QED
  BY <1>3, <1>4, <1>5 DEF ScriptInv

\* A restart is called, and its callback may be written.
LEMMA RestartKeeps ==
  ASSUME ScriptInv, UNCHANGED <<kid, act, sfg, listed, client, sovertaken, made, stold, ready>>,
         \/ UNCHANGED <<saved, latest, crossed, unsaved>>
         \/ \E fn \in ScriptClients : /\ saved' = fn /\ latest' = fn
                                     /\ crossed' = (client.at # "idle") /\ unsaved' = FALSE
  PROVE  ScriptInv'
<1>1. ScriptType'
  <2>1. /\ saved' \in ScriptClients \cup {"none"} /\ latest' \in ScriptClients \cup {"none"}
        /\ crossed' \in BOOLEAN /\ unsaved' \in BOOLEAN
    BY DEF ScriptInv, ScriptType
  <2>2. QED
    BY <2>1 DEF ScriptInv, ScriptType
<1>2. OwnInv'
  BY DEF ScriptInv, OwnInv, S!ResultIsOwn, S!Zero
<1>3. ClientInv'
  <2>1. S!DhcpFlagIsThread' /\ S!DhcpToldOnce' /\ (act'["dhcp"].at # "idle" => "dhcp" \in listed')
    BY DEF ScriptInv, ClientInv, S!DhcpFlagIsThread, S!DhcpToldOnce
  <2>2. CASE UNCHANGED <<saved, latest, crossed, unsaved>>
    BY <2>1, <2>2 DEF ScriptInv, ClientInv, S!RestartTellsLatest
  <2>3. CASE /\ saved' = latest' /\ crossed' = (client.at # "idle") /\ unsaved' = FALSE
    BY <2>1, <2>3 DEF ScriptInv, ClientInv, S!RestartTellsLatest
  <2>4. QED
    BY <2>2, <2>3
<1>4. QED
  BY <1>1, <1>2, <1>3 DEF ScriptInv

\* The client after an attempt.
LEMMA Attempt ==
  ASSUME NEW c \in ClientRec, NEW p \in {"idle", "try", "set", "save", "giveup"}
  PROVE  /\ [c EXCEPT !.tries = @ - 1, !.at = p] \in ClientRec
         /\ [c EXCEPT !.tries = @ - 1, !.at = p].at = p
         /\ [c EXCEPT !.tries = @ - 1, !.at = p].cb = c.cb
         /\ [c EXCEPT !.tries = @ - 1, !.at = p].cmd = c.cmd
<1> DEFINE q == [c EXCEPT !.tries = @ - 1]
<1>1. q \in ClientRec /\ q.cb = c.cb /\ q.cmd = c.cmd
  BY DEF ClientRec
<1> HIDE DEF q
<1>2. /\ [q EXCEPT !.at = p] \in ClientRec /\ [q EXCEPT !.at = p].at = p /\ [q EXCEPT !.at = p].cb = c.cb
      /\ [q EXCEPT !.at = p].cmd = c.cmd
  BY <1>1 DEF ClientRec
<1>3. QED
  BY <1>2 DEF q

\* An attempt to make the thread fails.
LEMMA TryFailsKeeps ==
  ASSUME ScriptInv, S!TryFails
  PROVE  ScriptInv'
<1> DEFINE p == IF client.at = "try" /\ client.tries = 1 THEN "giveup" ELSE client.at
           r == [client EXCEPT !.tries = @ - 1, !.at = p]
<1>1. /\ client.at = "try" /\ client' = r
      /\ UNCHANGED <<kid, act, sfg, listed, saved, latest, crossed, unsaved, sovertaken, made, stold, ready>>
  BY DEF S!TryFails
<1>2. /\ r \in ClientRec /\ r.at \in {"giveup", "try"} /\ r.cb = client.cb /\ r.cmd = client.cmd
  <2>1. client \in ClientRec
    BY DEF ScriptInv, ScriptType
  <2>2. p \in {"giveup", "try"} /\ p \in {"idle", "try", "set", "save", "giveup"}
    <3>1. client.at = "try"
      BY Zenon DEF S!TryFails
    <3>2. QED
      BY <3>1
  <2> HIDE DEF p
  <2>3. r \in ClientRec /\ r.at = p /\ r.cb = client.cb /\ r.cmd = client.cmd
    BY <2>1, <2>2, Attempt
  <2>4. QED
    BY <2>2, <2>3
<1> HIDE DEF r
<1>3. ScriptType'
  BY <1>1, <1>2 DEF ScriptInv, ScriptType
<1>4. OwnInv'
  BY <1>1 DEF ScriptInv, OwnInv, S!ResultIsOwn, S!Zero
<1>5. ClientInv'
  BY <1>1, <1>2 DEF ScriptInv, ClientInv, S!DhcpFlagIsThread, S!DhcpToldOnce, S!RestartTellsLatest
<1>6. QED
  BY <1>3, <1>4, <1>5 DEF ScriptInv

\* The thread is made: the last one has left the list, and so ended.
LEMMA TryCreatesKeeps ==
  ASSUME ScriptInv, S!TryCreates
  PROVE  ScriptInv'
<1> DEFINE r == [client EXCEPT !.tries = @ - 1, !.at = "set"]
<1>1. /\ client.at = "try" /\ "dhcp" \notin listed /\ listed' = listed \union {"dhcp"} /\ client' = r
      /\ S!Begins("dhcp", client.cmd, client.cb) /\ made' = made + 1
      /\ UNCHANGED <<kid, sfg, saved, latest, crossed, unsaved, sovertaken, stold, ready>>
  BY DEF S!TryCreates
<1>2. ScriptType /\ client \in ClientRec /\ act["dhcp"].at = "idle" /\ "dhcp" \in S!Scripts
  BY <1>1 DEF ScriptInv, ScriptType, ClientInv, S!Scripts
<1>3. /\ r \in ClientRec /\ r.at = "set" /\ r.cb = client.cb /\ r.cmd = client.cmd
      /\ client.cmd \in {"none", "start", "restart"} /\ client.cb \in ScriptClients \cup {"none"}
  <2> DEFINE p == "set"
  <2>1. p \in {"idle", "try", "set", "save", "giveup"}
    OBVIOUS
  <2> HIDE DEF p
  <2>2. client \in ClientRec
    BY <1>2, Zenon
  <2>3. /\ [client EXCEPT !.tries = @ - 1, !.at = p] \in ClientRec
        /\ [client EXCEPT !.tries = @ - 1, !.at = p].at = p
        /\ [client EXCEPT !.tries = @ - 1, !.at = p].cb = client.cb
        /\ [client EXCEPT !.tries = @ - 1, !.at = p].cmd = client.cmd
    BY <2>1, <2>2, Attempt
  <2>4. r \in ClientRec /\ r.at = "set" /\ r.cb = client.cb /\ r.cmd = client.cmd
    BY <2>3, Zenon DEF p
  <2>5. QED
    BY <1>2, <2>4 DEF ClientRec
<1> HIDE DEF r
<1>4. Turns("dhcp", "fork", "none", "none", FALSE, FALSE)
  BY <1>1, <1>2, <1>3, BeginsTurns
<1>5. ScriptType'
  BY <1>1, <1>2, <1>3, <1>4 DEF Turns, ScriptType
<1>6. OwnInv'
  <2>1. S!ResultIsOwn'
    BY <1>4 DEF Turns, ScriptInv, OwnInv, S!ResultIsOwn, S!Zero
  <2>2. ready' => act'["ntp"].own = "ok"
    BY <1>1, <1>4 DEF Turns, ScriptInv, OwnInv, S!Scripts
  <2>3. \A b \in S!Scripts : act'[b].at = "wait" => kid'[b] # "none" \/ act'[b].stolen
    BY <1>1, <1>4 DEF Turns, ScriptInv, OwnInv
  <2>4. QED
    BY <2>1, <2>2, <2>3 DEF OwnInv
<1>7. ClientInv'
  BY <1>1, <1>2, <1>3, <1>4 DEF Turns, ScriptInv, ScriptType, ClientInv, S!DhcpFlagIsThread, S!DhcpToldOnce,
     S!RestartTellsLatest
<1>8. QED
  BY <1>5, <1>6, <1>7 DEF ScriptInv

\* The BOOL is set after the thread was made.
LEMMA SetFlagKeeps ==
  ASSUME ScriptInv, S!SetFlag
  PROVE  ScriptInv'
<1> DEFINE r == [client EXCEPT !.at = "save"]
<1>1. /\ client.at = "set" /\ client' = r /\ sfg' = TRUE
      /\ sovertaken' = (sovertaken \/ act["dhcp"].at \in {"leave", "idle"})
      /\ UNCHANGED <<kid, act, listed, saved, latest, crossed, unsaved, made, stold, ready>>
  BY DEF S!SetFlag
<1>2. client \in ClientRec /\ act["dhcp"].at \in {"idle", "fork", "wait", "reset", "leave"}
  BY DEF ScriptInv, ScriptType, ActRec, S!Scripts
<1>3. /\ r \in ClientRec /\ r.at = "save" /\ r.cb = client.cb /\ r.cmd = client.cmd
  BY <1>2 DEF ClientRec
<1> HIDE DEF r
<1>4. ScriptType'
  <2>1. sfg' \in BOOLEAN
    BY <1>1
  <2>2. sovertaken' \in BOOLEAN
    BY <1>1 DEF ScriptInv, ScriptType
  <2>3. QED
    BY <1>1, <1>3, <2>1, <2>2 DEF ScriptInv, ScriptType
<1>5. OwnInv'
  BY <1>1 DEF ScriptInv, OwnInv, S!ResultIsOwn, S!Zero
<1>6. ClientInv'
  BY <1>1, <1>2, <1>3 DEF ScriptInv, ClientInv, S!DhcpFlagIsThread, S!DhcpToldOnce, S!RestartTellsLatest
<1>7. QED
  BY <1>4, <1>5, <1>6 DEF ScriptInv

\* The request is saved, or not.
LEMMA SaveKeeps ==
  ASSUME ScriptInv, S!Save
  PROVE  ScriptInv'
<1> DEFINE over == client.at = "giveup" \/ client.tries = 0
<1>1. /\ client.at \in {"save", "giveup"} /\ client' = [at |-> "idle", cmd |-> "none", cb |-> "none", tries |-> 0]
      /\ saved' = (IF over THEN saved ELSE client.cb) /\ crossed' = FALSE
      /\ unsaved' = (unsaved \/ IF crossed THEN ~over ELSE over /\ client.cmd = "start")
      /\ UNCHANGED <<kid, act, sfg, listed, latest, sovertaken, made, stold, ready>>
  BY DEF S!Save, S!NoCall
<1>2. over \in BOOLEAN
  OBVIOUS
<1> HIDE DEF over
<1>3. client \in ClientRec /\ client' \in ClientRec /\ client'.at = "idle"
  BY <1>1 DEF ScriptInv, ScriptType, ClientRec
<1>4. client.cb \in ScriptClients \cup {"none"} /\ unsaved' \in BOOLEAN
  BY <1>1, <1>2, <1>3 DEF ClientRec, ScriptInv, ScriptType
<1>5. ScriptType'
  BY <1>1, <1>2, <1>3, <1>4 DEF ScriptInv, ScriptType
<1>6. OwnInv'
  BY <1>1 DEF ScriptInv, OwnInv, S!ResultIsOwn, S!Zero
<1>7. ClientInv'
  BY <1>1, <1>2, <1>3, <1>4 DEF ScriptInv, ClientInv, S!DhcpFlagIsThread, S!DhcpToldOnce, S!RestartTellsLatest
<1>8. QED
  BY <1>5, <1>6, <1>7 DEF ScriptInv

\* Every step keeps it.
LEMMA ScriptStep ==
  ASSUME ScriptInv, S!SNext \/ UNCHANGED svars
  PROVE  ScriptInv'
<1>1. ASSUME NEW a \in S!Scripts, S!Call(a) PROVE ScriptInv'
  BY <1>1, CallKeeps
<1>2. ASSUME NEW a \in S!Scripts, S!Step(a) PROVE ScriptInv'
  <2>1. CASE S!Fork(a)
    BY <2>1, ForkKeeps
  <2>2. CASE S!ForkFails(a)
    BY <2>2, ForkFailsKeeps
  <2>3. ASSUME NEW b \in S!Scripts, S!TakesOther(a, b) PROVE ScriptInv'
    <3>1. /\ kid' = [kid EXCEPT ![b] = "none"] /\ act' = [act EXCEPT ![b].stolen = TRUE]
          /\ UNCHANGED <<listed, sfg, client, saved, latest, crossed, unsaved, sovertaken, made, stold, ready>>
      BY <2>3 DEF S!TakesOther, S!dvars
    <3>2. QED
      BY <3>1, StolenKeeps
  <2>4. CASE S!TakesOwn(a)
    BY <2>4, TakesOwnKeeps
  <2>5. CASE S!NoChild(a)
    BY <2>5, NoChildKeeps
  <2>6. CASE S!ThreadResets
    BY <2>6, ResetsKeeps
  <2>7. CASE S!ThreadLeaves(a)
    BY <2>7, LeavesKeeps
  <2>8. QED
    BY <1>2, <2>1, <2>2, <2>3, <2>4, <2>5, <2>6, <2>7 DEF S!Step
<1>3. ASSUME NEW a \in S!Scripts, S!KidEnds(a) PROVE ScriptInv'
  BY <1>3, KidEndsKeeps
<1>4. ASSUME NEW b \in S!Scripts, S!MainReaps(b) PROVE ScriptInv'
  <2>1. /\ kid' = [kid EXCEPT ![b] = "none"] /\ act' = [act EXCEPT ![b].stolen = TRUE]
        /\ UNCHANGED <<listed, sfg, client, saved, latest, crossed, unsaved, sovertaken, made, stold, ready>>
    BY <1>4 DEF S!MainReaps, S!dvars
  <2>2. QED
    BY <2>1, StolenKeeps
<1>5. CASE S!TimeSync
  BY <1>5, TimeSyncKeeps
<1>6. CASE S!ClientCalls
  <2>1. ASSUME NEW c \in ScriptClients, S!c_dhcpc_start(c) PROVE ScriptInv'
    BY <2>1, EntersKeeps DEF S!c_dhcpc_start
  <2>2. ASSUME NEW c \in ScriptClients, S!c_dhcpc_notify_restart(c) PROVE ScriptInv'
    BY <2>2, RestartKeeps DEF S!c_dhcpc_notify_restart
  <2>3. CASE S!c_dhcpc_restart
    BY <2>3, RestartKeeps DEF S!c_dhcpc_restart
  <2>4. QED
    BY <1>6, <2>1, <2>2, <2>3 DEF S!ClientCalls
<1>7. CASE S!ClientStep
  <2>1. CASE S!RestartEnters
    <3>1. saved \in ScriptClients \cup {"none"}
      BY DEF ScriptInv, ScriptType
    <3>2. QED
      BY <2>1, <3>1, EntersKeeps DEF S!RestartEnters
  <2>2. QED
    BY <1>7, <2>1, TryFailsKeeps, TryCreatesKeeps, SetFlagKeeps, SaveKeeps DEF S!ClientStep
<1>8. CASE UNCHANGED svars
  <2>1. ScriptType'
    BY <1>8 DEF svars, ScriptInv, ScriptType
  <2>2. OwnInv'
    BY <1>8 DEF svars, ScriptInv, OwnInv, S!ResultIsOwn, S!Zero
  <2>3. ClientInv'
    BY <1>8 DEF svars, ScriptInv, ClientInv, S!DhcpFlagIsThread, S!DhcpToldOnce, S!RestartTellsLatest
  <2>4. QED
    BY <2>1, <2>2, <2>3 DEF ScriptInv
<1>9. QED
  BY <1>1, <1>2, <1>3, <1>4, <1>5, <1>6, <1>7, <1>8 DEF S!SNext

-----------------------------------------------------------------------------
(* NiMonitor.                                                                *)

ItemRec == [ev : Events, cb : Callbacks, need : BOOLEAN]
ThrPlace == {"idle", "create", "regroot", "regfind", "insert", "unregroot", "unregfind", "free", "mark"}
ThrRec == [at : ThrPlace, ev : Events, cb : Callbacks \cup {"none"}, from : Nat, new : Nat]

MonType ==
  /\ order \in Seq(Nat) /\ item \in Seq(ItemRec) /\ freed \subseteq 1 .. Len(item)
  /\ mon \in [at : {"none", "sleep", "pass"}, todo : Seq(Nat)]
  /\ thr \in [Threads -> ThrRec]
  /\ \A t \in Threads : thr[t].at \notin {"idle", "mark"} => thr[t].cb \in Callbacks
  /\ heard \in [Callbacks -> {"none", "PLUGIN", "UNPLUG"}]

\* The list has each item once, none that was freed; a pass visits what is on it.
OnlyLive ==
  /\ Distinct(order) /\ Range(order) \subseteq (1 .. Len(item)) \ freed
  /\ mon.at = "pass" => crit /\ Range(mon.todo) \subseteq Range(order)

\* The one call that is made: the root it read is still the root, and what it
\* found out is still so.
CallKnows(t) ==
  /\ thr[t].at \in {"regfind", "unregfind"} => thr[t].from = Root
  /\ thr[t].at = "insert" => \A i \in Range(order) : ~Matches(i, thr[t].ev, thr[t].cb)
  /\ thr[t].at = "free" => thr[t].new \in (1 .. Len(item)) \ Range(order)
  /\ thr[t].at = "mark" => thr[t].from \in Range(order) /\ item[thr[t].from].ev \in Changes

OneAtATime == \A t, u \in Threads : thr[t].at # "idle" /\ thr[u].at # "idle" => t = u

NoTwins == \A i, j \in Range(order) : item[i].ev = item[j].ev /\ item[i].cb = item[j].cb => i = j

\* A client that is alone: what waits was not told last, and PLUGIN was not told
\* last while it is not registered.
TurnInv ==
  Cardinality(Callbacks) = 1 =>
    /\ ~again
    /\ \A i \in Range(order) : item[i].need => item[i].ev # heard[item[i].cb]
    /\ \A c \in Callbacks : heard[c] = "PLUGIN" => \E i \in Range(order) : item[i].ev = "PLUGIN"

MonSafe == MonType /\ OnlyLive /\ (\A t \in Threads : CallKnows(t)) /\ OneAtATime /\ NoTwins /\ TurnInv /\ ~uaf
MonInv == ~raced => MonSafe

\* It holds at the start.
LEMMA MonInit == MInit => MonInv
<1> SUFFICES ASSUME MInit PROVE MonSafe
  BY DEF MonInv
<1> DEFINE r == [at |-> "idle", ev |-> "PLUGIN", cb |-> "none", from |-> 0, new |-> 0]
<1>1. \A t \in Threads : thr[t] = r
  BY DEF MInit, Idle, None
<1>2. thr \in [Threads -> ThrRec]
  <2>1. r \in ThrRec
    BY DEF ThrRec, ThrPlace, Events
  <2>2. QED
    BY <2>1 DEF MInit, Idle, None
<1>3. mon \in [at : {"none", "sleep", "pass"}, todo : Seq(Nat)] /\ mon.at = "none"
  BY DEF MInit
<1>4. order = <<>> /\ item = <<>> /\ freed = {} /\ Range(order) = {}
  BY DEF MInit, Range
<1>5. heard \in [Callbacks -> {"none", "PLUGIN", "UNPLUG"}] /\ \A c \in Callbacks : heard[c] = "none"
  BY DEF MInit
<1>6. MonType
  BY <1>1, <1>2, <1>3, <1>4, <1>5 DEF MonType
<1>7. OnlyLive
  BY <1>3, <1>4 DEF OnlyLive, Distinct
<1>8. QED
  BY <1>1, <1>4, <1>5, <1>6, <1>7 DEF MonSafe, CallKnows, OneAtATime, NoTwins, TurnInv, MInit

\* A walk from the root meets the whole list.
LEMMA FromRoot ==
  ASSUME order \in Seq(Nat), Distinct(order)
  PROVE  From(Root) = order
<1>1. CASE order = <<>>
  <2>1. Range(order) = {}
    BY <1>1 DEF Range
  <2>2. QED
    BY <1>1, <2>1 DEF From
<1>2. CASE order # <<>>
  <2>1. 1 \in DOMAIN order /\ DOMAIN order = 1 .. Len(order) /\ Root = order[1] /\ order[1] \in Range(order)
    BY <1>2 DEF Root, Range
  <2>2. (CHOOSE i \in DOMAIN order : order[i] = Root) = 1
    BY <2>1 DEF Distinct
  <2>3. SubSeq(order, 1, Len(order)) = order
    BY <1>2
  <2>4. QED
    BY <2>1, <2>2, <2>3 DEF From
<1>3. QED
  BY <1>1, <1>2

\* The root is never a freed item.
LEMMA RootLives ==
  ASSUME MonType, OnlyLive
  PROVE  Root \notin freed
<1>1. CASE order = <<>>
  BY <1>1 DEF Root, None, MonType
<1>2. CASE order # <<>>
  BY <1>2 DEF Root, OnlyLive, Range, MonType
<1>3. QED
  BY <1>1, <1>2

\* The first item of the list that waits for an event.
LEMMA FirstForShape ==
  ASSUME order \in Seq(Nat), NEW e
  PROVE  \/ FirstFor(order, e) = 0 /\ \A i \in Range(order) : item[i].ev # e
         \/ /\ FirstFor(order, e) \in 1 .. Len(order) /\ order[FirstFor(order, e)] \in Range(order)
            /\ item[order[FirstFor(order, e)]].ev = e
<1> DEFINE I == {i \in 1 .. Len(order) : item[order[i]].ev = e}
<1>1. FirstFor(order, e) = IF I # {} THEN Min(I) ELSE 0
  BY Zenon DEF FirstFor, SelectInSeq
<1>2. I \in SUBSET Nat
  OBVIOUS
<1>3. CASE I = {}
  <2>1. FirstFor(order, e) = 0
    BY <1>1, <1>3
  <2>2. \A j \in 1 .. Len(order) : j \notin I
    BY <1>3
  <2>3. QED
    BY <2>1, <2>2 DEF Range
<1>4. CASE I # {}
  <2> HIDE DEF I
  <2>1. FirstFor(order, e) \in I
    BY <1>1, <1>2, <1>4, MinIsOne
  <2>2. QED
    BY <2>1 DEF I, Range
<1>5. QED
  BY <1>3, <1>4

\* The registration that a call unlinks.
LEMMA FoundShape ==
  ASSUME order \in Seq(Nat), NEW e, NEW c
  PROVE  LET k == FirstOf(order, e, c)
         IN  \/ k = 0 /\ \A i \in Range(order) : ~Matches(i, e, c)
             \/ k \in 1 .. Len(order) /\ order[k] \in Range(order) /\ Matches(order[k], e, c)
<1> DEFINE k == FirstOf(order, e, c)
           I == {i \in 1 .. Len(order) : Matches(order[i], e, c)}
<1>1. k = IF I # {} THEN Min(I) ELSE 0
  BY Zenon DEF FirstOf, SelectInSeq
<1> HIDE DEF k
<1>2. I \in SUBSET Nat
  OBVIOUS
<1>3. ASSUME I = {} PROVE k = 0 /\ \A i \in Range(order) : ~Matches(i, e, c)
  <2>1. k = 0
    BY <1>1, <1>3
  <2>2. \A j \in 1 .. Len(order) : j \notin I
    BY <1>3
  <2>3. QED
    BY <2>1, <2>2 DEF Range
<1>4. ASSUME I # {} PROVE k \in 1 .. Len(order) /\ order[k] \in Range(order) /\ Matches(order[k], e, c)
  <2> HIDE DEF I
  <2>1. k \in I
    BY <1>1, <1>2, <1>4, MinIsOne
  <2>2. k \in 1 .. Len(order) /\ Matches(order[k], e, c)
    BY <2>1 DEF I
  <2>3. order[k] \in Range(order)
    BY <2>2 DEF Range
  <2>4. QED
    BY <2>2, <2>3
<1>5. \/ k = 0 /\ \A i \in Range(order) : ~Matches(i, e, c)
      \/ k \in 1 .. Len(order) /\ order[k] \in Range(order) /\ Matches(order[k], e, c)
  BY <1>3, <1>4
<1>6. QED
  BY <1>5 DEF k

\* One call goes on, the list stays as it is.
LEMMA CallMoves ==
  ASSUME MonSafe, NEW t \in Threads, NEW r \in ThrRec, thr' = [thr EXCEPT ![t] = r],
         \A u \in Threads \ {t} : thr[u].at = "idle",
         r.at \notin {"idle", "mark"} => r.cb \in Callbacks,
         UNCHANGED <<order, item, freed, crit, heard, again>>, ~uaf',
         mon' \in [at : {"none", "sleep", "pass"}, todo : Seq(Nat)], mon'.at = "pass" => mon' = mon,
         r.at \in {"regfind", "unregfind"} => r.from = Root,
         r.at = "insert" => \A i \in Range(order) : ~Matches(i, r.ev, r.cb),
         r.at # "free",
         r.at = "mark" => r.from \in Range(order) /\ item[r.from].ev \in Changes
  PROVE  MonSafe'
<1>1. thr' \in [Threads -> ThrRec] /\ thr'[t] = r /\ \A u \in Threads \ {t} : thr'[u] = thr[u]
  BY DEF MonSafe, MonType
<1>2. MonType'
  BY <1>1 DEF MonSafe, MonType
<1>3. OnlyLive'
  BY DEF MonSafe, OnlyLive, Distinct
<1>4. ASSUME NEW u \in Threads PROVE CallKnows(u)'
  <2>1. CASE u = t
    BY <1>1, <2>1 DEF CallKnows, Root, Matches
  <2>2. CASE u # t
    BY <1>1, <2>2 DEF CallKnows
  <2>3. QED
    BY <2>1, <2>2
<1>5. OneAtATime'
  BY <1>1 DEF OneAtATime
<1>6. NoTwins' /\ TurnInv'
  BY DEF MonSafe, NoTwins, TurnInv
<1>7. QED
  BY <1>2, <1>3, <1>4, <1>5, <1>6 DEF MonSafe

\* The others are idle while a call is made, and when one begins.
LEMMA OthersIdle ==
  ASSUME MonSafe, NEW t \in Threads, thr[t].at # "idle"
  PROVE  \A u \in Threads \ {t} : thr[u].at = "idle"
BY DEF MonSafe, OneAtATime

LEMMA AllIdle ==
  ASSUME NEW t \in Threads, NEW at, Begin(t, at), ~raced'
  PROVE  \A u \in Threads : thr[u].at = "idle"
BY DEF Begin

\* A call to register begins.
LEMMA RegKeeps ==
  ASSUME MonSafe, NEW t \in Threads, NEW e \in Events, NEW c \in Callbacks, Reg(t, e, c), ~raced'
  PROVE  MonSafe'
<1> DEFINE p == IF created THEN "regroot" ELSE "create"
           r == [Idle EXCEPT !.at = p, !.ev = e, !.cb = c]
<1>1. /\ thr' = [thr EXCEPT ![t] = r]
      /\ UNCHANGED <<order, item, freed, crit, heard, again, uaf, mon>>
  BY DEF Reg
<1>2. \A u \in Threads : thr[u].at = "idle"
  BY AllIdle DEF Reg
<1>3. p \in {"regroot", "create"}
  OBVIOUS
<1> HIDE DEF p
<1>4. r \in ThrRec /\ r.at = p /\ r.cb = c
  <2> DEFINE d == [at |-> "idle", ev |-> "PLUGIN", cb |-> "none", from |-> 0, new |-> 0]
  <2>1. Idle = d
    BY DEF Idle, None
  <2>2. d \in ThrRec
    BY DEF ThrRec, ThrPlace, Events
  <2> HIDE DEF d
  <2>3. r = [d EXCEPT !.at = p, !.ev = e, !.cb = c]
    BY <2>1
  <2>4. QED
    BY <1>3, <2>2, <2>3 DEF ThrRec, ThrPlace
<1> HIDE DEF r
<1>5. ~uaf /\ mon \in [at : {"none", "sleep", "pass"}, todo : Seq(Nat)]
  BY DEF MonSafe, MonType
<1>6. QED
  BY <1>1, <1>2, <1>3, <1>4, <1>5, CallMoves

\* A call to unregister begins.
LEMMA UnregKeeps ==
  ASSUME MonSafe, NEW t \in Threads, NEW e \in Events, NEW c \in Callbacks, Unreg(t, e, c), ~raced'
  PROVE  MonSafe'
<1> DEFINE r == [Idle EXCEPT !.at = "unregroot", !.ev = e, !.cb = c]
<1>1. /\ thr' = [thr EXCEPT ![t] = r]
      /\ UNCHANGED <<order, item, freed, crit, heard, again, uaf, mon>>
  BY DEF Unreg
<1>2. \A u \in Threads : thr[u].at = "idle"
  BY AllIdle DEF Unreg
<1>3. r \in ThrRec /\ r.at = "unregroot" /\ r.cb = c
  <2> DEFINE d == [at |-> "idle", ev |-> "PLUGIN", cb |-> "none", from |-> 0, new |-> 0]
  <2>1. Idle = d
    BY DEF Idle, None
  <2>2. d \in ThrRec
    BY DEF ThrRec, ThrPlace, Events
  <2> HIDE DEF d
  <2>3. r = [d EXCEPT !.at = "unregroot", !.ev = e, !.cb = c]
    BY <2>1
  <2>4. QED
    BY <2>2, <2>3 DEF ThrRec, ThrPlace
<1> HIDE DEF r
<1>4. ~uaf /\ mon \in [at : {"none", "sleep", "pass"}, todo : Seq(Nat)]
  BY DEF MonSafe, MonType
<1>5. QED
  BY <1>1, <1>2, <1>3, <1>4, CallMoves

\* One call only comes to another place.
LEMMA ClientAt ==
  ASSUME MonSafe, NEW t \in Threads, NEW p \in ThrPlace
  PROVE  /\ [thr EXCEPT ![t].at = p] = [thr EXCEPT ![t] = [thr[t] EXCEPT !.at = p]]
         /\ [thr[t] EXCEPT !.at = p] \in ThrRec /\ [thr[t] EXCEPT !.at = p].at = p
         /\ [thr[t] EXCEPT !.at = p].ev = thr[t].ev /\ [thr[t] EXCEPT !.at = p].cb = thr[t].cb
         /\ [thr[t] EXCEPT !.at = p].from = thr[t].from /\ [thr[t] EXCEPT !.at = p].new = thr[t].new
<1>1. thr[t] \in ThrRec
  BY DEF MonSafe, MonType
<1>2. QED
  BY <1>1 DEF ThrRec

\* The monitor is made, or cannot be.
LEMMA CreateKeeps ==
  ASSUME MonSafe, NEW t \in Threads, CreateMonitor(t), ~raced'
  PROVE  MonSafe'
<1>1. /\ thr[t].at = "create" /\ UNCHANGED <<order, item, freed, crit, heard, again, uaf>>
  BY DEF CreateMonitor
<1>2. /\ \A u \in Threads \ {t} : thr[u].at = "idle"
      /\ thr[t].cb \in Callbacks /\ ~uaf /\ mon \in [at : {"none", "sleep", "pass"}, todo : Seq(Nat)]
  BY <1>1, OthersIdle DEF MonSafe, MonType
<1>3. ASSUME NEW p \in {"regroot", "idle"}, thr' = [thr EXCEPT ![t].at = p],
             mon' = mon \/ mon' = [mon EXCEPT !.at = "sleep"]
      PROVE  MonSafe'
  <2> DEFINE r == [thr[t] EXCEPT !.at = p]
  <2>1. p \in ThrPlace
    BY DEF ThrPlace
  <2>2. thr' = [thr EXCEPT ![t] = r] /\ r \in ThrRec /\ r.at = p /\ r.cb = thr[t].cb
    BY <1>3, <2>1, ClientAt
  <2> HIDE DEF r
  <2>3. mon' \in [at : {"none", "sleep", "pass"}, todo : Seq(Nat)] /\ (mon'.at = "pass" => mon' = mon)
    BY <1>2, <1>3
  <2>4. QED
    BY <1>1, <1>2, <2>2, <2>3, CallMoves
<1>4. QED
  BY <1>3 DEF CreateMonitor, Client

\* The root is read.
LEMMA ReadRootKeeps ==
  ASSUME MonSafe, NEW t \in Threads, ReadRoot(t), ~raced'
  PROVE  MonSafe'
<1> DEFINE p == IF thr[t].at = "regroot" THEN "regfind" ELSE "unregfind"
           r == [thr[t] EXCEPT !.at = p, !.from = Root]
<1>1. /\ thr[t].at \in {"regroot", "unregroot"}
      /\ UNCHANGED <<order, item, freed, crit, heard, again, uaf, mon>>
  BY DEF ReadRoot
<1>2. /\ \A u \in Threads \ {t} : thr[u].at = "idle"
      /\ thr[t].cb \in Callbacks /\ ~uaf /\ mon \in [at : {"none", "sleep", "pass"}, todo : Seq(Nat)]
      /\ thr[t] \in ThrRec
  BY <1>1, OthersIdle DEF MonSafe, MonType
<1>3. Root \in Nat
  BY DEF MonSafe, MonType, Root, None
<1>4. p \in {"regfind", "unregfind"}
  OBVIOUS
<1>5. thr' = [thr EXCEPT ![t].at = p, ![t].from = Root]
  BY DEF ReadRoot
<1> HIDE DEF p
<1>6. thr' = [thr EXCEPT ![t] = r]
  BY <1>5 DEF MonSafe, MonType
<1>7. r \in ThrRec /\ r.at = p /\ r.cb = thr[t].cb /\ r.from = Root
  BY <1>2, <1>3, <1>4 DEF ThrRec, ThrPlace
<1> HIDE DEF r
<1>8. QED
  BY <1>1, <1>2, <1>4, <1>6, <1>7, CallMoves

\* An equal registration is looked for from the root.
LEMMA RegFindKeeps ==
  ASSUME MonSafe, NEW t \in Threads, RegFind(t), ~raced'
  PROVE  MonSafe'
<1> DEFINE found == \E i \in Range(From(thr[t].from)) : Matches(i, thr[t].ev, thr[t].cb)
           p == IF found THEN "idle" ELSE "insert"
           r == [thr[t] EXCEPT !.at = p]
<1>1. /\ thr[t].at = "regfind" /\ thr' = [thr EXCEPT ![t].at = p] /\ uaf' = (uaf \/ thr[t].from \in freed)
      /\ UNCHANGED <<order, item, freed, crit, heard, again, mon>>
  BY DEF RegFind, Client
<1>2. /\ \A u \in Threads \ {t} : thr[u].at = "idle"
      /\ thr[t].cb \in Callbacks /\ ~uaf /\ mon \in [at : {"none", "sleep", "pass"}, todo : Seq(Nat)]
  BY <1>1, OthersIdle DEF MonSafe, MonType
<1>3. thr[t].from = Root /\ From(Root) = order /\ Root \notin freed
  BY <1>1, FromRoot, RootLives DEF MonSafe, CallKnows, MonType, OnlyLive
<1>4. p \in {"idle", "insert"} /\ (p = "insert" => \A i \in Range(order) : ~Matches(i, thr[t].ev, thr[t].cb))
  BY <1>3
<1>5. p \in ThrPlace
  BY <1>4 DEF ThrPlace
<1> HIDE DEF p
<1>6. thr' = [thr EXCEPT ![t] = r] /\ r \in ThrRec /\ r.at = p /\ r.cb = thr[t].cb /\ r.ev = thr[t].ev
  BY <1>1, <1>5, ClientAt
<1> HIDE DEF r
<1>7. QED
  BY <1>1, <1>2, <1>3, <1>4, <1>6, CallMoves

\* No memory for the registration.
LEMMA RegFailsKeeps ==
  ASSUME MonSafe, NEW t \in Threads, RegFails(t), ~raced'
  PROVE  MonSafe'
<1> DEFINE r == [thr[t] EXCEPT !.at = "idle"]
<1>1. /\ thr[t].at = "insert" /\ thr' = [thr EXCEPT ![t].at = "idle"]
      /\ UNCHANGED <<order, item, freed, crit, heard, again, uaf, mon>>
  BY DEF RegFails, Client
<1>2. /\ \A u \in Threads \ {t} : thr[u].at = "idle"
      /\ ~uaf /\ mon \in [at : {"none", "sleep", "pass"}, todo : Seq(Nat)]
  BY <1>1, OthersIdle DEF MonSafe, MonType
<1>3. thr' = [thr EXCEPT ![t] = r] /\ r \in ThrRec /\ r.at = "idle"
  BY <1>1, ClientAt DEF ThrPlace
<1> HIDE DEF r
<1>4. QED
  BY <1>1, <1>2, <1>3, CallMoves

\* One call ends.
LEMMA CallEnds ==
  ASSUME MonSafe, NEW t \in Threads, thr[t].at # "idle", thr' = [thr EXCEPT ![t].at = "idle"]
  PROVE  thr' \in [Threads -> ThrRec] /\ \A u \in Threads : thr'[u].at = "idle"
<1>1. thr' = [thr EXCEPT ![t] = [thr[t] EXCEPT !.at = "idle"]]
  BY ClientAt DEF ThrPlace
<1>2. [thr[t] EXCEPT !.at = "idle"] \in ThrRec /\ [thr[t] EXCEPT !.at = "idle"].at = "idle"
  BY ClientAt DEF ThrPlace
<1> DEFINE r == [thr[t] EXCEPT !.at = "idle"]
<1> HIDE DEF r
<1>3. thr' = [thr EXCEPT ![t] = r] /\ r \in ThrRec /\ r.at = "idle"
  BY <1>1, <1>2 DEF r
<1>4. \A u \in Threads \ {t} : thr[u].at = "idle"
  BY OthersIdle
<1>5. thr \in [Threads -> ThrRec]
  BY DEF MonSafe, MonType
<1>6. QED
  BY <1>3, <1>4, <1>5

\* A client that is alone.
LEMMA Alone ==
  ASSUME Cardinality(Callbacks) = 1
  PROVE  \A c, d \in Callbacks : c = d
<1>1. \E c : Callbacks = {c}
  BY NetAssumption, FS_Singleton
<1>2. QED
  BY <1>1

\* The registrations on the list are records of it.
LEMMA OnListRec ==
  ASSUME MonType, OnlyLive
  PROVE  \A i \in Range(order) : item[i] \in ItemRec /\ item[i].ev \in Events /\ item[i].cb \in Callbacks
<1>1. \A i \in 1 .. Len(item) : item[i] \in ItemRec
  BY DEF MonType
<1>2. QED
  BY <1>1 DEF OnlyLive, ItemRec

\* While every call has ended nothing is known of one.
LEMMA NoCallKnows ==
  ASSUME \A u \in Threads : thr[u].at = "idle"
  PROVE  (\A u \in Threads : CallKnows(u)) /\ OneAtATime /\ \A u \in Threads : thr[u].at \in {"idle", "mark"}
BY DEF CallKnows, OneAtATime

\* The registration becomes the root.
LEMMA RegInsertKeeps ==
  ASSUME MonSafe, NEW t \in Threads, RegInsert(t), ~raced'
  PROVE  MonSafe'
<1> DEFINE x == [ev |-> thr[t].ev, cb |-> thr[t].cb, need |-> thr[t].ev \notin {"UNPLUG", "IP_CHANGED"}]
           n == Len(item) + 1
<1>1. /\ thr[t].at = "insert" /\ ~crit /\ thr' = [thr EXCEPT ![t].at = "idle"]
      /\ item' = Append(item, x) /\ order' = <<n>> \o order
      /\ UNCHANGED <<freed, mon, crit, heard, again, uaf>>
  BY DEF RegInsert, Client
<1>2. /\ order \in Seq(Nat) /\ item \in Seq(ItemRec) /\ freed \subseteq 1 .. Len(item) /\ Distinct(order)
      /\ Range(order) \subseteq (1 .. Len(item)) \ freed /\ thr[t] \in ThrRec /\ thr[t].cb \in Callbacks
      /\ mon.at # "pass" /\ n \in Nat /\ n \notin Range(order) /\ n \notin 1 .. Len(item)
  <2>1. /\ order \in Seq(Nat) /\ item \in Seq(ItemRec) /\ freed \subseteq 1 .. Len(item)
        /\ thr[t] \in ThrRec /\ thr[t].cb \in Callbacks
    BY <1>1 DEF MonSafe, MonType
  <2>2. Distinct(order) /\ Range(order) \subseteq (1 .. Len(item)) \ freed /\ mon.at # "pass"
    BY <1>1 DEF MonSafe, OnlyLive
  <2>3. n \in Nat /\ n \notin 1 .. Len(item)
    BY <2>1
  <2>4. QED
    BY <2>1, <2>2, <2>3
<1>3. /\ x \in ItemRec /\ x.ev = thr[t].ev /\ x.cb = thr[t].cb
      /\ x.need => x.ev \in {"PLUGIN"} \cup Changes
  BY <1>2 DEF ItemRec, ThrRec, Events
<1> HIDE DEF x
<1>4. /\ item' \in Seq(ItemRec) /\ Len(item') = n /\ item'[n] = x
      /\ \A i \in 1 .. Len(item) : item'[i] = item[i]
  BY <1>1, <1>2, <1>3
<1> HIDE DEF n
<1>5. order' \in Seq(Nat) /\ Distinct(order') /\ Range(order') = Range(order) \cup {n}
  BY <1>1, <1>2, Prepended DEF Cons
<1>6. thr' \in [Threads -> ThrRec] /\ \A u \in Threads : thr'[u].at = "idle"
  BY <1>1, CallEnds
<1>7. 1 .. Len(item') = (1 .. Len(item)) \cup {n} /\ Len(item) \in Nat
  BY <1>2, <1>4 DEF n
<1>8. MonType'
  BY <1>1, <1>2, <1>4, <1>5, <1>6, <1>7 DEF MonSafe, MonType
<1>9. OnlyLive'
  BY <1>1, <1>2, <1>5, <1>7 DEF OnlyLive, Distinct
<1>10. (\A u \in Threads : CallKnows(u)') /\ OneAtATime'
  BY <1>6 DEF CallKnows, OneAtATime
<1>11. \A i \in Range(order) : item'[i] = item[i] /\ ~(item[i].ev = x.ev /\ item[i].cb = x.cb)
  <2>1. \A i \in Range(order) : item'[i] = item[i]
    BY <1>2, <1>4
  <2>2. \A i \in Range(order) : ~Matches(i, thr[t].ev, thr[t].cb)
    BY <1>1 DEF MonSafe, CallKnows
  <2>3. QED
    BY <1>3, <2>1, <2>2 DEF Matches
<1>12. NoTwins'
  BY <1>4, <1>5, <1>11 DEF MonSafe, NoTwins
<1>13. TurnInv'
  <2> SUFFICES ASSUME Cardinality(Callbacks) = 1
               PROVE  TurnInv'
    BY DEF TurnInv
  <2>1. \A c, d \in Callbacks : c = d
    BY Alone
  <2>2. /\ ~again /\ \A i \in Range(order) : item[i].need => item[i].ev # heard[item[i].cb]
        /\ \A c \in Callbacks : heard[c] = "PLUGIN" => \E i \in Range(order) : item[i].ev = "PLUGIN"
    BY DEF MonSafe, TurnInv
  <2>3. \A i \in Range(order) : item[i].cb = x.cb
    BY <1>2, <1>3, <2>1, OnListRec DEF MonSafe
  <2>4. x.need => x.ev # heard[x.cb]
    <3>1. x.cb \in Callbacks
      BY <1>2, <1>3
    <3>2. x.ev = "PLUGIN" => ~\E i \in Range(order) : item[i].ev = "PLUGIN"
      BY <1>11, <2>3
    <3>3. heard[x.cb] \in {"none", "PLUGIN", "UNPLUG"}
      BY <3>1 DEF MonSafe, MonType
    <3>4. QED
      BY <1>3, <2>2, <3>1, <3>2, <3>3 DEF Changes
  <2>5. \A i \in Range(order') : item'[i].need => item'[i].ev # heard'[item'[i].cb]
    <3>1. ASSUME NEW i \in Range(order) PROVE item'[i].need => item'[i].ev # heard'[item'[i].cb]
      BY <1>1, <1>11, <2>2
    <3>2. item'[n].need => item'[n].ev # heard'[item'[n].cb]
      BY <1>1, <1>4, <2>4
    <3>3. QED
      BY <1>5, <3>1, <3>2
  <2>6. \A c \in Callbacks : heard'[c] = "PLUGIN" => \E i \in Range(order') : item'[i].ev = "PLUGIN"
    BY <1>1, <1>5, <1>11, <2>2
  <2>7. QED
    BY <1>1, <2>2, <2>5, <2>6 DEF TurnInv
<1>14. QED
  BY <1>1, <1>8, <1>9, <1>10, <1>12, <1>13 DEF MonSafe

\* A registration is unlinked, or none was found.
LEMMA UnregFindKeeps ==
  ASSUME MonSafe, NEW t \in Threads, UnregFind(t), ~raced'
  PROVE  MonSafe'
<1> DEFINE k == FirstOf(order, thr[t].ev, thr[t].cb)
<1>1. /\ thr[t].at = "unregfind" /\ ~crit /\ Unlink(t)
      /\ UNCHANGED <<item, freed, mon, crit, again>>
  BY DEF UnregFind
<1>2. /\ order \in Seq(Nat) /\ item \in Seq(ItemRec) /\ freed \subseteq 1 .. Len(item) /\ Distinct(order)
      /\ Range(order) \subseteq (1 .. Len(item)) \ freed /\ thr[t] \in ThrRec /\ thr[t].cb \in Callbacks
      /\ mon \in [at : {"none", "sleep", "pass"}, todo : Seq(Nat)] /\ mon.at # "pass" /\ ~uaf
  BY <1>1 DEF MonSafe, MonType, OnlyLive
<1>3. thr[t].from = Root /\ From(thr[t].from) = order /\ Root \notin freed
  BY <1>1, FromRoot, RootLives DEF MonSafe, CallKnows, MonType, OnlyLive
<1>4. /\ k = 0 => Client(t, "idle") /\ UNCHANGED <<order, heard>> /\ uaf' = (uaf \/ thr[t].from \in freed)
      /\ k # 0 => /\ thr' = [thr EXCEPT ![t].at = "free", ![t].new = order[k]]
                  /\ order' = RemoveFirst(order, order[k])
                  /\ uaf' = (uaf \/ (k = 1 /\ order[k] # Root))
                  /\ heard' = IF thr[t].ev = "PLUGIN" THEN [heard EXCEPT ![thr[t].cb] = "none"] ELSE heard
  BY <1>1, <1>3, Zenon DEF Unlink
<1>5. \/ k = 0
      \/ k \in 1 .. Len(order) /\ order[k] \in Range(order) /\ Matches(order[k], thr[t].ev, thr[t].cb)
  BY <1>2, FoundShape
<1> HIDE DEF k
<1>6. \A u \in Threads \ {t} : thr[u].at = "idle"
  BY <1>1, OthersIdle
<1>7. CASE k = 0
  <2> DEFINE r == [thr[t] EXCEPT !.at = "idle"]
  <2>1. thr' = [thr EXCEPT ![t] = r] /\ r \in ThrRec /\ r.at = "idle"
    BY <1>4, <1>7, ClientAt DEF ThrPlace, Client
  <2> HIDE DEF r
  <2>2. QED
    BY <1>1, <1>2, <1>3, <1>4, <1>6, <1>7, <2>1, CallMoves
<1>8. CASE k # 0
  <2> DEFINE e == order[k]
             r == [thr[t] EXCEPT !.at = "free", !.new = e]
  <2>1. /\ e \in Range(order) /\ e \in Nat /\ item[e].ev = thr[t].ev /\ item[e].cb = thr[t].cb
        /\ thr' = [thr EXCEPT ![t].at = "free", ![t].new = e] /\ order' = RemoveFirst(order, e)
        /\ heard' = IF thr[t].ev = "PLUGIN" THEN [heard EXCEPT ![thr[t].cb] = "none"] ELSE heard
    <3>1. e \in Range(order) /\ item[e].ev = thr[t].ev /\ item[e].cb = thr[t].cb
      BY <1>5, <1>8 DEF Matches
    <3>2. e \in Nat
      BY <1>2, <1>5, <1>8, AtPlace
    <3>3. QED
      BY <1>4, <1>8, <3>1, <3>2, Zenon
  <2>2. ~uaf'
    <3>1. k = 1 => order[k] = Root
      BY <1>2, <1>5, <1>8 DEF Root
    <3>2. uaf' = (uaf \/ (k = 1 /\ order[k] # Root))
      BY <1>4, <1>8
    <3>3. QED
      BY <1>2, <3>1, <3>2
  <2> HIDE DEF e
  <2>3. thr' = [thr EXCEPT ![t] = r]
    BY <2>1 DEF MonSafe, MonType
  <2>4. r \in ThrRec /\ r.at = "free" /\ r.new = e /\ r.cb = thr[t].cb
    BY <1>2, <2>1 DEF ThrRec, ThrPlace
  <2> HIDE DEF r
  <2>5. thr' \in [Threads -> ThrRec] /\ thr'[t] = r /\ \A u \in Threads \ {t} : thr'[u] = thr[u]
    BY <2>3, <2>4 DEF MonSafe, MonType
  <2>6. order' \in Seq(Nat) /\ Distinct(order') /\ Range(order') = Range(order) \ {e}
    BY <1>2, <2>1, Unlinked
  <2>7. heard' \in [Callbacks -> {"none", "PLUGIN", "UNPLUG"}] /\ heard \in [Callbacks -> {"none", "PLUGIN", "UNPLUG"}]
        /\ (thr[t].ev = "PLUGIN" => heard'[thr[t].cb] = "none")
        /\ \A c \in Callbacks : heard'[c] \in {heard[c], "none"}
    BY <1>2, <2>1 DEF MonSafe, MonType
  <2>8. MonType'
    BY <1>1, <1>2, <1>6, <2>4, <2>5, <2>6, <2>7 DEF MonType
  <2>9. OnlyLive'
    BY <1>1, <1>2, <2>6 DEF OnlyLive, Distinct
  <2>10. e \in 1 .. Len(item)
    BY <1>2, <2>1
  <2>11. ASSUME NEW u \in Threads PROVE CallKnows(u)'
    BY <1>1, <1>6, <2>4, <2>5, <2>6, <2>10 DEF CallKnows
  <2>12. OneAtATime'
    BY <1>6, <2>5 DEF OneAtATime
  <2>13. NoTwins'
    BY <1>1, <2>6 DEF MonSafe, NoTwins
  <2>14. TurnInv'
    <3> SUFFICES ASSUME Cardinality(Callbacks) = 1
                 PROVE  TurnInv'
      BY DEF TurnInv
    <3>1. \A c, d \in Callbacks : c = d
      BY Alone
    <3>2. /\ ~again /\ \A i \in Range(order) : item[i].need => item[i].ev # heard[item[i].cb]
          /\ \A c \in Callbacks : heard[c] = "PLUGIN" => \E i \in Range(order) : item[i].ev = "PLUGIN"
      BY DEF MonSafe, TurnInv
    <3>3. \A i \in Range(order) : item[i].ev # "none" /\ item[i].cb \in Callbacks
      BY OnListRec DEF MonSafe, Events, Changes
    <3>4. \A i \in Range(order') : item'[i].need => item'[i].ev # heard'[item'[i].cb]
      BY <1>1, <2>6, <2>7, <3>2, <3>3
    <3>5. ASSUME NEW c \in Callbacks, heard'[c] = "PLUGIN"
          PROVE  \E i \in Range(order') : item'[i].ev = "PLUGIN"
      <4>1. heard[c] = "PLUGIN" /\ thr[t].ev # "PLUGIN"
        BY <1>2, <2>7, <3>1, <3>5
      <4>2. PICK i \in Range(order) : item[i].ev = "PLUGIN"
        BY <3>2, <4>1
      <4>3. i # e
        BY <2>1, <4>1, <4>2
      <4>4. QED
        BY <1>1, <2>6, <4>2, <4>3
    <3>6. QED
      BY <1>1, <3>2, <3>4, <3>5 DEF TurnInv
  <2>15. QED
    BY <2>2, <2>8, <2>9, <2>11, <2>12, <2>13, <2>14 DEF MonSafe
<1>9. QED
  BY <1>7, <1>8

\* The item is freed: it is not on the list.
LEMMA UnregFreeKeeps ==
  ASSUME MonSafe, NEW t \in Threads, UnregFree(t), ~raced'
  PROVE  MonSafe'
<1>1. /\ thr[t].at = "free" /\ thr' = [thr EXCEPT ![t].at = "idle"] /\ freed' = freed \union {thr[t].new}
      /\ UNCHANGED <<order, item, mon, crit, heard, again, uaf>>
  BY DEF UnregFree, Client
<1>2. thr[t].new \in (1 .. Len(item)) \ Range(order)
  BY <1>1 DEF MonSafe, CallKnows
<1>3. thr' \in [Threads -> ThrRec] /\ \A u \in Threads : thr'[u].at = "idle"
  BY <1>1, CallEnds
<1>4. MonType'
  BY <1>1, <1>2, <1>3 DEF MonSafe, MonType
<1>5. OnlyLive'
  BY <1>1, <1>2 DEF MonSafe, OnlyLive, Distinct
<1>6. (\A u \in Threads : CallKnows(u)') /\ OneAtATime'
  BY <1>3 DEF CallKnows, OneAtATime
<1>7. NoTwins' /\ TurnInv'
  BY <1>1 DEF MonSafe, NoTwins, TurnInv
<1>8. QED
  BY <1>1, <1>4, <1>5, <1>6, <1>7 DEF MonSafe

\* An item of the list that waits for a change is marked.
LEMMA MarkKeeps ==
  ASSUME MonSafe, NEW p \in Range(order), item[p].ev \in Changes, item' = [item EXCEPT ![p].need = TRUE],
         UNCHANGED <<order, freed, mon, crit, heard, again>>, ~uaf',
         thr' \in [Threads -> ThrRec], \A u \in Threads : thr'[u].at = "idle"
  PROVE  MonSafe'
<1> DEFINE x == [item[p] EXCEPT !.need = TRUE]
<1>1. /\ item \in Seq(ItemRec) /\ freed \subseteq 1 .. Len(item) /\ Range(order) \subseteq (1 .. Len(item)) \ freed
  BY DEF MonSafe, MonType, OnlyLive
<1>2. p \in 1 .. Len(item) /\ item[p] \in ItemRec
  BY <1>1
<1>3. x \in ItemRec /\ x.ev \in Changes /\ x.ev = item[p].ev /\ x.cb = item[p].cb
  BY <1>2 DEF ItemRec
<1>4. item' = [item EXCEPT ![p] = x]
  BY <1>2
<1> HIDE DEF x
<1>5. /\ item' \in Seq(ItemRec) /\ Len(item') = Len(item) /\ item'[p] = x
      /\ \A i \in 1 .. Len(item) : i # p => item'[i] = item[i]
  <2>1. /\ [item EXCEPT ![p] = x] \in Seq(ItemRec) /\ Len([item EXCEPT ![p] = x]) = Len(item)
        /\ \A i \in 1 .. Len(item) : [item EXCEPT ![p] = x][i] = IF i = p THEN x ELSE item[i]
    BY <1>1, <1>2, <1>3, ExceptSeq
  <2>2. QED
    BY <1>2, <1>4, <2>1
<1>6. MonType'
  BY <1>5 DEF MonSafe, MonType
<1>7. OnlyLive'
  BY <1>5 DEF MonSafe, OnlyLive, Distinct
<1>8. (\A u \in Threads : CallKnows(u)') /\ OneAtATime'
  BY DEF CallKnows, OneAtATime
<1>9. \A i \in Range(order) : item'[i].ev = item[i].ev /\ item'[i].cb = item[i].cb
  BY <1>1, <1>3, <1>5
<1>10. NoTwins'
  BY <1>9 DEF MonSafe, NoTwins
<1>11. TurnInv'
  <2> SUFFICES ASSUME Cardinality(Callbacks) = 1
               PROVE  TurnInv'
    BY DEF TurnInv
  <2>1. /\ ~again /\ \A i \in Range(order) : item[i].need => item[i].ev # heard[item[i].cb]
        /\ \A c \in Callbacks : heard[c] = "PLUGIN" => \E i \in Range(order) : item[i].ev = "PLUGIN"
    BY DEF MonSafe, TurnInv
  <2>2. heard[x.cb] # x.ev
    BY <1>2, <1>3 DEF ItemRec, MonSafe, MonType, Changes
  <2>3. \A i \in Range(order) : item'[i].need => item'[i].ev # heard[item'[i].cb]
    BY <1>1, <1>3, <1>5, <2>1, <2>2
  <2>4. \A c \in Callbacks : heard[c] = "PLUGIN" => \E i \in Range(order) : item'[i].ev = "PLUGIN"
    BY <1>9, <2>1
  <2>5. QED
    BY <2>1, <2>3, <2>4 DEF TurnInv
<1>12. QED
  BY <1>6, <1>7, <1>8, <1>10, <1>11 DEF MonSafe

\* Nothing but what no invariant is about.
LEMMA MonStays ==
  ASSUME MonSafe, UNCHANGED <<order, item, freed, crit, heard, again, thr>>, ~uaf',
         mon' \in [at : {"none", "sleep", "pass"}, todo : Seq(Nat)],
         mon'.at = "pass" => crit /\ Range(mon'.todo) \subseteq Range(order)
  PROVE  MonSafe'
<1>1. MonType'
  BY DEF MonSafe, MonType
<1>2. OnlyLive'
  BY DEF MonSafe, OnlyLive, Distinct
<1>3. (\A u \in Threads : CallKnows(u)') /\ OneAtATime'
  BY DEF MonSafe, CallKnows, OneAtATime, Root, Matches
<1>4. NoTwins' /\ TurnInv'
  BY DEF MonSafe, NoTwins, TurnInv
<1>5. QED
  BY <1>1, <1>2, <1>3, <1>4 DEF MonSafe

\* c_net_ip_config marks the first item that waits for it.
LEMMA IpConfigKeeps ==
  ASSUME MonSafe, NEW t \in Threads, IpConfigMarks(t), ~raced'
  PROVE  MonSafe'
<1>1. UNCHANGED <<order, freed, mon, crit, thr, heard, again, uaf>>
  BY DEF IpConfigMarks
<1>2. (\A u \in Threads : thr[u].at = "idle") /\ thr \in [Threads -> ThrRec] /\ ~uaf
  BY AllIdle DEF IpConfigMarks, MonSafe, MonType
<1>3. CASE FirstFor(order, "IP_CHANGED") = 0
  <2>1. item' = item
    BY <1>3 DEF IpConfigMarks
  <2>2. mon \in [at : {"none", "sleep", "pass"}, todo : Seq(Nat)]
        /\ (mon.at = "pass" => crit /\ Range(mon.todo) \subseteq Range(order))
    BY DEF MonSafe, MonType, OnlyLive
  <2>3. QED
    BY <1>1, <1>2, <2>1, <2>2, MonStays
<1>4. CASE FirstFor(order, "IP_CHANGED") # 0
  <2> DEFINE p == order[FirstFor(order, "IP_CHANGED")]
  <2>1. p \in Range(order) /\ item[p].ev \in Changes
    BY <1>4, FirstForShape DEF MonSafe, MonType, Changes
  <2>2. item' = [item EXCEPT ![p].need = TRUE]
    BY <1>4 DEF IpConfigMarks
  <2> HIDE DEF p
  <2>3. QED
    BY <1>1, <1>2, <2>1, <2>2, MarkKeeps
<1>5. QED
  BY <1>3, <1>4

\* A walk comes to the first item that waits for its change ...
LEMMA WalksKeeps ==
  ASSUME MonSafe, NEW t \in Threads, NEW e \in Changes, Walks(t, e), ~raced'
  PROVE  MonSafe'
<1>1. UNCHANGED <<order, item, freed, mon, crit, heard, again, uaf>>
  BY DEF Walks
<1>2. /\ \A u \in Threads : thr[u].at = "idle"
      /\ ~uaf /\ mon \in [at : {"none", "sleep", "pass"}, todo : Seq(Nat)]
      /\ mon.at = "pass" => crit /\ Range(mon.todo) \subseteq Range(order)
  BY AllIdle DEF Walks, MonSafe, MonType, OnlyLive
<1>3. CASE FirstFor(order, e) = 0
  <2>1. thr' = thr
    BY <1>3 DEF Walks
  <2>2. QED
    BY <1>1, <1>2, <2>1, MonStays
<1>4. CASE FirstFor(order, e) # 0
  <2> DEFINE p == order[FirstFor(order, e)]
             r == [Idle EXCEPT !.at = "mark", !.from = p]
  <2>1. p \in Range(order) /\ item[p].ev \in Changes
    BY <1>4, FirstForShape DEF MonSafe, MonType
  <2>2. thr' = [thr EXCEPT ![t] = r]
    BY <1>4 DEF Walks
  <2> HIDE DEF p
  <2>3. p \in Nat
    BY <2>1 DEF MonSafe, OnlyLive
  <2>4. r \in ThrRec /\ r.at = "mark" /\ r.from = p
    <3> DEFINE d == [at |-> "idle", ev |-> "PLUGIN", cb |-> "none", from |-> 0, new |-> 0]
    <3>1. Idle = d
      BY DEF Idle, None
    <3>2. d \in ThrRec
      BY DEF ThrRec, ThrPlace, Events
    <3> HIDE DEF d
    <3>3. r = [d EXCEPT !.at = "mark", !.from = p]
      BY <3>1
    <3>4. QED
      BY <2>3, <3>2, <3>3 DEF ThrRec, ThrPlace
  <2> HIDE DEF r
  <2>5. QED
    BY <1>1, <1>2, <2>1, <2>2, <2>4, CallMoves
<1>5. QED
  BY <1>3, <1>4

\* ... and marks it, still on the list.
LEMMA MarksKeeps ==
  ASSUME MonSafe, NEW t \in Threads, Marks(t), ~raced'
  PROVE  MonSafe'
<1>1. /\ thr[t].at = "mark" /\ thr' = [thr EXCEPT ![t].at = "idle"]
      /\ item' = [item EXCEPT ![thr[t].from].need = TRUE] /\ uaf' = (uaf \/ thr[t].from \in freed)
      /\ UNCHANGED <<order, freed, mon, crit, heard, again>>
  BY DEF Marks, Client
<1>2. thr[t].from \in Range(order) /\ item[thr[t].from].ev \in Changes
  BY <1>1 DEF MonSafe, CallKnows
<1>3. ~uaf'
  BY <1>1, <1>2 DEF MonSafe, OnlyLive
<1>4. thr' \in [Threads -> ThrRec] /\ \A u \in Threads : thr'[u].at = "idle"
  BY <1>1, CallEnds
<1>5. QED
  BY <1>1, <1>2, <1>3, <1>4, MarkKeeps

\* A pass begins with the whole list, inside u_crit, and ends.
LEMMA PassBeginsKeeps ==
  ASSUME MonSafe, PassBegins
  PROVE  MonSafe'
<1>1. /\ crit' = TRUE /\ mon' = [at |-> "pass", todo |-> order]
      /\ UNCHANGED <<order, item, freed, heard, again, uaf, thr>>
  BY DEF PassBegins
<1>2. mon' \in [at : {"none", "sleep", "pass"}, todo : Seq(Nat)] /\ mon'.todo = order
  BY <1>1 DEF MonSafe, MonType
<1>3. MonType'
  BY <1>1, <1>2 DEF MonSafe, MonType
<1>4. OnlyLive'
  BY <1>1, <1>2 DEF MonSafe, OnlyLive, Distinct
<1>5. (\A u \in Threads : CallKnows(u)') /\ OneAtATime'
  BY <1>1 DEF MonSafe, CallKnows, OneAtATime, Root, Matches
<1>6. NoTwins' /\ TurnInv'
  BY <1>1 DEF MonSafe, NoTwins, TurnInv
<1>7. QED
  BY <1>1, <1>3, <1>4, <1>5, <1>6 DEF MonSafe

LEMMA PassEndsKeeps ==
  ASSUME MonSafe, PassEnds
  PROVE  MonSafe'
<1>1. /\ mon' = [mon EXCEPT !.at = "sleep"]
      /\ UNCHANGED <<order, item, freed, heard, again, uaf, thr>>
  BY DEF PassEnds
<1>2. mon' \in [at : {"none", "sleep", "pass"}, todo : Seq(Nat)] /\ mon'.at = "sleep"
  BY <1>1 DEF MonSafe, MonType
<1>3. MonType'
  BY <1>1, <1>2 DEF MonSafe, MonType
<1>4. OnlyLive'
  BY <1>1, <1>2 DEF MonSafe, OnlyLive, Distinct
<1>5. (\A u \in Threads : CallKnows(u)') /\ OneAtATime'
  BY <1>1 DEF MonSafe, CallKnows, OneAtATime, Root, Matches
<1>6. NoTwins' /\ TurnInv'
  BY <1>1 DEF MonSafe, NoTwins, TurnInv
<1>7. QED
  BY <1>1, <1>3, <1>4, <1>5, <1>6 DEF MonSafe

\* What a notification activates waits for the other event.
LEMMA RearmShape ==
  ASSUME order \in Seq(Nat), NEW i, item[i].ev \in Events
  PROVE  /\ Rearm(i) \subseteq Range(order)
         /\ \A j \in Rearm(i) : /\ item[i].ev \in {"PLUGIN", "UNPLUG"}
                                /\ item[j].ev \in {"PLUGIN", "UNPLUG"} /\ item[j].ev # item[i].ev
<1>1. CASE item[i].ev = "PLUGIN"
  <2>1. Rearm(i) = IF FirstFor(order, "UNPLUG") = 0 THEN {} ELSE {order[FirstFor(order, "UNPLUG")]}
    BY <1>1 DEF Rearm
  <2>2. QED
    BY <1>1, <2>1, FirstForShape
<1>2. CASE item[i].ev = "UNPLUG"
  BY <1>2 DEF Rearm
<1>3. CASE item[i].ev \in Changes
  BY <1>3 DEF Rearm, Changes
<1>4. QED
  BY <1>1, <1>2, <1>3 DEF Events

\* The records once i was notified.
LEMMA NotifiedShape ==
  ASSUME item \in Seq(ItemRec), NEW i \in 1 .. Len(item)
  PROVE  /\ Notified(i) \in Seq(ItemRec) /\ Len(Notified(i)) = Len(item)
         /\ \A j \in 1 .. Len(item) :
              /\ Notified(i)[j].ev = item[j].ev /\ Notified(i)[j].cb = item[j].cb
              /\ Notified(i)[j].need => j # i /\ (item[j].need \/ j \in Rearm(i))
<1> DEFINE rec(j) == [item[j] EXCEPT !.need = IF j = i THEN FALSE ELSE item[j].need \/ j \in Rearm(i)]
<1>1. Notified(i) = [j \in 1 .. Len(item) |-> rec(j)]
  BY DEF Notified
<1>2. ASSUME NEW j \in 1 .. Len(item)
      PROVE  /\ rec(j) \in ItemRec /\ rec(j).ev = item[j].ev /\ rec(j).cb = item[j].cb
             /\ rec(j).need => j # i /\ (item[j].need \/ j \in Rearm(i))
  <2> DEFINE b == IF j = i THEN FALSE ELSE item[j].need \/ j \in Rearm(i)
  <2>1. item[j] \in ItemRec
    OBVIOUS
  <2>2. b \in BOOLEAN /\ (b => j # i /\ (item[j].need \/ j \in Rearm(i)))
    BY <2>1 DEF ItemRec
  <2> HIDE DEF b
  <2>3. [item[j] EXCEPT !.need = b] \in ItemRec /\ [item[j] EXCEPT !.need = b].ev = item[j].ev
        /\ [item[j] EXCEPT !.need = b].cb = item[j].cb /\ [item[j] EXCEPT !.need = b].need = b
    BY <2>1, <2>2 DEF ItemRec
  <2>4. rec(j) = [item[j] EXCEPT !.need = b]
    BY DEF b
  <2> HIDE DEF rec
  <2>5. QED
    BY <2>2, <2>3, <2>4
<1> HIDE DEF rec
<1>3. Len(item) \in Nat
  OBVIOUS
<1>4. Notified(i) \in Seq(ItemRec) /\ Len(Notified(i)) = Len(item) /\ \A j \in 1 .. Len(item) : Notified(i)[j] = rec(j)
  BY <1>1, <1>2, <1>3
<1>5. QED
  BY <1>2, <1>4

\* The walk comes to its next item, which was not freed.
LEMMA VisitKeeps ==
  ASSUME MonSafe, Visit, ~raced'
  PROVE  MonSafe'
<1> DEFINE i == Head(mon.todo)
<1>1. /\ mon.at = "pass" /\ mon.todo # <<>> /\ mon' = [mon EXCEPT !.todo = Tail(mon.todo)]
      /\ UNCHANGED <<crit, thr>>
  BY DEF Visit
<1>2. /\ order \in Seq(Nat) /\ item \in Seq(ItemRec) /\ mon \in [at : {"none", "sleep", "pass"}, todo : Seq(Nat)]
      /\ heard \in [Callbacks -> {"none", "PLUGIN", "UNPLUG"}] /\ ~uaf
      /\ Range(order) \subseteq (1 .. Len(item)) \ freed /\ crit /\ Range(mon.todo) \subseteq Range(order)
  BY <1>1 DEF MonSafe, MonType, OnlyLive
<1>3. mon.todo \in Seq(Nat)
  BY <1>2
<1>4. /\ mon' \in [at : {"none", "sleep", "pass"}, todo : Seq(Nat)] /\ mon'.at = "pass" /\ mon'.todo = Tail(mon.todo)
  <2> DEFINE rest == Tail(mon.todo)
  <2>1. rest \in Seq(Nat)
    BY <1>1, <1>3
  <2> HIDE DEF rest
  <2>2. mon' = [mon EXCEPT !.todo = rest]
    BY <1>1 DEF rest
  <2>3. mon' \in [at : {"none", "sleep", "pass"}, todo : Seq(Nat)] /\ mon'.at = "pass" /\ mon'.todo = rest
    BY <1>1, <1>2, <2>1, <2>2
  <2>4. QED
    BY <2>3 DEF rest
<1>5. Range(Tail(mon.todo)) \subseteq Range(mon.todo) /\ i \in Range(mon.todo)
  BY <1>1, <1>3 DEF Range
<1>6. i \in Range(order) /\ i \in 1 .. Len(item) /\ i \notin freed
  BY <1>2, <1>5
<1>7. item[i] \in ItemRec /\ item[i].ev \in Events /\ item[i].cb \in Callbacks
  BY <1>6, OnListRec DEF MonSafe
<1>8. CASE ~Due(i)
  <2>1. UNCHANGED <<item, order, freed, heard, again>> /\ uaf' = (uaf \/ i \in freed)
    BY <1>8 DEF Visit
  <2>2. ~uaf'
    BY <1>2, <1>6, <2>1
  <2>3. QED
    BY <1>1, <1>2, <1>4, <1>5, <2>1, <2>2, MonStays
<1>9. CASE Due(i)
  <2>1. /\ item' = Notified(i) /\ UNCHANGED <<order, freed>> /\ uaf' = (uaf \/ i \in freed)
        /\ heard' = IF item[i].ev \in Changes THEN heard ELSE [heard EXCEPT ![item[i].cb] = item[i].ev]
        /\ again' = (again \/ heard[item[i].cb] = item[i].ev)
    BY <1>9 DEF Visit
  <2>2. item[i].need
    BY <1>9 DEF Due
  <2> HIDE DEF i
  <2>3. /\ item' \in Seq(ItemRec) /\ Len(item') = Len(item)
        /\ \A j \in 1 .. Len(item) :
             /\ item'[j].ev = item[j].ev /\ item'[j].cb = item[j].cb
             /\ item'[j].need => j # i /\ (item[j].need \/ j \in Rearm(i))
    BY <1>2, <1>6, <2>1, NotifiedShape
  <2>4. heard' \in [Callbacks -> {"none", "PLUGIN", "UNPLUG"}]
    BY <1>2, <1>7, <2>1 DEF Events, Changes
  <2>5. MonType'
    BY <1>1, <1>4, <2>1, <2>3, <2>4 DEF MonSafe, MonType
  <2>6. OnlyLive'
    BY <1>1, <1>2, <1>4, <1>5, <2>1, <2>3 DEF MonSafe, OnlyLive, Distinct
  <2>7. \A j \in Range(order) : item'[j].ev = item[j].ev /\ item'[j].cb = item[j].cb
    BY <1>2, <2>3
  <2>8. (\A u \in Threads : CallKnows(u)') /\ OneAtATime'
    BY <1>1, <2>1, <2>3, <2>7 DEF MonSafe, CallKnows, OneAtATime, Root, Matches
  <2>9. NoTwins'
    BY <2>1, <2>7 DEF MonSafe, NoTwins
  <2>10. TurnInv'
    <3> SUFFICES ASSUME Cardinality(Callbacks) = 1
                 PROVE  TurnInv'
      BY DEF TurnInv
    <3>1. /\ ~again /\ \A j \in Range(order) : item[j].need => item[j].ev # heard[item[j].cb]
          /\ \A c \in Callbacks : heard[c] = "PLUGIN" => \E j \in Range(order) : item[j].ev = "PLUGIN"
      BY DEF MonSafe, TurnInv
    <3>2. \A c \in Callbacks : c = item[i].cb
      BY <1>7, Alone
    <3>3. \A j \in Range(order) : item[j].cb = item[i].cb
      BY <3>2, OnListRec DEF MonSafe
    <3>4. ~again'
      BY <1>6, <2>1, <2>2, <3>1
    <3>5. heard'[item[i].cb] = IF item[i].ev \in Changes THEN heard[item[i].cb] ELSE item[i].ev
      BY <1>2, <1>7, <2>1
    <3>6. ASSUME NEW j \in Range(order), item'[j].need
          PROVE  item[j].ev # heard'[item[i].cb]
      <4>1. j \in 1 .. Len(item) /\ j # i /\ (item[j].need \/ j \in Rearm(i))
        BY <1>2, <2>3, <3>6
      <4>2. CASE j \in Rearm(i)
        <5>1. item[i].ev \notin Changes /\ item[j].ev # item[i].ev
          BY <1>2, <1>7, <4>2, RearmShape DEF Changes
        <5>2. QED
          BY <3>5, <5>1
      <4>3. CASE item[j].need /\ item[i].ev \in Changes
        BY <3>1, <3>3, <3>5, <4>3
      <4>4. CASE item[j].need /\ item[i].ev \notin Changes
        <5>1. item[j].ev # item[i].ev
          BY <1>6, <3>3, <4>1 DEF MonSafe, NoTwins
        <5>2. QED
          BY <3>5, <4>4, <5>1
      <4>5. QED
        BY <4>1, <4>2, <4>3, <4>4
    <3>7. ASSUME NEW c \in Callbacks, heard'[c] = "PLUGIN"
          PROVE  \E j \in Range(order) : item[j].ev = "PLUGIN"
      <4>1. heard'[item[i].cb] = "PLUGIN"
        BY <3>2, <3>7
      <4>2. CASE item[i].ev \in Changes
        BY <1>7, <3>1, <3>5, <4>1, <4>2
      <4>3. CASE item[i].ev \notin Changes
        BY <1>6, <3>5, <4>1, <4>3
      <4>4. QED
        BY <4>2, <4>3
    <3>8. \A j \in Range(order') : item'[j].need => item'[j].ev # heard'[item'[j].cb]
      BY <2>1, <2>7, <3>3, <3>6
    <3>9. \A c \in Callbacks : heard'[c] = "PLUGIN" => \E j \in Range(order') : item'[j].ev = "PLUGIN"
      BY <2>1, <2>7, <3>7
    <3>10. QED
      BY <3>4, <3>8, <3>9 DEF TurnInv
  <2>11. QED
    BY <1>2, <1>6, <2>1, <2>5, <2>6, <2>8, <2>9, <2>10 DEF MonSafe
<1>10. QED
  BY <1>8, <1>9

\* Every step keeps it, until calls overlap or a callback unregisters itself.
LEMMA MonStep ==
  ASSUME MonInv, (~raced /\ MNext) \/ UNCHANGED mvars
  PROVE  MonInv'
<1>1. CASE UNCHANGED mvars
  <2> SUFFICES ASSUME ~raced
               PROVE  MonSafe'
    BY <1>1 DEF MonInv, mvars
  <2>1. /\ ~uaf /\ mon \in [at : {"none", "sleep", "pass"}, todo : Seq(Nat)]
        /\ mon.at = "pass" => crit /\ Range(mon.todo) \subseteq Range(order)
    BY DEF MonInv, MonSafe, MonType, OnlyLive
  <2>2. QED
    BY <1>1, <2>1, MonStays DEF MonInv, mvars
<1>2. CASE ~raced /\ MNext
  <2> SUFFICES ASSUME ~raced'
               PROVE  MonSafe'
    BY DEF MonInv
  <2>1. MonSafe
    BY <1>2 DEF MonInv
  <2>2. ASSUME NEW t \in Threads, NEW e \in Events, NEW c \in Callbacks, Reg(t, e, c) \/ Unreg(t, e, c)
        PROVE  MonSafe'
    BY <2>1, <2>2, RegKeeps, UnregKeeps
  <2>3. ASSUME NEW t \in Threads, ThreadStep(t) PROVE MonSafe'
    BY <2>1, <2>3, CreateKeeps, ReadRootKeeps, RegFindKeeps, RegInsertKeeps, RegFailsKeeps, UnregFindKeeps,
       UnregFreeKeeps, MarksKeeps DEF ThreadStep
  <2>4. ASSUME NEW t \in Threads, IpConfigMarks(t) \/ \E e \in Changes : Walks(t, e) PROVE MonSafe'
    BY <2>1, <2>4, IpConfigKeeps, WalksKeeps
  <2>5. CASE MonitorStep
    BY <2>1, <2>5, PassBeginsKeeps, VisitKeeps, PassEndsKeeps DEF MonitorStep
  <2>6. CASE LinkChanges
    <3>1. UNCHANGED <<order, item, freed, mon, crit, heard, again, uaf, thr>>
      BY <2>6 DEF LinkChanges
    <3>2. /\ ~uaf /\ mon \in [at : {"none", "sleep", "pass"}, todo : Seq(Nat)]
          /\ mon.at = "pass" => crit /\ Range(mon.todo) \subseteq Range(order)
      BY <2>1 DEF MonSafe, MonType, OnlyLive
    <3>3. QED
      BY <2>1, <3>1, <3>2, MonStays
  <2>7. QED
    BY <1>2, <2>2, <2>3, <2>4, <2>5, <2>6 DEF MNext
<1>3. QED
  BY <1>1, <1>2

\* What the run checks follows.
LEMMA MonIsSafe == MonInv => NoUseAfterFree /\ RegisteredOnce /\ InTurn
BY DEF MonInv, MonSafe, NoTwins, TurnInv, NoUseAfterFree, RegisteredOnce, InTurn

-----------------------------------------------------------------------------
(* The behaviours of MCNet.                                                  *)

\* Each part's invariant, whichever part is followed.
NetInv == MonInv /\ JobInv /\ ScriptInv /\ WolInv

LEMMA NetHolds == MCSpec => []NetInv
<1>1. MCInit => NetInv
  BY MonInit, JobInit, ScriptInit, WolInit DEF MCInit, NetInv
<1>2. NetInv /\ [MCNext]_allvars => NetInv'
  <2> SUFFICES ASSUME NetInv, [MCNext]_allvars
               PROVE  NetInv'
    OBVIOUS
  <2>1. (~raced /\ MNext) \/ UNCHANGED mvars
    BY DEF MCNext, allvars
  <2>2. J!JNext \/ UNCHANGED jvars
    BY DEF MCNext, allvars
  <2>3. S!SNext \/ UNCHANGED svars
    BY DEF MCNext, allvars
  <2>4. W!WNext \/ UNCHANGED wvars
    BY DEF MCNext, allvars
  <2>5. QED
    BY <2>1, <2>2, <2>3, <2>4, MonStep, JobStep, ScriptStep, WolStep DEF NetInv
<1>3. QED
  BY <1>1, <1>2, PTL DEF MCSpec

\* NiMonitor: while calls do not overlap no registration is used after it was
\* freed, each is on the list once, and a client that is alone hears of plug and
\* unplug in turn, for any threads, callbacks and bounds.
THEOREM MonitorIsExact == MCSpec => []MonitorExact
<1>1. NetInv => MonitorExact
  BY MonIsSafe DEF NetInv, MonitorExact
<1>2. QED
  BY <1>1, NetHolds, PTL

\* NetJob and NetWol: a BOOL is set exactly while its thread runs, only a call that
\* joined an older one gets another host's answer, and a request block is freed once.
THEOREM JobsAreExact == MCSpec => []JobsExact
<1>1. NetInv => JobsExact
  BY JobIsSafe, WolIsSafe DEF NetInv, JobsExact
<1>2. QED
  BY <1>1, NetHolds, PTL

\* NetScript: a result tells of the caller's own script although any thread may reap
\* its child, the DHCP client's BOOL is set exactly while its thread works, each
\* thread calls back once, and after a restart who asked last is told.
THEOREM ScriptsAreExact == MCSpec => []ScriptsExact
<1>1. NetInv => ScriptsExact
  BY DEF NetInv, ScriptInv, OwnInv, ClientInv, ScriptsExact
<1>2. QED
  BY <1>1, NetHolds, PTL
=============================================================================
