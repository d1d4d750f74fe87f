--------------------------- MODULE MCHandleProofs ---------------------------
(***************************************************************************)
(* Proofs about the components that MCHandle checks side by side.          *)
(***************************************************************************)
EXTENDS MCHandle, ListProofs, FiniteSetTheorems

(***************************************************************************)
(* Start: for any number of applications and any allocations that fail.    *)
(***************************************************************************)
Early == {"libraries", "sema", "am_init", "start"}
WithSema == {"am_init", "start", "send", "lock", "asleep", "check", "delete"}
Late == {"check", "delete", "register", "sync_start", "reap"}
Told == {"signal", "release", "loop", "ended"}

StartType ==
  /\ main \in Early \cup WithSema \cup Late
  /\ mgr \in {"none", "receive", "init", "am_init", "nfy_ok", "nfy_failed", "unlock"} \cup Told
  /\ st_ok \in BOOLEAN /\ st_wild = FALSE
  /\ sema \in [state : {"none", "live", "freed"}, value : Nat, mutex : {"free", "mgr"}, asleep : BOOLEAN]
  /\ s_faults \in Nat /\ i \in Nat /\ outcome \in Seq({"refused", "started", "failed"})

\* The semaphore and the frame live while x_appl_init runs; the semaphore is 1 from
\* the unlock to main's waking up, and its mutex is held during the unlock.
SemaInv ==
  /\ sema.state = "live" <=> main \in WithSema
  /\ frame <=> main \in WithSema
  /\ sema.value = IF mgr \in Told /\ main \notin Late THEN 1 ELSE 0
  /\ sema.mutex = "mgr" <=> mgr \in {"signal", "release"}

\* Main waits for the manager, who waits for INIT.
OrderInv ==
  /\ main \in Early <=> mgr = "none"
  /\ main \in Early \cup {"send"} => inbox = <<>>
  /\ main = "send" => mgr = "receive"
  /\ main \notin Early \cup {"send"} => IF mgr = "receive" THEN inbox = <<"INIT">> ELSE inbox = <<>>
  /\ main \in Late => mgr \in {"loop", "ended"}

\* What is made so far, and that a manager that failed had a reason to.
MadeInv ==
  /\ main = "libraries" => /\ "u_handle_usr_init" \notin made
                           /\ made \subseteq S!Elements(S!Libraries)
  /\ main \in {"sema", "am_init", "start", "send"} \/ mgr \in {"none", "receive"} =>
       made \subseteq S!Elements(S!Libraries)
  /\ main # "libraries" => S!Elements(S!Libraries) \subseteq made
  /\ mgr = "init" => "h_g_bin_sema" \notin made
  /\ mgr \in {"receive", "init", "am_init"} => "h_bin_sema" \notin made
  /\ mgr = "am_init" => S!Elements(S!AmbParts) \subseteq made
  /\ mgr = "nfy_ok" \/ st_ok => S!Elements(S!Parts) \subseteq made
  /\ mgr = "nfy_failed" => s_faults > 0
  /\ mgr \in {"unlock"} \cup Told => st_ok \/ s_faults > 0
  /\ mgr \notin {"unlock"} \cup Told => ~st_ok
  /\ main \in {"delete", "register", "sync_start", "reap"} => st_ok

TurnInv == Len(outcome) = i /\ (main = "reap" => i = StartTable)

StartInv ==
  IF main = "aborted" THEN s_faults > 0 /\ ~st_wild
  ELSE StartType /\ SemaInv /\ OrderInv /\ MadeInv /\ TurnInv

\* The parts that main and the manager make, as sets.
LEMMA StartNames ==
  /\ S!Elements(S!Libraries) = {"os_thread_init", "aee_init", "u_handle_usr_init"}
  /\ S!Elements(S!AmbParts) = {"h_g_am", "h_g_mtx_sema", "h_g_bin_sema"}
  /\ S!Elements(S!AmParts) = {"h_mtx_sema", "h_bin_sema"}
  /\ S!Elements(S!Parts) = {"h_g_am", "h_g_mtx_sema", "h_g_bin_sema", "h_mtx_sema", "h_bin_sema"}
<1>1. S!Elements(S!Libraries) = {"os_thread_init", "aee_init", "u_handle_usr_init"}
  BY DEF S!Elements, S!Libraries
<1>2. S!Elements(S!AmbParts) = {"h_g_am", "h_g_mtx_sema", "h_g_bin_sema"}
  BY DEF S!Elements, S!AmbParts
<1>3. S!Elements(S!AmParts) = {"h_mtx_sema", "h_bin_sema"}
  BY DEF S!Elements, S!AmParts
<1>4. S!Elements(S!Parts) = S!Elements(S!AmbParts) \cup S!Elements(S!AmParts)
  <2> DEFINE X == {"h_g_am", "h_g_mtx_sema", "h_g_bin_sema", "h_mtx_sema", "h_bin_sema"}
             a == S!AmbParts
             b == S!AmParts
             p == S!Parts
  <2>1. a \in Seq(X) /\ Len(a) = 3 /\ b \in Seq(X) /\ Len(b) = 2
    BY DEF S!AmbParts, S!AmParts
  <2>2. p = a \o b
    BY DEF S!Parts
  <2> HIDE DEF X, a, b, p
  <2>3. /\ p \in Seq(X) /\ Len(p) = 5
        /\ \A k \in 1 .. 5 : p[k] = IF k <= 3 THEN a[k] ELSE b[k - 3]
    <3>1. /\ a \o b \in Seq(X) /\ Len(a \o b) = Len(a) + Len(b)
          /\ \A k \in 1 .. Len(a) + Len(b) :
               (a \o b)[k] = IF k <= Len(a) THEN a[k] ELSE b[k - Len(a)]
      BY <2>1, ConcatProperties
    <3>2. Len(a) + Len(b) = 5
      BY <2>1
    <3>3. QED
      BY <2>1, <2>2, <3>1, <3>2
  <2>4. \A k \in 1 .. 3 : k \in 1 .. 5 /\ a[k] = p[k]
    BY <2>3
  <2>5. \A k \in 1 .. 2 : k + 3 \in 1 .. 5 /\ b[k] = p[k + 3]
    BY <2>3
  <2>6. \A k \in 1 .. 5 : (k \in 1 .. 3 /\ p[k] = a[k]) \/ (k - 3 \in 1 .. 2 /\ p[k] = b[k - 3])
    BY <2>3
  <2>7. DOMAIN a = 1 .. 3 /\ DOMAIN b = 1 .. 2 /\ DOMAIN p = 1 .. 5
    BY <2>1, <2>3
  <2>8. QED
    BY <2>4, <2>5, <2>6, <2>7 DEF S!Elements, a, b, p
<1>5. S!Elements(S!Parts) = {"h_g_am", "h_g_mtx_sema", "h_g_bin_sema", "h_mtx_sema", "h_bin_sema"}
  BY <1>2, <1>3, <1>4
<1>6. QED
  BY <1>1, <1>2, <1>3, <1>5

\* Of the elements that are not made yet there is one behind elements that all are.
LEMMA NextPart ==
  ASSUME NEW X, NEW list \in Seq(X), NEW done, NEW m \in 1 .. Len(list), list[m] \notin done
  PROVE  \E k \in DOMAIN list : list[k] \notin done /\ \A j \in 1 .. k - 1 : list[j] \in done
<1> DEFINE Open == {k \in DOMAIN list : list[k] \notin done}
<1>1. Open \in SUBSET Nat /\ Open # {}
  OBVIOUS
<1>2. Min(Open) \in Open /\ \A y \in Open : Min(Open) <= y
  BY <1>1, MinIsOne
<1>3. list[Min(Open)] \notin done /\ \A j \in 1 .. Min(Open) - 1 : list[j] \in done
  <2> DEFINE m0 == Min(Open)
  <2>1. m0 \in 1 .. Len(list) /\ list[m0] \notin done /\ \A y \in Open : m0 <= y
    BY <1>2
  <2> HIDE DEF m0
  <2>2. \A j \in 1 .. m0 - 1 : j \in DOMAIN list /\ ~(m0 <= j)
    BY <2>1
  <2>3. \A j \in 1 .. m0 - 1 : list[j] \in done
    BY <2>1, <2>2
  <2>4. QED
    BY <2>1, <2>3 DEF m0
<1> HIDE DEF Open
<1>4. Min(Open) \in DOMAIN list
  BY <1>2 DEF Open
<1>5. QED
  BY <1>3, <1>4

\* The start's invariant at the start.
LEMMA StartInit == S!TInit => StartInv
<1> SUFFICES ASSUME S!TInit PROVE StartInv
  OBVIOUS
<1> USE DEF S!TInit, Early, WithSema, Late, Told
<1>1. StartType
  BY EmptySeq DEF StartType
<1>2. SemaInv /\ OrderInv /\ TurnInv
  BY DEF SemaInv, OrderInv, TurnInv
<1>3. MadeInv
  BY StartNames DEF MadeInv
<1>4. main # "aborted"
  BY DEF S!TInit
<1>5. QED
  BY <1>1, <1>2, <1>3, <1>4 DEF StartInv

\* The steps of main up to the manager's start.
LEMMA StartEarly ==
  ASSUME StartInv, main # "aborted",
         S!InitLibrary \/ S!CreateSema \/ S!u_am_init \/ S!u_app_start \/ S!SendInit
  PROVE  StartInv'
<1> USE DEF StartInv, StartType, SemaInv, OrderInv, MadeInv, TurnInv, Early, WithSema, Late, Told,
            S!Fault
<1>1. CASE S!InitLibrary
  <2> DEFINE n == CHOOSE k \in DOMAIN S!Libraries :
                    S!Libraries[k] \notin made /\ \A j \in 1 .. k - 1 : S!Libraries[j] \in made
  <2> DEFINE l == S!Libraries
  <2>1. /\ l \in Seq({"os_thread_init", "aee_init", "u_handle_usr_init"}) /\ Len(l) = 3
        /\ l[1] = "os_thread_init" /\ l[2] = "aee_init" /\ l[3] = "u_handle_usr_init"
    BY DEF S!Libraries
  <2>2. main = "libraries" /\ l[3] \notin made
    BY <1>1, <2>1 DEF S!InitLibrary
  <2>3. n \in 1 .. 3 /\ \A j \in 1 .. n - 1 : l[j] \in made
    <3> DEFINE X == {"os_thread_init", "aee_init", "u_handle_usr_init"}
    <3>1. l \in Seq(X) /\ 3 \in 1 .. Len(l) /\ l[3] \notin made
      BY <2>1, <2>2
    <3> HIDE DEF l, X
    <3>2. \E k \in DOMAIN l : l[k] \notin made /\ \A j \in 1 .. k - 1 : l[j] \in made
      BY <3>1, NextPart
    <3>3. QED
      BY <2>1, <3>2 DEF l
  <2>4. /\ UNCHANGED <<mgr, st_ok, frame, sema, inbox, i, outcome, st_wild>>
        /\ \/ /\ made' = made \cup {l[n]} /\ main' = IF n = Len(l) THEN "sema" ELSE main
              /\ UNCHANGED s_faults
           \/ main' = "aborted" /\ s_faults' = s_faults + 1
    BY <1>1 DEF S!InitLibrary
  <2> HIDE DEF l, n
  <2>5. CASE main' = "aborted"
    BY <2>4, <2>5
  <2>6. CASE /\ made' = made \cup {l[n]} /\ main' = IF n = Len(l) THEN "sema" ELSE main
             /\ UNCHANGED s_faults
    <3>1. CASE n = 3
      BY <2>1, <2>2, <2>3, <2>4, <2>6, <3>1, StartNames
    <3>2. CASE n # 3
      <4>1. n = 1 \/ n = 2
        BY <2>3, <3>2
      <4>2. QED
        BY <2>1, <2>2, <2>4, <2>6, <4>1, StartNames
    <3>3. QED
      BY <3>1, <3>2
  <2>7. QED
    BY <2>4, <2>5, <2>6
<1>2. CASE S!CreateSema
  BY <1>2 DEF S!CreateSema
<1>3. CASE S!u_am_init
  BY <1>3, StartNames DEF S!u_am_init
<1>4. CASE S!u_app_start
  <2>1. CASE main' = "aborted"
    BY <1>4, <2>1 DEF S!u_app_start
  <2>2. CASE main' = "send"
    <3>1. StartType' /\ SemaInv' /\ OrderInv'
      BY <1>4, <2>2 DEF S!u_app_start
    <3>2. MadeInv' /\ TurnInv'
      BY <1>4, <2>2, StartNames DEF S!u_app_start
    <3>3. QED
      BY <2>2, <3>1, <3>2
  <2>3. QED
    BY <1>4, <2>1, <2>2 DEF S!u_app_start
<1>5. CASE S!SendInit
  BY <1>5, StartNames DEF S!SendInit
<1>6. QED
  BY <1>1, <1>2, <1>3, <1>4, <1>5

\* The steps of main from the semaphore on.
LEMMA StartLate ==
  ASSUME StartInv, main # "aborted",
         \/ S!LockSleeps \/ S!LockTakes \/ S!CheckOk \/ S!u_sema_delete \/ S!Register \/ S!SyncStart
  PROVE  StartInv'
<1> USE DEF StartInv, StartType, SemaInv, OrderInv, MadeInv, TurnInv, Early, WithSema, Late, Told,
            S!Fault, S!Uses, S!Live
<1>1. CASE S!LockSleeps
  BY <1>1 DEF S!LockSleeps
<1>2. CASE S!LockTakes
  <2>1. StartType'
    <3>1. sema.value - 1 \in Nat
      BY <1>2 DEF S!LockTakes
    <3>2. sema' \in [state : {"none", "live", "freed"}, value : Nat, mutex : {"free", "mgr"},
                     asleep : BOOLEAN]
      BY <1>2, <3>1 DEF S!LockTakes
    <3>3. QED
      BY <1>2, <3>2 DEF S!LockTakes
  <2>2. SemaInv'
    BY <1>2 DEF S!LockTakes
  <2>3. OrderInv'
    BY <1>2 DEF S!LockTakes
  <2>4. MadeInv'
    BY <1>2 DEF S!LockTakes
  <2>5. TurnInv'
    BY <1>2 DEF S!LockTakes
  <2>6. QED
    BY <2>1, <2>2, <2>3, <2>4, <2>5
<1>3. CASE S!CheckOk
  BY <1>3 DEF S!CheckOk
<1>4. CASE S!u_sema_delete
  BY <1>4 DEF S!u_sema_delete
<1>5. CASE S!Register
  <2>1. StartType'
    <3>1. outcome' \in Seq({"refused", "started", "failed"})
      BY <1>5 DEF S!Register
    <3>2. i' \in Nat
      BY <1>5 DEF S!Register
    <3>3. QED
      BY <1>5, <3>1, <3>2 DEF S!Register
  <2>2. SemaInv'
    BY <1>5 DEF S!Register
  <2>3. OrderInv'
    BY <1>5 DEF S!Register
  <2>4. MadeInv'
    BY <1>5 DEF S!Register
  <2>5. TurnInv'
    BY <1>5 DEF S!Register
  <2>6. QED
    BY <2>1, <2>2, <2>3, <2>4, <2>5
<1>6. CASE S!SyncStart
  BY <1>6 DEF S!SyncStart
<1>7. QED
  BY <1>1, <1>2, <1>3, <1>4, <1>5, <1>6

\* One part is made, or none is and the manager failed.
LEMMA StartMakes ==
  ASSUME NEW X, NEW list \in Seq(X), NEW whole, NEW next, S!Make(list, whole, next),
         NEW len \in Nat \ {0}, Len(list) = len, list[len] \notin made
  PROVE  /\ UNCHANGED <<main, st_ok, frame, sema, inbox, i, outcome, st_wild>>
         /\ \/ /\ made' = made \cup {list[len]} /\ mgr' = next /\ UNCHANGED s_faults
               /\ \A j \in 1 .. len - 1 : list[j] \in made
            \/ /\ \E k \in 1 .. len - 1 : made' = made \cup {list[k]}
               /\ UNCHANGED <<mgr, s_faults>>
            \/ mgr' = "nfy_failed" /\ s_faults' = s_faults + 1 /\ made \subseteq made'
<1> DEFINE n == CHOOSE k \in DOMAIN list :
                  list[k] \notin made /\ \A j \in 1 .. k - 1 : list[j] \in made
<1>1. n \in 1 .. len /\ \A j \in 1 .. n - 1 : list[j] \in made
  <2>1. \E k \in DOMAIN list : list[k] \notin made /\ \A j \in 1 .. k - 1 : list[j] \in made
    BY NextPart
  <2>2. DOMAIN list = 1 .. len
    OBVIOUS
  <2>3. QED
    BY <2>1, <2>2
<1>2. /\ UNCHANGED <<main, st_ok, frame, sema, inbox, i, outcome, st_wild>>
      /\ \/ /\ made' = made \cup {list[n]} /\ mgr' = IF n = len THEN next ELSE mgr
            /\ UNCHANGED s_faults
         \/ mgr' = "nfy_failed" /\ s_faults' = s_faults + 1 /\ made \subseteq made'
  BY DEF S!Make, S!Fault
<1> HIDE DEF n
<1>3. n = len \/ n \in 1 .. len - 1
  BY <1>1
<1>4. QED
  BY <1>1, <1>2, <1>3

\* The manager's steps.
LEMMA StartManager ==
  ASSUME StartInv, main # "aborted", S!Manager
  PROVE  StartInv'
<1> USE DEF StartInv, StartType, SemaInv, OrderInv, MadeInv, TurnInv, Early, WithSema, Late, Told,
            S!Fault, S!Uses, S!Live
<1>1. CASE S!Receive
  <2>1. StartType'
    BY <1>1 DEF S!Receive
  <2>2. SemaInv'
    BY <1>1 DEF S!Receive
  <2>3. OrderInv'
    <3>1. mgr = "receive" /\ inbox # <<>> /\ inbox' = Tail(inbox)
      BY <1>1 DEF S!Receive
    <3>2. main \notin Early \cup {"send"} /\ inbox = <<"INIT">>
      BY <3>1
    <3>3. Tail(<<"INIT">>) = <<>>
      OBVIOUS
    <3>4. inbox' = <<>>
      BY <3>1, <3>2, <3>3
    <3>5. QED
      BY <1>1, <3>2, <3>4 DEF S!Receive
  <2>4. MadeInv'
    BY <1>1, StartNames DEF S!Receive
  <2>5. TurnInv'
    BY <1>1 DEF S!Receive
  <2>6. QED
    BY <2>1, <2>2, <2>3, <2>4, <2>5
<1>2. CASE S!u_amb_init
  <2> DEFINE l == S!AmbParts
  <2>1. /\ l \in Seq({"h_g_am", "h_g_mtx_sema", "h_g_bin_sema"}) /\ Len(l) = 3
        /\ l[1] = "h_g_am" /\ l[2] = "h_g_mtx_sema" /\ l[3] = "h_g_bin_sema"
    BY DEF S!AmbParts
  <2>2. S!Make(l, S!Elements(l), "am_init") /\ mgr = "init" /\ l[3] \notin made /\ s_faults \in Nat
    BY <1>2, <2>1 DEF S!u_amb_init
  <2> HIDE DEF l
  <2>3. /\ UNCHANGED <<main, st_ok, frame, sema, inbox, i, outcome, st_wild>>
        /\ \/ /\ made' = made \cup {l[3]} /\ mgr' = "am_init" /\ UNCHANGED s_faults
              /\ \A j \in 1 .. 2 : l[j] \in made
           \/ (\E k \in 1 .. 2 : made' = made \cup {l[k]}) /\ UNCHANGED <<mgr, s_faults>>
           \/ mgr' = "nfy_failed" /\ s_faults' = s_faults + 1 /\ made \subseteq made'
    <3>1. 3 \in Nat \ {0} /\ 3 - 1 = 2
      OBVIOUS
    <3> DEFINE three == 3
               X == {"h_g_am", "h_g_mtx_sema", "h_g_bin_sema"}
    <3>2. three \in Nat \ {0} /\ Len(l) = three /\ l[three] \notin made /\ l \in Seq(X)
      BY <2>1, <2>2
    <3> HIDE DEF three, X
    <3>3. /\ UNCHANGED <<main, st_ok, frame, sema, inbox, i, outcome, st_wild>>
          /\ \/ /\ made' = made \cup {l[three]} /\ mgr' = "am_init" /\ UNCHANGED s_faults
                /\ \A j \in 1 .. three - 1 : l[j] \in made
             \/ (\E k \in 1 .. three - 1 : made' = made \cup {l[k]}) /\ UNCHANGED <<mgr, s_faults>>
             \/ mgr' = "nfy_failed" /\ s_faults' = s_faults + 1 /\ made \subseteq made'
      BY <2>2, <3>2, StartMakes
    <3>4. QED
      BY <3>1, <3>3 DEF three
  <2>4. QED
    BY <2>1, <2>2, <2>3, StartNames
<1>3. CASE S!AmInit
  <2> DEFINE l == S!AmParts
  <2>1. /\ l \in Seq({"h_mtx_sema", "h_bin_sema"}) /\ Len(l) = 2
        /\ l[1] = "h_mtx_sema" /\ l[2] = "h_bin_sema"
    BY DEF S!AmParts
  <2>2. S!Make(l, {}, "nfy_ok") /\ mgr = "am_init" /\ l[2] \notin made /\ s_faults \in Nat
    BY <1>3, <2>1 DEF S!AmInit
  <2> HIDE DEF l
  <2>3. /\ UNCHANGED <<main, st_ok, frame, sema, inbox, i, outcome, st_wild>>
        /\ \/ /\ made' = made \cup {l[2]} /\ mgr' = "nfy_ok" /\ UNCHANGED s_faults
              /\ \A j \in 1 .. 1 : l[j] \in made
           \/ (\E k \in 1 .. 1 : made' = made \cup {l[k]}) /\ UNCHANGED <<mgr, s_faults>>
           \/ mgr' = "nfy_failed" /\ s_faults' = s_faults + 1 /\ made \subseteq made'
    <3>1. 2 \in Nat \ {0} /\ 2 - 1 = 1
      OBVIOUS
    <3> DEFINE two == 2
               X == {"h_mtx_sema", "h_bin_sema"}
    <3>2. two \in Nat \ {0} /\ Len(l) = two /\ l[two] \notin made /\ l \in Seq(X)
      BY <2>1, <2>2
    <3> HIDE DEF two, X
    <3>3. /\ UNCHANGED <<main, st_ok, frame, sema, inbox, i, outcome, st_wild>>
          /\ \/ /\ made' = made \cup {l[two]} /\ mgr' = "nfy_ok" /\ UNCHANGED s_faults
                /\ \A j \in 1 .. two - 1 : l[j] \in made
             \/ (\E k \in 1 .. two - 1 : made' = made \cup {l[k]}) /\ UNCHANGED <<mgr, s_faults>>
             \/ mgr' = "nfy_failed" /\ s_faults' = s_faults + 1 /\ made \subseteq made'
      BY <2>2, <3>2, StartMakes
    <3>4. QED
      BY <3>1, <3>3 DEF two
  <2>4. QED
    BY <2>1, <2>2, <2>3, StartNames
<1>4. CASE S!app_mngr_nfy_fct
  BY <1>4 DEF S!app_mngr_nfy_fct
<1>5. CASE S!UnlockRaises
  <2>1. StartType'
    <3>1. sema.value + 1 \in Nat
      BY <1>5 DEF S!UnlockRaises
    <3>2. sema' \in [state : {"none", "live", "freed"}, value : Nat, mutex : {"free", "mgr"},
                     asleep : BOOLEAN]
      BY <1>5, <3>1 DEF S!UnlockRaises
    <3>3. QED
      BY <1>5, <3>2 DEF S!UnlockRaises
  <2>2. SemaInv'
    BY <1>5 DEF S!UnlockRaises
  <2>3. OrderInv'
    BY <1>5 DEF S!UnlockRaises
  <2>4. MadeInv'
    BY <1>5 DEF S!UnlockRaises
  <2>5. TurnInv'
    BY <1>5 DEF S!UnlockRaises
  <2>6. QED
    BY <2>1, <2>2, <2>3, <2>4, <2>5
<1>6. CASE S!UnlockSignals
  BY <1>6 DEF S!UnlockSignals
<1>7. CASE S!UnlockReleases
  BY <1>7 DEF S!UnlockReleases
<1>8. QED
  BY <1>1, <1>2, <1>3, <1>4, <1>5, <1>6, <1>7 DEF S!Manager

\* Main does nothing with the semaphore once it is deleted, and what StartInv says of
\* it is what the run checks.
LEMMA StartShows == StartInv => StartOrdered
<1> USE DEF StartInv, StartType, SemaInv, OrderInv, MadeInv, TurnInv, Early, WithSema, Late, Told
<1>1. StartInv => S!ManagerFirst
  BY DEF S!ManagerFirst
<1>2. StartInv => S!NoTouchAfterDelete
  BY DEF S!NoTouchAfterDelete
<1>3. StartInv => S!AbortMeansFault
  BY DEF S!AbortMeansFault
<1>4. QED
  BY <1>1, <1>2, <1>3 DEF StartOrdered

\* Applications are registered after the manager and AMB have all they need, in
\* their order; the manager's thread touches neither the semaphore that x_appl_init
\* deleted nor its frame; the program aborts only after something failed.
THEOREM StartIs == MCSpec => []StartOrdered
<1>1. MCInit => StartInv
  BY StartInit DEF MCInit
<1>2. StartInv /\ [MCNext]_allvars => StartInv'
  <2> SUFFICES ASSUME StartInv, [MCNext]_allvars PROVE StartInv'
    OBVIOUS
  <2>1. CASE UNCHANGED tvars
    BY <2>1 DEF tvars, StartInv, StartType, SemaInv, OrderInv, MadeInv, TurnInv
  <2>2. CASE S!TNext
    BY <2>2, StartEarly, StartLate, StartManager DEF S!TNext, S!Main
  <2>3. QED
    BY <2>1, <2>2 DEF MCNext, allvars
<1>3. QED
  BY <1>1, <1>2, StartShows, PTL DEF MCSpec

-----------------------------------------------------------------------------
(***************************************************************************)
(* Aee: for any number of environments and names.                          *)
(***************************************************************************)
Env == E!Env
Creators == {0} \cup Env
Making(c) == cre[c].pc \in {"thread", "write", "queue", "init"}
Alive == {"start", "wait", "main", "leave", "relations", "free"}

AeePlace == {"none", "handle"} \cup Alive
AeeObj == [st : {"none", "alloc", "freed"}, name : EnvNames \cup {E!AM}, parent : Creators,
           h_thread : BOOLEAN, depth : Nat]
AeeCre == [pc : {"idle", "thread", "write", "queue", "init", "exit"}, e : Creators]

AeeType ==
  /\ obj \in [Env -> AeeObj]
  /\ thr \in [Env -> AeePlace]
  /\ cre \in [Creators -> AeeCre]
  /\ own \in [Creators -> SUBSET Env]
  /\ sec \in [EnvUsers -> {"none", "alloc", "ready"}]
  /\ pt_aees \in Seq(Env)
  /\ touched = {}

\* Environments are allocated in order; what the thread's place says of the object.
ObjInv ==
  \A e \in Env :
    /\ obj[e].st # "none" => \A f \in 1 .. e - 1 : obj[f].st # "none"
    /\ obj[e].st = "none" => thr[e] = "none"
    /\ thr[e] \in Alive => obj[e].st = "alloc"

\* The list, and the names of what runs.
EnvListInv ==
  /\ Distinct(pt_aees)
  /\ \A e \in Env : e \in Range(pt_aees) <=> thr[e] \in {"wait", "main", "leave"}
  /\ \A e, f \in Env : thr[e] # "none" /\ thr[f] # "none" /\ obj[e].name = obj[f].name => e = f
  /\ \A e \in Env : obj[e].st # "none" /\ obj[e].name = E!AM => e = 1

\* An environment that is being created has one creator, who waits for it.
CreInv ==
  /\ \A c \in Creators :
       /\ cre[c].pc # "idle" => cre[c].e \in Env
       /\ cre[c].pc # "idle" /\ c # 0 => thr[c] = "main"
       /\ Making(c) => /\ obj[cre[c].e].st = "alloc" /\ obj[cre[c].e].parent = c
                       /\ c = 0 <=> cre[c].e = 1
       /\ cre[c].pc = "thread" => thr[cre[c].e] = "none"
       /\ cre[c].pc \in {"write", "queue", "init"} => thr[cre[c].e] \in {"start", "wait"}
       /\ cre[c].pc = "exit" => c # 0 /\ cre[c].e \in own[c]
  /\ \A c, d \in Creators : Making(c) /\ Making(d) /\ cre[c].e = cre[d].e => c = d
  /\ \A e \in Env : thr[e] \in {"start", "wait"} =>
       \E c \in Creators : cre[c].pc \in {"write", "queue", "init"} /\ cre[c].e = e

\* A handle that a creator keeps is that of an application that runs, kept by it alone.
OwnInv ==
  /\ \A c \in Creators : \A e \in own[c] : thr[e] = "main" /\ (e = 1 => c = 0)
  /\ \A c, d \in Creators : own[c] \cap own[d] # {} => c = d

\* The Application Manager's environment stays.
ManagerInv ==
  /\ 1 \in Env => thr[1] \in {"none", "start", "wait", "main"}
  /\ \A u \in EnvUsers : sec[u] = "ready" => 1 \in Env /\ thr[1] \in {"wait", "main"}

\* The second generation keeps its parent, and a child on the list has one that has not
\* yet been through aee_clean_relationships.
ParentInv ==
  \A e \in Env : obj[e].st # "none" =>
    /\ e = 1 => obj[e].depth = 1 /\ obj[e].parent = 0
    /\ e # 1 => obj[e].depth > 1 /\ obj[e].depth <= EnvDepth
    /\ obj[e].depth = 2 => obj[e].parent = 1
    /\ obj[e].parent # 0 => /\ obj[obj[e].parent].st # "none"
                            /\ obj[obj[e].parent].depth + 1 = obj[e].depth
    /\ obj[e].parent # 0 /\ thr[e] \in {"wait", "main", "leave"} =>
         thr[obj[e].parent] \in {"main", "leave", "relations"}

AeeInv == AeeType /\ ObjInv /\ EnvListInv /\ CreInv /\ OwnInv /\ ManagerInv /\ ParentInv

\* Environments are numbered from 1; 0 is main, which creates the manager's.
LEMMA EnvNumbers ==
  /\ Env = 1 .. MaxEnv /\ Env \subseteq Nat \ {0} /\ 0 \notin Env /\ Creators = {0} \cup Env
  /\ Creators \subseteq Nat
  BY AeeAssumption DEF Env, E!Env, E!AeeAssumption, Creators

\* What the steps write, by its type and by what it leaves as it is.
LEMMA EnvTypes ==
  ASSUME AeeType
  PROVE  /\ \A e \in Env, p \in AeePlace :
              /\ [thr EXCEPT ![e] = p] \in [Env -> AeePlace]
              /\ [thr EXCEPT ![e] = p][e] = p
              /\ \A f \in Env \ {e} : [thr EXCEPT ![e] = p][f] = thr[f]
  BY DEF AeeType

\* A creator goes on.
LEMMA EnvCre ==
  ASSUME AeeType, NEW c \in Creators, NEW e \in Creators,
         NEW p \in {"idle", "thread", "write", "queue", "init", "exit"},
         cre' = [cre EXCEPT ![c] = [pc |-> p, e |-> e]]
  PROVE  cre' \in [Creators -> AeeCre]
<1>1. [pc |-> p, e |-> e] \in AeeCre
  BY DEF AeeCre
<1>2. QED
  BY <1>1 DEF AeeType

\* The fields that are written in an object's record.
LEMMA EnvFrees ==
  ASSUME AeeType, NEW e \in Env, obj' = [obj EXCEPT ![e].st = "freed"]
  PROVE  /\ obj' \in [Env -> AeeObj] /\ obj'[e].st = "freed"
         /\ \A f \in Env : /\ f # e => obj'[f] = obj[f]
                           /\ obj'[f].name = obj[f].name /\ obj'[f].parent = obj[f].parent
                           /\ obj'[f].depth = obj[f].depth
<1>1. obj[e] \in AeeObj
  BY DEF AeeType
<1>2. LET o == [obj[e] EXCEPT !.st = "freed"]
      IN  /\ o \in AeeObj /\ o.st = "freed" /\ o.name = obj[e].name
          /\ o.parent = obj[e].parent /\ o.depth = obj[e].depth
  BY <1>1 DEF AeeObj
<1>3. obj \in [Env -> AeeObj]
  BY DEF AeeType
<1>4. obj'[e] = [obj[e] EXCEPT !.st = "freed"] /\ \A f \in Env \ {e} : obj'[f] = obj[f]
  BY <1>3
<1>5. obj' \in [Env -> AeeObj]
  BY <1>2, <1>3, <1>4
<1>6. QED
  BY <1>2, <1>4, <1>5

\* The creator writes the thread's handle into the object.
LEMMA EnvWrites ==
  ASSUME AeeType, NEW e \in Env, obj' = [obj EXCEPT ![e].h_thread = TRUE]
  PROVE  /\ obj' \in [Env -> AeeObj]
         /\ \A f \in Env : /\ obj'[f].st = obj[f].st /\ obj'[f].depth = obj[f].depth
                           /\ obj'[f].name = obj[f].name /\ obj'[f].parent = obj[f].parent
<1>1. obj[e] \in AeeObj
  BY DEF AeeType
<1>2. LET o == [obj[e] EXCEPT !.h_thread = TRUE]
      IN  /\ o \in AeeObj /\ o.st = obj[e].st /\ o.name = obj[e].name
          /\ o.parent = obj[e].parent /\ o.depth = obj[e].depth
  BY <1>1 DEF AeeObj
<1>3. obj \in [Env -> AeeObj]
  BY DEF AeeType
<1>4. obj'[e] = [obj[e] EXCEPT !.h_thread = TRUE] /\ \A f \in Env \ {e} : obj'[f] = obj[f]
  BY <1>3
<1>5. obj' \in [Env -> AeeObj]
  BY <1>2, <1>3, <1>4
<1>6. QED
  BY <1>2, <1>4, <1>5

\* The environment cannot be made: the creator frees the object.
LEMMA EnvCreateFails ==
  ASSUME AeeInv, NEW c \in Creators, E!CreateFails(c)
  PROVE  AeeInv'
<1> USE EnvNumbers DEF AeeInv
<1> DEFINE e == cre[c].e
<1>1. /\ e \in Env /\ cre[c].pc = "thread" /\ thr[e] = "none" /\ obj[e].st = "alloc"
      /\ obj' = [obj EXCEPT ![e].st = "freed"]
      /\ cre' = [cre EXCEPT ![c] = [pc |-> "idle", e |-> 0]]
      /\ UNCHANGED <<pt_aees, thr, own, sec, touched>>
  BY DEF E!CreateFails, E!SetCre, CreInv, Making, AeeType
<1>2. /\ obj' \in [Env -> AeeObj] /\ obj'[e].st = "freed"
      /\ \A f \in Env : /\ f # e => obj'[f] = obj[f]
                        /\ obj'[f].name = obj[f].name /\ obj'[f].parent = obj[f].parent
                        /\ obj'[f].depth = obj[f].depth
  BY <1>1, EnvFrees
<1>3. cre' \in [Creators -> AeeCre]
  BY <1>1, EnvCre
<1> HIDE DEF e
<1>4. AeeType'
  BY <1>1, <1>2, <1>3 DEF AeeType, Alive
<1>5. ObjInv'
  BY <1>1, <1>2, <1>3 DEF AeeType, ObjInv, CreInv, Making, Alive
<1>6. EnvListInv'
  BY <1>1, <1>2, <1>3 DEF AeeType, EnvListInv, ObjInv, CreInv, Making, Alive
<1>7. CreInv'
  BY <1>1, <1>2, <1>3 DEF AeeType, CreInv, ObjInv, OwnInv, Making, e, Alive
<1>8. OwnInv'
  BY <1>1, <1>2, <1>3 DEF AeeType, OwnInv, CreInv, Making, e, Alive
<1>9. ManagerInv'
  BY <1>1, <1>2, <1>3 DEF AeeType, ManagerInv, OwnInv, CreInv, Making, Alive
<1>10. ParentInv'
  BY <1>1, <1>2, <1>3 DEF AeeType, ParentInv, ObjInv, ManagerInv, Alive
<1>11. QED
  BY <1>4, <1>5, <1>6, <1>7, <1>8, <1>9, <1>10

\* The thread of a new environment is made.
LEMMA EnvCreateThread ==
  ASSUME AeeInv, NEW c \in Creators, E!CreateThread(c)
  PROVE  AeeInv'
<1> USE EnvNumbers DEF AeeInv
<1> DEFINE e == cre[c].e
<1>1. /\ e \in Env /\ cre[c].pc = "thread" /\ thr[e] = "none" /\ obj[e].st = "alloc"
      /\ \A f \in Env : thr[f] # "none" => obj[f].name # obj[e].name
      /\ thr' = [thr EXCEPT ![e] = "start"]
      /\ cre' = [cre EXCEPT ![c] = [pc |-> "write", e |-> e]]
      /\ UNCHANGED <<obj, pt_aees, own, sec, touched>>
  BY DEF E!CreateThread, E!SetCre, E!Running, CreInv, Making, AeeType, Env
<1>2. thr' \in [Env -> AeePlace] /\ thr'[e] = "start" /\ \A f \in Env \ {e} : thr'[f] = thr[f]
  BY <1>1, EnvTypes DEF AeePlace, Alive
<1>3. cre' \in [Creators -> AeeCre]
  BY <1>1, EnvCre
<1> HIDE DEF e
<1>4. AeeType'
  BY <1>1, <1>2, <1>3 DEF AeeType, Alive
<1>5. ObjInv'
  BY <1>1, <1>2, <1>3 DEF AeeType, ObjInv, CreInv, Making, Alive
<1>6. EnvListInv'
  BY <1>1, <1>2, <1>3 DEF AeeType, EnvListInv, ObjInv, CreInv, Making, Alive
<1>7. CreInv'
  BY <1>1, <1>2, <1>3 DEF AeeType, CreInv, ObjInv, OwnInv, Making, e, Alive
<1>8. OwnInv'
  BY <1>1, <1>2, <1>3 DEF AeeType, OwnInv, CreInv, Making, e, Alive
<1>9. ManagerInv'
  BY <1>1, <1>2, <1>3 DEF AeeType, ManagerInv, OwnInv, CreInv, Making, Alive
<1>10. ParentInv'
  BY <1>1, <1>2, <1>3 DEF AeeType, ParentInv, ObjInv, ManagerInv, Alive
<1>11. QED
  BY <1>4, <1>5, <1>6, <1>7, <1>8, <1>9, <1>10

\* The creator writes the thread's handle.
LEMMA EnvWriteThread ==
  ASSUME AeeInv, NEW c \in Creators, E!WriteThread(c)
  PROVE  AeeInv'
<1> USE EnvNumbers DEF AeeInv
<1> DEFINE e == cre[c].e
<1>1. /\ e \in Env /\ cre[c].pc = "write" /\ obj[e].st = "alloc"
      /\ obj' = [obj EXCEPT ![e].h_thread = TRUE]
      /\ cre' = [cre EXCEPT ![c] = [pc |-> "queue", e |-> e]]
      /\ UNCHANGED <<pt_aees, thr, own, sec, touched>>
  BY DEF E!WriteThread, E!SetCre, E!Touch, CreInv, Making, AeeType
<1>2. /\ obj' \in [Env -> AeeObj]
      /\ \A f \in Env : /\ obj'[f].st = obj[f].st /\ obj'[f].depth = obj[f].depth
                        /\ obj'[f].name = obj[f].name /\ obj'[f].parent = obj[f].parent
  BY <1>1, EnvWrites
<1>3. cre' \in [Creators -> AeeCre]
  BY <1>1, EnvCre
<1> HIDE DEF e
<1>4. AeeType'
  BY <1>1, <1>2, <1>3 DEF AeeType, Alive
<1>5. ObjInv'
  BY <1>1, <1>2, <1>3 DEF AeeType, ObjInv, CreInv, Making, Alive
<1>6. EnvListInv'
  BY <1>1, <1>2, <1>3 DEF AeeType, EnvListInv, ObjInv, CreInv, Making, Alive
<1>7. CreInv'
  BY <1>1, <1>2, <1>3 DEF AeeType, CreInv, ObjInv, OwnInv, Making, e, Alive
<1>8. OwnInv'
  BY <1>1, <1>2, <1>3 DEF AeeType, OwnInv, CreInv, Making, e, Alive
<1>9. ManagerInv'
  BY <1>1, <1>2, <1>3 DEF AeeType, ManagerInv, OwnInv, CreInv, Making, Alive
<1>10. ParentInv'
  BY <1>1, <1>2, <1>3 DEF AeeType, ParentInv, ObjInv, ManagerInv, Alive
<1>11. QED
  BY <1>4, <1>5, <1>6, <1>7, <1>8, <1>9, <1>10

\* The creator sets the queue.
LEMMA EnvSetMsgQueue ==
  ASSUME AeeInv, NEW c \in Creators, E!SetMsgQueue(c)
  PROVE  AeeInv'
<1> USE EnvNumbers DEF AeeInv
<1> DEFINE e == cre[c].e
<1>1. /\ e \in Env /\ cre[c].pc = "queue" /\ obj[e].st = "alloc"
      /\ cre' = [cre EXCEPT ![c] = [pc |-> "init", e |-> e]]
      /\ UNCHANGED <<obj, pt_aees, thr, own, sec, touched>>
  BY DEF E!SetMsgQueue, E!SetCre, E!Touch, CreInv, Making, AeeType
<1>2. cre' \in [Creators -> AeeCre]
  BY <1>1, EnvCre
<1> HIDE DEF e
<1>3. AeeType'
  BY <1>1, <1>2 DEF AeeType, Alive
<1>4. ObjInv'
  BY <1>1, <1>2 DEF AeeType, ObjInv, CreInv, Making, Alive
<1>5. EnvListInv'
  BY <1>1, <1>2 DEF AeeType, EnvListInv, ObjInv, CreInv, Making, Alive
<1>6. CreInv'
  BY <1>1, <1>2 DEF AeeType, CreInv, ObjInv, OwnInv, Making, e, Alive
<1>7. OwnInv'
  BY <1>1, <1>2 DEF AeeType, OwnInv, CreInv, Making, e, Alive
<1>8. ManagerInv'
  BY <1>1, <1>2 DEF AeeType, ManagerInv, OwnInv, CreInv, Making, Alive
<1>9. ParentInv'
  BY <1>1, <1>2 DEF AeeType, ParentInv, ObjInv, ManagerInv, Alive
<1>10. QED
  BY <1>3, <1>4, <1>5, <1>6, <1>7, <1>8, <1>9

\* A creator asks an application to exit.
LEMMA EnvAppExit ==
  ASSUME AeeInv, NEW c \in Creators, NEW e \in Env, E!AppExit(c, e)
  PROVE  AeeInv'
<1> USE EnvNumbers DEF AeeInv
<1>1. /\ cre[c].pc = "idle" /\ c # 0 /\ thr[c] = "main" /\ e \in own[c] /\ thr[e] = "main"
      /\ obj[e].st = "alloc"
      /\ cre' = cre \/ cre' = [cre EXCEPT ![c] = [pc |-> "exit", e |-> e]]
      /\ UNCHANGED <<obj, pt_aees, thr, own, sec, touched>>
  BY DEF E!AppExit, E!SetCre, E!Touch, E!aee_get_msg_queue, OwnInv, ObjInv, Alive, AeeType
<1>2. e \in Creators /\ cre \in [Creators -> AeeCre]
  BY DEF AeeType
<1>3. cre' \in [Creators -> AeeCre]
  BY <1>1, <1>2, EnvCre
<1>4. AeeType'
  BY <1>1, <1>2, <1>3 DEF AeeType, Alive
<1>5. ObjInv'
  BY <1>1, <1>2, <1>3 DEF AeeType, ObjInv, CreInv, Making, Alive
<1>6. EnvListInv'
  BY <1>1, <1>2, <1>3 DEF AeeType, EnvListInv, ObjInv, CreInv, Making, Alive
<1>7. CreInv'
  <2>1. \A d \in Creators \ {c} : cre'[d] = cre[d]
    BY <1>1, <1>2
  <2>2. \/ cre'[c] = cre[c]
        \/ cre'[c].pc = "exit" /\ cre'[c].e = e
    BY <1>1, <1>2
  <2>3. \A d \in Creators : Making(d)' => d # c /\ Making(d)
    BY <1>1, <2>1, <2>2 DEF Making
  <2>4. \A d \in Creators : Making(d) => d # c
    BY <1>1 DEF Making
  <2>5. QED
    BY <1>1, <2>1, <2>2, <2>3, <2>4 DEF CreInv, Making
<1>8. OwnInv'
  BY <1>1, <1>2, <1>3 DEF AeeType, OwnInv, CreInv, Making, Alive
<1>9. ManagerInv'
  BY <1>1, <1>2, <1>3 DEF AeeType, ManagerInv, OwnInv, CreInv, Making, Alive
<1>10. ParentInv'
  BY <1>1, <1>2, <1>3 DEF AeeType, ParentInv, ObjInv, ManagerInv, Alive
<1>11. QED
  BY <1>4, <1>5, <1>6, <1>7, <1>8, <1>9, <1>10

\* The application handles INIT.
LEMMA EnvHandleInit ==
  ASSUME AeeInv, NEW e \in Env, E!HandleInit(e)
  PROVE  AeeInv'
<1> USE EnvNumbers DEF AeeInv
<1>1. PICK c \in {0} \cup E!Env :
        /\ cre[c] = [pc |-> "init", e |-> e] /\ E!SetCre(c, "idle", 0)
        /\ \/ thr' = [thr EXCEPT ![e] = "main"] /\ own' = [own EXCEPT ![c] = @ \cup {e}]
           \/ e # 1 /\ thr' = [thr EXCEPT ![e] = "leave"] /\ UNCHANGED own
  BY Zenon DEF E!HandleInit
<1>2. thr[e] = "wait" /\ UNCHANGED <<obj, pt_aees, sec, touched>>
  BY DEF E!HandleInit
<1>3. /\ c \in Creators
        /\ cre[c].pc = "init" /\ cre[c].e = e /\ thr[e] = "wait"
        /\ cre' = [cre EXCEPT ![c] = [pc |-> "idle", e |-> 0]]
        /\ \/ thr' = [thr EXCEPT ![e] = "main"] /\ own' = [own EXCEPT ![c] = @ \cup {e}]
           \/ e # 1 /\ thr' = [thr EXCEPT ![e] = "leave"] /\ UNCHANGED own
        /\ UNCHANGED <<obj, pt_aees, sec, touched>>
  BY <1>1, <1>2 DEF E!SetCre, Creators, Env
<1>4. /\ thr' \in [Env -> AeePlace] /\ \A f \in Env \ {e} : thr'[f] = thr[f]
      /\ (thr'[e] = "main" \/ thr'[e] = "leave")
  BY <1>3, EnvTypes DEF AeePlace, Alive
<1>5. \/ thr'[e] = "main" /\ own' = [own EXCEPT ![c] = @ \cup {e}]
      \/ thr'[e] = "leave" /\ e # 1 /\ own' = own
  BY <1>3 DEF AeeType
<1>6. cre' \in [Creators -> AeeCre]
  BY <1>3, EnvCre
<1>7. e # c /\ cre[e].pc = "idle" /\ \A d \in Creators : e \notin own[d]
  BY <1>3 DEF CreInv, OwnInv, AeeType
<1>8. own' \in [Creators -> SUBSET Env] /\ \A d \in Creators \ {c} : own'[d] = own[d]
  <2>1. own \in [Creators -> SUBSET Env]
    BY DEF AeeType
  <2>2. CASE own' = [own EXCEPT ![c] = @ \cup {e}]
    BY <2>1, <2>2
  <2>3. CASE own' = own
    BY <2>1, <2>3
  <2>4. QED
    BY <1>5, <2>2, <2>3
<1>9. own[c] \subseteq own'[c] /\ own'[c] \subseteq own[c] \cup {e}
  BY <1>3 DEF AeeType
<1>10. AeeType'
  BY <1>1, <1>2, <1>3, <1>4, <1>5, <1>6, <1>7, <1>8, <1>9 DEF AeeType, Alive
<1>11. ObjInv'
  BY <1>1, <1>2, <1>3, <1>4, <1>5, <1>6, <1>7, <1>8, <1>9 DEF AeeType, ObjInv, CreInv, Making, Alive
<1>12. EnvListInv'
  BY <1>1, <1>2, <1>3, <1>4, <1>5, <1>6, <1>7, <1>8, <1>9 DEF AeeType, EnvListInv, ObjInv, CreInv, Making, Alive
<1>13. CreInv'
  BY <1>1, <1>2, <1>3, <1>4, <1>5, <1>6, <1>7, <1>8, <1>9 DEF AeeType, CreInv, ObjInv, OwnInv, Making, Alive
<1>14. OwnInv'
  <2>1. e = 1 => c = 0
    BY <1>3 DEF CreInv, Making
  <2>2. ASSUME NEW d \in Creators, NEW f \in own'[d]
        PROVE  thr'[f] = "main" /\ (f = 1 => d = 0)
    <3>1. f \in own[d] => f \in Env /\ f # e /\ thr'[f] = "main" /\ (f = 1 => d = 0)
      BY <1>4, <1>7 DEF OwnInv, AeeType
    <3>2. f \notin own[d] => f = e /\ d = c /\ thr'[e] = "main"
      BY <1>5, <1>8, <1>9, <2>2
    <3>3. QED
      BY <2>1, <3>1, <3>2
  <2>3. ASSUME NEW d \in Creators, NEW x \in Creators, own'[d] \cap own'[x] # {}, d # x
        PROVE  FALSE
    <3>1. PICK f : f \in own'[d] /\ f \in own'[x]
      BY <2>3
    <3>2. \A y \in Creators : f \in own'[y] => f \in own[y] \/ (f = e /\ y = c)
      BY <1>8, <1>9
    <3>3. f # e
      BY <1>7, <2>3, <3>1, <3>2
    <3>4. QED
      BY <2>3, <3>1, <3>2, <3>3 DEF OwnInv
  <2>4. QED
    BY <2>2, <2>3 DEF OwnInv
<1>15. ManagerInv'
  BY <1>1, <1>2, <1>3, <1>4, <1>5, <1>6, <1>7, <1>8, <1>9 DEF AeeType, ManagerInv, OwnInv, CreInv, Making, Alive
<1>16. ParentInv'
  <2> SUFFICES ASSUME NEW f \in Env, obj[f].st # "none", obj[f].parent # 0,
                      thr'[f] \in {"wait", "main", "leave"}
               PROVE  thr'[obj[f].parent] \in {"main", "leave", "relations"}
    BY <1>3 DEF ParentInv
  <2>1. obj[f].parent \in Env
    BY DEF AeeType, AeeObj
  <2>2. thr[f] \in {"wait", "main", "leave"}
    BY <1>3, <1>4
  <2>3. thr[obj[f].parent] \in {"main", "leave", "relations"}
    BY <2>2 DEF ParentInv
  <2>4. QED
    BY <1>3, <1>4, <2>1, <2>3
<1>17. QED
  BY <1>10, <1>11, <1>12, <1>13, <1>14, <1>15, <1>16

\* The application handles EXIT.
LEMMA EnvHandleExit ==
  ASSUME AeeInv, NEW e \in Env, E!HandleExit(e)
  PROVE  AeeInv'
<1> USE EnvNumbers DEF AeeInv
<1>1. PICK c \in E!Env : /\ cre[c] = [pc |-> "exit", e |-> e] /\ E!SetCre(c, "idle", 0)
                        /\ own' = [own EXCEPT ![c] = E!Forget(c, e)]
  BY Zenon DEF E!HandleExit
<1>2. /\ thr[e] = "main" /\ cre[e].pc = "idle" /\ thr' = [thr EXCEPT ![e] = "leave"]
      /\ UNCHANGED <<obj, pt_aees, sec, touched>>
  BY DEF E!HandleExit
<1>3. /\ c \in Env
        /\ cre[c].pc = "exit" /\ cre[c].e = e /\ thr[e] = "main" /\ cre[e].pc = "idle"
        /\ cre' = [cre EXCEPT ![c] = [pc |-> "idle", e |-> 0]]
        /\ thr' = [thr EXCEPT ![e] = "leave"]
        /\ own' = [own EXCEPT ![c] = own[c] \ {e}]
        /\ UNCHANGED <<obj, pt_aees, sec, touched>>
  BY <1>1, <1>2 DEF E!SetCre, E!Forget, Env
<1>4. thr' \in [Env -> AeePlace] /\ thr'[e] = "leave" /\ \A f \in Env \ {e} : thr'[f] = thr[f]
  BY <1>3, EnvTypes DEF AeePlace, Alive
<1>5. c \in Creators /\ cre' \in [Creators -> AeeCre]
  BY <1>3, EnvCre
<1>6. e # c /\ e \in own[c] /\ e # 1 /\ \A d \in Creators \ {c} : e \notin own[d]
  BY <1>3, <1>5 DEF CreInv, OwnInv, AeeType
<1>7. /\ own' \in [Creators -> SUBSET Env] /\ \A d \in Creators \ {c} : own'[d] = own[d]
      /\ own'[c] = own[c] \ {e}
  BY <1>3, <1>5 DEF AeeType
<1>8. AeeType'
  BY <1>1, <1>2, <1>3, <1>4, <1>5, <1>6, <1>7 DEF AeeType, Alive
<1>9. ObjInv'
  BY <1>1, <1>2, <1>3, <1>4, <1>5, <1>6, <1>7 DEF AeeType, ObjInv, CreInv, Making, Alive
<1>10. EnvListInv'
  BY <1>1, <1>2, <1>3, <1>4, <1>5, <1>6, <1>7 DEF AeeType, EnvListInv, ObjInv, CreInv, Making, Alive
<1>11. CreInv'
  BY <1>1, <1>2, <1>3, <1>4, <1>5, <1>6, <1>7 DEF AeeType, CreInv, ObjInv, OwnInv, Making, Alive
<1>12. OwnInv'
  BY <1>1, <1>2, <1>3, <1>4, <1>5, <1>6, <1>7 DEF AeeType, OwnInv, CreInv, Making, Alive
<1>13. ManagerInv'
  BY <1>1, <1>2, <1>3, <1>4, <1>5, <1>6, <1>7 DEF AeeType, ManagerInv, OwnInv, CreInv, Making, Alive
<1>14. ParentInv'
  BY <1>1, <1>2, <1>3, <1>4, <1>5, <1>6, <1>7 DEF AeeType, ParentInv, ObjInv, ManagerInv, Alive
<1>15. QED
  BY <1>8, <1>9, <1>10, <1>11, <1>12, <1>13, <1>14

\* The thread handles a message of the owner of a secondary handle.
LEMMA EnvHandleMsg ==
  ASSUME AeeInv, NEW e \in Env, E!HandleMsg(e)
  PROVE  AeeInv'
<1> USE EnvNumbers DEF AeeInv
<1>1. UNCHANGED <<obj, pt_aees, thr, cre, own, sec, touched>>
  BY DEF E!HandleMsg
<1>2. AeeType'
  BY <1>1 DEF AeeType, Alive
<1>3. ObjInv'
  BY <1>1 DEF AeeType, ObjInv, CreInv, Making, Alive
<1>4. EnvListInv'
  BY <1>1 DEF AeeType, EnvListInv, ObjInv, CreInv, Making, Alive
<1>5. CreInv'
  BY <1>1 DEF AeeType, CreInv, ObjInv, OwnInv, Making, Alive
<1>6. OwnInv'
  BY <1>1 DEF AeeType, OwnInv, CreInv, Making, Alive
<1>7. ManagerInv'
  BY <1>1 DEF AeeType, ManagerInv, OwnInv, CreInv, Making, Alive
<1>8. ParentInv'
  BY <1>1 DEF AeeType, ParentInv, ObjInv, ManagerInv, Alive
<1>9. QED
  BY <1>2, <1>3, <1>4, <1>5, <1>6, <1>7, <1>8

\* The children of an environment that ends lose their parent.
LEMMA EnvRelations ==
  ASSUME AeeInv, NEW e \in Env, E!Relations(e)
  PROVE  AeeInv'
<1> USE EnvNumbers DEF AeeInv
<1>1. /\ thr[e] = "relations" /\ obj' = [f \in Env |-> [obj[f] EXCEPT !.parent = E!Orphaned(e, f)]]
      /\ thr' = [thr EXCEPT ![e] = "free"]
      /\ UNCHANGED <<pt_aees, cre, own, sec, touched>>
  BY DEF E!Relations, Env
<1>2. thr' \in [Env -> AeePlace] /\ thr'[e] = "free" /\ \A f \in Env \ {e} : thr'[f] = thr[f]
  BY <1>1, EnvTypes DEF AeePlace, Alive
<1>3. \A f \in Env : E!Orphaned(e, f) =
        IF obj[e].parent # 0 /\ f \in Range(pt_aees) /\ obj[f].parent = e THEN 0 ELSE obj[f].parent
  BY DEF E!Orphaned, E!Listed, Range, AeeType
<1>4. \A f \in Env :
        /\ obj[f] \in AeeObj
        /\ obj'[f] = [obj[f] EXCEPT !.parent = E!Orphaned(e, f)]
        /\ E!Orphaned(e, f) \in Creators
  BY <1>1, <1>3 DEF AeeType, AeeObj
<1>5. ASSUME NEW f \in Env
      PROVE  /\ obj'[f] \in AeeObj
             /\ obj'[f].st = obj[f].st /\ obj'[f].name = obj[f].name
             /\ obj'[f].depth = obj[f].depth /\ obj'[f].parent = E!Orphaned(e, f)
  <2> DEFINE o == obj[f]
             p == E!Orphaned(e, f)
             q == obj'[f]
  <2>1. o \in AeeObj /\ q = [o EXCEPT !.parent = p] /\ p \in Creators
    BY <1>4
  <2> HIDE DEF o, p, q
  <2>2. q \in AeeObj /\ q.st = o.st /\ q.name = o.name /\ q.depth = o.depth /\ q.parent = p
    BY <2>1 DEF AeeObj
  <2>3. QED
    BY <2>2 DEF o, p, q
<1>6. obj' \in [Env -> AeeObj]
  BY <1>1, <1>5
<1>7. cre[e].pc = "idle" /\ \A f \in Env : thr[f] \in {"none", "start"} => f \notin Range(pt_aees)
  BY <1>1 DEF CreInv, EnvListInv, AeeType, AeeCre
<1>8. AeeType'
  BY <1>1, <1>2, <1>3, <1>4, <1>5, <1>6, <1>7 DEF AeeType, Alive
<1>9. ObjInv'
  <2>1. SUFFICES ASSUME NEW f \in Env
                 PROVE  /\ obj'[f].st # "none" => \A g \in 1 .. f - 1 : obj'[g].st # "none"
                        /\ obj'[f].st = "none" => thr'[f] = "none"
                        /\ thr'[f] \in Alive => obj'[f].st = "alloc"
    BY DEF ObjInv
  <2>2. obj'[f].st = obj[f].st /\ \A g \in 1 .. f - 1 : g \in Env /\ obj'[g].st = obj[g].st
    <3>1. \A g \in 1 .. f - 1 : g \in Env
      BY AeeAssumption DEF Env, E!Env, E!AeeAssumption
    <3>2. QED
      BY <1>5, <3>1
  <2>3. thr'[f] = "none" => thr[f] = "none"
    BY <1>1, <1>2
  <2>4. thr[f] = "none" => thr'[f] = "none"
    BY <1>1, <1>2
  <2>5. thr'[f] \in Alive => thr[f] \in Alive
    BY <1>1, <1>2 DEF Alive
  <2>6. QED
    BY <2>2, <2>3, <2>4, <2>5 DEF ObjInv
<1>10. EnvListInv'
  BY <1>1, <1>2, <1>3, <1>4, <1>5, <1>6, <1>7 DEF AeeType, EnvListInv, ObjInv, CreInv, Making, Alive
<1>11. CreInv'
  BY <1>1, <1>2, <1>3, <1>4, <1>5, <1>6, <1>7 DEF AeeType, CreInv, ObjInv, OwnInv, Making, Alive
<1>12. OwnInv'
  BY <1>1, <1>2, <1>3, <1>4, <1>5, <1>6, <1>7 DEF AeeType, OwnInv, CreInv, Making, Alive
<1>13. ManagerInv'
  BY <1>1, <1>2, <1>3, <1>4, <1>5, <1>6, <1>7 DEF AeeType, ManagerInv, OwnInv, CreInv, Making, Alive
<1>14. ParentInv'
  <2> SUFFICES ASSUME NEW f \in Env, obj[f].st # "none"
               PROVE  /\ f = 1 => obj'[f].depth = 1 /\ obj'[f].parent = 0
                      /\ f # 1 => obj'[f].depth > 1 /\ obj'[f].depth <= EnvDepth
                      /\ obj'[f].depth = 2 => obj'[f].parent = 1
                      /\ obj'[f].parent # 0 => /\ obj'[obj'[f].parent].st # "none"
                                               /\ obj'[obj'[f].parent].depth + 1 = obj'[f].depth
                      /\ obj'[f].parent # 0 /\ thr'[f] \in {"wait", "main", "leave"} =>
                           thr'[obj'[f].parent] \in {"main", "leave", "relations"}
    BY <1>5 DEF ParentInv
  <2>1. /\ e # 1 /\ obj[e].st = "alloc" /\ obj[e].depth \in Nat /\ obj[f].depth \in Nat
        /\ obj[f].parent \in Creators
    BY <1>1 DEF ManagerInv, ObjInv, Alive, AeeType, AeeObj
  <2>2. CASE obj'[f].parent = obj[f].parent
    <3>1. obj[f].parent # 0 => obj[f].parent \in Env
      BY <2>1
    <3>2. obj[f].parent = e => f \notin Range(pt_aees)
      <4>1. SUFFICES ASSUME obj[f].parent = e, f \in Range(pt_aees) PROVE FALSE
        OBVIOUS
      <4>2. obj[e].depth + 1 = obj[f].depth /\ obj[f].depth <= 3 /\ obj[e].depth > 1
        <5>1. obj[f].parent # 0 /\ f # 1 /\ obj[f].depth <= EnvDepth
          BY <2>1, <4>1 DEF ParentInv
        <5>2. obj[f].depth <= 3
          BY <2>1, <5>1, AeeAssumption DEF E!AeeAssumption
        <5>3. obj[e].depth + 1 = obj[f].depth
          BY <2>1, <4>1 DEF ParentInv
        <5>4. obj[e].depth > 1
          BY <2>1 DEF ParentInv
        <5>5. QED
          BY <5>2, <5>3, <5>4
      <4>3. obj[e].depth = 2
        BY <2>1, <4>2
      <4>4. obj[e].parent = 1
        BY <2>1, <4>3 DEF ParentInv
      <4>5. E!Orphaned(e, f) = 0
        BY <1>3, <4>1, <4>4
      <4>6. QED
        BY <1>5, <2>2, <4>1, <4>5
    <3>3. thr'[f] \in {"wait", "main", "leave"} /\ obj[f].parent # 0 => obj[f].parent # e
      BY <1>1, <1>2, <3>2 DEF EnvListInv
    <3>4. QED
      BY <1>2, <1>5, <2>2, <3>1, <3>3 DEF ParentInv
  <2>3. CASE obj'[f].parent = 0 /\ obj[f].parent = e
    BY <1>5, <2>1, <2>3 DEF ParentInv
  <2>4. QED
    BY <1>3, <1>5, <2>2, <2>3
<1>15. QED
  BY <1>8, <1>9, <1>10, <1>11, <1>12, <1>13, <1>14

\* The object of an environment is freed.
LEMMA EnvFreeObject ==
  ASSUME AeeInv, NEW e \in Env, E!FreeObject(e)
  PROVE  AeeInv'
<1> USE EnvNumbers DEF AeeInv
<1>1. /\ thr[e] = "free" /\ obj[e].st = "alloc"
      /\ obj' = [obj EXCEPT ![e].st = "freed"] /\ thr' = [thr EXCEPT ![e] = "handle"]
      /\ UNCHANGED <<pt_aees, cre, own, sec, touched>>
  BY DEF E!FreeObject, ObjInv, Alive
<1>2. /\ obj' \in [Env -> AeeObj] /\ obj'[e].st = "freed"
      /\ \A f \in Env : /\ f # e => obj'[f] = obj[f]
                        /\ obj'[f].name = obj[f].name /\ obj'[f].parent = obj[f].parent
                        /\ obj'[f].depth = obj[f].depth
  BY <1>1, EnvFrees
<1>3. thr' \in [Env -> AeePlace] /\ thr'[e] = "handle" /\ \A f \in Env \ {e} : thr'[f] = thr[f]
  BY <1>1, EnvTypes DEF AeePlace
<1>4. AeeType'
  BY <1>1, <1>2, <1>3 DEF AeeType, Alive
<1>5. ObjInv'
  BY <1>1, <1>2, <1>3 DEF AeeType, ObjInv, CreInv, Making, Alive
<1>6. EnvListInv'
  BY <1>1, <1>2, <1>3 DEF AeeType, EnvListInv, ObjInv, CreInv, Making, Alive
<1>7. CreInv'
  BY <1>1, <1>2, <1>3 DEF AeeType, CreInv, ObjInv, OwnInv, Making, Alive
<1>8. OwnInv'
  BY <1>1, <1>2, <1>3 DEF AeeType, OwnInv, CreInv, Making, Alive
<1>9. ManagerInv'
  BY <1>1, <1>2, <1>3 DEF AeeType, ManagerInv, OwnInv, CreInv, Making, Alive
<1>10. ParentInv'
  BY <1>1, <1>2, <1>3 DEF AeeType, ParentInv, ObjInv, ManagerInv, Alive
<1>11. QED
  BY <1>4, <1>5, <1>6, <1>7, <1>8, <1>9, <1>10

\* The primary handle is freed.
LEMMA EnvFreeHandle ==
  ASSUME AeeInv, NEW e \in Env, E!FreeHandle(e)
  PROVE  AeeInv'
<1> USE EnvNumbers DEF AeeInv
<1>1. /\ thr[e] = "handle" /\ thr' = [thr EXCEPT ![e] = "none"]
      /\ UNCHANGED <<obj, pt_aees, cre, own, sec, touched>>
  BY DEF E!FreeHandle
<1>2. thr' \in [Env -> AeePlace] /\ thr'[e] = "none" /\ \A f \in Env \ {e} : thr'[f] = thr[f]
  BY <1>1, EnvTypes DEF AeePlace
<1>3. AeeType'
  BY <1>1, <1>2 DEF AeeType, Alive
<1>4. ObjInv'
  BY <1>1, <1>2 DEF AeeType, ObjInv, CreInv, Making, Alive
<1>5. EnvListInv'
  BY <1>1, <1>2 DEF AeeType, EnvListInv, ObjInv, CreInv, Making, Alive
<1>6. CreInv'
  BY <1>1, <1>2 DEF AeeType, CreInv, ObjInv, OwnInv, Making, Alive
<1>7. OwnInv'
  BY <1>1, <1>2 DEF AeeType, OwnInv, CreInv, Making, Alive
<1>8. ManagerInv'
  BY <1>1, <1>2 DEF AeeType, ManagerInv, OwnInv, CreInv, Making, Alive
<1>9. ParentInv'
  BY <1>1, <1>2 DEF AeeType, ParentInv, ObjInv, ManagerInv, Alive
<1>10. QED
  BY <1>3, <1>4, <1>5, <1>6, <1>7, <1>8, <1>9

\* A creator allocates an environment.
LEMMA EnvAlloc ==
  ASSUME AeeInv, NEW c \in Creators, NEW name \in EnvNames \cup {E!AM}, E!Alloc(c, name)
  PROVE  AeeInv'
<1> USE EnvNumbers DEF AeeInv
<1>1. PICK e \in E!Env :
        /\ obj[e].st = "none" /\ \A f \in 1 .. e - 1 : obj[f].st # "none"
        /\ obj' = [obj EXCEPT ![e] = [st |-> "alloc", name |-> name, parent |-> c, h_thread |-> FALSE,
                                      depth |-> IF c = 0 THEN 1 ELSE obj[c].depth + 1]]
        /\ valid' = valid \cup {e}
        /\ E!SetCre(c, "thread", e)
  BY Zenon DEF E!Alloc
<1>2. /\ e \in Env /\ cre[c].pc = "idle"
      /\ c = 0 => name = E!AM /\ obj[1].st = "none"
      /\ c # 0 => c \in Env /\ name # E!AM /\ thr[c] = "main" /\ obj[c].depth < EnvDepth
      /\ cre' = [cre EXCEPT ![c] = [pc |-> "thread", e |-> e]]
      /\ UNCHANGED <<pt_aees, thr, own, sec, touched>>
  BY <1>1 DEF E!Alloc, E!SetCre, Env
<1>3. /\ e \in Creators /\ obj[e].st = "none" /\ thr[e] = "none"
      /\ c # 0 => obj[c].st = "alloc" /\ obj[c].depth \in Nat /\ c # e
  BY <1>1, <1>2 DEF ObjInv, Alive, AeeType, AeeObj
<1>4. c = 0 <=> e = 1
  <2>1. 1 \in Env
    BY <1>2, AeeAssumption DEF Env, E!Env, E!AeeAssumption
  <2>2. ASSUME c = 0, e # 1 PROVE FALSE
    <3>1. 1 \in 1 .. e - 1
      BY <1>2, <2>2
    <3>2. QED
      BY <1>1, <1>2, <2>2, <3>1
  <2>3. ASSUME c # 0, e = 1 PROVE FALSE
    <3>1. c \in Env /\ obj[c].st # "none" /\ c # 1
      BY <1>2, <1>3, <2>3
    <3>2. 1 \in 1 .. c - 1
      BY <3>1
    <3>3. QED
      BY <1>3, <2>3, <3>1, <3>2 DEF ObjInv
  <2>4. QED
    BY <2>2, <2>3
<1> DEFINE o == obj'[e]
<1>5. /\ o = [st |-> "alloc", name |-> name, parent |-> c, h_thread |-> FALSE,
              depth |-> IF c = 0 THEN 1 ELSE obj[c].depth + 1]
      /\ \A f \in Env \ {e} : obj'[f] = obj[f]
  BY <1>1, <1>2 DEF AeeType
<1> HIDE DEF o
<1>6. /\ o \in AeeObj /\ o.st = "alloc" /\ o.name = name /\ o.parent = c
      /\ o.depth = (IF c = 0 THEN 1 ELSE obj[c].depth + 1)
  <2>1. (IF c = 0 THEN 1 ELSE obj[c].depth + 1) \in Nat
    BY <1>3
  <2>2. QED
    BY <1>5, <2>1 DEF AeeObj
<1>7. o = obj'[e] /\ obj' \in [Env -> AeeObj]
  <2>1. obj' = [obj EXCEPT ![e] = o]
    BY <1>1, <1>5
  <2>2. QED
    BY <1>2, <1>6, <2>1 DEF AeeType, o
<1>8. cre' \in [Creators -> AeeCre]
  BY <1>2, <1>3, EnvCre
<1>9. /\ \A d \in Creators : Making(d) => cre[d].e # e
      /\ \A f \in Env : obj[f].st # "none" => obj[f].parent # e
  <2>1. ASSUME NEW d \in Creators, Making(d) PROVE cre[d].e # e
    BY <1>3, <2>1 DEF CreInv
  <2>2. ASSUME NEW f \in Env, obj[f].st # "none" PROVE obj[f].parent # e
    BY <1>2, <1>3, <2>2 DEF ParentInv
  <2>3. QED
    BY <2>1, <2>2
<1>10. AeeType'
  BY <1>1, <1>2, <1>3, <1>4, <1>5, <1>6, <1>7, <1>8, <1>9 DEF AeeType, Alive
<1>11. ObjInv'
  <2>1. SUFFICES ASSUME NEW f \in Env
                 PROVE  /\ obj'[f].st # "none" => \A g \in 1 .. f - 1 : obj'[g].st # "none"
                        /\ obj'[f].st = "none" => thr'[f] = "none"
                        /\ thr'[f] \in Alive => obj'[f].st = "alloc"
    BY DEF ObjInv
  <2>2. \A g \in 1 .. f - 1 : g \in Env
    BY AeeAssumption DEF Env, E!Env, E!AeeAssumption
  <2>3. QED
    BY <1>1, <1>2, <1>3, <1>5, <1>6, <1>7, <2>2 DEF ObjInv
<1>12. EnvListInv'
  BY <1>1, <1>2, <1>3, <1>4, <1>5, <1>6, <1>7, <1>8, <1>9 DEF AeeType, EnvListInv, ObjInv, CreInv, Making, Alive
<1>13. CreInv'
  BY <1>1, <1>2, <1>3, <1>4, <1>5, <1>6, <1>7, <1>8, <1>9 DEF AeeType, CreInv, ObjInv, OwnInv, Making, Alive
<1>14. OwnInv'
  BY <1>1, <1>2, <1>3, <1>4, <1>5, <1>6, <1>7, <1>8, <1>9 DEF AeeType, OwnInv, CreInv, Making, Alive
<1>15. ManagerInv'
  BY <1>1, <1>2, <1>3, <1>4, <1>5, <1>6, <1>7, <1>8, <1>9 DEF AeeType, ManagerInv, OwnInv, CreInv, Making, Alive
<1>16. ParentInv'
  <2> SUFFICES ASSUME NEW f \in Env, obj'[f].st # "none"
               PROVE  /\ f = 1 => obj'[f].depth = 1 /\ obj'[f].parent = 0
                      /\ f # 1 => obj'[f].depth > 1 /\ obj'[f].depth <= EnvDepth
                      /\ obj'[f].depth = 2 => obj'[f].parent = 1
                      /\ obj'[f].parent # 0 => /\ obj'[obj'[f].parent].st # "none"
                                               /\ obj'[obj'[f].parent].depth + 1 = obj'[f].depth
                      /\ obj'[f].parent # 0 /\ thr'[f] \in {"wait", "main", "leave"} =>
                           thr'[obj'[f].parent] \in {"main", "leave", "relations"}
    BY DEF ParentInv
  <2>1. CASE f = e
    <3>1. CASE c = 0
      BY <1>2, <1>3, <1>4, <1>6, <1>7, <2>1, <3>1
    <3>2. CASE c # 0
      <4>1. /\ obj'[c] = obj[c] /\ (c = 1 => obj[c].depth = 1) /\ (c # 1 => obj[c].depth > 1)
            /\ obj[c].depth \in Nat /\ obj[c].depth < EnvDepth /\ EnvDepth \in Nat
        BY <1>2, <1>3, <1>5, <3>2, AeeAssumption DEF ParentInv, E!AeeAssumption
      <4>2. obj'[f].depth = obj[c].depth + 1 /\ obj'[f].parent = c
        BY <1>6, <1>7, <2>1, <3>2
      <4>3. QED
        BY <1>2, <1>3, <1>4, <2>1, <3>2, <4>1, <4>2
    <3>3. QED
      BY <3>1, <3>2
  <2>2. CASE f # e
    <3>1. obj'[f] = obj[f] /\ obj[f].parent # e /\ obj[f].parent \in Creators
      BY <1>5, <1>9, <2>2 DEF AeeType, AeeObj
    <3>2. obj[f].parent # 0 => obj'[obj[f].parent] = obj[obj[f].parent]
      BY <1>5, <3>1
    <3>3. QED
      BY <1>2, <3>1, <3>2 DEF ParentInv
  <2>3. QED
    BY <2>1, <2>2
<1>17. QED
  BY <1>10, <1>11, <1>12, <1>13, <1>14, <1>15, <1>16

\* A list without repetition has a new one in front.
LEMMA EnvInFront ==
  ASSUME pt_aees \in Seq(Env), NEW e \in Env, Distinct(pt_aees), e \notin Range(pt_aees)
  PROVE  /\ Cons(e, pt_aees) \in Seq(Env) /\ Distinct(Cons(e, pt_aees))
         /\ Range(Cons(e, pt_aees)) = Range(pt_aees) \cup {e}
BY Prepended

\* aee_add puts the environment on the list.
LEMMA EnvAdd ==
  ASSUME AeeInv, NEW e \in Env, E!aee_add(e)
  PROVE  AeeInv'
<1> USE EnvNumbers DEF AeeInv
<1>1. /\ thr[e] = "start" /\ obj[e].st = "alloc" /\ e \notin Range(pt_aees)
      /\ pt_aees' = Cons(e, pt_aees) /\ thr' = [thr EXCEPT ![e] = "wait"]
      /\ UNCHANGED <<obj, cre, own, sec, touched>>
  BY DEF E!aee_add, E!Touch, E!InFront, E!Cons, Cons, ObjInv, Alive, EnvListInv
<1>2. thr' \in [Env -> AeePlace] /\ thr'[e] = "wait" /\ \A f \in Env \ {e} : thr'[f] = thr[f]
  BY <1>1, EnvTypes DEF AeePlace, Alive
<1>3. /\ pt_aees' \in Seq(Env) /\ Distinct(pt_aees') /\ Range(pt_aees') = Range(pt_aees) \cup {e}
  <2>1. pt_aees \in Seq(Env) /\ Distinct(pt_aees)
    BY DEF AeeType, EnvListInv
  <2>2. e \notin Range(pt_aees)
    BY <1>1
  <2>3. /\ Cons(e, pt_aees) \in Seq(Env) /\ Distinct(Cons(e, pt_aees))
        /\ Range(Cons(e, pt_aees)) = Range(pt_aees) \cup {e}
    BY <2>1, <2>2, EnvInFront
  <2>4. QED
    BY <1>1, <2>3
<1>4. PICK c \in Creators : cre[c].pc \in {"write", "queue", "init"} /\ cre[c].e = e
  BY <1>1 DEF CreInv
<1>5. obj[e].parent = c /\ (c # 0 => thr[c] = "main" /\ c # e)
  BY <1>1, <1>4 DEF CreInv, Making
<1>6. AeeType'
  BY <1>1, <1>2, <1>3, <1>4, <1>5 DEF AeeType, Alive
<1>7. ObjInv'
  BY <1>1, <1>2, <1>3, <1>4, <1>5 DEF AeeType, ObjInv, CreInv, Making, Alive
<1>8. EnvListInv'
  BY <1>1, <1>2, <1>3, <1>4, <1>5 DEF AeeType, EnvListInv, ObjInv, CreInv, Making, Alive
<1>9. CreInv'
  <2>1. \A f \in Env : /\ thr[f] \in {"none", "main"} => thr'[f] = thr[f]
                        /\ thr[f] \in {"start", "wait"} <=> thr'[f] \in {"start", "wait"}
    BY <1>1, <1>2
  <2>2. QED
    BY <1>1, <2>1 DEF AeeType, CreInv, Making
<1>10. OwnInv'
  BY <1>1, <1>2, <1>3, <1>4, <1>5 DEF AeeType, OwnInv, CreInv, Making, Alive
<1>11. ManagerInv'
  BY <1>1, <1>2, <1>3, <1>4, <1>5 DEF AeeType, ManagerInv, OwnInv, CreInv, Making, Alive
<1>12. ParentInv'
  BY <1>1, <1>2, <1>3, <1>4, <1>5 DEF AeeType, ParentInv, ObjInv, ManagerInv, Alive
<1>13. QED
  BY <1>6, <1>7, <1>8, <1>9, <1>10, <1>11, <1>12

\* aee_remove takes the environment off the list.
LEMMA EnvRemove ==
  ASSUME AeeInv, NEW e \in Env, E!aee_remove(e)
  PROVE  AeeInv'
<1> USE EnvNumbers DEF AeeInv
<1>1. /\ thr[e] = "leave" /\ e # 1
      /\ pt_aees' = RemoveFirst(pt_aees, e) /\ thr' = [thr EXCEPT ![e] = "relations"]
      /\ UNCHANGED <<obj, cre, own, sec, touched>>
  BY DEF E!aee_remove, E!Left, E!Without, ManagerInv, E!RemoveFirst, RemoveFirst,
         E!RemoveAt, RemoveAt, E!SelectInSeq, SelectInSeq, E!Min, Min
<1>2. thr' \in [Env -> AeePlace] /\ thr'[e] = "relations" /\ \A f \in Env \ {e} : thr'[f] = thr[f]
  BY <1>1, EnvTypes DEF AeePlace, Alive
<1>3. /\ pt_aees' \in Seq(Env) /\ Distinct(pt_aees') /\ Range(pt_aees') = Range(pt_aees) \ {e}
  BY <1>1, Unlinked DEF AeeType, EnvListInv
<1>4. AeeType'
  BY <1>1, <1>2, <1>3 DEF AeeType, Alive
<1>5. ObjInv'
  BY <1>1, <1>2, <1>3 DEF AeeType, ObjInv, CreInv, Making, Alive
<1>6. EnvListInv'
  BY <1>1, <1>2, <1>3 DEF AeeType, EnvListInv, ObjInv, CreInv, Making, Alive
<1>7. CreInv'
  BY <1>1, <1>2, <1>3 DEF AeeType, CreInv, ObjInv, OwnInv, Making, Alive
<1>8. OwnInv'
  BY <1>1, <1>2, <1>3 DEF AeeType, OwnInv, CreInv, Making, Alive
<1>9. ManagerInv'
  BY <1>1, <1>2, <1>3 DEF AeeType, ManagerInv, OwnInv, CreInv, Making, Alive
<1>10. ParentInv'
  BY <1>1, <1>2, <1>3 DEF AeeType, ParentInv, ObjInv, ManagerInv, Alive
<1>11. QED
  BY <1>4, <1>5, <1>6, <1>7, <1>8, <1>9, <1>10

\* A look-up by the manager's name finds the manager's environment, or nothing.
LEMMA EnvFound ==
  ASSUME AeeInv
  PROVE  E!aee_find_by_name(E!AM) # 0 =>
           /\ E!aee_find_by_name(E!AM) = 1 /\ 1 \in Env
           /\ obj[1].st = "alloc" /\ thr[1] \in {"wait", "main"}
<1> USE EnvNumbers DEF AeeInv
<1> DEFINE hits == {j \in 1 .. Len(pt_aees) : obj[pt_aees[j]].name = E!AM}
           k == CHOOSE j \in hits : \A m \in hits : j =< m
<1>1. E!aee_find_by_name(E!AM) = IF hits = {} THEN 0 ELSE pt_aees[k]
  BY DEF E!aee_find_by_name
<1>2. ASSUME hits # {} PROVE k \in hits
  <2>1. hits \in SUBSET Nat
    OBVIOUS
  <2>2. Min(hits) \in hits /\ \A m \in hits : Min(hits) <= m
    BY <1>2, <2>1, MinIsOne
  <2>3. QED
    BY <2>2
<1> HIDE DEF k
<1>3. ASSUME NEW j \in hits PROVE pt_aees[j] = 1 /\ 1 \in Range(pt_aees) /\ 1 \in Env
  <2>1. pt_aees[j] \in Range(pt_aees) /\ pt_aees[j] \in Env
    <3>1. j \in 1 .. Len(pt_aees) /\ pt_aees \in Seq(Env)
      BY DEF AeeType
    <3>2. QED
      BY <3>1, AtPlace, Zenon
  <2>2. obj[pt_aees[j]].st # "none"
    BY <2>1 DEF EnvListInv, ObjInv, Alive
  <2>3. QED
    BY <2>1, <2>2 DEF EnvListInv
<1>4. 1 \in Env /\ 1 \in Range(pt_aees) => thr[1] \in {"wait", "main"} /\ obj[1].st = "alloc"
  BY DEF EnvListInv, ManagerInv, ObjInv, Alive
<1>5. QED
  BY <1>1, <1>2, <1>3, <1>4

\* The steps of a thread with a secondary handle.
LEMMA EnvUser ==
  ASSUME AeeInv, NEW u \in EnvUsers,
         E!GetHandle(u) \/ E!GetHandleFind(u) \/ E!aee_send_data_op(u) \/ E!u_aee_free_handle(u)
  PROVE  AeeInv'
<1> USE EnvNumbers DEF AeeInv
<1>1. UNCHANGED <<obj, pt_aees, thr, cre, own>>
  BY DEF E!GetHandle, E!GetHandleFind, E!aee_send_data_op, E!u_aee_free_handle
<1>2. touched' = touched
  <2>1. CASE E!GetHandleFind(u)
    BY <2>1, EnvFound DEF E!GetHandleFind, E!Touch
  <2>2. CASE E!aee_send_data_op(u)
    BY <2>2 DEF E!aee_send_data_op, E!Touch, ManagerInv, ObjInv, Alive
  <2>3. QED
    BY <2>1, <2>2 DEF E!GetHandle, E!u_aee_free_handle
<1>3. /\ sec' \in [EnvUsers -> {"none", "alloc", "ready"}]
      /\ \A v \in EnvUsers : sec'[v] = "ready" => 1 \in Env /\ thr[1] \in {"wait", "main"}
  <2>1. CASE E!GetHandleFind(u)
    <3>1. \/ sec' = [sec EXCEPT ![u] = "ready"] /\ E!aee_find_by_name(E!AM) # 0
          \/ sec' = [sec EXCEPT ![u] = "none"]
      BY <2>1 DEF E!GetHandleFind
    <3>2. QED
      BY <3>1, EnvFound DEF AeeType, ManagerInv
  <2>2. CASE E!GetHandle(u) \/ E!aee_send_data_op(u) \/ E!u_aee_free_handle(u)
    BY <2>2 DEF E!GetHandle, E!aee_send_data_op, E!u_aee_free_handle, AeeType, ManagerInv
  <2>3. QED
    BY <2>1, <2>2
<1>4. AeeType'
  BY <1>1, <1>2, <1>3 DEF AeeType, Alive
<1>5. ObjInv'
  BY <1>1, <1>2, <1>3 DEF AeeType, ObjInv, CreInv, Making, Alive
<1>6. EnvListInv'
  BY <1>1, <1>2, <1>3 DEF AeeType, EnvListInv, ObjInv, CreInv, Making, Alive
<1>7. CreInv'
  BY <1>1, <1>2, <1>3 DEF AeeType, CreInv, ObjInv, OwnInv, Making, Alive
<1>8. OwnInv'
  BY <1>1, <1>2, <1>3 DEF AeeType, OwnInv, CreInv, Making, Alive
<1>9. ManagerInv'
  BY <1>1, <1>2, <1>3 DEF AeeType, ManagerInv, OwnInv, CreInv, Making, Alive
<1>10. ParentInv'
  BY <1>1, <1>2, <1>3 DEF AeeType, ParentInv, ObjInv, ManagerInv, Alive
<1>11. QED
  BY <1>4, <1>5, <1>6, <1>7, <1>8, <1>9, <1>10

\* No environment has been made.
LEMMA EnvInit == E!EInit => AeeInv
<1> SUFFICES ASSUME E!EInit PROVE AeeInv
  OBVIOUS
<1> USE EnvNumbers
<1>1. /\ \A e \in Env : obj[e] = E!NoObj /\ thr[e] = "none"
      /\ \A c \in Creators : cre[c].pc = "idle" /\ own[c] = {}
      /\ \A u \in EnvUsers : sec[u] = "none"
      /\ pt_aees = <<>> /\ touched = {}
  BY DEF E!EInit, Env
<1>2. E!NoObj \in AeeObj /\ E!NoObj.st = "none"
  BY DEF E!NoObj, AeeObj
<1>3. AeeType
  <2>1. [pc |-> "idle", e |-> 0] \in AeeCre
    BY DEF AeeCre
  <2>2. obj \in [Env -> AeeObj]
    BY <1>2 DEF E!EInit, Env
  <2>3. cre \in [Creators -> AeeCre]
    BY <2>1 DEF E!EInit, Env
  <2>4. QED
    BY <1>1, <2>2, <2>3, EmptySeq DEF E!EInit, Env, AeeType, AeePlace
<1>4. Range(pt_aees) = {} /\ Distinct(pt_aees)
  BY <1>1 DEF Range, Distinct
<1>5. ObjInv
  BY <1>1, <1>2 DEF ObjInv, Alive
<1>6. EnvListInv
  BY <1>1, <1>2, <1>4 DEF EnvListInv
<1>7. CreInv
  BY <1>1, <1>2 DEF CreInv, Making
<1>8. OwnInv
  BY <1>1 DEF OwnInv
<1>9. ManagerInv
  BY <1>1 DEF ManagerInv
<1>10. ParentInv
  BY <1>1, <1>2 DEF ParentInv
<1>11. QED
  BY <1>3, <1>5, <1>6, <1>7, <1>8, <1>9, <1>10 DEF AeeInv

\* The three properties of the environments from the invariant.
LEMMA EnvShows == AeeInv => EnvironmentsLive
<1> SUFFICES ASSUME AeeInv PROVE EnvironmentsLive
  OBVIOUS
<1>0. Range(pt_aees) \subseteq Env
  <2>1. pt_aees \in Seq(Env)
    BY DEF AeeInv, AeeType
  <2>2. QED
    BY <2>1 DEF Range
<1> USE EnvNumbers DEF AeeInv
<1>1. E!Listed = Range(pt_aees)
  BY DEF E!Listed, Range, AeeType
<1>3. E!Listed = {e \in E!Env : thr[e] \in {"wait", "main", "leave"}}
  BY <1>1, <1>0 DEF EnvListInv, Env
<1>4. Len(pt_aees) = Cardinality(E!Listed)
  BY <1>1, DistinctCount DEF EnvListInv, AeeType
<1>5. \A e \in E!Listed : obj[e].st = "alloc"
  BY <1>1, <1>0 DEF EnvListInv, ObjInv, Alive
<1>6. \A e, f \in E!Listed : obj[e].name = obj[f].name => e = f
  BY <1>1, <1>0 DEF EnvListInv
<1>7. E!EnvironmentsListed
  BY <1>3, <1>4, <1>5, <1>6 DEF E!EnvironmentsListed, E!Cardinality, Cardinality
<1>8. E!NoUseAfterFree
  BY DEF E!NoUseAfterFree, AeeType
<1>9. E!ParentsLive
  <2>1. SUFFICES ASSUME NEW e \in Range(pt_aees), obj[e].parent # 0
                 PROVE  obj[obj[e].parent].st = "alloc"
    BY <1>1 DEF E!ParentsLive
  <2>2. e \in Env /\ thr[e] \in {"wait", "main", "leave"} /\ obj[e].st # "none"
    BY <1>0, <1>5, <1>1 DEF EnvListInv
  <2>3. obj[e].parent \in Env
    BY <2>1, <2>2 DEF AeeType, AeeObj
  <2>4. thr[obj[e].parent] \in {"main", "leave", "relations"}
    BY <2>1, <2>2 DEF ParentInv
  <2>5. QED
    BY <2>3, <2>4 DEF ObjInv, Alive
<1>10. QED
  BY <1>7, <1>8, <1>9 DEF EnvironmentsLive

\* The list of the environments is exact and names each running application once; no
\* step of a creator, of an application's thread or of the owner of a secondary handle
\* uses an environment after it was freed; a listed environment's parent is alive.
THEOREM EnvironmentsAre == MCSpec => []EnvironmentsLive
<1>1. MCInit => AeeInv
  BY EnvInit DEF MCInit
<1>2. AeeInv /\ [MCNext]_allvars => AeeInv'
  <2> SUFFICES ASSUME AeeInv, [MCNext]_allvars PROVE AeeInv'
    OBVIOUS
  <2>1. CASE UNCHANGED evars
    BY <2>1 DEF evars, AeeInv, AeeType, ObjInv, EnvListInv, CreInv, OwnInv, ManagerInv, ParentInv, Making
  <2>2. CASE E!ENext
    <3>1. ASSUME NEW c \in {0} \cup E!Env, NEW n \in EnvNames \cup {E!AM}, E!Alloc(c, n)
          PROVE  AeeInv'
      BY <3>1, EnvAlloc DEF Creators, Env
    <3>2. ASSUME NEW c \in {0} \cup E!Env, E!CreateFails(c) \/ E!Creator(c)
          PROVE  AeeInv'
      BY <3>2, EnvCreateFails, EnvCreateThread, EnvWriteThread, EnvSetMsgQueue
         DEF Creators, Env, E!Creator
    <3>3. ASSUME NEW c \in {0} \cup E!Env, NEW e \in E!Env, E!AppExit(c, e)
          PROVE  AeeInv'
      BY <3>3, EnvAppExit DEF Creators, Env
    <3>4. ASSUME NEW e \in E!Env, E!aee_main(e)
          PROVE  AeeInv'
      BY <3>4, EnvAdd, EnvHandleInit, EnvHandleExit, EnvHandleMsg, EnvRemove, EnvRelations,
         EnvFreeObject, EnvFreeHandle DEF Env, E!aee_main
    <3>5. QED
      BY <2>2, <3>1, <3>2, <3>3, <3>4, EnvUser DEF E!ENext
  <2>3. QED
    BY <2>1, <2>2 DEF MCNext, allvars
<1>3. QED
  BY <1>1, <1>2, EnvShows, PTL DEF MCSpec

(***************************************************************************)
(* HandleLink: for any number of handles, whatever callbacks do to the     *)
(* list while handle_parse or u_handle_free_all walks it.                  *)
(***************************************************************************)
\* The number of handles is a natural number.
LEMMA LinkNat == LinkHandles \in Nat
BY LinkAssumption DEF LinkAssumption, L!LinkAssumption

\* The inductive invariant: some sequence s of the records is the list, and each of
\* the calls that run knows what it relies on of s.
LinkInv ==
  /\ ctrl \in Ctrls(LinkHandles) /\ pt_h_link \in HLinks(LinkHandles) /\ l_aborted = FALSE
  /\ \A e \in Recs(LinkHandles) : "LINKED" \in ctrl[e].flags => "ACTIVE" \in ctrl[e].flags
  /\ \E s : IsList(LinkHandles, s, ctrl, pt_h_link) /\ StackInv(LinkHandles, stack, s, ctrl, pt_h_link)

\* Nothing is linked and nothing is called in the beginning.
LEMMA LinkInit == L!LInit => LinkInv
<1> SUFFICES ASSUME L!LInit PROVE LinkInv
  OBVIOUS
<1> USE DEF L!LInit, L!Idx, Recs
<1>1. ctrl \in Ctrls(LinkHandles) /\ pt_h_link \in HLinks(LinkHandles) /\ l_aborted = FALSE
  BY LinkNat DEF Ctrls, HLinks, LinkFlags
<1>2. \A e \in Recs(LinkHandles) : ctrl[e].flags = {"ACTIVE"}
  OBVIOUS
<1>3. <<>> \in Seq(Recs(LinkHandles)) /\ Len(<<>>) = 0 /\ Distinct(<<>>)
  BY DEF Distinct
<1>4. IsList(LinkHandles, <<>>, ctrl, pt_h_link)
  BY <1>2, <1>3 DEF IsList
<1>5. stack \in Seq(CallFrames(LinkHandles)) /\ Len(stack) = 0
  OBVIOUS
<1>6. StackInv(LinkHandles, stack, <<>>, ctrl, pt_h_link)
  BY <1>2, <1>5 DEF StackInv
<1>7. QED
  BY <1>1, <1>2, <1>4, <1>6 DEF LinkInv

\* u_handle_link keeps the invariant.
LEMMA LinkLinks ==
  ASSUME LinkInv, NEW e \in Recs(LinkHandles), L!u_handle_link(e)
  PROVE  LinkInv'
<1>1. PICK s : IsList(LinkHandles, s, ctrl, pt_h_link) /\ StackInv(LinkHandles, stack, s, ctrl, pt_h_link)
  BY DEF LinkInv
<1>2. /\ ctrl \in Ctrls(LinkHandles) /\ pt_h_link \in HLinks(LinkHandles)
      /\ "LINKED" \notin ctrl[e].flags /\ "ACTIVE" \in ctrl[e].flags
  BY DEF LinkInv, L!u_handle_link, L!Has
<1>3. /\ ctrl' = CtrlsIn(LinkHandles, ctrl, pt_h_link, e) /\ pt_h_link' = HLinkIn(pt_h_link, e)
      /\ stack' = stack /\ l_aborted' = l_aborted
  BY DEF L!u_handle_link, L!Idx, Recs, CtrlsIn, HLinkIn
<1>4. ctrl' \in Ctrls(LinkHandles) /\ pt_h_link' \in HLinks(LinkHandles) 
      /\ IsList(LinkHandles, Append(s, e), ctrl', pt_h_link')
  BY <1>1, <1>2, <1>3, ListLinks, LinkNat
<1>5. /\ \A j \in Recs(LinkHandles) : j # e => ctrl'[j].flags = ctrl[j].flags
      /\ ctrl'[e].flags = ctrl[e].flags \cup {"LINKED"}
      /\ pt_h_link'.flags = pt_h_link.flags
  BY <1>2, <1>3 DEF Ctrls, HLinks, CtrlsIn, HLinkIn
<1>6. s \in Seq(Recs(LinkHandles)) /\ \A k \in 1 .. Len(s) : s[k] # e
  BY <1>1, <1>2 DEF IsList
<1>7. ASSUME NEW k \in 1 .. Len(stack) PROVE FrameInv(stack[k], Append(s, e), ctrl')
  <2>1. stack[k] \in CallFrames(LinkHandles) /\ FrameInv(stack[k], s, ctrl)
    BY <1>1 DEF StackInv
  <2>2. QED
    BY <1>5, <1>6, <2>1, FrameLinks, LinkNat
<1>8. \A j \in Recs(LinkHandles) : "PARSING" \in ctrl'[j].flags => "PARSING" \in ctrl[j].flags
  BY <1>5
<1>9. StackInv(LinkHandles, stack', Append(s, e), ctrl', pt_h_link')
  BY <1>1, <1>3, <1>5, <1>7, <1>8 DEF StackInv
<1>10. \A j \in Recs(LinkHandles) : "LINKED" \in ctrl'[j].flags => "ACTIVE" \in ctrl'[j].flags
  BY <1>2, <1>5 DEF LinkInv
<1>11. QED
  BY <1>3, <1>4, <1>9, <1>10 DEF LinkInv

\* u_handle_delink keeps it: while a parse runs only the record it is at leaves.
LEMMA LinkDelinks ==
  ASSUME LinkInv, NEW e \in Recs(LinkHandles), L!u_handle_delink(e)
  PROVE  LinkInv'
<1>1. PICK s : IsList(LinkHandles, s, ctrl, pt_h_link) /\ StackInv(LinkHandles, stack, s, ctrl, pt_h_link)
  BY DEF LinkInv
<1>2. /\ ctrl \in Ctrls(LinkHandles) /\ pt_h_link \in HLinks(LinkHandles)
      /\ "LINKED" \in ctrl[e].flags
      /\ "PARSING" \in pt_h_link.flags => "PARSING" \in ctrl[e].flags
  BY DEF LinkInv, L!u_handle_delink, L!Has, L!MayDelink
<1>3. PICK p \in 1 .. Len(s) : e = s[p]
  BY <1>1, <1>2 DEF IsList
<1>4. /\ ctrl' = CtrlsOut(LinkHandles, ctrl, e)
      /\ pt_h_link' = HLinkOut(ctrl, pt_h_link, e)
      /\ stack' = [k \in DOMAIN stack |-> [stack[k] EXCEPT !.stay = @ \ {e}]]
      /\ l_aborted' = l_aborted
  BY DEF L!u_handle_delink, L!Idx, Recs, L!Tail1, CtrlsOut, HLinkOut
<1>5. ctrl' \in Ctrls(LinkHandles) /\ pt_h_link' \in HLinks(LinkHandles) 
      /\ IsList(LinkHandles, RemoveAt(s, p), ctrl', pt_h_link')
  BY <1>1, <1>2, <1>3, <1>4, ListDelinks, LinkNat
<1>6. /\ \A j \in Recs(LinkHandles) : j # e => ctrl'[j].flags = ctrl[j].flags
      /\ ctrl'[e].flags = ctrl[e].flags \ {"LINKED"}
      /\ pt_h_link'.flags = pt_h_link.flags
  <2>1. \A j \in Recs(LinkHandles) : ctrl[j] \in [next : 0 .. LinkHandles, prev : 0 .. LinkHandles,
          flags : SUBSET LinkFlags]
    BY <1>2 DEF Ctrls
  <2>2. \A j \in Recs(LinkHandles) : j # e => ctrl'[j].flags = ctrl[j].flags
    BY <1>4, <2>1 DEF CtrlsOut
  <2>3. ctrl'[e].flags = ctrl[e].flags \ {"LINKED"}
    BY <1>4 DEF CtrlsOut
  <2>4. pt_h_link'.flags = pt_h_link.flags
    BY <1>2, <1>4 DEF HLinkOut, HLinks
  <2>5. QED
    BY <2>2, <2>3, <2>4
<1>7. s \in Seq(Recs(LinkHandles)) /\ Distinct(s) /\ stack \in Seq(CallFrames(LinkHandles))
  BY <1>1 DEF IsList, StackInv
<1>8. ASSUME NEW k \in 1 .. Len(stack), Parsing(stack[k]) PROVE stack[k].i = e /\ "PARSING" \in ctrl[e].flags
  <2>1. "PARSING" \in ctrl[e].flags
    BY <1>1, <1>2, <1>8 DEF StackInv
  <2>2. QED
    BY <1>1, <1>8, <2>1 DEF StackInv
<1>9. Len(stack') = Len(stack) /\ DOMAIN stack' = 1 .. Len(stack)
      /\ \A k \in 1 .. Len(stack) : stack'[k] = [stack[k] EXCEPT !.stay = @ \ {e}]
  <2>1. DOMAIN stack = 1 .. Len(stack) /\ Len(stack) \in Nat
    BY <1>7
  <2>2. stack' = [k \in 1 .. Len(stack) |-> [stack[k] EXCEPT !.stay = @ \ {e}]]
    BY <1>4, <2>1
  <2>3. QED
    BY <2>1, <2>2
<1>10. ASSUME NEW k \in 1 .. Len(stack)
       PROVE  /\ stack'[k] \in CallFrames(LinkHandles) /\ FrameInv(stack'[k], RemoveAt(s, p), ctrl')
              /\ stack'[k].i = stack[k].i /\ (Parsing(stack'[k]) <=> Parsing(stack[k]))
  <2>1. stack[k] \in CallFrames(LinkHandles) /\ FrameInv(stack[k], s, ctrl)
    BY <1>1 DEF StackInv
  <2>2. "LINKED" \notin ctrl'[e].flags
    BY <1>6
  <2>3. stack'[k] \in CallFrames(LinkHandles) /\ FrameInv(stack'[k], RemoveAt(s, p), ctrl')
    <3>1. stack'[k] = [stack[k] EXCEPT !.stay = @ \ {e}]
      BY <1>9
    <3>2. Parsing(stack[k]) => stack[k].i = e /\ "PARSING" \in ctrl[e].flags
      BY <1>8
    <3>3. /\ [stack[k] EXCEPT !.stay = @ \ {e}] \in CallFrames(LinkHandles)
          /\ FrameInv([stack[k] EXCEPT !.stay = @ \ {e}], RemoveAt(s, p), ctrl')
      BY <1>2, <1>3, <1>7, <2>1, <2>2, <3>2, FrameDelinks, LinkNat
    <3>4. QED
      BY <3>1, <3>3
  <2>4. stack'[k].op = stack[k].op /\ stack'[k].pc = stack[k].pc /\ stack'[k].i = stack[k].i
    BY <1>9, <2>1 DEF CallFrames, ParseFrames, FreeFrames
  <2>5. QED
    BY <2>3, <2>4 DEF Parsing
<1>11. stack' \in Seq(CallFrames(LinkHandles))
  <2>1. stack' = [k \in 1 .. Len(stack) |-> stack'[k]]
    BY <1>4, <1>7
  <2>2. Len(stack) \in Nat
    BY <1>7
  <2>3. QED
    BY <1>10, <2>1, <2>2
<1>12. \A j \in Recs(LinkHandles) : "PARSING" \in ctrl'[j].flags => "PARSING" \in ctrl[j].flags
  BY <1>6
<1>13. StackInv(LinkHandles, stack', RemoveAt(s, p), ctrl', pt_h_link')
  <2>1. \A k \in 1 .. Len(stack') : Parsing(stack'[k]) => "PARSING" \in pt_h_link'.flags
    BY <1>1, <1>6, <1>9, <1>10 DEF StackInv
  <2>2. \A k, m \in 1 .. Len(stack') : Parsing(stack'[k]) /\ Parsing(stack'[m]) => k = m
    BY <1>1, <1>9, <1>10 DEF StackInv
  <2>3. \A j \in Recs(LinkHandles) : "PARSING" \in ctrl'[j].flags =>
             \E k \in 1 .. Len(stack') : Parsing(stack'[k]) /\ stack'[k].i = j
    <3>1. ASSUME NEW j \in Recs(LinkHandles), "PARSING" \in ctrl'[j].flags
          PROVE  \E k \in 1 .. Len(stack') : Parsing(stack'[k]) /\ stack'[k].i = j
      <4>1. PICK k \in 1 .. Len(stack) : Parsing(stack[k]) /\ stack[k].i = j
        BY <1>1, <1>12, <3>1 DEF StackInv
      <4>2. QED
        BY <1>9, <1>10, <4>1
    <3>2. QED
      BY <3>1
  <2>4. QED
    BY <1>9, <1>10, <1>11, <2>1, <2>2, <2>3 DEF StackInv
<1>14. \A j \in Recs(LinkHandles) : "LINKED" \in ctrl'[j].flags => "ACTIVE" \in ctrl'[j].flags
  BY <1>6 DEF LinkInv
<1>15. QED
  BY <1>4, <1>5, <1>13, <1>14 DEF LinkInv

\* A free callback is called.
LEMMA LinkCallsFree ==
  ASSUME LinkInv, NEW e \in Recs(LinkHandles), NEW all \in BOOLEAN, L!FreeCall(e, all, stack),
         pt_h_link' \in HLinks(LinkHandles), pt_h_link'.head = pt_h_link.head, pt_h_link'.tail = pt_h_link.tail,
         pt_h_link'.count = pt_h_link.count,
         "PARSING" \in pt_h_link.flags => "PARSING" \in pt_h_link'.flags,
         l_aborted' = l_aborted
  PROVE  LinkInv'
<1>1. PICK s : IsList(LinkHandles, s, ctrl, pt_h_link) /\ StackInv(LinkHandles, stack, s, ctrl, pt_h_link)
  BY DEF LinkInv
<1> DEFINE F == ctrl[e].flags \cup {"FREEING"}
           f == [op |-> "free", pc |-> "callback", i |-> e, all |-> all, stay |-> {}]
<1>2. ctrl \in Ctrls(LinkHandles) /\ F \in SUBSET LinkFlags /\ pt_h_link \in HLinks(LinkHandles)
  BY DEF LinkInv, Ctrls, LinkFlags
<1>3. ctrl' = WithFlags(ctrl, e, F) /\ stack' = <<f>> \o stack
  BY DEF L!FreeCall, WithFlags
<1>4. ctrl' \in Ctrls(LinkHandles)
      /\ \A j \in Recs(LinkHandles) : /\ ctrl'[j].next = ctrl[j].next
                                      /\ ctrl'[j].prev = ctrl[j].prev
                                      /\ ctrl'[j].flags = IF j = e THEN F ELSE ctrl[j].flags
  BY <1>2, <1>3, FlagsSet, LinkNat
<1>5. \A j \in Recs(LinkHandles), x \in {"LINKED", "PARSING", "ACTIVE"} : x \in ctrl'[j].flags
        <=> x \in ctrl[j].flags
  BY <1>4
<1>6. IsList(LinkHandles, s, ctrl', pt_h_link')
  BY <1>1, <1>2, <1>4, <1>5, ListKeeps, LinkNat
<1>7. NoNewMark(LinkHandles, ctrl, pt_h_link, ctrl', pt_h_link')
  BY <1>5 DEF NoNewMark
<1>8. f \in FreeFrames(LinkHandles)
  BY DEF FreeFrames
<1> HIDE DEF f
<1>9. StackInv(LinkHandles, stack', s, ctrl', pt_h_link')
  BY <1>1, <1>3, <1>7, <1>8, StackKeeps, StackPushes, LinkNat
<1>10. \A j \in Recs(LinkHandles) : "LINKED" \in ctrl'[j].flags => "ACTIVE" \in ctrl'[j].flags
  BY <1>5 DEF LinkInv
<1>11. QED
  BY <1>4, <1>6, <1>9, <1>10 DEF LinkInv

\* The first record of a list that is not empty is on it.
LEMMA HeadLinked ==
  ASSUME LinkInv, pt_h_link.head # 0
  PROVE  pt_h_link.head \in Recs(LinkHandles) /\ "LINKED" \in ctrl[pt_h_link.head].flags
<1>1. PICK s : IsList(LinkHandles, s, ctrl, pt_h_link)
  BY DEF LinkInv
<1>2. Len(s) # 0 /\ Len(s) \in Nat /\ pt_h_link.head = s[1]
  BY <1>1 DEF IsList
<1>3. 1 \in 1 .. Len(s) /\ s[1] \in Recs(LinkHandles)
  BY <1>1, <1>2 DEF IsList
<1>4. QED
  BY <1>1, <1>2, <1>3 DEF IsList

\* u_handle_free keeps it up to its callback.
LEMMA LinkFrees ==
  ASSUME LinkInv, NEW e \in Recs(LinkHandles), L!u_handle_free(e)
  PROVE  LinkInv'
BY LinkCallsFree DEF L!u_handle_free, LinkInv

\* u_handle_free_all keeps it up to its first callback.
LEMMA LinkFreesAll ==
  ASSUME LinkInv, L!FreeAllStart
  PROVE  LinkInv'
<1>1. pt_h_link.head \in Recs(LinkHandles)
  BY HeadLinked DEF L!FreeAllStart
<1>2. /\ L!FreeCall(pt_h_link.head, TRUE, stack) /\ l_aborted' = l_aborted
      /\ pt_h_link' = [pt_h_link EXCEPT !.flags = {"FREE_ALL"}] /\ pt_h_link.flags = {}
  BY DEF L!FreeAllStart
<1>3. /\ pt_h_link' \in HLinks(LinkHandles) /\ pt_h_link'.head = pt_h_link.head
           /\ pt_h_link'.tail = pt_h_link.tail
      /\ pt_h_link'.count = pt_h_link.count
  BY <1>2 DEF LinkInv, HLinks
<1>4. QED
  BY <1>1, <1>2, <1>3, LinkCallsFree

\* The innermost call is that of a free callback.
LEMMA FreeTop ==
  ASSUME LinkInv, stack # <<>>, Head(stack).op = "free"
  PROVE  Head(stack) \in FreeFrames(LinkHandles) /\ ~Parsing(Head(stack)) /\ Head(stack).i \in Recs(LinkHandles)
<1>1. stack \in Seq(CallFrames(LinkHandles))
  BY DEF LinkInv, StackInv
<1>2. Head(stack) \in CallFrames(LinkHandles)
  BY <1>1
<1>3. Head(stack) \in FreeFrames(LinkHandles)
  BY <1>2 DEF CallFrames, ParseFrames
<1>4. QED
  BY <1>3 DEF FreeFrames, Parsing

\* A free callback that refuses.
LEMMA LinkRefuses ==
  ASSUME LinkInv, L!FreeRefused
  PROVE  LinkInv'
<1>1. PICK s : IsList(LinkHandles, s, ctrl, pt_h_link) /\ StackInv(LinkHandles, stack, s, ctrl, pt_h_link)
  BY DEF LinkInv
<1> DEFINE f == Head(stack)
           F == ctrl[f.i].flags \ {"FREEING"}
<1>2. stack # <<>> /\ f \in FreeFrames(LinkHandles) /\ ~Parsing(f) /\ f.i \in Recs(LinkHandles)
  BY FreeTop DEF L!FreeRefused
<1>3. ctrl \in Ctrls(LinkHandles) /\ F \in SUBSET LinkFlags /\ pt_h_link \in HLinks(LinkHandles)
  BY <1>2 DEF LinkInv, Ctrls
<1>4. /\ ctrl' = WithFlags(ctrl, f.i, F) /\ stack' = Tail(stack) /\ l_aborted' = l_aborted
      /\ pt_h_link' = IF f.all THEN [pt_h_link EXCEPT !.flags = @ \ {"FREE_ALL"}] ELSE pt_h_link
  BY DEF L!FreeRefused, WithFlags
<1>5. ctrl' \in Ctrls(LinkHandles)
      /\ \A j \in Recs(LinkHandles) : /\ ctrl'[j].next = ctrl[j].next
                                      /\ ctrl'[j].prev = ctrl[j].prev
                                      /\ ctrl'[j].flags = IF j = f.i THEN F ELSE ctrl[j].flags
  BY <1>2, <1>3, <1>4, FlagsSet, LinkNat
<1>6. \A j \in Recs(LinkHandles), x \in {"LINKED", "PARSING", "ACTIVE"} : x \in ctrl'[j].flags
        <=> x \in ctrl[j].flags
  BY <1>5
<1>7. /\ pt_h_link' \in HLinks(LinkHandles) /\ pt_h_link'.head = pt_h_link.head
           /\ pt_h_link'.tail = pt_h_link.tail
      /\ pt_h_link'.count = pt_h_link.count /\ ("PARSING" \in pt_h_link.flags => "PARSING" \in pt_h_link'.flags)
  BY <1>3, <1>4 DEF HLinks
<1>8. IsList(LinkHandles, s, ctrl', pt_h_link')
  BY <1>1, <1>3, <1>5, <1>6, <1>7, ListKeeps, LinkNat
<1>9. NoNewMark(LinkHandles, ctrl, pt_h_link, ctrl', pt_h_link')
  BY <1>6, <1>7 DEF NoNewMark
<1>10. StackInv(LinkHandles, stack', s, ctrl', pt_h_link')
  BY <1>1, <1>2, <1>4, <1>9, StackKeeps, StackPops, LinkNat
<1>11. \A j \in Recs(LinkHandles) : "LINKED" \in ctrl'[j].flags => "ACTIVE" \in ctrl'[j].flags
  BY <1>6 DEF LinkInv
<1>12. QED
  BY <1>4, <1>5, <1>7, <1>8, <1>10, <1>11 DEF LinkInv

\* A free callback that allows, and the next record of u_handle_free_all.
LEMMA LinkAllows ==
  ASSUME LinkInv, L!FreeAllowed
  PROVE  LinkInv'
<1>1. PICK s : IsList(LinkHandles, s, ctrl, pt_h_link) /\ StackInv(LinkHandles, stack, s, ctrl, pt_h_link)
  BY DEF LinkInv
<1> DEFINE f == Head(stack)
           hd == pt_h_link.head
           c == [ctrl EXCEPT ![f.i].flags = @ \ {"ACTIVE"}, ![f.i].next = 0, ![f.i].prev = 0]
           more == f.all /\ hd # 0 /\ ~L!Has(hd, "FREEING")
           R == [next : 0 .. LinkHandles, prev : 0 .. LinkHandles, flags : SUBSET LinkFlags]
<1>2. stack # <<>> /\ f \in FreeFrames(LinkHandles) /\ ~Parsing(f) /\ f.i \in Recs(LinkHandles)
      /\ "LINKED" \notin ctrl[f.i].flags
  BY FreeTop DEF L!FreeAllowed, L!Has
<1>3. ctrl \in Ctrls(LinkHandles) /\ pt_h_link \in HLinks(LinkHandles)
        /\ \A j \in Recs(LinkHandles) : ctrl[j] \in R
  BY DEF LinkInv, Ctrls
<1>4. /\ l_aborted' = l_aborted
      /\ IF more
         THEN /\ ctrl' = [c EXCEPT ![hd].flags = @ \cup {"FREEING"}]
              /\ stack' = <<[f EXCEPT !.i = hd]>> \o Tail(stack)
         ELSE ctrl' = c /\ stack' = Tail(stack)
      /\ pt_h_link' = IF f.all /\ ~more THEN [pt_h_link EXCEPT !.flags = @ \ {"FREE_ALL"}]
                      ELSE pt_h_link
  BY DEF L!FreeAllowed
<1>5. c \in Ctrls(LinkHandles) /\ \A j \in Recs(LinkHandles) : /\ c[j] \in R
                                                               /\ c[j].flags = IF j = f.i THEN ctrl[j].flags \ {"ACTIVE"} ELSE ctrl[j].flags
                                                               /\ j # f.i => c[j] = ctrl[j]
  <2>1. /\ c[f.i] = [[[ctrl[f.i] EXCEPT !.flags = @ \ {"ACTIVE"}] EXCEPT !.next = 0] EXCEPT !.prev = 0]
        /\ \A j \in Recs(LinkHandles) : j # f.i => c[j] = ctrl[j]
    BY <1>2, <1>3 DEF Ctrls
  <2>2. c = [j \in Recs(LinkHandles) |-> c[j]]
    BY <1>3 DEF Ctrls
  <2>3. 0 \in 0 .. LinkHandles /\ ctrl[f.i].flags \ {"ACTIVE"} \in SUBSET LinkFlags
    BY <1>2, <1>3, LinkNat
  <2> HIDE DEF c, f
  <2>4. c[f.i] \in R /\ c[f.i].flags = ctrl[f.i].flags \ {"ACTIVE"}
    BY <1>2, <1>3, <2>1, <2>3
  <2>5. \A j \in Recs(LinkHandles) : c[j] \in R
    BY <1>3, <2>1, <2>4
  <2>6. c \in Ctrls(LinkHandles)
    BY <2>2, <2>5 DEF Ctrls
  <2>7. QED
    BY <2>1, <2>4, <2>5, <2>6
<1> HIDE DEF c, f
<1>6. more => hd \in Recs(LinkHandles)
  BY HeadLinked
<1>7. /\ ctrl' \in Ctrls(LinkHandles)
      /\ \A j \in Recs(LinkHandles) : /\ j # f.i => ctrl'[j].next = ctrl[j].next /\ ctrl'[j].prev = ctrl[j].prev
                                      /\ "LINKED" \in ctrl'[j].flags <=> "LINKED" \in ctrl[j].flags
                                      /\ "PARSING" \in ctrl'[j].flags <=> "PARSING" \in ctrl[j].flags
                                      /\ "ACTIVE" \in ctrl'[j].flags <=> "ACTIVE" \in ctrl[j].flags /\ j # f.i
  <2>1. CASE more
    <3> DEFINE F == c[hd].flags \cup {"FREEING"}
    <3>1. ctrl' = WithFlags(c, hd, F)
      BY <1>4, <2>1 DEF WithFlags
    <3>4. hd \in Recs(LinkHandles) /\ F \in SUBSET LinkFlags /\ c \in Ctrls(LinkHandles)
      BY <1>5, <1>6, <2>1 DEF LinkFlags
    <3> HIDE DEF F, hd
    <3>2. ctrl' \in Ctrls(LinkHandles)
          /\ \A j \in Recs(LinkHandles) : /\ ctrl'[j].next = c[j].next
                                          /\ ctrl'[j].prev = c[j].prev
                                          /\ ctrl'[j].flags = IF j = hd THEN F ELSE c[j].flags
      BY <3>1, <3>4, FlagsSet, LinkNat
    <3>3. \A j \in Recs(LinkHandles), x \in {"LINKED", "PARSING", "ACTIVE"} : x \in ctrl'[j].flags
            <=> x \in c[j].flags
      BY <3>2 DEF F
    <3>5. \A j \in Recs(LinkHandles) : c[j].flags = IF j = f.i THEN ctrl[j].flags \ {"ACTIVE"} ELSE ctrl[j].flags
      BY <1>5
    <3>6. \A j \in Recs(LinkHandles) : j # f.i => c[j] = ctrl[j]
      BY <1>5
    <3>7. QED
      BY <3>2, <3>3, <3>5, <3>6
  <2>2. CASE ~more
    BY <1>4, <1>5, <2>2
  <2>3. QED
    BY <2>1, <2>2
<1>8. /\ pt_h_link' \in HLinks(LinkHandles) /\ pt_h_link'.head = pt_h_link.head
           /\ pt_h_link'.tail = pt_h_link.tail
      /\ pt_h_link'.count = pt_h_link.count /\ ("PARSING" \in pt_h_link.flags => "PARSING" \in pt_h_link'.flags)
  BY <1>3, <1>4 DEF HLinks
<1>9. IsList(LinkHandles, s, ctrl', pt_h_link')
  BY <1>1, <1>2, <1>3, <1>7, <1>8, ListKeeps, LinkNat
<1>10. NoNewMark(LinkHandles, ctrl, pt_h_link, ctrl', pt_h_link')
  BY <1>7, <1>8 DEF NoNewMark
<1>11. StackInv(LinkHandles, Tail(stack), s, ctrl', pt_h_link')
  BY <1>1, <1>2, <1>10, StackKeeps, StackPops, LinkNat DEF f
<1>12. StackInv(LinkHandles, stack', s, ctrl', pt_h_link')
  <2>1. CASE more
    <3> DEFINE g == [f EXCEPT !.i = hd]
    <3>1. g \in FreeFrames(LinkHandles)
      BY <1>2, <1>6, <2>1 DEF FreeFrames
    <3>2. stack' = <<g>> \o Tail(stack)
      BY <1>4, <2>1
    <3> HIDE DEF g
    <3>3. QED
      BY <1>11, <3>1, <3>2, StackPushes, LinkNat
  <2>2. CASE ~more
    BY <1>4, <1>11, <2>2
  <2>3. QED
    BY <2>1, <2>2
<1>13. \A j \in Recs(LinkHandles) : "LINKED" \in ctrl'[j].flags => "ACTIVE" \in ctrl'[j].flags
  BY <1>2, <1>7 DEF LinkInv
<1>14. QED
  BY <1>4, <1>7, <1>8, <1>9, <1>12, <1>13 DEF LinkInv

\* A freed record is allocated again.
LEMMA LinkReallocs ==
  ASSUME LinkInv, NEW e \in Recs(LinkHandles), L!Realloc(e)
  PROVE  LinkInv'
<1>1. PICK s : IsList(LinkHandles, s, ctrl, pt_h_link) /\ StackInv(LinkHandles, stack, s, ctrl, pt_h_link)
  BY DEF LinkInv
<1>2. /\ ctrl' = [ctrl EXCEPT ![e] = [next |-> 0, prev |-> 0, flags |-> {"ACTIVE"}]]
      /\ stack' = stack /\ pt_h_link' = pt_h_link /\ l_aborted' = l_aborted
      /\ ctrl \in Ctrls(LinkHandles) /\ pt_h_link \in HLinks(LinkHandles)
      /\ "LINKED" \notin ctrl[e].flags
  BY DEF L!Realloc, LinkInv, L!Has
<1>3. ctrl' \in Ctrls(LinkHandles)
  BY <1>2, LinkNat DEF Ctrls, LinkFlags
<1>4. \A j \in Recs(LinkHandles) : IF j = e THEN ctrl'[j].flags = {"ACTIVE"} ELSE ctrl'[j] = ctrl[j]
  BY <1>2 DEF Ctrls
<1>5. IsList(LinkHandles, s, ctrl', pt_h_link')
  <2>1. \A j \in Recs(LinkHandles) : /\ "LINKED" \in ctrl'[j].flags <=> "LINKED" \in ctrl[j].flags
                                     /\ "LINKED" \in ctrl[j].flags =>
                                             ctrl'[j].next = ctrl[j].next /\ ctrl'[j].prev = ctrl[j].prev
    BY <1>2, <1>4
  <2>2. ctrl \in Ctrls(LinkHandles) /\ pt_h_link \in HLinks(LinkHandles) /\ pt_h_link' = pt_h_link
    BY <1>2
  <2>3. QED
    BY <1>1, <2>1, <2>2, ListKeeps, LinkNat
<1>6. NoNewMark(LinkHandles, ctrl, pt_h_link, ctrl', pt_h_link')
  BY <1>2, <1>4 DEF NoNewMark
<1>7. StackInv(LinkHandles, stack', s, ctrl', pt_h_link')
  BY <1>1, <1>2, <1>6, StackKeeps, LinkNat
<1>8. QED
  BY <1>2, <1>3, <1>4, <1>5, <1>7 DEF LinkInv

\* What is left when only the marks have changed.
LEMMA LinkMarks ==
  ASSUME LinkInv, NEW s, IsList(LinkHandles, s, ctrl, pt_h_link), ctrl' \in Ctrls(LinkHandles),
           pt_h_link' \in HLinks(LinkHandles),
         pt_h_link'.head = pt_h_link.head, pt_h_link'.tail = pt_h_link.tail, pt_h_link'.count = pt_h_link.count,
         \A j \in Recs(LinkHandles) : /\ ctrl'[j].next = ctrl[j].next /\ ctrl'[j].prev = ctrl[j].prev
                                      /\ ctrl'[j].flags \ {"PARSING"} = ctrl[j].flags \ {"PARSING"},
         l_aborted' = FALSE, StackInv(LinkHandles, stack', s, ctrl', pt_h_link')
  PROVE  LinkInv'
<1>1. ctrl \in Ctrls(LinkHandles) /\ pt_h_link \in HLinks(LinkHandles)
  BY DEF LinkInv
<1>2. ASSUME NEW j \in Recs(LinkHandles), NEW x, x # "PARSING"
      PROVE x \in ctrl'[j].flags <=> x \in ctrl[j].flags
  <2>1. x \in ctrl'[j].flags \ {"PARSING"} <=> x \in ctrl[j].flags \ {"PARSING"}
    OBVIOUS
  <2>2. QED
    BY <1>2, <2>1
<1>3. \A j \in Recs(LinkHandles) : /\ "LINKED" \in ctrl'[j].flags <=> "LINKED" \in ctrl[j].flags
                                   /\ "ACTIVE" \in ctrl'[j].flags <=> "ACTIVE" \in ctrl[j].flags
  BY <1>2
<1>4. IsList(LinkHandles, s, ctrl', pt_h_link')
  BY <1>1, <1>3, ListKeeps, LinkNat
<1>5. QED
  BY <1>3, <1>4 DEF LinkInv

\* handle_parse up to its first callback.
LEMMA LinkParses ==
  ASSUME LinkInv, L!ParseStart
  PROVE  LinkInv'
<1>1. PICK s : IsList(LinkHandles, s, ctrl, pt_h_link) /\ StackInv(LinkHandles, stack, s, ctrl, pt_h_link)
  BY DEF LinkInv
<1> DEFINE hd == pt_h_link.head
           F == ctrl[hd].flags \cup {"PARSING"}
           stay == {j \in Recs(LinkHandles) : "LINKED" \in ctrl[j].flags}
           v == VisitOf(hd, ctrl, pt_h_link, <<>>, stay)
<1>2. ctrl \in Ctrls(LinkHandles) /\ pt_h_link \in HLinks(LinkHandles) /\ hd \in Recs(LinkHandles)
        /\ l_aborted = FALSE /\ F \in SUBSET LinkFlags
  BY HeadLinked DEF LinkInv, L!ParseStart, Ctrls, LinkFlags
<1>3. /\ "PARSING" \notin pt_h_link.flags
      /\ pt_h_link' = [pt_h_link EXCEPT !.flags = @ \cup {"PARSING"}]
      /\ stack' = <<v>> \o stack
      /\ ctrl' = WithFlags(ctrl, hd, F) /\ l_aborted' = l_aborted
  BY DEF L!ParseStart, L!Visit, L!Linked, L!Idx, L!Has, L!handle_num_links, VisitOf, WithFlags, Recs
<1>4. /\ ctrl' \in Ctrls(LinkHandles)
      /\ \A j \in Recs(LinkHandles) : /\ ctrl'[j].next = ctrl[j].next /\ ctrl'[j].prev = ctrl[j].prev
                                      /\ ctrl'[j].flags = IF j = hd THEN F ELSE ctrl[j].flags
  BY <1>2, <1>3, FlagsSet, LinkNat
<1>5. /\ pt_h_link' \in HLinks(LinkHandles) /\ pt_h_link'.head = hd /\ pt_h_link'.tail = pt_h_link.tail
      /\ pt_h_link'.count = pt_h_link.count /\ "PARSING" \in pt_h_link'.flags
  BY <1>2, <1>3 DEF HLinks
<1>6. /\ s \in Seq(Recs(LinkHandles)) /\ Len(s) \in Nat /\ 1 \in 1 .. Len(s) /\ hd = s[1]
      /\ \A k \in 1 .. Len(s) : ~(k < 1)
      /\ \A j \in stay : \E k \in 1 .. Len(s) : s[k] = j
  <2>1. s \in Seq(Recs(LinkHandles)) /\ Len(s) \in Nat /\ Len(s) # 0 /\ hd = s[1]
    BY <1>1, <1>2, LinkNat DEF IsList, Recs
  <2>2. QED
    BY <1>1, <2>1 DEF IsList
<1>7. <<>> \in Seq(Recs(LinkHandles)) /\ stay \in SUBSET Recs(LinkHandles) /\ \A x : NeverVisited(<<>>, x)
  BY DEF NeverVisited
<1>8. v \in CallFrames(LinkHandles) /\ Parsing(v) /\ v.i = hd
  BY <1>2, <1>7, VisitFrame, LinkNat DEF CallFrames, VisitOf
<1> HIDE DEF stay
<1>9. FrameInv(v, s, ctrl')
  <2>1. \A k \in 1 .. Len(s) : s[k] \in stay =>
             IF k < 1 THEN VisitedOnce(<<>>, s[k]) ELSE NeverVisited(<<>>, s[k])
    BY <1>6, <1>7
  <2>2. FrameInv(VisitOf(s[1], ctrl, pt_h_link, <<>>, stay), s, ctrl')
    BY <1>1, <1>2, <1>6, <1>7, <2>1, VisitKnows, LinkNat
  <2>3. QED
    BY <1>6, <2>2
<1>10. \A k \in 1 .. Len(stack) : FrameInv(stack[k], s, ctrl) /\ ~Parsing(stack[k])
  BY <1>1, <1>3 DEF StackInv
<1>11. stack \in Seq(CallFrames(LinkHandles)) /\ \A j \in Recs(LinkHandles) : "PARSING" \notin ctrl[j].flags
  BY <1>1, <1>10 DEF StackInv
<1>12. \A j \in Recs(LinkHandles) : "PARSING" \in ctrl'[j].flags => j = hd
  BY <1>4, <1>11
<1> HIDE DEF v, hd
<1>13. StackInv(LinkHandles, stack', s, ctrl', pt_h_link')
  BY <1>3, <1>5, <1>8, <1>9, <1>10, <1>11, <1>12, StackParses, LinkNat
<1>14. \A j \in Recs(LinkHandles) : ctrl'[j].flags \ {"PARSING"} = ctrl[j].flags \ {"PARSING"}
  BY <1>4
<1>15. QED
  BY <1>1, <1>2, <1>3, <1>4, <1>5, <1>13, <1>14, LinkMarks DEF hd

\* The parse that is innermost, and what is under it.
LEMMA ParseTop ==
  ASSUME NEW s, StackInv(LinkHandles, stack, s, ctrl, pt_h_link), stack # <<>>,
         Head(stack).op = "parse", Head(stack).pc = "callback"
  PROVE  /\ Head(stack) \in ParseFrames(LinkHandles) /\ ParseKnows(Head(stack), s, ctrl)
         /\ \A e \in Head(stack).stay : \E k \in 1 .. Len(s) : s[k] = e
         /\ Tail(stack) \in Seq(CallFrames(LinkHandles))
         /\ \A k \in 1 .. Len(Tail(stack)) : FrameInv(Tail(stack)[k], s, ctrl) /\ ~Parsing(Tail(stack)[k])
         /\ \A e \in Recs(LinkHandles) : "PARSING" \in ctrl[e].flags => Head(stack).i = e
<1>1. Parsing(Head(stack))
  BY DEF Parsing
<1>2. stack \in Seq(CallFrames(LinkHandles)) /\ Head(stack) = stack[1] /\ 1 \in 1 .. Len(stack)
  BY DEF StackInv
<1>3. Head(stack) \in CallFrames(LinkHandles) /\ FrameInv(Head(stack), s, ctrl)
  BY <1>2 DEF StackInv
<1>4. Head(stack) \in ParseFrames(LinkHandles)
  BY <1>3 DEF CallFrames, FreeFrames
<1>5. QED
  BY <1>1, <1>3, <1>4, UnderParse, LinkNat DEF FrameInv

\* handle_parse ends.
LEMMA LinkStops ==
  ASSUME LinkInv, stack # <<>>, Head(stack).op = "parse", Head(stack).pc = "callback", l_aborted' = FALSE,
         ctrl' = WithFlags(ctrl, Head(stack).i, ctrl[Head(stack).i].flags \ {"PARSING"}),
         pt_h_link' = Unparsed(pt_h_link),
         stack' = Tail(stack) \/
           (stack' = <<EndedFrame(Head(stack))>> \o Tail(stack) /\ Head(stack).nxt = 0)
  PROVE  LinkInv'
<1>1. PICK s : IsList(LinkHandles, s, ctrl, pt_h_link) /\ StackInv(LinkHandles, stack, s, ctrl, pt_h_link)
  BY DEF LinkInv
<1> DEFINE f == Head(stack)
           F == ctrl[f.i].flags \ {"PARSING"}
           g == EndedFrame(f)
<1>2. /\ f \in ParseFrames(LinkHandles) /\ ParseKnows(f, s, ctrl)
           /\ Tail(stack) \in Seq(CallFrames(LinkHandles))
      /\ \A e \in f.stay : \E k \in 1 .. Len(s) : s[k] = e
      /\ \A k \in 1 .. Len(Tail(stack)) : FrameInv(Tail(stack)[k], s, ctrl) /\ ~Parsing(Tail(stack)[k])
      /\ \A e \in Recs(LinkHandles) : "PARSING" \in ctrl[e].flags => f.i = e
  BY <1>1, ParseTop
<1>3. ctrl \in Ctrls(LinkHandles) /\ pt_h_link \in HLinks(LinkHandles) /\ f.i \in Recs(LinkHandles)
        /\ F \in SUBSET LinkFlags
  BY <1>2 DEF LinkInv, Ctrls, ParseFrames
<1>4. ctrl' = WithFlags(ctrl, f.i, F)
  OBVIOUS
<1>5. g \in CallFrames(LinkHandles) /\ ~Parsing(g) /\ g.pc = "done" /\ g.stay = f.stay /\ g.seen = f.seen
  BY <1>2 DEF ParseFrames, CallFrames, Parsing, EndedFrame
<1> HIDE DEF f, g, F
<1>6. /\ ctrl' \in Ctrls(LinkHandles)
      /\ \A j \in Recs(LinkHandles) : /\ ctrl'[j].next = ctrl[j].next /\ ctrl'[j].prev = ctrl[j].prev
                                      /\ ctrl'[j].flags = IF j = f.i THEN F ELSE ctrl[j].flags
  <2>1. /\ WithFlags(ctrl, f.i, F) \in Ctrls(LinkHandles)
        /\ \A j \in Recs(LinkHandles) : /\ WithFlags(ctrl, f.i, F)[j].next = ctrl[j].next
                                        /\ WithFlags(ctrl, f.i, F)[j].prev = ctrl[j].prev
                                        /\ WithFlags(ctrl, f.i, F)[j].flags =
                                              IF j = f.i THEN F ELSE ctrl[j].flags
    BY <1>3, FlagsSet, LinkNat
  <2>2. QED
    BY <1>4, <2>1
<1>7. \A j \in Recs(LinkHandles) : "PARSING" \notin ctrl'[j].flags
  BY <1>2, <1>6 DEF F
<1>8. /\ pt_h_link' \in HLinks(LinkHandles) /\ pt_h_link'.head = pt_h_link.head
           /\ pt_h_link'.tail = pt_h_link.tail
      /\ pt_h_link'.count = pt_h_link.count
  BY <1>3 DEF HLinks, Unparsed
<1>9. StackInv(LinkHandles, stack', s, ctrl', pt_h_link')
  <2>1. CASE stack' = Tail(stack)
    BY <1>2, <1>7, <2>1, StackQuiet, LinkNat
  <2>2. CASE stack' = <<g>> \o Tail(stack) /\ f.nxt = 0
    <3>1. \A e \in g.stay : VisitedOnce(g.seen, e)
      BY <1>2, <1>5, <2>2 DEF ParseKnows
    <3>2. FrameInv(g, s, ctrl')
      BY <1>2, <1>5, <3>1 DEF FrameInv
    <3>3. QED
      BY <1>2, <1>5, <1>7, <2>2, <3>2, StackParses, LinkNat
  <2>3. QED
    BY <2>1, <2>2 DEF f, g
<1>10. \A j \in Recs(LinkHandles) : ctrl'[j].flags \ {"PARSING"} = ctrl[j].flags \ {"PARSING"}
  BY <1>6 DEF F
<1>11. QED
  BY <1>1, <1>6, <1>8, <1>9, <1>10, LinkMarks

\* handle_parse goes on with record r, the next one or, from the start, the first.
LEMMA LinkVisits ==
  ASSUME LinkInv, stack # <<>>, Head(stack).op = "parse", Head(stack).pc = "callback", l_aborted' = FALSE,
         NEW s, IsList(LinkHandles, s, ctrl, pt_h_link), StackInv(LinkHandles, stack, s, ctrl, pt_h_link),
         NEW p, NEW seen, NEW stay, VisitedTo(LinkHandles, s, p, seen, stay),
         stack' = <<VisitOf(s[p], ctrl, pt_h_link, seen, stay)>> \o Tail(stack),
         MarkMoved(LinkHandles, ctrl, ctrl', Head(stack).i, s[p]), pt_h_link' = pt_h_link
  PROVE  LinkInv'
<1> DEFINE f == Head(stack)
           v == VisitOf(s[p], ctrl, pt_h_link, seen, stay)
<1>1. /\ Tail(stack) \in Seq(CallFrames(LinkHandles))
      /\ \A k \in 1 .. Len(Tail(stack)) : FrameInv(Tail(stack)[k], s, ctrl) /\ ~Parsing(Tail(stack)[k])
      /\ \A e \in Recs(LinkHandles) : "PARSING" \in ctrl[e].flags => f.i = e
  BY ParseTop
<1>2. /\ ctrl \in Ctrls(LinkHandles) /\ pt_h_link \in HLinks(LinkHandles) /\ s[p] \in Recs(LinkHandles)
      /\ seen \in Seq(Recs(LinkHandles)) /\ stay \in SUBSET Recs(LinkHandles)
  BY DEF LinkInv, IsList, VisitedTo
<1>3. v \in CallFrames(LinkHandles) /\ Parsing(v) /\ v.i = s[p]
  BY <1>2, VisitFrame, LinkNat DEF CallFrames, VisitOf
<1>4. FrameInv(v, s, ctrl')
  BY <1>2, VisitKnows, LinkNat DEF VisitedTo
<1>5. "PARSING" \in pt_h_link'.flags
  <2>1. stack \in Seq(CallFrames(LinkHandles)) /\ Head(stack) = stack[1] /\ 1 \in 1 .. Len(stack)
    BY DEF StackInv
  <2>2. Parsing(stack[1])
    BY <2>1 DEF Parsing
  <2>3. QED
    BY <2>1, <2>2 DEF StackInv
<1>6. \A j \in Recs(LinkHandles) : "PARSING" \in ctrl'[j].flags => j = s[p]
  BY <1>1 DEF MarkMoved
<1> HIDE DEF v
<1>7. StackInv(LinkHandles, <<v>> \o Tail(stack), s, ctrl', pt_h_link')
  BY <1>1, <1>3, <1>4, <1>5, <1>6, StackParses, LinkNat
<1>8. stack' = <<v>> \o Tail(stack)
  BY DEF v
<1>9. QED
  BY <1>2, <1>7, <1>8, LinkMarks DEF MarkMoved, LinkInv

\* A callback of handle_parse returned HP_NEXT.
LEMMA LinkNexts ==
  ASSUME LinkInv, stack # <<>>, Head(stack).op = "parse", Head(stack).pc = "callback", L!ParseNext(Head(stack))
  PROVE  LinkInv'
<1>1. PICK s : IsList(LinkHandles, s, ctrl, pt_h_link) /\ StackInv(LinkHandles, stack, s, ctrl, pt_h_link)
  BY DEF LinkInv
<1> DEFINE f == Head(stack)
<1>2. /\ f \in ParseFrames(LinkHandles) /\ ParseKnows(f, s, ctrl)
      /\ \A e \in f.stay : \E k \in 1 .. Len(s) : s[k] = e
  BY <1>1, ParseTop
<1>3. /\ f.i \in Recs(LinkHandles) /\ f.nxt \in 0 .. LinkHandles /\ f.cnt \in Nat
           /\ f.seen \in Seq(Recs(LinkHandles)) /\ f.stay \in SUBSET Recs(LinkHandles)
      /\ ctrl \in Ctrls(LinkHandles) /\ pt_h_link \in HLinks(LinkHandles)
  BY <1>2 DEF LinkInv, ParseFrames
<1>4. l_aborted' = FALSE
  <2>1. l_aborted' = (f.cnt - pt_h_link.count > 1)
    BY DEF L!ParseNext, L!handle_num_links
  <2>2. pt_h_link.count = Len(s) /\ Len(s) \in Nat /\ f.cnt <= Len(s) + 1
    BY <1>1, <1>2 DEF IsList, ParseKnows
  <2> HIDE DEF f
  <2>3. ~(f.cnt - pt_h_link.count > 1)
    BY <1>3, <2>2
  <2>4. (f.cnt - pt_h_link.count > 1) = FALSE
    BY <2>3
  <2>5. QED
    BY <2>1, <2>4, Zenon
<1>5. CASE f.nxt # 0
  <2>1. /\ stack' = <<VisitOf(f.nxt, ctrl, pt_h_link, f.seen, f.stay)>> \o Tail(stack)
        /\ ctrl' = MovedMark(ctrl, f.i, f.nxt) /\ pt_h_link' = pt_h_link
    BY <1>4, <1>5 DEF L!ParseNext, L!Visit, L!handle_num_links, VisitOf, MovedMark
  <2>2. PICK p \in 1 .. Len(s) :
          /\ s[p] = f.nxt
          /\ \A k \in 1 .. Len(s) : s[k] \in f.stay =>
                  IF k < p THEN VisitedOnce(f.seen, s[k]) ELSE NeverVisited(f.seen, s[k])
    BY <1>2, <1>5 DEF ParseKnows
  <2>3. f.nxt # f.i /\ s[p] \in Recs(LinkHandles)
    BY <1>1, <1>2, <1>5 DEF ParseKnows, IsList
  <2>4. MarkMoved(LinkHandles, ctrl, ctrl', f.i, s[p])
    <3>1. f.i # s[p] /\ ctrl' = MovedMark(ctrl, f.i, s[p])
      BY <2>1, <2>2, <2>3
    <3> HIDE DEF f
    <3>2. QED
      BY <1>3, <2>3, <3>1, MarkMoves, LinkNat
  <2>5. stack' = <<VisitOf(s[p], ctrl, pt_h_link, f.seen, f.stay)>> \o Tail(stack)
    BY <2>1, <2>2
  <2>6. VisitedTo(LinkHandles, s, p, f.seen, f.stay)
    BY <1>2, <1>3, <2>2 DEF VisitedTo
  <2>7. QED
    BY <1>1, <1>4, <2>1, <2>4, <2>5, <2>6, LinkVisits
<1>6. CASE f.nxt = 0
  <2>1. /\ stack' = <<EndedFrame(f)>> \o Tail(stack)
        /\ ctrl' = WithFlags(ctrl, f.i, ctrl[f.i].flags \ {"PARSING"}) /\ pt_h_link' = Unparsed(pt_h_link)
    BY <1>6 DEF L!ParseNext, EndedFrame, WithFlags, Unparsed
  <2>2. QED
    BY <1>4, <1>6, <2>1, LinkStops
<1>7. QED
  BY <1>5, <1>6

\* A callback of handle_parse returned.
LEMMA LinkReturns ==
  ASSUME LinkInv, L!ParseReturn
  PROVE  LinkInv'
<1> DEFINE f == Head(stack)
<1>1. /\ stack # <<>> /\ f.op = "parse" /\ f.pc = "callback" /\ l_aborted = FALSE
      /\ L!ParseNext(f) \/ L!ParseStop(f) \/ L!ParseRestart(f)
  BY DEF L!ParseReturn, LinkInv
<1>2. CASE L!ParseNext(f)
  BY <1>1, <1>2, LinkNexts
<1>3. CASE L!ParseStop(f)
  <2>1. /\ ctrl' = WithFlags(ctrl, f.i, ctrl[f.i].flags \ {"PARSING"}) /\ pt_h_link' = Unparsed(pt_h_link)
        /\ stack' = Tail(stack) /\ l_aborted' = FALSE
    BY <1>1, <1>3 DEF L!ParseStop, WithFlags, Unparsed
  <2>2. QED
    BY <1>1, <2>1, LinkStops
<1>4. CASE L!ParseRestart(f)
  <2> DEFINE hd == pt_h_link.head
             stay == {j \in Recs(LinkHandles) : "LINKED" \in ctrl[j].flags}
  <2>1. PICK s : IsList(LinkHandles, s, ctrl, pt_h_link) /\ StackInv(LinkHandles, stack, s, ctrl, pt_h_link)
    BY DEF LinkInv
  <2>2. /\ hd # 0 /\ ctrl' = RestartMark(LinkHandles, ctrl, f.i, hd) /\ pt_h_link' = pt_h_link
             /\ l_aborted' = FALSE
        /\ stack' = <<VisitOf(hd, ctrl, pt_h_link, <<>>, stay)>> \o Tail(stack)
    BY <1>1, <1>4 DEF L!ParseRestart, L!Visit, L!Linked, L!Idx, L!Has, L!handle_num_links, VisitOf, RestartMark,
       Recs
  <2>3. /\ s \in Seq(Recs(LinkHandles)) /\ Len(s) \in Nat /\ 1 \in 1 .. Len(s) /\ hd = s[1]
             /\ s[1] \in Recs(LinkHandles)
        /\ \A j \in stay : \E k \in 1 .. Len(s) : s[k] = j
    <3>1. s \in Seq(Recs(LinkHandles)) /\ Len(s) \in Nat /\ Len(s) # 0 /\ hd = s[1]
      BY <2>1, <2>2 DEF IsList
    <3>2. QED
      BY <2>1, <3>1 DEF IsList
  <2>4. \A k \in 1 .. Len(s) : s[k] \in stay =>
             IF k < 1 THEN VisitedOnce(<<>>, s[k]) ELSE NeverVisited(<<>>, s[k])
    BY <2>3 DEF NeverVisited
  <2>5. f.i \in Recs(LinkHandles) /\ ctrl \in Ctrls(LinkHandles)
    BY <1>1, <2>1, ParseTop DEF ParseFrames, LinkInv
  <2> HIDE DEF stay
  <2>6. MarkMoved(LinkHandles, ctrl, ctrl', f.i, s[1])
    <3>1. ctrl' = RestartMark(LinkHandles, ctrl, f.i, s[1])
      BY <2>2, <2>3
    <3> HIDE DEF f
    <3>2. QED
      BY <2>3, <2>5, <3>1, MarkMoves, LinkNat
  <2>7. <<>> \in Seq(Recs(LinkHandles)) /\ stay \in SUBSET Recs(LinkHandles)
    BY DEF stay
  <2>8. stack' = <<VisitOf(s[1], ctrl, pt_h_link, <<>>, stay)>> \o Tail(stack)
    BY <2>2, <2>3
  <2>9. VisitedTo(LinkHandles, s, 1, <<>>, stay)
    BY <2>3, <2>4, <2>7 DEF VisitedTo
  <2> HIDE DEF hd
  <2>10. QED
    BY <1>1, <2>1, <2>2, <2>6, <2>8, <2>9, LinkVisits
<1>5. QED
  BY <1>1, <1>2, <1>3, <1>4

\* handle_parse returns to its caller.
LEMMA LinkEnds ==
  ASSUME LinkInv, L!ParseEnd
  PROVE  LinkInv'
<1>1. PICK s : IsList(LinkHandles, s, ctrl, pt_h_link) /\ StackInv(LinkHandles, stack, s, ctrl, pt_h_link)
  BY DEF LinkInv
<1>2. /\ stack # <<>> /\ ~Parsing(Head(stack)) /\ stack' = Tail(stack)
      /\ ctrl' = ctrl /\ pt_h_link' = pt_h_link /\ l_aborted' = l_aborted
  BY DEF L!ParseEnd, Parsing
<1>3. StackInv(LinkHandles, stack', s, ctrl, pt_h_link)
  BY <1>1, <1>2, StackPops, LinkNat
<1>4. QED
  BY <1>1, <1>2, <1>3 DEF LinkInv

\* Every step keeps the invariant.
LEMMA LinkStep ==
  ASSUME LinkInv, L!LNext
  PROVE  LinkInv'
<1>1. CASE \E e \in L!Idx : L!u_handle_link(e) \/ L!u_handle_delink(e) \/ L!u_handle_free(e) \/ L!Realloc(e)
  <2>1. PICK e \in Recs(LinkHandles) : L!u_handle_link(e) \/ L!u_handle_delink(e) \/ L!u_handle_free(e)
          \/ L!Realloc(e)
    BY <1>1 DEF L!Idx, Recs
  <2>2. QED
    BY <2>1, LinkLinks, LinkDelinks, LinkFrees, LinkReallocs
<1>2. CASE L!ParseStart \/ L!ParseReturn \/ L!ParseEnd
  BY <1>2, LinkParses, LinkReturns, LinkEnds
<1>3. CASE L!FreeAllStart \/ L!FreeRefused \/ L!FreeAllowed
  BY <1>3, LinkFreesAll, LinkRefuses, LinkAllows
<1>4. QED
  BY <1>1, <1>2, <1>3 DEF L!LNext

\* The walk from the head is the list.
LEMMA WalkIsList ==
  ASSUME NEW s, IsList(LinkHandles, s, ctrl, pt_h_link)
  PROVE  L!Walk = s
<1> DEFINE Dom == 0 .. LinkHandles
           g == [n \in Dom |-> Upto(s, n)]
           IsWalk(w) == w = [n \in Dom |-> WalkBody(ctrl, pt_h_link, w, n)]
<1>1. L!Walk = (CHOOSE w : IsWalk(w))[LinkHandles]
  BY DEF L!Walk, WalkBody
<1>2. LinkHandles \in Nat /\ s \in Seq(Recs(LinkHandles))
  BY LinkNat DEF IsList
<1>3. ASSUME NEW n \in Dom PROVE n = 0 \/ (n \in 1 .. LinkHandles /\ n - 1 \in Dom /\ n \in Nat)
  BY <1>2
<1>4. IsWalk(g)
  <2>1. ASSUME NEW n \in Dom PROVE WalkBody(ctrl, pt_h_link, g, n) = Upto(s, n)
    <3>1. CASE n = 0
      BY <1>2, <3>1, UptoShape, LinkNat DEF WalkBody
    <3>2. CASE n # 0
      <4>1. n \in 1 .. LinkHandles /\ g[n - 1] = Upto(s, n - 1)
        BY <1>3, <3>2
      <4> HIDE DEF g
      <4>2. QED
        BY <4>1, WalkSteps, LinkNat
    <3>3. QED
      BY <3>1, <3>2
  <2>2. [n \in Dom |-> WalkBody(ctrl, pt_h_link, g, n)] = [n \in Dom |-> Upto(s, n)]
    BY <2>1
  <2>3. QED
    BY <2>2
<1>5. ASSUME NEW w, IsWalk(w) PROVE w[LinkHandles] = g[LinkHandles]
  <2> DEFINE B == {n \in Dom : w[n] # g[n]}
  <2>1. CASE B = {}
    <3>1. LinkHandles \in Dom
      BY <1>2
    <3> HIDE DEF g
    <3>2. w[LinkHandles] = g[LinkHandles]
      BY <2>1, <3>1
    <3>3. QED
      BY <3>2
  <2>2. CASE B # {}
    <3>1. Min(B) \in B /\ \A y \in B : Min(B) <= y
      <4>1. B \in SUBSET Nat
        BY <1>2
      <4> HIDE DEF B
      <4>2. QED
        BY <2>2, <4>1, MinIsOne
    <3>2. PICK m \in B : \A y \in B : m <= y
      BY <3>1
    <3>3. m \in Dom /\ w[m] = WalkBody(ctrl, pt_h_link, w, m) /\ w[m] # g[m] /\ g[m] = Upto(s, m)
      BY <1>5
    <3>4. m # 0
      BY <1>2, <3>3, UptoShape, LinkNat DEF WalkBody
    <3>5. m \in 1 .. LinkHandles /\ m - 1 \in Dom /\ m \in Nat
      BY <1>3, <3>3, <3>4
    <3>6. m - 1 \notin B
      BY <3>2, <3>5
    <3>7. w[m - 1] = Upto(s, m - 1)
      BY <3>5, <3>6
    <3>8. WalkBody(ctrl, pt_h_link, w, m) = Upto(s, m)
      BY <3>5, <3>7, WalkSteps, LinkNat
    <3>9. QED
      BY <3>3, <3>8
  <2>3. QED
    BY <2>1, <2>2
<1>6. IsWalk(CHOOSE w : IsWalk(w))
  <2> HIDE DEF IsWalk, g
  <2>1. QED
    BY <1>4
<1>7. L!Walk = g[LinkHandles]
  <2> HIDE DEF IsWalk, g
  <2>1. QED
    BY <1>1, <1>5, <1>6
<1>8. Len(s) <= LinkHandles
  <2>1. Cardinality(Range(s)) = Len(s)
    BY <1>2, DistinctCount DEF IsList
  <2>2. Range(s) \subseteq Recs(LinkHandles)
    BY <1>2 DEF Range
  <2>3. IsFiniteSet(Recs(LinkHandles)) /\ Cardinality(Recs(LinkHandles)) = LinkHandles
    <3>1. /\ IsFiniteSet(1 .. LinkHandles)
          /\ Cardinality(1 .. LinkHandles) = IF 1 > LinkHandles THEN 0 ELSE LinkHandles - 1 + 1
      BY <1>2, FS_Interval
    <3>2. QED
      BY <1>2, <3>1 DEF Recs
  <2>4. QED
    BY <2>1, <2>2, <2>3, FS_Subset
<1>9. g[LinkHandles] = s
  BY <1>2, <1>8, UptoShape, LinkNat
<1>10. QED
  BY <1>7, <1>9

\* What the invariant shows.
LEMMA LinkShows == LinkInv => ListExact
<1> SUFFICES ASSUME LinkInv PROVE ListExact
  OBVIOUS
<1>1. PICK s : IsList(LinkHandles, s, ctrl, pt_h_link) /\ StackInv(LinkHandles, stack, s, ctrl, pt_h_link)
  BY DEF LinkInv
<1>2. L!Walk = s
  BY <1>1, WalkIsList
<1>3. s \in Seq(Recs(LinkHandles)) /\ DOMAIN s = 1 .. Len(s) /\ Len(s) \in Nat
  BY <1>1 DEF IsList
<1>4. L!ListExact
  <2>1. {s[k] : k \in DOMAIN s} = L!Linked
    <3>1. L!Linked = {e \in Recs(LinkHandles) : "LINKED" \in ctrl[e].flags}
      BY DEF L!Linked, L!Has, L!Idx, Recs
    <3>2. ASSUME NEW k \in 1 .. Len(s) PROVE s[k] \in Recs(LinkHandles) /\ "LINKED" \in ctrl[s[k]].flags
      <4>1. s[k] \in Recs(LinkHandles)
        BY <1>3
      <4>2. QED
        BY <1>1, <4>1 DEF IsList
    <3>3. \A e \in Recs(LinkHandles) : "LINKED" \in ctrl[e].flags => \E k \in 1 .. Len(s) : s[k] = e
      BY <1>1 DEF IsList
    <3>4. QED
      BY <1>3, <3>1, <3>2, <3>3
  <2>2. Len(s) = pt_h_link.count
    BY <1>1 DEF IsList
  <2>3. ASSUME NEW k \in DOMAIN s
        PROVE  /\ ctrl[s[k]].prev = IF k = 1 THEN 0 ELSE s[k - 1]
               /\ "ACTIVE" \in ctrl[s[k]].flags
    <3>1. k \in 1 .. Len(s) /\ s[k] \in Recs(LinkHandles)
      BY <1>3
    <3>2. "LINKED" \in ctrl[s[k]].flags
      BY <1>1, <3>1 DEF IsList
    <3>3. QED
      BY <1>1, <3>1, <3>2 DEF IsList, LinkInv
  <2>4. pt_h_link.tail = IF s = <<>> THEN 0 ELSE s[Len(s)]
    <3>1. s = <<>> <=> Len(s) = 0
      BY <1>3
    <3>2. pt_h_link.tail = IF Len(s) = 0 THEN 0 ELSE s[Len(s)]
      BY <1>1 DEF IsList
    <3>3. QED
      BY <3>1, <3>2
  <2>5. QED
    BY <1>2, <2>1, <2>2, <2>3, <2>4 DEF L!ListExact, L!handle_num_links, L!Has
<1>5. stack \in Seq(CallFrames(LinkHandles)) /\ DOMAIN stack = 1 .. Len(stack)
  BY <1>1 DEF StackInv
<1>6. L!NextStaysLinked
  <2>1. ASSUME NEW k \in DOMAIN stack, stack[k].op = "parse", stack[k].pc = "callback", stack[k].nxt # 0
        PROVE  "LINKED" \in ctrl[stack[k].nxt].flags
    <3>1. Parsing(stack[k]) /\ FrameInv(stack[k], s, ctrl)
      BY <1>1, <1>5, <2>1 DEF Parsing, StackInv
    <3>2. PICK p \in 1 .. Len(s) : s[p] = stack[k].nxt
      BY <2>1, <3>1 DEF FrameInv, ParseKnows
    <3>3. s[p] \in Recs(LinkHandles)
      BY <1>3
    <3>4. QED
      BY <1>1, <3>2, <3>3 DEF IsList
  <2>2. QED
    BY <2>1 DEF L!NextStaysLinked, L!Has, LinkInv
<1>7. L!ParseVisitsAll
  <2>1. ASSUME NEW k \in DOMAIN stack, stack[k].pc = "done", NEW e \in stack[k].stay
        PROVE  Cardinality({n \in DOMAIN stack[k].seen : stack[k].seen[n] = e}) = 1
    <3>1. stack[k] \in CallFrames(LinkHandles) /\ VisitedOnce(stack[k].seen, e)
      BY <1>1, <1>5, <2>1 DEF StackInv, FrameInv
    <3>2. DOMAIN stack[k].seen = 1 .. Len(stack[k].seen)
      <4>1. stack[k] \in ParseFrames(LinkHandles)
        BY <2>1, <3>1 DEF CallFrames, FreeFrames
      <4>2. stack[k].seen \in Seq(Recs(LinkHandles))
        BY <4>1 DEF ParseFrames
      <4>3. QED
        BY <4>2
    <3>3. PICK m \in 1 .. Len(stack[k].seen) :
            stack[k].seen[m] = e /\ \A n \in 1 .. Len(stack[k].seen) : stack[k].seen[n] = e => n = m
      BY <3>1 DEF VisitedOnce
    <3>4. {n \in DOMAIN stack[k].seen : stack[k].seen[n] = e} = {m}
      BY <3>2, <3>3
    <3>5. QED
      BY <3>4, FS_Singleton
  <2>2. QED
    BY <2>1 DEF L!ParseVisitsAll, L!Cardinality, Cardinality
<1>8. QED
  BY <1>4, <1>6, <1>7 DEF ListExact

\* For any number of handles, whatever callbacks link, delink, free and allocate
\* again while handle_parse or u_handle_free_all walks the list of a link structure:
\* the list is exact, handle_parse goes on with a record that is still on it, never
\* aborts, and has visited each handle that stayed exactly once when it ends.
THEOREM ListsAre == MCSpec => []ListExact
<1>1. MCInit => LinkInv
  BY LinkInit DEF MCInit
<1>2. LinkInv /\ [MCNext]_allvars => LinkInv'
  <2> SUFFICES ASSUME LinkInv, [MCNext]_allvars PROVE LinkInv'
    OBVIOUS
  <2>1. CASE L!LNext
    BY <2>1, LinkStep
  <2>2. CASE UNCHANGED lvars
    BY <2>2 DEF lvars, LinkInv
  <2>3. QED
    BY <2>1, <2>2 DEF MCNext, allvars
<1>3. QED
  BY <1>1, <1>2, LinkShows, PTL DEF MCSpec

(***************************************************************************)
(* MsgQList: for any number of users, names and queues.                    *)
(***************************************************************************)
QueueNo == Q!Queues
QueueState == {"none", "private", "listed", "removed", "freed"}
QueueObj == [name : QueueNames \cup {"none"}, i2_refcount : Int, previous : 0 .. MaxQueues,
             next : 0 .. MaxQueues, state : QueueState]
ListedQs == {q \in QueueNo : q_obj[q].state = "listed"}

QueueType ==
  /\ q_obj \in [QueueNo -> QueueObj]
  /\ s_msg_q_list \in 0 .. MaxQueues
  /\ user \in [QueueUsers -> [at : {"idle", "create", "free"}, q : 0 .. MaxQueues]]
  /\ refs \in [QueueUsers -> SUBSET QueueNo]
  /\ q_wild = FALSE

\* The queues of R form one ring from h: next and previous undo each other, and a
\* part of it that has h and is closed under next is all of it.
RingOf(R, h, qs) ==
  /\ h \in R
  /\ \A q \in R : /\ qs[q].next \in R /\ qs[q].previous \in R
                  /\ qs[qs[q].next].previous = q /\ qs[qs[q].previous].next = q
  /\ \A T \in SUBSET R : h \in T /\ (\A q \in T : qs[q].next \in T) => R \subseteq T

RingInv ==
  /\ s_msg_q_list = 0 <=> ListedQs = {}
  /\ s_msg_q_list # 0 => RingOf(ListedQs, s_msg_q_list, q_obj)
  /\ \A p, q \in ListedQs : q_obj[p].name = q_obj[q].name => p = q

\* A queue that is created or freed is its user's alone.
BusyInv ==
  /\ \A u \in QueueUsers :
       /\ user[u].at = "idle" => user[u] = Q!Resting
       /\ user[u].at # "idle" => user[u].q \in QueueNo
       /\ user[u].at = "create" => q_obj[user[u].q].state = "private" /\ q_obj[user[u].q].i2_refcount = 1
       /\ user[u].at = "free" => q_obj[user[u].q].state = "removed"
  /\ \A u, v \in QueueUsers : user[u].at # "idle" /\ user[v].at # "idle" /\ user[u].q = user[v].q => u = v

Holders(rf, q) == {u \in QueueUsers : q \in rf[u]}

CountInv ==
  /\ \A u \in QueueUsers : refs[u] \subseteq ListedQs
  /\ \A q \in ListedQs : q_obj[q].i2_refcount = Cardinality(Holders(refs, q))

MsgQListInv == QueueType /\ RingInv /\ BusyInv /\ CountInv

\* The users are finitely many, the queues are numbered.
LEMMA QueueNumbers ==
  /\ IsFiniteSet(QueueUsers) /\ MaxQueues \in Nat
  /\ QueueNo = 1 .. MaxQueues /\ 0 \notin QueueNo /\ Q!NULL = 0
  /\ QueueNo \subseteq 0 .. MaxQueues
BY QueueAssumption DEF Q!QueueAssumption, Q!IsFiniteSet, IsFiniteSet, QueueNo, Q!Queues, Q!NULL

\* A queue put between the last one, l, and the head.
PutBetween(R, l, h, qs, q, qs2) ==
  /\ l = qs[h].previous /\ q \notin R
  /\ qs2[q].next = h /\ qs2[q].previous = l /\ qs2[l].next = q /\ qs2[h].previous = q
  /\ \A p \in R : /\ p # l => qs2[p].next = qs[p].next
                  /\ p # h => qs2[p].previous = qs[p].previous

\* A queue put between the ring's last and its head leaves one ring.
LEMMA RingAdds ==
  ASSUME NEW R, NEW h, NEW qs, RingOf(R, h, qs), NEW q, NEW qs2, NEW l, PutBetween(R, l, h, qs, q, qs2)
  PROVE  RingOf(R \cup {q}, h, qs2)
<1> USE DEF PutBetween
<1>1. l \in R /\ qs[l].next = h /\ h \in R /\ h # q /\ l # q
  BY DEF RingOf
<1>2. ASSUME NEW p \in R
      PROVE  /\ qs2[p].next \in R \cup {q} /\ qs2[p].previous \in R \cup {q}
             /\ qs2[qs2[p].next].previous = p /\ qs2[qs2[p].previous].next = p
  <2>1. /\ qs[p].next \in R /\ qs[p].previous \in R
        /\ qs[qs[p].next].previous = p /\ qs[qs[p].previous].next = p
    BY DEF RingOf
  <2>2. qs2[p].next \in R \cup {q} /\ qs2[qs2[p].next].previous = p
    <3>1. CASE p = l
      BY <3>1, <1>1
    <3>2. CASE p # l
      <4>1. qs[p].next # h
        BY <3>2, <2>1
      <4>2. QED
        BY <3>2, <4>1, <2>1
    <3>3. QED
      BY <3>1, <3>2
  <2>3. qs2[p].previous \in R \cup {q} /\ qs2[qs2[p].previous].next = p
    <3>1. CASE p = h
      BY <3>1, <1>1
    <3>2. CASE p # h
      <4>1. qs[p].previous # l
        BY <3>2, <2>1, <1>1
      <4>2. QED
        BY <3>2, <4>1, <2>1
    <3>3. QED
      BY <3>1, <3>2
  <2>4. QED
    BY <2>2, <2>3
<1>3. ASSUME NEW T \in SUBSET (R \cup {q}), h \in T, \A p \in T : qs2[p].next \in T
      PROVE  R \cup {q} \subseteq T
  <2>1. \A p \in T \cap R : qs[p].next \in T \cap R
    <3> TAKE p \in T \cap R
    <3>1. qs[p].next \in R
      BY DEF RingOf
    <3>2. CASE p = l
      BY <3>2, <1>1, <1>3
    <3>3. CASE p # l
      BY <3>3, <3>1, <1>3
    <3>4. QED
      BY <3>2, <3>3
  <2>2. R \subseteq T \cap R
    <3>1. T \cap R \in SUBSET R /\ h \in T \cap R
      BY <1>1, <1>3
    <3>2. QED
      BY <3>1, <2>1 DEF RingOf
  <2>3. q \in T
    BY <2>2, <1>1, <1>3
  <2>4. QED
    BY <2>2, <2>3
<1>4. qs2[h].previous \in R \cup {q} /\ qs2[q].next \in R \cup {q} /\ qs2[q].previous \in R \cup {q}
      /\ qs2[qs2[q].next].previous = q /\ qs2[qs2[q].previous].next = q
  BY <1>1
<1>5. QED
  BY <1>1, <1>2, <1>3, <1>4 DEF RingOf

\* The only queue of a ring.
LEMMA RingOfOne ==
  ASSUME NEW R, NEW h, NEW qs, RingOf(R, h, qs), NEW q \in R, qs[q].previous = q
  PROVE  R = {q} /\ h = q
<1>1. qs[q].next = q /\ h \in R
  BY DEF RingOf
<1>2. h = q
  <2> SUFFICES ASSUME h # q PROVE FALSE
    OBVIOUS
  <2>1. \A p \in R \ {q} : qs[p].next \in R \ {q}
    <3> TAKE p \in R \ {q}
    <3>1. qs[p].next \in R /\ qs[qs[p].next].previous = p
      BY DEF RingOf
    <3>2. QED
      BY <3>1
  <2>2. R \ {q} \in SUBSET R /\ h \in R \ {q}
    BY <1>1
  <2>3. R \subseteq R \ {q}
    BY <2>1, <2>2 DEF RingOf
  <2>4. QED
    BY <2>3
<1>3. R \subseteq {q}
  <2>1. {q} \in SUBSET R /\ h \in {q} /\ \A p \in {q} : qs[p].next \in {q}
    BY <1>1, <1>2
  <2>2. QED
    BY <2>1 DEF RingOf
<1>4. QED
  BY <1>2, <1>3

\* A queue taken out between a and b, of a ring of more than one.
TakenOut(R, a, q, b, qs, qs2) ==
  /\ q \in R /\ a = qs[q].previous /\ b = qs[q].next /\ a # q
  /\ qs2[a].next = b /\ qs2[b].previous = a
  /\ \A p \in R : /\ p # a /\ p # q => qs2[p].next = qs[p].next
                  /\ p # b /\ p # q => qs2[p].previous = qs[p].previous

\* A queue taken out of a ring leaves one ring of the others, if there are others.
LEMMA RingRemoves ==
  ASSUME NEW R, NEW h, NEW qs, RingOf(R, h, qs), NEW q, NEW a, NEW b, NEW qs2, TakenOut(R, a, q, b, qs, qs2),
         NEW h2, h2 = IF h = q THEN b ELSE h
  PROVE  RingOf(R \ {q}, h2, qs2)
<1> USE DEF TakenOut
<1>1. a \in R /\ b \in R /\ qs[a].next = q /\ qs[b].previous = q /\ b # q /\ h \in R
  BY DEF RingOf
<1>2. h2 \in R \ {q}
  BY <1>1
<1>3. ASSUME NEW p \in R \ {q}
      PROVE  /\ qs2[p].next \in R \ {q} /\ qs2[p].previous \in R \ {q}
             /\ qs2[qs2[p].next].previous = p /\ qs2[qs2[p].previous].next = p
  <2>1. /\ qs[p].next \in R /\ qs[p].previous \in R
        /\ qs[qs[p].next].previous = p /\ qs[qs[p].previous].next = p
    BY DEF RingOf
  <2>2. qs2[p].next \in R \ {q} /\ qs2[qs2[p].next].previous = p
    <3>1. CASE p = a
      BY <3>1, <1>1
    <3>2. CASE p # a
      <4>1. qs[p].next # q /\ qs[p].next # b
        BY <3>2, <2>1, <1>1
      <4>2. QED
        BY <3>2, <4>1, <2>1
    <3>3. QED
      BY <3>1, <3>2
  <2>3. qs2[p].previous \in R \ {q} /\ qs2[qs2[p].previous].next = p
    <3>1. CASE p = b
      BY <3>1, <1>1
    <3>2. CASE p # b
      <4>1. qs[p].previous # q /\ qs[p].previous # a
        BY <3>2, <2>1, <1>1
      <4>2. QED
        BY <3>2, <4>1, <2>1
    <3>3. QED
      BY <3>1, <3>2
  <2>4. QED
    BY <2>2, <2>3
<1>4. ASSUME NEW T \in SUBSET (R \ {q}), h2 \in T, \A p \in T : qs2[p].next \in T
      PROVE  R \ {q} \subseteq T
  <2>1. \A p \in T : p # a => qs[p].next \in T
    BY <1>4
  <2>2. CASE a \in T \/ h = q
    <3>1. b \in T
      BY <2>2, <1>1, <1>4
    <3>2. \A p \in T \cup {q} : qs[p].next \in T \cup {q}
      BY <3>1, <2>1, <1>1
    <3>3. h \in T \cup {q} /\ T \cup {q} \in SUBSET R
      BY <1>4
    <3>4. R \subseteq T \cup {q}
      BY <3>2, <3>3 DEF RingOf
    <3>5. QED
      BY <3>4
  <2>3. CASE a \notin T /\ h # q
    <3>1. \A p \in T : qs[p].next \in T
      BY <2>1, <2>3
    <3>2. h \in T /\ T \in SUBSET R
      BY <1>4, <2>3
    <3>3. R \subseteq T
      BY <3>1, <3>2 DEF RingOf
    <3>4. QED
      BY <3>3
  <2>4. QED
    BY <2>2, <2>3
<1>5. QED
  BY <1>2, <1>3, <1>4 DEF RingOf

\* The ring of one.
LEMMA RingStarts ==
  ASSUME NEW q, NEW qs, qs[q].next = q, qs[q].previous = q
  PROVE  RingOf({q}, q, qs)
BY DEF RingOf

\* What the code finds along next is what is listed.
LEMMA InListIs == QueueType /\ RingInv => Q!InList = ListedQs
<1> SUFFICES ASSUME QueueType, RingInv PROVE Q!InList = ListedQs
  OBVIOUS
<1> USE QueueNumbers
<1>1. CASE s_msg_q_list = 0
  BY <1>1 DEF RingInv, Q!InList
<1>2. CASE s_msg_q_list # 0
  <2> DEFINE R == ListedQs
  <2>1. RingOf(R, s_msg_q_list, q_obj) /\ R \in SUBSET QueueNo
    BY <1>2 DEF RingInv, ListedQs
  <2>2. Q!AlongNext(R)
    BY <2>1 DEF RingOf, Q!AlongNext
  <2>3. ASSUME NEW T \in SUBSET QueueNo, Q!AlongNext(T) PROVE R \subseteq T
    <3>1. T \cap R \in SUBSET R /\ s_msg_q_list \in T \cap R
      BY <2>1, <2>3 DEF RingOf, Q!AlongNext
    <3>2. \A p \in T \cap R : q_obj[p].next \in T \cap R
      <4> TAKE p \in T \cap R
      <4>1. q_obj[p].next \in R /\ q_obj[p].next \in T \cup {0}
        BY <2>1, <2>3 DEF RingOf, Q!AlongNext
      <4>2. q_obj[p].next # 0
        BY <4>1, <2>1
      <4>3. QED
        BY <4>1, <4>2
    <3>3. R \subseteq T \cap R
      BY <2>1, <3>1, <3>2 DEF RingOf
    <3>4. QED
      BY <3>3
  <2>4. Q!InList = {q \in QueueNo : \A T \in SUBSET QueueNo : Q!AlongNext(T) => q \in T}
    BY <1>2 DEF Q!InList, QueueNo
  <2>5. QED
    BY <2>1, <2>2, <2>3, <2>4
<1>3. QED
  BY <1>1, <1>2
\* A ring whose links stay.
LEMMA RingKeeps ==
  ASSUME NEW R, NEW h, NEW qs, RingOf(R, h, qs), NEW qs2,
         \A p \in R : qs2[p].next = qs[p].next /\ qs2[p].previous = qs[p].previous
  PROVE  RingOf(R, h, qs2)
<1>1. h \in R
  BY DEF RingOf
<1>2. ASSUME NEW p \in R
      PROVE  /\ qs2[p].next \in R /\ qs2[p].previous \in R
             /\ qs2[qs2[p].next].previous = p /\ qs2[qs2[p].previous].next = p
  BY DEF RingOf
<1>3. ASSUME NEW T \in SUBSET R, h \in T, \A p \in T : qs2[p].next \in T
      PROVE  R \subseteq T
  <2>1. \A p \in T : qs[p].next \in T
    BY <1>3
  <2>2. QED
    BY <1>3, <2>1 DEF RingOf
<1>4. QED
  BY <1>1, <1>2, <1>3 DEF RingOf

\* Steps that leave the listed queues, their names and links alone.
LEMMA RingStays ==
  ASSUME RingInv, ListedQs' = ListedQs, UNCHANGED s_msg_q_list,
         \A p \in ListedQs : /\ q_obj'[p].next = q_obj[p].next /\ q_obj'[p].previous = q_obj[p].previous
                             /\ q_obj'[p].name = q_obj[p].name
  PROVE  RingInv'
<1>1. s_msg_q_list' = 0 <=> ListedQs' = {}
  BY DEF RingInv
<1>2. s_msg_q_list' # 0 => RingOf(ListedQs', s_msg_q_list', q_obj')
  <2>1. ASSUME s_msg_q_list # 0 PROVE RingOf(ListedQs, s_msg_q_list, q_obj')
    <3>1. RingOf(ListedQs, s_msg_q_list, q_obj)
      BY <2>1 DEF RingInv
    <3>2. QED
      BY <3>1, RingKeeps
  <2>2. QED
    BY <2>1
<1>3. \A p, q \in ListedQs' : q_obj'[p].name = q_obj'[q].name => p = q
  BY DEF RingInv
<1>4. QED
  BY <1>1, <1>2, <1>3 DEF RingInv

\* In the beginning nothing is listed, held or counted.
LEMMA QueuesStart == Q!QInit => MsgQListInv
<1> SUFFICES ASSUME Q!QInit PROVE MsgQListInv
  OBVIOUS
<1> USE QueueNumbers
<1>1. /\ \A q \in QueueNo : q_obj[q] = Q!None
      /\ \A u \in QueueUsers : user[u] = Q!Resting /\ refs[u] = {}
      /\ s_msg_q_list = 0 /\ q_wild = FALSE
  BY DEF Q!QInit, QueueNo
<1>2. Q!None \in QueueObj /\ Q!None.state = "none"
  BY DEF Q!None, QueueObj, QueueState
<1>3. Q!Resting \in [at : {"idle", "create", "free"}, q : 0 .. MaxQueues] /\ Q!Resting.at = "idle"
  BY DEF Q!Resting
<1>4. ListedQs = {}
  BY <1>1, <1>2 DEF ListedQs
<1>5. QueueType
  BY <1>1, <1>2, <1>3 DEF QueueType, Q!QInit, QueueNo
<1>6. RingInv
  BY <1>1, <1>4 DEF RingInv
<1>7. BusyInv
  BY <1>1, <1>3 DEF BusyInv
<1>8. CountInv
  BY <1>1, <1>4 DEF CountInv
<1>9. QED
  BY <1>5, <1>6, <1>7, <1>8 DEF MsgQListInv

\* x_msg_q_create's new object.
LEMMA QueueCreates ==
  ASSUME MsgQListInv, NEW u \in QueueUsers, NEW name \in QueueNames, Q!Create(u, name)
  PROVE  MsgQListInv'
<1> USE QueueNumbers DEF MsgQListInv
<1>1. PICK q \in QueueNo :
        /\ q_obj[q].state = "none"
        /\ q_obj' = [q_obj EXCEPT ![q] = [Q!None EXCEPT !.name = name, !.i2_refcount = 1, !.state = "private"]]
        /\ user' = [user EXCEPT ![u] = [at |-> "create", q |-> q]]
  BY DEF Q!Create, QueueNo
<1>2. user[u] = Q!Resting /\ UNCHANGED <<s_msg_q_list, refs, q_wild>>
  BY DEF Q!Create
<1> DEFINE new == [Q!None EXCEPT !.name = name, !.i2_refcount = 1, !.state = "private"]
<1>3. new \in QueueObj /\ new.state = "private" /\ new.i2_refcount = 1
  <2> DEFINE one == [name |-> name, i2_refcount |-> 0, previous |-> 0, next |-> 0, state |-> "none"]
             two == [name |-> name, i2_refcount |-> 1, previous |-> 0, next |-> 0, state |-> "none"]
             three == [name |-> name, i2_refcount |-> 1, previous |-> 0, next |-> 0, state |-> "private"]
  <2>1. [Q!None EXCEPT !.name = name] = one
    BY DEF Q!None
  <2>2. [one EXCEPT !.i2_refcount = 1] = two
    OBVIOUS
  <2>3. [two EXCEPT !.state = "private"] = three
    OBVIOUS
  <2>4. new = three
    BY ONLY <2>1, <2>2, <2>3, Zenon
  <2>5. three \in QueueObj /\ three.state = "private" /\ three.i2_refcount = 1
    BY DEF QueueObj, QueueState
  <2>6. QED
    BY <2>4, <2>5, Zenon
<1> HIDE DEF new
<1>4. /\ q_obj' \in [QueueNo -> QueueObj] /\ q_obj'[q] = new
      /\ \A p \in QueueNo : p # q => q_obj'[p] = q_obj[p]
  BY <1>1, <1>3 DEF QueueType, new
<1>5. /\ user' \in [QueueUsers -> [at : {"idle", "create", "free"}, q : 0 .. MaxQueues]]
      /\ user'[u].at = "create" /\ user'[u].q = q
      /\ \A v \in QueueUsers : v # u => user'[v] = user[v]
  BY <1>1 DEF QueueType
<1>6. ListedQs' = ListedQs /\ ListedQs \subseteq QueueNo /\ q \notin ListedQs
  BY <1>4, <1>1, <1>3 DEF ListedQs
<1>7. QueueType'
  BY <1>2, <1>4, <1>5 DEF QueueType
<1>8. RingInv'
  BY <1>2, <1>4, <1>6, RingStays
<1>9. BusyInv'
  BY <1>1, <1>3, <1>4, <1>5 DEF BusyInv
<1>10. CountInv'
  BY <1>2, <1>4, <1>6 DEF CountInv, Holders
<1>11. QED
  BY <1>7, <1>8, <1>9, <1>10

\* One user more, one less.
LEMMA UsersCount ==
  ASSUME NEW q, NEW u \in QueueUsers, NEW F, F \subseteq QueueUsers
  PROVE  /\ IsFiniteSet(F) /\ Cardinality(F) \in Nat
         /\ u \notin F => Cardinality(F \cup {u}) = Cardinality(F) + 1
         /\ u \in F => Cardinality(F \ {u}) = Cardinality(F) - 1
<1>1. IsFiniteSet(F)
  BY QueueNumbers, FS_Subset
<1>2. QED
  BY <1>1, FS_CardinalityType, FS_AddElement, FS_RemoveElement

QueueTable == [QueueNo -> QueueObj]

\* qs2 is qs but for one field of one queue.
OtherPrevious(qs, qs2, q, x) ==
  /\ qs2 \in QueueTable
  /\ \A p \in QueueNo :
       /\ qs2[p].previous = IF p = q THEN x ELSE qs[p].previous
       /\ qs2[p].name = qs[p].name /\ qs2[p].i2_refcount = qs[p].i2_refcount
       /\ qs2[p].next = qs[p].next /\ qs2[p].state = qs[p].state
OtherNext(qs, qs2, q, x) ==
  /\ qs2 \in QueueTable
  /\ \A p \in QueueNo :
       /\ qs2[p].next = IF p = q THEN x ELSE qs[p].next
       /\ qs2[p].name = qs[p].name /\ qs2[p].i2_refcount = qs[p].i2_refcount
       /\ qs2[p].previous = qs[p].previous /\ qs2[p].state = qs[p].state
OtherState(qs, qs2, q, x) ==
  /\ qs2 \in QueueTable
  /\ \A p \in QueueNo :
       /\ qs2[p].state = IF p = q THEN x ELSE qs[p].state
       /\ qs2[p].name = qs[p].name /\ qs2[p].i2_refcount = qs[p].i2_refcount
       /\ qs2[p].previous = qs[p].previous /\ qs2[p].next = qs[p].next
OtherCount(qs, qs2, q, x) ==
  /\ qs2 \in QueueTable
  /\ \A p \in QueueNo :
       /\ qs2[p].i2_refcount = IF p = q THEN x ELSE qs[p].i2_refcount
       /\ qs2[p].name = qs[p].name /\ qs2[p].previous = qs[p].previous
       /\ qs2[p].next = qs[p].next /\ qs2[p].state = qs[p].state

\* What writing one object's previous changes ...
LEMMA SetPrevious ==
  ASSUME NEW qs \in QueueTable, NEW q \in QueueNo, NEW x \in 0 .. MaxQueues
  PROVE  OtherPrevious(qs, [qs EXCEPT ![q].previous = x], q, x)
<1> DEFINE qs2 == [qs EXCEPT ![q].previous = x]
<1>1. qs2[q] = [qs[q] EXCEPT !.previous = x] /\ \A p \in QueueNo : p # q => qs2[p] = qs[p]
  BY DEF QueueTable
<1>2. qs[q] \in QueueObj
  BY DEF QueueTable
<1>3. /\ qs2[q] \in QueueObj /\ qs2[q].previous = x
      /\ qs2[q].name = qs[q].name /\ qs2[q].i2_refcount = qs[q].i2_refcount
      /\ qs2[q].next = qs[q].next /\ qs2[q].state = qs[q].state
  BY <1>1, <1>2 DEF QueueObj
<1>4. qs2 \in QueueTable
  BY <1>3 DEF QueueTable
<1> HIDE DEF qs2
<1>5. OtherPrevious(qs, qs2, q, x)
  BY <1>1, <1>3, <1>4 DEF OtherPrevious
<1>6. QED
  BY <1>5 DEF qs2

\* ... its next ...
LEMMA SetNext ==
  ASSUME NEW qs \in QueueTable, NEW q \in QueueNo, NEW x \in 0 .. MaxQueues
  PROVE  OtherNext(qs, [qs EXCEPT ![q].next = x], q, x)
<1> DEFINE qs2 == [qs EXCEPT ![q].next = x]
<1>1. qs2[q] = [qs[q] EXCEPT !.next = x] /\ \A p \in QueueNo : p # q => qs2[p] = qs[p]
  BY DEF QueueTable
<1>2. qs[q] \in QueueObj
  BY DEF QueueTable
<1>3. /\ qs2[q] \in QueueObj /\ qs2[q].next = x
      /\ qs2[q].name = qs[q].name /\ qs2[q].i2_refcount = qs[q].i2_refcount
      /\ qs2[q].previous = qs[q].previous /\ qs2[q].state = qs[q].state
  BY <1>1, <1>2 DEF QueueObj
<1>4. qs2 \in QueueTable
  BY <1>3 DEF QueueTable
<1> HIDE DEF qs2
<1>5. OtherNext(qs, qs2, q, x)
  BY <1>1, <1>3, <1>4 DEF OtherNext
<1>6. QED
  BY <1>5 DEF qs2

\* ... its state ...
LEMMA SetState ==
  ASSUME NEW qs \in QueueTable, NEW q \in QueueNo, NEW x \in QueueState
  PROVE  OtherState(qs, [qs EXCEPT ![q].state = x], q, x)
<1> DEFINE qs2 == [qs EXCEPT ![q].state = x]
<1>1. qs2[q] = [qs[q] EXCEPT !.state = x] /\ \A p \in QueueNo : p # q => qs2[p] = qs[p]
  BY DEF QueueTable
<1>2. qs[q] \in QueueObj
  BY DEF QueueTable
<1>3. /\ qs2[q] \in QueueObj /\ qs2[q].state = x
      /\ qs2[q].name = qs[q].name /\ qs2[q].i2_refcount = qs[q].i2_refcount
      /\ qs2[q].previous = qs[q].previous /\ qs2[q].next = qs[q].next
  BY <1>1, <1>2 DEF QueueObj
<1>4. qs2 \in QueueTable
  BY <1>3 DEF QueueTable
<1> HIDE DEF qs2
<1>5. OtherState(qs, qs2, q, x)
  BY <1>1, <1>3, <1>4 DEF OtherState
<1>6. QED
  BY <1>5 DEF qs2

\* ... and its count.
LEMMA SetCount ==
  ASSUME NEW qs \in QueueTable, NEW q \in QueueNo, NEW x \in Int
  PROVE  OtherCount(qs, [qs EXCEPT ![q].i2_refcount = x], q, x)
<1> DEFINE qs2 == [qs EXCEPT ![q].i2_refcount = x]
<1>1. qs2[q] = [qs[q] EXCEPT !.i2_refcount = x] /\ \A p \in QueueNo : p # q => qs2[p] = qs[p]
  BY DEF QueueTable
<1>2. qs[q] \in QueueObj
  BY DEF QueueTable
<1>3. /\ qs2[q] \in QueueObj /\ qs2[q].i2_refcount = x
      /\ qs2[q].name = qs[q].name /\ qs2[q].previous = qs[q].previous
      /\ qs2[q].next = qs[q].next /\ qs2[q].state = qs[q].state
  BY <1>1, <1>2 DEF QueueObj
<1>4. qs2 \in QueueTable
  BY <1>3 DEF QueueTable
<1> HIDE DEF qs2
<1>5. OtherCount(qs, qs2, q, x)
  BY <1>1, <1>3, <1>4 DEF OtherCount
<1>6. QED
  BY <1>5 DEF qs2

\* The ring that msg_q_list_add makes.
QueueIn(q, new, h) ==
  /\ new \in QueueTable /\ new[q].state = "listed"
  /\ \A p \in QueueNo : /\ new[p].name = q_obj[p].name /\ new[p].i2_refcount = q_obj[p].i2_refcount
                        /\ p # q => new[p].state = q_obj[p].state
  /\ RingOf(ListedQs \cup {q}, h, new)

\* msg_q_list_add and the new state make the ring of one more queue.
LEMMA QueueAdds ==
  ASSUME QueueType, RingInv, NEW q \in QueueNo, q_obj[q].state # "listed"
  PROVE  QueueIn(q, [Q!msg_q_list_add(q_obj, q) EXCEPT ![q].state = "listed"],
                 IF s_msg_q_list = 0 THEN q ELSE s_msg_q_list)
<1> DEFINE new == [Q!msg_q_list_add(q_obj, q) EXCEPT ![q].state = "listed"]
           h == IF s_msg_q_list = 0 THEN q ELSE s_msg_q_list
<1> SUFFICES QueueIn(q, new, h)
  OBVIOUS
<1> HIDE DEF new, h
<1> USE QueueNumbers
<1>0. q_obj \in QueueTable /\ "listed" \in QueueState /\ q \notin ListedQs /\ q \in 0 .. MaxQueues
      /\ ListedQs \subseteq QueueNo
  BY DEF QueueType, QueueTable, QueueState, ListedQs
<1>1. CASE s_msg_q_list = 0
  <2> DEFINE a == [q_obj EXCEPT ![q].previous = q]
             b == [a EXCEPT ![q].next = q]
  <2>1. new = [b EXCEPT ![q].state = "listed"]
    BY <1>1 DEF Q!msg_q_list_add, new
  <2> HIDE DEF a, b
  <2>2. OtherPrevious(q_obj, a, q, q)
    BY <1>0, SetPrevious DEF a
  <2>3. a \in QueueTable
    BY <2>2 DEF OtherPrevious
  <2>4. OtherNext(a, b, q, q)
    BY <1>0, <2>3, SetNext DEF b
  <2>5. b \in QueueTable
    BY <2>4 DEF OtherNext
  <2>6. OtherState(b, new, q, "listed")
    BY <1>0, <2>1, <2>5, SetState
  <2>7. ListedQs = {} /\ h = q
    BY <1>1 DEF RingInv, h
  <2>8. new[q].next = q /\ new[q].previous = q
    BY <2>2, <2>4, <2>6 DEF OtherPrevious, OtherNext, OtherState
  <2>9. RingOf(ListedQs \cup {q}, h, new)
    <3>1. RingOf({q}, q, new)
      BY <2>8, RingStarts
    <3>2. QED
      BY <2>7, <3>1
  <2>10. QED
    BY <2>2, <2>4, <2>6, <2>9 DEF OtherPrevious, OtherNext, OtherState, QueueIn
<1>2. CASE s_msg_q_list # 0
  <2> DEFINE s == s_msg_q_list
             l == q_obj[s].previous
             a == [q_obj EXCEPT ![q].previous = l]
             b == [a EXCEPT ![q].next = s]
             c == [b EXCEPT ![l].next = q]
             d == [c EXCEPT ![s].previous = q]
  <2>1. new = [d EXCEPT ![q].state = "listed"]
    BY <1>2 DEF Q!msg_q_list_add, new
  <2>2. /\ RingOf(ListedQs, s, q_obj) /\ h = s
    BY <1>2 DEF RingInv, h
  <2>3. s \in ListedQs /\ l \in ListedQs
    BY <2>2 DEF RingOf
  <2>4. s \in QueueNo /\ l \in QueueNo /\ s \in 0 .. MaxQueues /\ l \in 0 .. MaxQueues /\ s # q /\ l # q
    BY <2>3, <1>0
  <2> HIDE DEF a, b, c, d, l, s
  <2>5. OtherPrevious(q_obj, a, q, l)
    BY <1>0, <2>4, SetPrevious DEF a
  <2>6. a \in QueueTable
    BY <2>5 DEF OtherPrevious
  <2>7. OtherNext(a, b, q, s)
    BY <2>4, <2>6, SetNext DEF b
  <2>8. b \in QueueTable
    BY <2>7 DEF OtherNext
  <2>9. OtherNext(b, c, l, q)
    BY <1>0, <2>4, <2>8, SetNext DEF c
  <2>10. c \in QueueTable
    BY <2>9 DEF OtherNext
  <2>11. OtherPrevious(c, d, s, q)
    BY <1>0, <2>4, <2>10, SetPrevious DEF d
  <2>12. d \in QueueTable
    BY <2>11 DEF OtherPrevious
  <2>13. OtherState(d, new, q, "listed")
    BY <1>0, <2>1, <2>12, SetState
  <2>14. /\ new[q].next = s /\ new[q].previous = l /\ new[l].next = q /\ new[s].previous = q
         /\ \A p \in ListedQs : /\ p # l => new[p].next = q_obj[p].next
                                /\ p # s => new[p].previous = q_obj[p].previous
    BY <1>0, <2>4, <2>5, <2>7, <2>9, <2>11, <2>13 DEF OtherPrevious, OtherNext, OtherState
  <2>15. PutBetween(ListedQs, l, s, q_obj, q, new)
    BY <1>0, <2>14 DEF PutBetween, l
  <2>16. RingOf(ListedQs \cup {q}, s, new)
    BY <2>2, <2>15, RingAdds
  <2>17. /\ new \in QueueTable /\ new[q].state = "listed"
         /\ \A p \in QueueNo : /\ new[p].name = q_obj[p].name /\ new[p].i2_refcount = q_obj[p].i2_refcount
                               /\ p # q => new[p].state = q_obj[p].state
    BY <2>5, <2>7, <2>9, <2>11, <2>13 DEF OtherPrevious, OtherNext, OtherState
  <2>18. QED
    BY <2>2, <2>16, <2>17 DEF QueueIn
<1>3. QED
  BY <1>1, <1>2

\* The ring that msg_q_list_remove leaves.
QueueGone(q, new, h) ==
  /\ new \in QueueTable /\ new[q].state = "removed"
  /\ \A p \in QueueNo : /\ new[p].name = q_obj[p].name
                        /\ p # q => /\ new[p].state = q_obj[p].state
                                    /\ new[p].i2_refcount = q_obj[p].i2_refcount
  /\ h \in 0 .. MaxQueues
  /\ IF h = 0 THEN ListedQs \ {q} = {} ELSE RingOf(ListedQs \ {q}, h, new)

\* msg_q_list_remove and the new state make the ring of one queue less.
LEMMA QueueRemoves ==
  ASSUME QueueType, RingInv, NEW q \in ListedQs, NEW x \in Int, NEW less, OtherCount(q_obj, less, q, x)
  PROVE  QueueGone(q, [Q!msg_q_list_remove(less, q) EXCEPT ![q].state = "removed"], Q!HeadAfterRemove(q))
<1> DEFINE new == [Q!msg_q_list_remove(less, q) EXCEPT ![q].state = "removed"]
           h == Q!HeadAfterRemove(q)
<1> SUFFICES QueueGone(q, new, h)
  OBVIOUS
<1> HIDE DEF new, h
<1> USE QueueNumbers
<1>0. /\ q_obj \in QueueTable /\ "removed" \in QueueState /\ q \in QueueNo
      /\ ListedQs \subseteq QueueNo /\ s_msg_q_list # 0 /\ RingOf(ListedQs, s_msg_q_list, q_obj)
  BY DEF QueueType, QueueTable, QueueState, ListedQs, RingInv
<1> DEFINE s == s_msg_q_list
           a == q_obj[q].previous
           b == q_obj[q].next
           f == [less EXCEPT ![a].next = b]
           g == [f EXCEPT ![b].previous = a]
<1>1. a \in ListedQs /\ b \in ListedQs /\ s \in ListedQs /\ q_obj[b].previous = q /\ q_obj[a].next = q
  BY <1>0 DEF RingOf
<1>2. a \in QueueNo /\ b \in QueueNo /\ s \in QueueNo /\ a \in 0 .. MaxQueues /\ b \in 0 .. MaxQueues
  BY <1>0, <1>1
<1>4. less \in QueueTable /\ less[q].previous = a /\ less[q].next = b
  BY <1>0 DEF OtherCount
<1>5. CASE a = q
  <2>1. new = [less EXCEPT ![q].state = "removed"]
    BY <1>4, <1>5 DEF Q!msg_q_list_remove, new
  <2>2. ListedQs = {q}
    BY <1>0, <1>5, RingOfOne
  <2>3. h = 0
    BY <1>5 DEF Q!HeadAfterRemove, h
  <2>4. OtherState(less, new, q, "removed")
    BY <1>0, <1>4, <2>1, SetState
  <2>5. QED
    BY <1>0, <2>2, <2>3, <2>4 DEF OtherCount, OtherState, QueueGone
<1>6. CASE a # q
  <2> HIDE DEF s, a, b, f, g
  <2>1. OtherNext(less, f, a, b)
    BY <1>2, <1>4, SetNext DEF f
  <2>2. f \in QueueTable
    BY <2>1 DEF OtherNext
  <2>3. OtherPrevious(f, g, b, a)
    BY <1>2, <2>2, SetPrevious DEF g
  <2>4. f[q].next = b /\ f[q].previous = a /\ g \in QueueTable
    BY <1>0, <1>4, <1>6, <2>1, <2>3 DEF OtherNext, OtherPrevious
  <2>5. Q!msg_q_list_remove(less, q) = g
    BY <1>4, <1>6, <2>4 DEF Q!msg_q_list_remove, f, g
  <2>6. OtherState(g, new, q, "removed")
    <3>1. new = [g EXCEPT ![q].state = "removed"]
      BY <2>5, Zenon DEF new
    <3>2. QED
      BY <1>0, <2>4, <3>1, SetState
  <2>7. h = IF s = q THEN b ELSE s
    BY <1>6 DEF Q!HeadAfterRemove, a, b, s, h
  <2>8. /\ new[a].next = b /\ new[b].previous = a
        /\ \A p \in ListedQs : /\ p # a /\ p # q => new[p].next = q_obj[p].next
                               /\ p # b /\ p # q => new[p].previous = q_obj[p].previous
    <3>1. ASSUME NEW p \in QueueNo PROVE new[p].next = IF p = a THEN b ELSE q_obj[p].next
      <4>1. less[p].next = q_obj[p].next
        BY DEF OtherCount
      <4>2. f[p].next = IF p = a THEN b ELSE less[p].next
        BY <2>1 DEF OtherNext
      <4>3. g[p].next = f[p].next
        BY <2>3 DEF OtherPrevious
      <4>4. new[p].next = g[p].next
        BY <2>6 DEF OtherState
      <4>5. QED
        BY <4>1, <4>2, <4>3, <4>4
    <3>2. ASSUME NEW p \in QueueNo PROVE new[p].previous = IF p = b THEN a ELSE q_obj[p].previous
      <4>1. less[p].previous = q_obj[p].previous
        BY DEF OtherCount
      <4>2. f[p].previous = less[p].previous
        BY <2>1 DEF OtherNext
      <4>3. g[p].previous = IF p = b THEN a ELSE f[p].previous
        BY <2>3 DEF OtherPrevious
      <4>4. new[p].previous = g[p].previous
        BY <2>6 DEF OtherState
      <4>5. QED
        BY <4>1, <4>2, <4>3, <4>4
    <3>3. QED
      BY <1>0, <1>2, <3>1, <3>2
  <2>9. TakenOut(ListedQs, a, q, b, q_obj, new)
    BY <1>6, <2>8 DEF TakenOut, a, b
  <2>10. RingOf(ListedQs \ {q}, h, new)
    BY <1>0, <2>7, <2>9, RingRemoves DEF s
  <2>11. h # 0 /\ h \in 0 .. MaxQueues
    BY <1>2, <2>7
  <2>12. /\ new \in QueueTable /\ new[q].state = "removed"
         /\ \A p \in QueueNo : /\ new[p].name = q_obj[p].name
                               /\ p # q => /\ new[p].state = q_obj[p].state
                                           /\ new[p].i2_refcount = q_obj[p].i2_refcount
    <3>1. ASSUME NEW p \in QueueNo PROVE new[p].name = q_obj[p].name
      BY <2>1, <2>3, <2>6 DEF OtherCount, OtherNext, OtherPrevious, OtherState
    <3>2. ASSUME NEW p \in QueueNo, p # q PROVE new[p].state = q_obj[p].state
      BY <2>1, <2>3, <2>6, <3>2 DEF OtherCount, OtherNext, OtherPrevious, OtherState
    <3>3. ASSUME NEW p \in QueueNo, p # q PROVE new[p].i2_refcount = q_obj[p].i2_refcount
      BY <2>1, <2>3, <2>6, <3>3 DEF OtherCount, OtherNext, OtherPrevious, OtherState
    <3>4. new \in QueueTable /\ new[q].state = "removed"
      BY <1>0, <2>6 DEF OtherState
    <3>5. QED
      BY <3>1, <3>2, <3>3, <3>4
  <2>13. QED
    BY <2>10, <2>11, <2>12 DEF QueueGone
<1>7. QED
  BY <1>5, <1>6
\* A queue that is given back to the allocator.
LEMMA FreedQueue ==
  [Q!None EXCEPT !.state = "freed"] \in QueueObj /\ [Q!None EXCEPT !.state = "freed"].state = "freed"
<1> USE QueueNumbers
<1>1. [Q!None EXCEPT !.state = "freed"] =
        [name |-> "none", i2_refcount |-> 0, previous |-> 0, next |-> 0, state |-> "freed"]
  BY DEF Q!None
<1>2. [name |-> "none", i2_refcount |-> 0, previous |-> 0, next |-> 0, state |-> "freed"] \in QueueObj
  BY DEF QueueObj, QueueState
<1>3. QED
  BY <1>1, <1>2

\* Freeing a queue that is in nobody's hands and not in the list.
LEMMA QueueLeaves ==
  ASSUME MsgQListInv, NEW u \in QueueUsers, user[u].at # "idle", NEW q, q = user[u].q,
         q_obj' = [q_obj EXCEPT ![q] = [Q!None EXCEPT !.state = "freed"]],
         user' = [user EXCEPT ![u] = Q!Resting], UNCHANGED <<s_msg_q_list, refs, q_wild>>
  PROVE  MsgQListInv'
<1> USE QueueNumbers DEF MsgQListInv
<1> DEFINE new == [Q!None EXCEPT !.state = "freed"]
<1>1. new \in QueueObj /\ new.state = "freed"
  BY FreedQueue
<1>2. q \in QueueNo /\ q_obj[q].state \in {"private", "removed"}
  BY DEF BusyInv, QueueType
<1> HIDE DEF new
<1>3. /\ q_obj' \in [QueueNo -> QueueObj] /\ q_obj'[q] = new
      /\ \A p \in QueueNo : p # q => q_obj'[p] = q_obj[p]
  BY <1>1, <1>2 DEF QueueType, new
<1>4. Q!Resting \in [at : {"idle", "create", "free"}, q : 0 .. MaxQueues] /\ Q!Resting.at = "idle"
  BY DEF Q!Resting
<1>5. /\ user' \in [QueueUsers -> [at : {"idle", "create", "free"}, q : 0 .. MaxQueues]]
      /\ user'[u] = Q!Resting /\ \A v \in QueueUsers : v # u => user'[v] = user[v]
  BY <1>4 DEF QueueType
<1>6. ListedQs' = ListedQs /\ ListedQs \subseteq QueueNo /\ q \notin ListedQs
  BY <1>1, <1>2, <1>3 DEF ListedQs
<1>7. QueueType'
  BY <1>3, <1>5 DEF QueueType
<1>8. RingInv'
  BY <1>3, <1>6, RingStays
<1>9. BusyInv'
  <2>1. ASSUME NEW v \in QueueUsers, user'[v].at # "idle"
        PROVE  user'[v] = user[v] /\ user[v].q # q /\ user[v].q \in QueueNo /\ q_obj'[user[v].q] = q_obj[user[v].q]
    BY <2>1, <1>3, <1>4, <1>5 DEF BusyInv
  <2>2. \A v \in QueueUsers : user'[v].at = "idle" => user'[v] = Q!Resting
    BY <1>5 DEF BusyInv
  <2>3. QED
    BY <2>1, <2>2 DEF BusyInv
<1>10. CountInv'
  BY <1>3, <1>6 DEF CountInv, Holders
<1>11. QED
  BY <1>7, <1>8, <1>9, <1>10

\* x_msg_q_delete's free.
LEMMA QueueFrees ==
  ASSUME MsgQListInv, NEW u \in QueueUsers, Q!DeleteFrees(u)
  PROVE  MsgQListInv'
<1> USE QueueNumbers
<1>1. user[u].at = "free" /\ q_obj[user[u].q].state = "removed" /\ q_wild = FALSE
  BY DEF Q!DeleteFrees, MsgQListInv, BusyInv, QueueType
<1>2. q_wild' = FALSE
  BY <1>1 DEF Q!DeleteFrees, Q!Freed
<1>3. QED
  BY <1>1, <1>2, QueueLeaves DEF Q!DeleteFrees

\* x_msg_q_create under the mutex.
LEMMA QueueCreateAdds ==
  ASSUME MsgQListInv, NEW u \in QueueUsers, Q!CreateAdds(u)
  PROVE  MsgQListInv'
<1> USE QueueNumbers
<1> DEFINE q == user[u].q
           found == Q!msg_q_find_obj(q_obj[q].name)
<1>1. /\ user[u].at = "create" /\ user' = [user EXCEPT ![u] = Q!Resting] /\ q_wild' = q_wild
      /\ found # {} => /\ q_obj' = [q_obj EXCEPT ![q] = [Q!None EXCEPT !.state = "freed"]]
                       /\ UNCHANGED <<s_msg_q_list, refs>>
      /\ found = {} => /\ q_obj' = [Q!msg_q_list_add(q_obj, q) EXCEPT ![q].state = "listed"]
                       /\ s_msg_q_list' = IF s_msg_q_list = 0 THEN q ELSE s_msg_q_list
                       /\ refs' = [refs EXCEPT ![u] = @ \cup {q}]
  BY DEF Q!CreateAdds
<1>2. CASE found # {}
  BY <1>1, <1>2, QueueLeaves
<1>3. CASE found = {}
  <2> USE DEF MsgQListInv
  <2>1. /\ q \in QueueNo /\ q_obj[q].state = "private" /\ q_obj[q].i2_refcount = 1
        /\ ListedQs \subseteq QueueNo /\ q \notin ListedQs
    BY <1>1 DEF BusyInv, ListedQs
  <2>2. \A p \in ListedQs : q_obj[p].name # q_obj[q].name
    BY <1>3, InListIs DEF Q!msg_q_find_obj
  <2> HIDE DEF q, found
  <2>3. s_msg_q_list' = IF s_msg_q_list = 0 THEN q ELSE s_msg_q_list
    BY <1>1, <1>3
  <2>4. /\ q_obj' \in QueueTable /\ q_obj'[q].state = "listed"
        /\ \A p \in QueueNo : /\ q_obj'[p].name = q_obj[p].name /\ q_obj'[p].i2_refcount = q_obj[p].i2_refcount
                              /\ p # q => q_obj'[p].state = q_obj[p].state
        /\ RingOf(ListedQs \cup {q}, s_msg_q_list', q_obj')
    <3>1. q_obj' = [Q!msg_q_list_add(q_obj, q) EXCEPT ![q].state = "listed"]
      BY <1>1, <1>3
    <3>2. q_obj[q].state # "listed"
      BY <2>1
    <3>3. QueueIn(q, q_obj', s_msg_q_list')
      BY <2>1, <2>3, <3>1, <3>2, QueueAdds
    <3>4. QED
      BY <3>3 DEF QueueIn
  <2>5. ListedQs' = ListedQs \cup {q}
    BY <2>1, <2>4 DEF ListedQs
  <2>6. Q!Resting \in [at : {"idle", "create", "free"}, q : 0 .. MaxQueues] /\ Q!Resting.at = "idle"
    BY DEF Q!Resting
  <2>7. /\ user' \in [QueueUsers -> [at : {"idle", "create", "free"}, q : 0 .. MaxQueues]]
        /\ user'[u] = Q!Resting /\ \A v \in QueueUsers : v # u => user'[v] = user[v]
    BY <1>1, <2>6 DEF QueueType
  <2>8. /\ refs' \in [QueueUsers -> SUBSET QueueNo] /\ refs'[u] = refs[u] \cup {q}
        /\ \A v \in QueueUsers : v # u => refs'[v] = refs[v]
    BY <1>1, <1>3, <2>1 DEF QueueType
  <2>9. s_msg_q_list' \in 0 .. MaxQueues /\ s_msg_q_list' # 0
    BY <2>1, <2>3 DEF QueueType
  <2>10. QueueType'
    BY <1>1, <2>4, <2>7, <2>8, <2>9 DEF QueueType, QueueTable
  <2>11. RingInv'
    <3>1. \A p, r \in ListedQs' : q_obj'[p].name = q_obj'[r].name => p = r
      <4>1. \A p \in ListedQs' : q_obj'[p].name = q_obj[p].name
        BY <2>1, <2>4, <2>5
      <4>2. \A p, r \in ListedQs : q_obj[p].name = q_obj[r].name => p = r
        BY DEF RingInv
      <4>3. QED
        BY <2>2, <2>5, <4>1, <4>2
    <3>2. RingOf(ListedQs', s_msg_q_list', q_obj')
      BY <2>4, <2>5
    <3>3. ListedQs' # {}
      BY <2>5
    <3>4. QED
      BY <2>9, <3>1, <3>2, <3>3 DEF RingInv
  <2>12. BusyInv'
    <3>1. ASSUME NEW v \in QueueUsers, user'[v].at # "idle"
          PROVE  /\ user'[v] = user[v] /\ user[v].q # q /\ user[v].q \in QueueNo
                 /\ q_obj'[user[v].q].state = q_obj[user[v].q].state
                 /\ q_obj'[user[v].q].i2_refcount = q_obj[user[v].q].i2_refcount
      BY <3>1, <1>1, <2>4, <2>6, <2>7 DEF BusyInv, q
    <3>2. \A v \in QueueUsers : user'[v].at = "idle" => user'[v] = Q!Resting
      BY <2>7 DEF BusyInv
    <3>3. QED
      BY <3>1, <3>2 DEF BusyInv
  <2>13. CountInv'
    <3>1. \A v \in QueueUsers : refs'[v] \subseteq ListedQs'
      BY <2>5, <2>8 DEF CountInv
    <3>2. \A v \in QueueUsers : q \notin refs[v]
      BY <2>1 DEF CountInv
    <3>3. Holders(refs', q) = {u} /\ \A p \in ListedQs : Holders(refs', p) = Holders(refs, p)
      BY <2>1, <2>8, <3>2 DEF Holders
    <3>4. Cardinality({u}) = 1
      BY FS_Singleton
    <3>5. \A p \in ListedQs' : q_obj'[p].i2_refcount = Cardinality(Holders(refs', p))
      BY <2>1, <2>4, <2>5, <3>3, <3>4 DEF CountInv
    <3>6. QED
      BY <3>1, <3>5 DEF CountInv, Holders
  <2>14. QED
    BY <2>10, <2>11, <2>12, <2>13
<1>4. QED
  BY <1>2, <1>3
\* x_msg_q_attach.
LEMMA QueueAttaches ==
  ASSUME MsgQListInv, NEW u \in QueueUsers, NEW name \in QueueNames, Q!x_msg_q_attach(u, name)
  PROVE  MsgQListInv'
<1> USE QueueNumbers DEF MsgQListInv
<1>1. PICK q \in Q!msg_q_find_obj(name) :
        /\ q \notin refs[u] /\ refs' = [refs EXCEPT ![u] = @ \cup {q}]
        /\ q_obj' = [q_obj EXCEPT ![q].i2_refcount = @ + 1]
  BY DEF Q!x_msg_q_attach
<1>2. UNCHANGED <<s_msg_q_list, user, q_wild>>
  BY DEF Q!x_msg_q_attach
<1>3. q \in ListedQs /\ q \in QueueNo /\ ListedQs \subseteq QueueNo
  BY <1>1, InListIs DEF Q!msg_q_find_obj, ListedQs
<1> DEFINE n == q_obj[q].i2_refcount + 1
<1>4. n \in Int /\ q_obj \in QueueTable
  BY <1>3 DEF QueueType, QueueTable, QueueObj
<1>5. q_obj' = [q_obj EXCEPT ![q].i2_refcount = n]
  BY <1>1
<1> HIDE DEF n
<1>6. OtherCount(q_obj, q_obj', q, n)
  BY <1>3, <1>4, <1>5, SetCount
<1>7. /\ q_obj' \in QueueTable
      /\ \A p \in QueueNo : /\ q_obj'[p].next = q_obj[p].next /\ q_obj'[p].previous = q_obj[p].previous
                            /\ q_obj'[p].name = q_obj[p].name /\ q_obj'[p].state = q_obj[p].state
                            /\ q_obj'[p].i2_refcount = IF p = q THEN n ELSE q_obj[p].i2_refcount
  BY <1>6 DEF OtherCount
<1>8. ListedQs' = ListedQs
  BY <1>7 DEF ListedQs
<1>9. /\ refs' \in [QueueUsers -> SUBSET QueueNo] /\ refs'[u] = refs[u] \cup {q}
      /\ \A v \in QueueUsers : v # u => refs'[v] = refs[v]
  BY <1>1, <1>3 DEF QueueType
<1>10. QueueType'
  BY <1>2, <1>7, <1>9 DEF QueueType, QueueTable
<1>11. RingInv'
  BY <1>2, <1>3, <1>7, <1>8, RingStays
<1>12. BusyInv'
  <2>1. \A v \in QueueUsers : user[v].at # "idle" => user[v].q \in QueueNo /\ user[v].q # q
    BY <1>3 DEF BusyInv, ListedQs, QueueType
  <2>2. QED
    BY <1>2, <1>7, <2>1 DEF BusyInv
<1>13. CountInv'
  <2>1. \A v \in QueueUsers : refs'[v] \subseteq ListedQs'
    BY <1>3, <1>8, <1>9 DEF CountInv
  <2>2. Holders(refs', q) = Holders(refs, q) \cup {u} /\ u \notin Holders(refs, q)
    BY <1>1, <1>9 DEF Holders
  <2>3. \A p \in ListedQs : p # q => Holders(refs', p) = Holders(refs, p)
    BY <1>9 DEF Holders
  <2>4. Cardinality(Holders(refs', q)) = n
    <3>1. Holders(refs, q) \subseteq QueueUsers
      BY DEF Holders
    <3>2. Cardinality(Holders(refs, q) \cup {u}) = Cardinality(Holders(refs, q)) + 1
      BY <2>2, <3>1, UsersCount
    <3>3. q_obj[q].i2_refcount = Cardinality(Holders(refs, q))
      BY <1>3 DEF CountInv
    <3>4. QED
      BY <2>2, <3>2, <3>3 DEF n
  <2>5. \A p \in ListedQs' : q_obj'[p].i2_refcount = Cardinality(Holders(refs', p))
    BY <1>3, <1>7, <1>8, <2>3, <2>4 DEF CountInv
  <2>6. QED
    BY <2>1, <2>5 DEF CountInv
<1>14. QED
  BY <1>10, <1>11, <1>12, <1>13

\* x_msg_q_delete under the mutex.
LEMMA QueueDeletes ==
  ASSUME MsgQListInv, NEW u \in QueueUsers, NEW q \in QueueNo, Q!Delete(u, q)
  PROVE  MsgQListInv'
<1> USE QueueNumbers DEF MsgQListInv
<1> DEFINE n == q_obj[q].i2_refcount - 1
           less == [q_obj EXCEPT ![q].i2_refcount = n]
<1>1. /\ user[u] = Q!Resting /\ q \in refs[u] /\ refs' = [refs EXCEPT ![u] = @ \ {q}]
      /\ q_wild' = (q_wild \/ Q!Freed(q))
      /\ less[q].i2_refcount > 0 => q_obj' = less /\ UNCHANGED <<s_msg_q_list, user>>
      /\ ~(less[q].i2_refcount > 0) =>
           /\ q_obj' = [Q!msg_q_list_remove(less, q) EXCEPT ![q].state = "removed"]
           /\ s_msg_q_list' = Q!HeadAfterRemove(q)
           /\ user' = [user EXCEPT ![u] = [at |-> "free", q |-> q]]
  BY DEF Q!Delete
<1>2. q \in ListedQs /\ q_obj[q].state = "listed" /\ ListedQs \subseteq QueueNo
  BY <1>1 DEF CountInv, ListedQs
<1>3. q_wild' = FALSE
  BY <1>1, <1>2 DEF Q!Freed, QueueType
<1>4. n \in Int /\ q_obj \in QueueTable
  BY DEF QueueType, QueueTable, QueueObj
<1> HIDE DEF n
<1>5. OtherCount(q_obj, less, q, n)
  BY <1>4, SetCount
<1> HIDE DEF less
<1>6. /\ less \in QueueTable
      /\ \A p \in QueueNo : /\ less[p].next = q_obj[p].next /\ less[p].previous = q_obj[p].previous
                            /\ less[p].name = q_obj[p].name /\ less[p].state = q_obj[p].state
                            /\ less[p].i2_refcount = IF p = q THEN n ELSE q_obj[p].i2_refcount
  BY <1>5 DEF OtherCount
<1>7. /\ refs' \in [QueueUsers -> SUBSET QueueNo] /\ refs'[u] = refs[u] \ {q}
      /\ \A v \in QueueUsers : v # u => refs'[v] = refs[v]
  BY <1>1 DEF QueueType
<1>8. \A p \in QueueNo : p # q => Holders(refs', p) = Holders(refs, p)
  BY <1>7 DEF Holders
<1>9. Cardinality(Holders(refs', q)) = n /\ n \in Nat /\ IsFiniteSet(Holders(refs', q))
  <2>1. Holders(refs, q) \subseteq QueueUsers /\ Holders(refs', q) \subseteq QueueUsers
    BY DEF Holders
  <2>2. u \in Holders(refs, q) /\ Holders(refs', q) = Holders(refs, q) \ {u}
    BY <1>1, <1>7 DEF Holders
  <2>3. Cardinality(Holders(refs, q) \ {u}) = Cardinality(Holders(refs, q)) - 1
    BY <2>1, <2>2, UsersCount
  <2>4. q_obj[q].i2_refcount = Cardinality(Holders(refs, q))
    BY <1>2 DEF CountInv
  <2>5. Cardinality(Holders(refs', q)) \in Nat /\ IsFiniteSet(Holders(refs', q))
    BY <2>1, UsersCount
  <2>6. QED
    BY <2>2, <2>3, <2>4, <2>5 DEF n
<1>10. CASE n > 0
  <2>1. q_obj' = less /\ UNCHANGED <<s_msg_q_list, user>>
    BY <1>1, <1>6, <1>10
  <2>2. ListedQs' = ListedQs
    BY <1>6, <2>1 DEF ListedQs
  <2>3. QueueType'
    BY <1>3, <1>6, <1>7, <2>1 DEF QueueType, QueueTable
  <2>4. RingInv'
    BY <1>2, <1>6, <2>1, <2>2, RingStays
  <2>5. BusyInv'
    <3>1. \A v \in QueueUsers : user[v].at # "idle" => user[v].q \in QueueNo /\ user[v].q # q
      BY <1>2 DEF BusyInv, QueueType
    <3>2. QED
      BY <1>6, <2>1, <3>1 DEF BusyInv
  <2>6. CountInv'
    <3>1. \A v \in QueueUsers : refs'[v] \subseteq ListedQs'
      BY <1>7, <2>2 DEF CountInv
    <3>2. \A p \in ListedQs' : q_obj'[p].i2_refcount = Cardinality(Holders(refs', p))
      BY <1>2, <1>6, <1>8, <1>9, <2>1, <2>2 DEF CountInv
    <3>3. QED
      BY <3>1, <3>2 DEF CountInv
  <2>7. QED
    BY <2>3, <2>4, <2>5, <2>6
<1>11. CASE ~(n > 0)
  <2>1. /\ q_obj' = [Q!msg_q_list_remove(less, q) EXCEPT ![q].state = "removed"]
        /\ s_msg_q_list' = Q!HeadAfterRemove(q)
        /\ user' = [user EXCEPT ![u] = [at |-> "free", q |-> q]]
    BY <1>1, <1>6, <1>11
  <2>2. QueueGone(q, q_obj', s_msg_q_list')
    BY <1>2, <1>4, <1>5, <2>1, QueueRemoves
  <2>3. /\ q_obj' \in QueueTable /\ q_obj'[q].state = "removed"
        /\ \A p \in QueueNo : /\ q_obj'[p].name = q_obj[p].name
                              /\ p # q => /\ q_obj'[p].state = q_obj[p].state
                                          /\ q_obj'[p].i2_refcount = q_obj[p].i2_refcount
        /\ s_msg_q_list' \in 0 .. MaxQueues
    BY <2>2 DEF QueueGone
  <2>4. ListedQs' = ListedQs \ {q}
    BY <1>2, <2>3 DEF ListedQs
  <2>5. /\ s_msg_q_list' = 0 => ListedQs' = {}
        /\ s_msg_q_list' # 0 => RingOf(ListedQs', s_msg_q_list', q_obj')
    BY <2>2, <2>4 DEF QueueGone
  <2>6. /\ user' \in [QueueUsers -> [at : {"idle", "create", "free"}, q : 0 .. MaxQueues]]
        /\ user'[u] = [at |-> "free", q |-> q] /\ \A v \in QueueUsers : v # u => user'[v] = user[v]
    BY <2>1 DEF QueueType
  <2>7. Holders(refs', q) = {}
    BY <1>9, <1>11, FS_EmptySet
  <2>8. QueueType'
    BY <1>3, <1>7, <2>3, <2>6 DEF QueueType, QueueTable
  <2>9. RingInv'
    <3>1. \A p, r \in ListedQs' : q_obj'[p].name = q_obj'[r].name => p = r
      BY <1>2, <2>3, <2>4 DEF RingInv
    <3>2. s_msg_q_list' # 0 => ListedQs' # {}
      BY <2>5 DEF RingOf
    <3>3. QED
      BY <2>5, <3>1, <3>2 DEF RingInv
  <2>10. BusyInv'
    <3>1. \A v \in QueueUsers : user[v].at # "idle" => user[v].q \in QueueNo /\ user[v].q # q
      BY <1>2 DEF BusyInv, QueueType
    <3>2. ASSUME NEW v \in QueueUsers, v # u, user'[v].at # "idle"
          PROVE  /\ user'[v] = user[v] /\ user[v].q # q /\ user[v].q \in QueueNo
                 /\ q_obj'[user[v].q].state = q_obj[user[v].q].state
                 /\ q_obj'[user[v].q].i2_refcount = q_obj[user[v].q].i2_refcount
      BY <3>1, <3>2, <2>3, <2>6
    <3>3. \A v \in QueueUsers : user'[v].at = "idle" => user'[v] = Q!Resting
      BY <2>6 DEF BusyInv
    <3>4. user'[u].at = "free" /\ user'[u].q = q
      BY <2>6
    <3>5. QED
      BY <2>3, <3>2, <3>3, <3>4 DEF BusyInv
  <2>11. CountInv'
    <3>1. \A v \in QueueUsers : refs'[v] \subseteq ListedQs'
      BY <1>7, <2>4, <2>7 DEF CountInv, Holders
    <3>2. \A p \in ListedQs' : q_obj'[p].i2_refcount = Cardinality(Holders(refs', p))
      BY <1>2, <1>8, <2>3, <2>4 DEF CountInv
    <3>3. QED
      BY <3>1, <3>2 DEF CountInv
  <2>12. QED
    BY <2>8, <2>9, <2>10, <2>11
<1>12. QED
  BY <1>9, <1>10, <1>11

\* The two properties of the list from the invariant.
LEMMA QueuesShow == MsgQListInv => Q!RingExact /\ Q!ReferencesKeep
<1> SUFFICES ASSUME MsgQListInv PROVE Q!RingExact /\ Q!ReferencesKeep
  OBVIOUS
<1> USE QueueNumbers DEF MsgQListInv
<1>1. Q!RingExact
  <2>1. {q \in Q!Queues : q_obj[q].state = "listed"} = ListedQs
    BY DEF ListedQs, QueueNo
  <2>2. Q!InList = ListedQs
    BY InListIs
  <2>3. \A q \in ListedQs : s_msg_q_list # 0
    BY DEF RingInv
  <2>4. ASSUME NEW q \in ListedQs
        PROVE  /\ q_obj[q].next \in ListedQs /\ q_obj[q_obj[q].next].previous = q
               /\ \A p \in ListedQs : p # q => q_obj[p].name # q_obj[q].name
    BY <2>3 DEF RingInv, RingOf
  <2>5. (s_msg_q_list = 0) = (ListedQs = {})
    BY DEF RingInv
  <2>6. QED
    BY <2>1, <2>2, <2>4, <2>5 DEF Q!RingExact
<1>2. Q!ReferencesKeep
  <2>1. \A u \in QueueUsers : \A q \in refs[u] : q_obj[q].state = "listed"
    BY DEF CountInv, ListedQs
  <2>2. \A q \in Q!Queues : q_obj[q].state = "listed" =>
          q_obj[q].i2_refcount = Cardinality({u \in QueueUsers : q \in refs[u]})
    BY DEF CountInv, ListedQs, Holders, QueueNo
  <2>3. QED
    BY <2>1, <2>2 DEF Q!ReferencesKeep, QueueType, Q!Cardinality, Cardinality
<1>3. QED
  BY <1>1, <1>2

\* Every step on the list of queues keeps the invariant.
LEMMA QueueStep == MsgQListInv /\ Q!QNext => MsgQListInv'
<1> SUFFICES ASSUME MsgQListInv, Q!QNext PROVE MsgQListInv'
  OBVIOUS
<1>1. PICK u \in QueueUsers :
        \/ \E name \in QueueNames : Q!Create(u, name) \/ Q!x_msg_q_attach(u, name)
        \/ Q!CreateAdds(u) \/ Q!DeleteFrees(u)
        \/ \E q \in Q!Queues : Q!Delete(u, q)
  BY DEF Q!QNext
<1>2. QED
  BY <1>1, QueueCreates, QueueCreateAdds, QueueAttaches, QueueDeletes, QueueFrees DEF QueueNo

(***************************************************************************)
(* AppSend: for any number of threads, calls and lengths.                  *)
(***************************************************************************)
Data == Seq(Nat)
MsgHeader == [call : Nat, z_msg_len : Nat]
Messages == [header : MsgHeader, data : Data]
SendPlace == {"idle", "self", "alone", "stack", "static", "send_stack", "send_static"}
SendRecord == [at : SendPlace, call : Nat, data : Data, len : Nat]

SendType ==
  /\ snd \in [Senders -> SendRecord]
  /\ parts \in [Senders \cup {"static"} -> Messages]
  /\ block \in Seq({"none", "live", "freed"}) /\ asked \in Seq(Data) /\ Len(block) = Len(asked)
  /\ mq \in Seq(Messages) /\ msgbuf \in Messages
  /\ handled \in Seq([call : Nat, data : Data]) /\ n_faults \in Nat

Calling(t) == snd[t].at # "idle"
InStatic(t) == snd[t].at \in {"static", "send_static"}

\* The message m, or what is at its front, is what was asked for, a.
Carries(m, a) == m.header.z_msg_len = Len(a) /\ D!Front(m.data, Len(a)) = a
IsWhole(m, a) == m.header.z_msg_len = Len(a) /\ m.data = a

\* What a call has to send is what its caller gave, also after the two parts were
\* joined on its own stack.
SenderInv ==
  \A t \in Senders : Calling(t) =>
    /\ snd[t].call \in 1 .. Len(asked)
    /\ snd[t].at = "alone" => asked[snd[t].call] = <<>> /\ snd[t].len = 0
    /\ snd[t].at # "alone" => snd[t].data = asked[snd[t].call] /\ snd[t].len = Len(snd[t].data)
    /\ snd[t].at = "send_stack" => parts[t].header.call = snd[t].call /\ Carries(parts[t], asked[snd[t].call])

\* A block that is not freed belongs to a call that goes on.
BlockInv == \A n \in 1 .. Len(block) : block[n] = "live" => \E t \in Senders : Calling(t) /\ snd[t].call = n

\* One thread at a time uses the static buffer.
StaticInv ==
  /\ n_faults = 0 => \A t \in Senders : ~InStatic(t)
  /\ \A t, u \in Senders : InStatic(t) /\ InStatic(u) => t = u
  /\ \A t \in Senders : snd[t].at = "send_static" =>
       parts["static"].header.call = snd[t].call /\ Carries(parts["static"], asked[snd[t].call])

\* What is queued, received and handled is what was asked for.
DeliveryInv ==
  /\ \A k \in 1 .. Len(mq) : mq[k].header.call \in 1 .. Len(asked) /\ IsWhole(mq[k], asked[mq[k].header.call])
  /\ msgbuf.header.call # 0 => msgbuf.header.call \in 1 .. Len(asked) /\ Carries(msgbuf, asked[msgbuf.header.call])
  /\ \A k \in 1 .. Len(handled) : /\ handled[k].call \in 1 .. Len(asked)
                                  /\ handled[k].data = asked[handled[k].call]

\* A call has one caller.
CallsInv == \A t, u \in Senders : Calling(t) /\ Calling(u) /\ snd[t].call = snd[u].call => t = u

\* A call is in one place.
OnceInv ==
  /\ \A t \in Senders : Calling(t) =>
       /\ \A k \in 1 .. Len(mq) : mq[k].header.call # snd[t].call
       /\ msgbuf.header.call # snd[t].call
       /\ \A k \in 1 .. Len(handled) : handled[k].call # snd[t].call
  /\ \A j, k \in 1 .. Len(mq) : mq[j].header.call = mq[k].header.call => j = k
  /\ \A k \in 1 .. Len(mq) : mq[k].header.call # msgbuf.header.call
  /\ \A k \in 1 .. Len(mq), j \in 1 .. Len(handled) : mq[k].header.call # handled[j].call
  /\ \A j \in 1 .. Len(handled) : msgbuf.header.call # handled[j].call
  /\ \A j, k \in 1 .. Len(handled) : handled[j].call = handled[k].call => j = k

SendInv ==
  /\ SendType /\ SenderInv /\ CallsInv /\ BlockInv
  /\ n_faults <= 1 => StaticInv /\ DeliveryInv /\ OnceInv

\* The name of the static buffer is no thread.
LEMMA SendNumbers ==
  "static" \notin Senders /\ Lengths \subseteq Nat /\ D!Static = "static" /\ D!Junk = 0
BY SendAssumption DEF D!SendAssumption, D!Static, D!Junk

\* memcpy to the front.
LEMMA OverIs ==
  ASSUME NEW old \in Data, NEW new \in Data
  PROVE  D!Over(old, new) \in Data /\ D!Front(D!Over(old, new), Len(new)) = new
<1> DEFINE n == IF Len(new) > Len(old) THEN Len(new) ELSE Len(old)
           o == [k \in 1 .. n |-> IF k <= Len(new) THEN new[k] ELSE old[k]]
<1>0. Len(new) \in Nat /\ Len(old) \in Nat
  BY LenProperties DEF Data
<1>1. n \in Nat /\ Len(new) <= n /\ Len(old) <= n /\ (n = Len(new) \/ n = Len(old))
  BY <1>0
<1>2. D!Over(old, new) = o
  BY DEF D!Over
<1>3. \A k \in 1 .. n : IF k <= Len(new) THEN new[k] \in Nat ELSE old[k] \in Nat
  <2> TAKE k \in 1 .. n
  <2>1. CASE k <= Len(new)
    <3>1. k \in 1 .. Len(new)
      BY <2>1, <1>0, <1>1
    <3>2. QED
      BY <2>1, <3>1, ElementOfSeq DEF Data
  <2>2. CASE ~(k <= Len(new))
    <3>1. k \in 1 .. Len(old)
      BY <2>2, <1>0, <1>1
    <3>2. QED
      BY <2>2, <3>1, ElementOfSeq DEF Data
  <2>3. QED
    BY <2>1, <2>2
<1> HIDE DEF n
<1>4. o \in [1 .. n -> Nat]
  BY <1>3
<1>5. o \in Data /\ Len(o) = n
  BY <1>1, <1>4 DEF Data
<1>6. D!Front(o, Len(new)) = new
  <2>1. D!Front(o, Len(new)) = [k \in 1 .. Len(new) |-> IF k <= Len(o) THEN o[k] ELSE 0]
    BY SendNumbers DEF D!Front
  <2>2. \A k \in 1 .. Len(new) : k <= Len(o) /\ o[k] = new[k]
    BY <1>0, <1>1, <1>5
  <2>3. new \in [1 .. Len(new) -> Nat]
    BY LenProperties DEF Data
  <2>4. QED
    BY <2>1, <2>2, <2>3
<1>7. QED
  BY <1>2, <1>5, <1>6

\* The bytes of a buffer, written or not.
LEMMA FrontIs ==
  ASSUME NEW d \in Data, NEW n \in Nat
  PROVE  D!Front(d, n) \in Data /\ (n = Len(d) => D!Front(d, n) = d)
<1>1. D!Front(d, n) = [k \in 1 .. n |-> IF k <= Len(d) THEN d[k] ELSE 0]
  BY SendNumbers DEF D!Front
<1>2. Len(d) \in Nat /\ d \in [1 .. Len(d) -> Nat]
  BY LenProperties DEF Data
<1>3. D!Front(d, n) \in [1 .. n -> Nat]
  BY <1>1, <1>2
<1>4. D!Front(d, n) \in Data
  BY <1>3 DEF Data
<1>5. n = Len(d) => D!Front(d, n) = d
  BY <1>1, <1>2
<1>6. QED
  BY <1>4, <1>5

\* What the callers give.
LEMMA BytesAre ==
  ASSUME NEW n \in Nat, NEW len \in Nat
  PROVE  /\ D!Bytes(n, len) \in Data /\ Len(D!Bytes(n, len)) = len
         /\ D!Bytes(n, len) = <<>> <=> len = 0
<1>1. D!Bytes(n, len) \in [1 .. len -> Nat] /\ D!Bytes(n, len) \in Data /\ Len(D!Bytes(n, len)) = len
  BY DEF D!Bytes, Data
<1>2. QED
  BY <1>1, EmptySeq DEF Data

\* A new call comes behind the others.
LEMMA CallBehind ==
  ASSUME NEW T, NEW s \in Seq(T), NEW x \in T
  PROVE  /\ Append(s, x) \in Seq(T) /\ Len(Append(s, x)) = Len(s) + 1 /\ Len(s) \in Nat
         /\ \A k \in 1 .. Len(s) : Append(s, x)[k] = s[k] /\ s[k] \in T
         /\ Append(s, x)[Len(s) + 1] = x
BY AppendProperties, ElementOfSeq, LenProperties
\* Nothing is asked, sent or handled yet.
LEMMA SendStarts == D!DInit => SendInv
<1> SUFFICES ASSUME D!DInit PROVE SendInv
  OBVIOUS
<1> USE SendNumbers
<1>1. /\ \A t \in Senders : snd[t].at = "idle"
      /\ asked = <<>> /\ block = <<>> /\ mq = <<>> /\ handled = <<>> /\ n_faults = 0
      /\ msgbuf.header.call = 0
  BY DEF D!DInit, D!Idle, D!Empty, D!Header
<1>2. SendType
  <2>1. D!Idle \in SendRecord
    <3>1. D!Idle = [at |-> "idle", call |-> 0, data |-> <<>>, len |-> 0]
      BY DEF D!Idle
    <3>2. <<>> \in Data
      BY EmptySeq DEF Data
    <3>3. QED
      BY <3>1, <3>2 DEF SendRecord, SendPlace
  <2>2. D!Empty \in Messages
    BY EmptySeq DEF D!Empty, D!Header, Messages, MsgHeader, Data
  <2>3. QED
    BY <1>1, <2>1, <2>2, EmptySeq DEF D!DInit, SendType
<1>3. Len(asked) = 0 /\ Len(block) = 0 /\ Len(mq) = 0 /\ Len(handled) = 0
  BY <1>1, EmptySeq
<1>4. SenderInv /\ CallsInv /\ BlockInv /\ StaticInv /\ DeliveryInv /\ OnceInv
  BY <1>1, <1>3 DEF SenderInv, CallsInv, BlockInv, StaticInv, DeliveryInv, OnceInv, Calling, InStatic
<1>5. QED
  BY <1>2, <1>4 DEF SendInv

\* A call that goes on to be sent.
LEMMA SendCalls ==
  ASSUME SendInv, NEW t \in Senders, snd[t].at = "idle", NEW data \in Data, NEW r \in SendRecord,
         r.call = Len(asked) + 1, r.at \in {"self", "alone"},
         r.at = "alone" => data = <<>> /\ r.len = 0,
         r.at = "self" => r.data = data /\ r.len = Len(data),
         NEW b \in {"none", "live"},
         snd' = [snd EXCEPT ![t] = r], asked' = Append(asked, data), block' = Append(block, b),
         UNCHANGED <<parts, mq, msgbuf, handled, n_faults>>
  PROVE  SendInv'
<1> USE SendNumbers
<1> DEFINE n == Len(asked) + 1
<1>1. /\ asked' \in Seq(Data) /\ Len(asked') = n /\ Len(asked) \in Nat /\ asked'[n] = data
      /\ \A k \in 1 .. Len(asked) : asked'[k] = asked[k]
  BY CallBehind DEF SendInv, SendType
<1>2. /\ block' \in Seq({"none", "live", "freed"}) /\ Len(block') = n /\ block'[n] = b
      /\ \A k \in 1 .. Len(asked) : block'[k] = block[k]
  <2>1. b \in {"none", "live", "freed"} /\ block \in Seq({"none", "live", "freed"}) /\ Len(block) = Len(asked)
    BY DEF SendInv, SendType
  <2>2. QED
    BY <2>1, CallBehind
<1>3. /\ snd' \in [Senders -> SendRecord] /\ snd'[t] = r
      /\ \A u \in Senders : u # t => snd'[u] = snd[u]
  BY DEF SendInv, SendType
<1>4. SendType'
  BY <1>1, <1>2, <1>3 DEF SendInv, SendType
<1>5. \A u \in Senders : u # t /\ Calling(u) => snd[u].call \in 1 .. Len(asked)
  BY DEF SendInv, SenderInv
<1>6. SenderInv'
  <2>1. ASSUME NEW u \in Senders, u # t, snd'[u].at # "idle"
        PROVE  /\ snd'[u] = snd[u] /\ Calling(u) /\ snd[u].call \in 1 .. Len(asked)
               /\ asked'[snd[u].call] = asked[snd[u].call]
    BY <2>1, <1>1, <1>3, <1>5 DEF Calling
  <2>2. n \in 1 .. Len(asked') /\ snd'[t].call = n /\ asked'[n] = data
    BY <1>1, <1>3
  <2>3. \A u \in Senders : u # t /\ snd'[u].at # "idle" => snd[u].call \in 1 .. Len(asked')
    BY <2>1, <1>1
  <2>4. ASSUME NEW u \in Senders, snd'[u].at # "idle"
        PROVE  /\ snd'[u].call \in 1 .. Len(asked')
               /\ snd'[u].at = "alone" => asked'[snd'[u].call] = <<>> /\ snd'[u].len = 0
               /\ snd'[u].at # "alone" => /\ snd'[u].data = asked'[snd'[u].call]
                                          /\ snd'[u].len = Len(snd'[u].data)
               /\ snd'[u].at = "send_stack" => /\ parts'[u].header.call = snd'[u].call
                                               /\ Carries(parts'[u], asked'[snd'[u].call])
    <3>1. CASE u = t
      BY <3>1, <2>2, <1>3
    <3>2. CASE u # t
      BY <3>2, <2>1, <2>3, <2>4 DEF SendInv, SenderInv
    <3>3. QED
      BY <3>1, <3>2
  <2>5. QED
    BY <2>4 DEF SenderInv, Calling
<1>7. BlockInv'
  <2>1. ASSUME NEW k \in 1 .. Len(block'), block'[k] = "live"
        PROVE  \E u \in Senders : snd'[u].at # "idle" /\ snd'[u].call = k
    <3>1. CASE k = n
      BY <3>1, <1>3
    <3>2. CASE k # n
      <4>1. k \in 1 .. Len(block) /\ block[k] = "live"
        BY <3>2, <2>1, <1>1, <1>2 DEF SendInv, SendType
      <4>2. PICK u \in Senders : Calling(u) /\ snd[u].call = k
        BY <4>1 DEF SendInv, BlockInv
      <4>3. u # t
        BY <4>2 DEF Calling
      <4>4. QED
        BY <4>2, <4>3, <1>3 DEF Calling
    <3>3. QED
      BY <3>1, <3>2
  <2>2. QED
    BY <2>1 DEF BlockInv, Calling
<1>8. CallsInv'
  <2>1. \A u \in Senders : snd'[u].at # "idle" /\ u # t => Calling(u) /\ snd'[u] = snd[u] /\ snd[u].call # n
    BY <1>1, <1>3, <1>5 DEF Calling
  <2>2. snd'[t].call = n
    BY <1>3
  <2>3. QED
    BY <2>1, <2>2 DEF SendInv, CallsInv, Calling
<1>9. ASSUME n_faults <= 1 PROVE StaticInv' /\ DeliveryInv' /\ OnceInv'
  <2>1. StaticInv /\ DeliveryInv /\ OnceInv
    BY <1>9 DEF SendInv
  <2>2. ~(r.at \in {"static", "send_static"})
    OBVIOUS
  <2>3. StaticInv'
    <3>1. \A u \in Senders : snd'[u].at \in {"static", "send_static"} =>
            u # t /\ InStatic(u) /\ snd'[u] = snd[u] /\ Calling(u)
      BY <1>3, <2>2 DEF InStatic, Calling
    <3>2. \A u \in Senders : u # t /\ snd'[u].at = "send_static" => asked'[snd[u].call] = asked[snd[u].call]
      BY <3>1, <1>1, <1>5
    <3>3. n_faults' = 0 => \A u \in Senders : ~(snd'[u].at \in {"static", "send_static"})
      BY <2>1, <3>1 DEF StaticInv
    <3>4. \A u, v \in Senders : snd'[u].at \in {"static", "send_static"}
                               /\ snd'[v].at \in {"static", "send_static"} => u = v
      BY <2>1, <3>1 DEF StaticInv
    <3>5. ASSUME NEW u \in Senders, snd'[u].at = "send_static"
          PROVE  /\ parts'["static"].header.call = snd'[u].call
                 /\ Carries(parts'["static"], asked'[snd'[u].call])
      <4>1. snd'[u] = snd[u] /\ asked'[snd[u].call] = asked[snd[u].call] /\ snd[u].at = "send_static"
        BY <3>1, <3>2, <3>5
      <4>2. parts["static"].header.call = snd[u].call /\ Carries(parts["static"], asked[snd[u].call])
        BY <2>1, <4>1 DEF StaticInv
      <4>3. QED
        BY <4>1, <4>2
    <3>6. QED
      BY <3>3, <3>4, <3>5 DEF StaticInv, InStatic
  <2>4. DeliveryInv'
    <3>1. \A k \in 1 .. Len(mq) : /\ mq[k].header.call \in 1 .. Len(asked')
                                  /\ asked'[mq[k].header.call] = asked[mq[k].header.call]
      BY <2>1, <1>1 DEF DeliveryInv
    <3>2. msgbuf.header.call # 0 => /\ msgbuf.header.call \in 1 .. Len(asked')
                                    /\ asked'[msgbuf.header.call] = asked[msgbuf.header.call]
      BY <2>1, <1>1 DEF DeliveryInv
    <3>3. \A k \in 1 .. Len(handled) : /\ handled[k].call \in 1 .. Len(asked')
                                       /\ asked'[handled[k].call] = asked[handled[k].call]
      BY <2>1, <1>1 DEF DeliveryInv
    <3>4. QED
      BY <2>1, <3>1, <3>2, <3>3 DEF DeliveryInv
  <2>5. OnceInv'
    <3>1. \A u \in Senders : snd'[u].at # "idle" /\ u # t => Calling(u) /\ snd'[u] = snd[u] /\ snd[u].call # n
      BY <1>1, <1>3, <1>5 DEF Calling
    <3>2. /\ \A k \in 1 .. Len(mq) : mq[k].header.call # n
          /\ msgbuf.header.call # n
          /\ \A k \in 1 .. Len(handled) : handled[k].call # n
      BY <2>1, <1>1 DEF DeliveryInv
    <3>3. snd'[t].call = n
      BY <1>3
    <3>4. \A u \in Senders : snd'[u].at # "idle" =>
               /\ \A k \in 1 .. Len(mq) : mq[k].header.call # snd'[u].call
               /\ msgbuf.header.call # snd'[u].call
               /\ \A k \in 1 .. Len(handled) : handled[k].call # snd'[u].call
      BY <2>1, <3>1, <3>2, <3>3 DEF OnceInv
    <3>5. QED
      BY <2>1, <3>4 DEF OnceInv, Calling
  <2>6. QED
    BY <2>3, <2>4, <2>5
<1>10. QED
  BY <1>4, <1>6, <1>7, <1>8, <1>9 DEF SendInv
\* A call that is refused at once.
LEMMA SendRefuses ==
  ASSUME SendInv, n_faults' \in {n_faults, n_faults + 1},
         asked' = Append(asked, <<>>), block' = Append(block, "none"),
         UNCHANGED <<snd, parts, mq, msgbuf, handled>>
  PROVE  SendInv'
<1> USE SendNumbers
<1>0. n_faults \in Nat /\ n_faults' \in Nat /\ (n_faults' <= 1 => n_faults <= 1) /\ (n_faults' = 0 => n_faults = 0)
  BY DEF SendInv, SendType
<1> DEFINE n == Len(asked) + 1
<1>1. /\ asked' \in Seq(Data) /\ Len(asked') = n /\ Len(asked) \in Nat
      /\ \A k \in 1 .. Len(asked) : asked'[k] = asked[k]
  <2>1. <<>> \in Data /\ asked \in Seq(Data)
    BY EmptySeq DEF Data, SendInv, SendType
  <2>2. QED
    BY <2>1, CallBehind
<1>2. /\ block' \in Seq({"none", "live", "freed"}) /\ Len(block') = n /\ block'[n] = "none"
      /\ \A k \in 1 .. Len(asked) : block'[k] = block[k]
  <2>1. block \in Seq({"none", "live", "freed"}) /\ Len(block) = Len(asked)
    BY DEF SendInv, SendType
  <2>2. QED
    BY <2>1, CallBehind
<1>3. SendType'
  BY <1>0, <1>1, <1>2 DEF SendInv, SendType
<1>4. \A u \in Senders : Calling(u) => /\ snd[u].call \in 1 .. Len(asked) /\ snd[u].call \in 1 .. Len(asked')
                                       /\ asked'[snd[u].call] = asked[snd[u].call]
  BY <1>1 DEF SendInv, SenderInv
<1>5. SenderInv'
  BY <1>4 DEF SendInv, SenderInv, Calling
<1>6. BlockInv'
  <2>1. ASSUME NEW k \in 1 .. Len(block'), block'[k] = "live"
        PROVE  \E u \in Senders : Calling(u) /\ snd[u].call = k
    <3>1. k # n /\ k \in 1 .. Len(block) /\ block[k] = "live"
      BY <2>1, <1>1, <1>2 DEF SendInv, SendType
    <3>2. QED
      BY <3>1 DEF SendInv, BlockInv
  <2>2. QED
    BY <2>1 DEF BlockInv, Calling
<1>7. ASSUME n_faults' <= 1 PROVE StaticInv' /\ DeliveryInv' /\ OnceInv'
  <2>1. StaticInv /\ DeliveryInv /\ OnceInv
    BY <1>7, <1>0 DEF SendInv
  <2>2. StaticInv'
    <3>1. \A u \in Senders : snd[u].at = "send_static" => asked'[snd[u].call] = asked[snd[u].call]
      BY <1>4 DEF Calling
    <3>2. QED
      BY <2>1, <1>0, <3>1 DEF StaticInv, InStatic
  <2>3. DeliveryInv'
    <3>1. \A k \in 1 .. Len(mq) : /\ mq[k].header.call \in 1 .. Len(asked')
                                  /\ asked'[mq[k].header.call] = asked[mq[k].header.call]
      BY <2>1, <1>1 DEF DeliveryInv
    <3>2. msgbuf.header.call # 0 => /\ msgbuf.header.call \in 1 .. Len(asked')
                                    /\ asked'[msgbuf.header.call] = asked[msgbuf.header.call]
      BY <2>1, <1>1 DEF DeliveryInv
    <3>3. \A k \in 1 .. Len(handled) : /\ handled[k].call \in 1 .. Len(asked')
                                       /\ asked'[handled[k].call] = asked[handled[k].call]
      BY <2>1, <1>1 DEF DeliveryInv
    <3>4. QED
      BY <2>1, <3>1, <3>2, <3>3 DEF DeliveryInv
  <2>4. OnceInv'
    BY <2>1 DEF OnceInv, Calling
  <2>5. QED
    BY <2>2, <2>3, <2>4
<1>8. QED
  BY <1>3, <1>5, <1>6, <1>7 DEF SendInv, CallsInv, Calling

\* u_app_send_msg puts data with its length before a call, or says that there is none.
LEMMA SendPrepares ==
  ASSUME SendInv, NEW t \in Senders, snd[t].at = "idle", NEW data \in Data, NEW len \in Nat,
         data # <<>> => Len(data) = len, D!Prepare(t, Len(asked) + 1, data, len),
         NEW b \in {"none", "live"}, asked' = Append(asked, data), block' = Append(block, b),
         UNCHANGED <<parts, mq, msgbuf, handled, n_faults>>
  PROVE  SendInv'
<1> DEFINE some == data # <<>> /\ len # 0
           r == [at |-> IF some THEN "self" ELSE "alone", call |-> Len(asked) + 1,
                 data |-> IF some THEN data ELSE <<>>, len |-> IF some THEN len ELSE 0]
<1>1. snd' = [snd EXCEPT ![t] = r]
  BY DEF D!Prepare
<1>2. Len(asked) + 1 \in Nat /\ <<>> \in Data
  BY EmptySeq, LenProperties DEF SendInv, SendType, Data
<1>3. data # <<>> => len # 0
  BY EmptySeq DEF Data
<1>4. r \in SendRecord
  BY <1>2 DEF SendRecord, SendPlace
<1>5. /\ r.call = Len(asked) + 1 /\ r.at \in {"self", "alone"}
      /\ r.at = "alone" => data = <<>> /\ r.len = 0
      /\ r.at = "self" => r.data = data /\ r.len = Len(data)
  BY <1>3
<1> HIDE DEF r
<1>6. QED
  BY <1>1, <1>4, <1>5, SendCalls

\* u_app_send_msg starts a call with the data, or with none.
LEMMA SendsMsg ==
  ASSUME SendInv, NEW t \in Senders, NEW given \in BOOLEAN, NEW len \in Lengths, D!u_app_send_msg(t, given, len)
  PROVE  SendInv'
<1> USE SendNumbers
<1> DEFINE n == Len(asked) + 1
           data == IF given THEN D!Bytes(n, len) ELSE <<>>
<1>1. /\ snd[t].at = "idle" /\ D!Prepare(t, n, data, len)
      /\ asked' = Append(asked, data) /\ block' = Append(block, "none")
      /\ UNCHANGED <<parts, mq, msgbuf, handled, n_faults>>
  BY DEF D!u_app_send_msg, D!MayCall
<1>2. n \in Nat /\ len \in Nat
  BY LenProperties DEF SendInv, SendType
<1>3. data \in Data /\ (data # <<>> => Len(data) = len)
  BY <1>2, BytesAre, EmptySeq DEF Data
<1> HIDE DEF data
<1>4. "none" \in {"none", "live"}
  OBVIOUS
<1>5. QED
  BY <1>1, <1>2, <1>3, <1>4, SendPrepares

\* u_app_send_appmsg starts a call with its copy, or refuses.
LEMMA SendsAppmsg ==
  ASSUME SendInv, NEW t \in Senders, NEW given \in BOOLEAN, NEW len \in Lengths, D!u_app_send_appmsg(t, given, len)
  PROVE  SendInv'
<1> USE SendNumbers
<1> DEFINE n == Len(asked) + 1
           rest == D!Bytes(IF given THEN n ELSE D!Junk, len)
           data == <<n>> \o rest
<1>1. /\ snd[t].at = "idle" /\ UNCHANGED <<parts, mq, msgbuf, handled>>
      /\ \/ /\ asked' = Append(asked, <<>>) /\ block' = Append(block, "none") /\ UNCHANGED <<snd, n_faults>>
         \/ /\ n_faults' = n_faults + 1
            /\ asked' = Append(asked, <<>>) /\ block' = Append(block, "none") /\ UNCHANGED snd
         \/ /\ D!Prepare(t, n, data, 1 + len)
            /\ asked' = Append(asked, data) /\ block' = Append(block, "live") /\ UNCHANGED n_faults
  BY DEF D!u_app_send_appmsg, D!MayCall, D!Fault
<1>2. n \in Nat /\ len \in Nat /\ 1 + len \in Nat
  BY LenProperties DEF SendInv, SendType
<1>3. rest \in Data /\ Len(rest) = len
  BY <1>2, BytesAre
<1>4. data \in Data /\ Len(data) = 1 + len
  <2>1. <<n>> \in Seq(Nat) /\ Len(<<n>>) = 1
    BY <1>2
  <2>2. QED
    BY <1>3, <2>1, ConcatProperties DEF Data
<1> HIDE DEF data
<1>5. "live" \in {"none", "live"}
  OBVIOUS
<1>6. CASE asked' = Append(asked, data) /\ block' = Append(block, "live") /\ UNCHANGED n_faults /\ D!Prepare(t, n, data, 1 + len)
  BY <1>1, <1>2, <1>4, <1>5, <1>6, SendPrepares
<1>7. CASE asked' = Append(asked, <<>>) /\ block' = Append(block, "none") /\ UNCHANGED snd
           /\ n_faults' \in {n_faults, n_faults + 1}
  BY <1>1, <1>7, SendRefuses
<1>8. QED
  BY <1>1, <1>6, <1>7
\* A call that goes on to its next place is otherwise the same.
LEMMA SendMoves ==
  ASSUME SendType, NEW t \in Senders, NEW p \in SendPlace, snd' = [snd EXCEPT ![t].at = p]
  PROVE  /\ snd' \in [Senders -> SendRecord]
         /\ snd'[t].at = p /\ snd'[t].call = snd[t].call /\ snd'[t].data = snd[t].data /\ snd'[t].len = snd[t].len
         /\ \A u \in Senders : u # t => snd'[u] = snd[u]
<1>1. snd[t] \in SendRecord
  BY DEF SendType
<1>2. snd'[t] = [snd[t] EXCEPT !.at = p] /\ \A u \in Senders : u # t => snd'[u] = snd[u]
  BY DEF SendType
<1>3. /\ snd'[t] \in SendRecord
      /\ snd'[t].at = p /\ snd'[t].call = snd[t].call /\ snd'[t].data = snd[t].data /\ snd'[t].len = snd[t].len
  BY <1>1, <1>2 DEF SendRecord
<1>4. snd' \in [Senders -> SendRecord]
  BY <1>3 DEF SendType
<1>5. QED
  BY <1>2, <1>3, <1>4

\* The calls stay where they are while one moves on.
LEMMA OnceStays ==
  ASSUME OnceInv, \A u \in Senders : snd'[u].at # "idle" => snd[u].at # "idle" /\ snd'[u].call = snd[u].call,
         UNCHANGED <<mq, msgbuf, handled>>
  PROVE  OnceInv'
BY DEF OnceInv, Calling

\* Calls that only end stay apart.
LEMMA CallsStay ==
  ASSUME CallsInv, \A u \in Senders : snd'[u].at # "idle" => snd[u].at # "idle" /\ snd'[u].call = snd[u].call
  PROVE  CallsInv'
BY DEF CallsInv, Calling

\* A block stays its call's while the calls stay where they are.
LEMMA BlockStays ==
  ASSUME BlockInv, \A u \in Senders : snd[u].at # "idle" => snd'[u].at # "idle" /\ snd'[u].call = snd[u].call,
         UNCHANGED block
  PROVE  BlockInv'
<1>1. ASSUME NEW k \in 1 .. Len(block), block[k] = "live"
      PROVE  \E u \in Senders : snd'[u].at # "idle" /\ snd'[u].call = k
  <2>1. PICK u \in Senders : snd[u].at # "idle" /\ snd[u].call = k
    BY <1>1 DEF BlockInv, Calling
  <2>2. QED
    BY <2>1
<1>2. QED
  BY <1>1 DEF BlockInv, Calling

\* u_thread_self.
LEMMA SelfIs ==
  ASSUME SendInv, NEW t \in Senders, D!Self(t)
  PROVE  SendInv'
<1> USE SendNumbers
<1>1. /\ snd[t].at = "self" /\ UNCHANGED <<parts, block, asked, mq, msgbuf, handled>>
      /\ \/ snd' = [snd EXCEPT ![t].at = "stack"] /\ n_faults' = n_faults
         \/ snd' = [snd EXCEPT ![t].at = "static"] /\ n_faults' = n_faults + 1
  BY DEF D!Self, D!Fault
<1>2. PICK p \in {"stack", "static"} : /\ snd' = [snd EXCEPT ![t].at = p]
                                       /\ n_faults' = IF p = "static" THEN n_faults + 1 ELSE n_faults
  BY <1>1
<1>3. p \in SendPlace /\ p \notin {"idle", "alone", "send_stack", "send_static"}
  BY <1>2 DEF SendPlace
<1>4. /\ snd' \in [Senders -> SendRecord]
      /\ snd'[t].at = p /\ snd'[t].call = snd[t].call /\ snd'[t].data = snd[t].data /\ snd'[t].len = snd[t].len
      /\ \A u \in Senders : u # t => snd'[u] = snd[u]
  BY <1>2, <1>3, SendMoves DEF SendInv
<1>5. n_faults \in Nat /\ n_faults' \in Nat /\ n_faults <= n_faults'
  BY <1>2 DEF SendInv, SendType
<1>6. \A u \in Senders : (snd'[u].at # "idle" <=> snd[u].at # "idle") /\ snd'[u].call = snd[u].call
  BY <1>1, <1>3, <1>4
<1>7. SendType'
  BY <1>1, <1>4, <1>5 DEF SendInv, SendType
<1>8. SenderInv'
  BY <1>1, <1>3, <1>4 DEF SendInv, SenderInv, Calling
<1>9. BlockInv'
  BY <1>1, <1>6, BlockStays DEF SendInv
<1>10. ASSUME n_faults' <= 1 PROVE StaticInv' /\ DeliveryInv' /\ OnceInv'
  <2>1. StaticInv /\ DeliveryInv /\ OnceInv
    BY <1>10, <1>5 DEF SendInv
  <2>2. StaticInv'
    <3>1. CASE p = "stack"
      BY <2>1, <3>1, <1>1, <1>2, <1>4 DEF StaticInv, InStatic
    <3>2. CASE p = "static"
      <4>1. n_faults = 0 /\ n_faults' # 0
        BY <3>2, <1>2, <1>5, <1>10
      <4>2. \A u \in Senders : ~InStatic(u)
        BY <2>1, <4>1 DEF StaticInv
      <4>3. \A u \in Senders : snd'[u].at \in {"static", "send_static"} => u = t
        BY <1>4, <4>2 DEF InStatic
      <4>4. snd'[t].at # "send_static"
        BY <1>3, <1>4
      <4>5. QED
        BY <4>1, <4>3, <4>4 DEF StaticInv, InStatic
    <3>3. QED
      BY <1>2, <3>1, <3>2
  <2>3. DeliveryInv'
    BY <2>1, <1>1 DEF DeliveryInv
  <2>4. OnceInv'
    BY <2>1, <1>1, <1>6, OnceStays
  <2>5. QED
    BY <2>2, <2>3, <2>4
<1>11. QED
  BY <1>6, <1>7, <1>8, <1>9, <1>10, CallsStay DEF SendInv

\* The two memcpys.
LEMMA JoinIs ==
  ASSUME SendInv, NEW t \in Senders, D!Join(t)
  PROVE  SendInv'
<1> USE SendNumbers
<1> DEFINE b == IF snd[t].at = "static" THEN "static" ELSE t
           p == IF b = "static" THEN "send_static" ELSE "send_stack"
           n == snd[t].call
           new == [header |-> D!Header(n, snd[t].len), data |-> D!Over(parts[b].data, snd[t].data)]
<1>1. /\ snd[t].at \in {"stack", "static"} /\ snd' = [snd EXCEPT ![t].at = p]
      /\ parts' = [parts EXCEPT ![b] = new] /\ UNCHANGED <<block, asked, mq, msgbuf, handled, n_faults>>
  BY DEF D!Join
<1>2. /\ n \in 1 .. Len(asked) /\ snd[t].data = asked[n] /\ snd[t].len = Len(asked[n])
      /\ snd[t] \in SendRecord
  BY <1>1 DEF SendInv, SenderInv, SendType, Calling
<1>3. b \in Senders \cup {"static"} /\ (b = "static" <=> snd[t].at = "static") /\ (b # "static" => b = t)
  OBVIOUS
<1>4. /\ snd[t].data \in Data /\ snd[t].len \in Nat /\ n \in Nat /\ parts[b] \in Messages /\ parts[b].data \in Data
  BY <1>2, <1>3 DEF SendInv, SendType, SendRecord, Messages
<1>5. new \in Messages /\ new.header.call = n /\ Carries(new, asked[n])
  <2>1. new.header = [call |-> n, z_msg_len |-> snd[t].len]
    BY DEF D!Header
  <2>2. new.header \in MsgHeader /\ new.header.call = n /\ new.header.z_msg_len = Len(asked[n])
    BY <2>1, <1>2, <1>4 DEF MsgHeader
  <2>3. new.data \in Data /\ D!Front(new.data, Len(asked[n])) = asked[n]
    BY <1>2, <1>4, OverIs
  <2>4. QED
    BY <2>2, <2>3 DEF Messages, Carries
<1>6. p \in {"send_static", "send_stack"} /\ p \in SendPlace /\ (p = "send_static" <=> b = "static")
  BY DEF SendPlace
<1> HIDE DEF b, p, n, new
<1>7. /\ snd' \in [Senders -> SendRecord]
      /\ snd'[t].at = p /\ snd'[t].call = n /\ snd'[t].data = snd[t].data /\ snd'[t].len = snd[t].len
      /\ \A u \in Senders : u # t => snd'[u] = snd[u]
  BY <1>1, <1>6, SendMoves DEF SendInv, n
<1>8. /\ parts' \in [Senders \cup {"static"} -> Messages] /\ parts'[b] = new
      /\ \A c \in Senders \cup {"static"} : c # b => parts'[c] = parts[c]
  BY <1>1, <1>3, <1>5 DEF SendInv, SendType
<1>9. \A u \in Senders : (snd'[u].at # "idle" <=> snd[u].at # "idle") /\ snd'[u].call = snd[u].call
  BY <1>1, <1>6, <1>7 DEF n
<1>10. SendType'
  BY <1>1, <1>7, <1>8 DEF SendInv, SendType
<1>11. SenderInv'
  <2>1. ASSUME NEW u \in Senders, snd'[u].at # "idle"
        PROVE  /\ snd'[u].call \in 1 .. Len(asked)
               /\ snd'[u].at = "alone" => asked[snd'[u].call] = <<>> /\ snd'[u].len = 0
               /\ snd'[u].at # "alone" => /\ snd'[u].data = asked[snd'[u].call]
                                          /\ snd'[u].len = Len(snd'[u].data)
               /\ snd'[u].at = "send_stack" => /\ parts'[u].header.call = snd'[u].call
                                               /\ Carries(parts'[u], asked[snd'[u].call])
    <3>1. CASE u = t
      <4>1. snd'[t].at = "send_stack" => b = t
        BY <1>3, <1>6, <1>7
      <4>2. QED
        BY <3>1, <4>1, <1>2, <1>5, <1>6, <1>7, <1>8
    <3>2. CASE u # t
      <4>1. u # b
        BY <3>2, <1>3
      <4>2. snd'[u] = snd[u] /\ parts'[u] = parts[u]
        BY <3>2, <4>1, <1>7, <1>8
      <4>3. QED
        BY <2>1, <4>2 DEF SendInv, SenderInv, Calling
    <3>3. QED
      BY <3>1, <3>2
  <2>2. QED
    BY <2>1, <1>1 DEF SenderInv, Calling
<1>12. BlockInv'
  BY <1>1, <1>9, BlockStays DEF SendInv
<1>13. ASSUME n_faults <= 1 PROVE StaticInv' /\ DeliveryInv' /\ OnceInv'
  <2>1. StaticInv /\ DeliveryInv /\ OnceInv
    BY <1>13 DEF SendInv
  <2>2. StaticInv'
    <3>1. \A u \in Senders : snd'[u].at \in {"static", "send_static"} <=> snd[u].at \in {"static", "send_static"}
      BY <1>1, <1>3, <1>6, <1>7
    <3>2. ASSUME NEW u \in Senders, snd'[u].at = "send_static"
          PROVE  parts'["static"].header.call = snd'[u].call /\ Carries(parts'["static"], asked[snd'[u].call])
      <4>1. CASE u = t
        BY <4>1, <3>2, <1>5, <1>6, <1>7, <1>8
      <4>2. CASE u # t
        <5>1. snd[u].at = "send_static" /\ snd'[u] = snd[u]
          BY <4>2, <3>2, <1>7
        <5>2. snd[t].at # "static"
          BY <5>1, <4>2, <2>1 DEF StaticInv, InStatic
        <5>3. parts'["static"] = parts["static"]
          BY <5>2, <1>3, <1>8
        <5>4. QED
          BY <5>1, <5>3, <2>1 DEF StaticInv
      <4>3. QED
        BY <4>1, <4>2
    <3>3. QED
      BY <2>1, <1>1, <3>1, <3>2 DEF StaticInv, InStatic
  <2>3. DeliveryInv'
    BY <2>1, <1>1 DEF DeliveryInv
  <2>4. OnceInv'
    BY <2>1, <1>1, <1>9, OnceStays
  <2>5. QED
    BY <2>2, <2>3, <2>4
<1>14. QED
  BY <1>1, <1>9, <1>10, <1>11, <1>12, <1>13, CallsStay DEF SendInv

\* x_msg_q_send, with which a call returns.
LEMMA SendIs ==
  ASSUME SendInv, NEW t \in Senders, D!Send(t)
  PROVE  SendInv'
<1> USE SendNumbers
<1> DEFINE n == snd[t].call
           b == IF snd[t].at = "send_static" THEN "static" ELSE t
           piece == IF snd[t].at = "alone" THEN [header |-> D!Header(n, 0), data |-> <<>>]
                  ELSE [header |-> parts[b].header, data |-> D!Front(parts[b].data, snd[t].len)]
           fits == snd[t].len <= MaxMsgSize /\ Len(mq) < MsgCount
<1>1. /\ snd[t].at \in {"alone", "send_stack", "send_static"}
      /\ mq' = IF fits THEN Append(mq, piece) ELSE mq
      /\ block' = D!FreeMessage(n, fits)
      /\ asked' = IF fits THEN asked ELSE [asked EXCEPT ![n] = <<>>]
      /\ snd' = [snd EXCEPT ![t] = D!Idle] /\ parts' = [parts EXCEPT ![t] = D!Empty]
      /\ UNCHANGED <<msgbuf, handled, n_faults>>
  BY DEF D!Send
<1>2. n \in 1 .. Len(asked) /\ snd[t] \in SendRecord /\ n \in Nat /\ snd[t].len \in Nat /\ Calling(t)
  BY <1>1 DEF SendInv, SenderInv, SendType, SendRecord, Calling
<1>3. <<>> \in Data /\ Len(<<>>) = 0
  BY EmptySeq DEF Data
<1>4. piece \in Messages
  <2>1. CASE snd[t].at = "alone"
    <3>1. piece = [header |-> [call |-> n, z_msg_len |-> 0], data |-> <<>>]
      BY <2>1 DEF D!Header
    <3>2. QED
      BY <3>1, <1>2, <1>3 DEF Messages, MsgHeader
  <2>2. CASE snd[t].at # "alone"
    <3>1. parts[b] \in Messages
      BY DEF SendInv, SendType
    <3>2. parts[b].header \in MsgHeader /\ parts[b].data \in Data
      BY <3>1 DEF Messages
    <3>3. D!Front(parts[b].data, snd[t].len) \in Data
      BY <1>2, <3>2, FrontIs
    <3>4. piece = [header |-> parts[b].header, data |-> D!Front(parts[b].data, snd[t].len)]
      BY <2>2
    <3>5. QED
      BY <3>2, <3>3, <3>4 DEF Messages
  <2>3. QED
    BY <2>1, <2>2
<1>5. ASSUME n_faults <= 1 PROVE piece.header.call = n /\ IsWhole(piece, asked[n])
  <2>1. CASE snd[t].at = "alone"
    <3>1. piece = [header |-> [call |-> n, z_msg_len |-> 0], data |-> <<>>]
      BY <2>1 DEF D!Header
    <3>2. asked[n] = <<>>
      BY <2>1, <1>2 DEF SendInv, SenderInv
    <3>3. QED
      BY <3>1, <3>2, <1>3 DEF IsWhole
  <2>2. CASE snd[t].at # "alone"
    <3>1. piece.header = parts[b].header /\ piece.data = D!Front(parts[b].data, snd[t].len)
      BY <2>2
    <3>2. snd[t].len = Len(asked[n])
      BY <2>2, <1>2 DEF SendInv, SenderInv
    <3>3. parts[b].header.call = n /\ Carries(parts[b], asked[n])
      <4>1. CASE snd[t].at = "send_static"
        BY <4>1, <1>5 DEF SendInv, StaticInv
      <4>2. CASE snd[t].at = "send_stack"
        BY <4>2, <1>2 DEF SendInv, SenderInv
      <4>3. QED
        BY <1>1, <2>2, <4>1, <4>2
    <3>4. QED
      BY <3>1, <3>2, <3>3 DEF Carries, IsWhole
  <2>3. QED
    BY <2>1, <2>2
<1>6. fits \in BOOLEAN
  OBVIOUS
<1> HIDE DEF n, b, piece, fits
<1>7. /\ snd' \in [Senders -> SendRecord] /\ snd'[t].at = "idle"
      /\ \A u \in Senders : u # t => snd'[u] = snd[u]
  <2>1. D!Idle = [at |-> "idle", call |-> 0, data |-> <<>>, len |-> 0]
    BY DEF D!Idle
  <2>2. D!Idle \in SendRecord /\ D!Idle.at = "idle"
    BY <2>1, <1>3 DEF SendRecord, SendPlace
  <2>3. QED
    BY <1>1, <2>2 DEF SendInv, SendType
<1>8. /\ parts' \in [Senders \cup {"static"} -> Messages]
      /\ \A c \in Senders \cup {"static"} : c # t => parts'[c] = parts[c]
  <2>1. D!Empty \in Messages
    BY <1>3 DEF D!Empty, D!Header, Messages, MsgHeader
  <2>2. QED
    BY <1>1, <2>1 DEF SendInv, SendType
<1>9. /\ asked' \in Seq(Data) /\ Len(asked') = Len(asked) /\ asked \in Seq(Data)
      /\ \A k \in 1 .. Len(asked) : k # n \/ fits => asked'[k] = asked[k]
  <2>1. CASE fits
    BY <2>1, <1>1 DEF SendInv, SendType
  <2>2. CASE ~fits
    <3>1. asked' = [asked EXCEPT ![n] = <<>>]
      BY <2>2, <1>1
    <3>2. asked \in Seq(Data)
      BY DEF SendInv, SendType
    <3>3. QED
      BY <2>2, <3>1, <3>2, <1>2, <1>3, ExceptSeq
  <2>3. QED
    BY <2>1, <2>2
<1>10. /\ block' \in Seq({"none", "live", "freed"}) /\ Len(block') = Len(block)
       /\ \A k \in 1 .. Len(block) : block'[k] = "live" => block[k] = "live" /\ k # n
  <2>1. block \in Seq({"none", "live", "freed"}) /\ n \in 1 .. Len(block)
    BY <1>2 DEF SendInv, SendType
  <2>2. CASE block[n] = "live"
    <3>1. block' = [block EXCEPT ![n] = "freed"]
      BY <2>2, <1>1 DEF D!FreeMessage
    <3>2. "freed" \in {"none", "live", "freed"}
      OBVIOUS
    <3>3. QED
      BY <2>1, <3>1, <3>2, ExceptSeq
  <2>3. CASE block[n] # "live"
    BY <2>1, <2>3, <1>1 DEF D!FreeMessage
  <2>4. QED
    BY <2>2, <2>3
<1>11. /\ mq' \in Seq(Messages) /\ Len(mq) \in Nat /\ mq \in Seq(Messages)
       /\ ~fits => mq' = mq
       /\ fits => /\ Len(mq') = Len(mq) + 1 /\ mq'[Len(mq) + 1] = piece
                  /\ \A k \in 1 .. Len(mq) : mq'[k] = mq[k]
  <2>1. mq \in Seq(Messages)
    BY DEF SendInv, SendType
  <2>2. QED
    BY <1>1, <1>4, <2>1, CallBehind
<1>12. SendType'
  BY <1>1, <1>7, <1>8, <1>9, <1>10, <1>11 DEF SendInv, SendType
<1>13. \A u \in Senders : snd'[u].at # "idle" =>
         /\ u # t /\ snd'[u] = snd[u] /\ Calling(u) /\ snd[u].call # n /\ snd[u].call \in 1 .. Len(asked)
         /\ asked'[snd[u].call] = asked[snd[u].call] /\ parts'[u] = parts[u]
  <2>1. ASSUME NEW u \in Senders, snd'[u].at # "idle"
        PROVE  u # t /\ snd'[u] = snd[u] /\ Calling(u)
    BY <2>1, <1>7 DEF Calling
  <2>2. ASSUME NEW u \in Senders, snd'[u].at # "idle"
        PROVE  snd[u].call # n /\ snd[u].call \in 1 .. Len(asked)
    BY <2>1, <2>2, <1>2 DEF SendInv, CallsInv, SenderInv, n
  <2>3. QED
    BY <2>1, <2>2, <1>8, <1>9
<1>14. SenderInv'
  BY <1>9, <1>13 DEF SendInv, SenderInv, Calling
<1>15. CallsInv'
  BY <1>13 DEF SendInv, CallsInv, Calling
<1>16. BlockInv'
  <2>1. ASSUME NEW k \in 1 .. Len(block'), block'[k] = "live"
        PROVE  \E u \in Senders : snd'[u].at # "idle" /\ snd'[u].call = k
    <3>1. k \in 1 .. Len(block) /\ block[k] = "live" /\ k # n
      BY <2>1, <1>10
    <3>2. PICK u \in Senders : Calling(u) /\ snd[u].call = k
      BY <3>1 DEF SendInv, BlockInv
    <3>3. u # t
      BY <3>1, <3>2 DEF n
    <3>4. QED
      BY <3>2, <3>3, <1>7 DEF Calling
  <2>2. QED
    BY <2>1 DEF BlockInv, Calling
<1>17. ASSUME n_faults <= 1 PROVE StaticInv' /\ DeliveryInv' /\ OnceInv'
  <2>1. StaticInv /\ DeliveryInv /\ OnceInv
    BY <1>17 DEF SendInv
  <2>2. piece.header.call = n /\ IsWhole(piece, asked[n])
    BY <1>5, <1>17
  <2>3. StaticInv'
    <3>1. \A u \in Senders : snd'[u].at \in {"static", "send_static"} =>
            u # t /\ InStatic(u) /\ snd'[u] = snd[u] /\ asked'[snd[u].call] = asked[snd[u].call]
      BY <1>13 DEF InStatic
    <3>2. parts'["static"] = parts["static"]
      BY <1>8
    <3>3. QED
      BY <2>1, <1>1, <3>1, <3>2 DEF StaticInv, InStatic
  <2>4. /\ \A k \in 1 .. Len(mq) : mq[k].header.call # n
        /\ msgbuf.header.call # n
        /\ \A k \in 1 .. Len(handled) : handled[k].call # n
    BY <2>1, <1>2 DEF OnceInv, n
  <2>5. DeliveryInv'
    <3>1. ASSUME NEW k \in 1 .. Len(mq')
          PROVE  mq'[k].header.call \in 1 .. Len(asked') /\ IsWhole(mq'[k], asked'[mq'[k].header.call])
      <4>1. CASE k \in 1 .. Len(mq)
        <5>1. mq'[k] = mq[k] /\ mq[k].header.call \in 1 .. Len(asked) /\ IsWhole(mq[k], asked[mq[k].header.call])
          BY <4>1, <1>6, <1>11, <2>1 DEF DeliveryInv
        <5>2. asked'[mq[k].header.call] = asked[mq[k].header.call]
          BY <4>1, <5>1, <2>4, <1>9
        <5>3. QED
          BY <5>1, <5>2, <1>9
      <4>2. CASE k \notin 1 .. Len(mq)
        <5>1. fits /\ k = Len(mq) + 1
          BY <4>2, <3>1, <1>6, <1>11
        <5>2. mq'[k] = piece /\ asked'[n] = asked[n]
          BY <5>1, <1>2, <1>9, <1>11
        <5>3. QED
          BY <5>2, <2>2, <1>2, <1>9
      <4>3. QED
        BY <4>1, <4>2
    <3>2. msgbuf.header.call # 0 => /\ msgbuf.header.call \in 1 .. Len(asked')
                                    /\ asked'[msgbuf.header.call] = asked[msgbuf.header.call]
      BY <2>1, <2>4, <1>9 DEF DeliveryInv
    <3>3. \A k \in 1 .. Len(handled) : /\ handled[k].call \in 1 .. Len(asked')
                                       /\ asked'[handled[k].call] = asked[handled[k].call]
      BY <2>1, <2>4, <1>9 DEF DeliveryInv
    <3>4. QED
      BY <2>1, <1>1, <3>1, <3>2, <3>3 DEF DeliveryInv
  <2>6. OnceInv'
    <3>1. \A k \in 1 .. Len(mq') : \/ k \in 1 .. Len(mq) /\ mq'[k] = mq[k]
                                   \/ k = Len(mq) + 1 /\ mq'[k].header.call = n
      BY <1>6, <1>11, <2>2
    <3>2. \A u \in Senders : snd'[u].at # "idle" =>
            /\ \A k \in 1 .. Len(mq') : mq'[k].header.call # snd'[u].call
            /\ msgbuf.header.call # snd'[u].call
            /\ \A k \in 1 .. Len(handled) : handled[k].call # snd'[u].call
      BY <2>1, <3>1, <1>13 DEF OnceInv
    <3>3. \A j, k \in 1 .. Len(mq') : mq'[j].header.call = mq'[k].header.call => j = k
      BY <2>1, <2>4, <3>1 DEF OnceInv
    <3>4. \A k \in 1 .. Len(mq') : mq'[k].header.call # msgbuf.header.call
      BY <2>1, <2>4, <3>1 DEF OnceInv
    <3>5. \A k \in 1 .. Len(mq'), j \in 1 .. Len(handled) : mq'[k].header.call # handled[j].call
      BY <2>1, <2>4, <3>1 DEF OnceInv
    <3>6. QED
      BY <2>1, <1>1, <3>2, <3>3, <3>4, <3>5 DEF OnceInv, Calling
  <2>7. QED
    BY <2>3, <2>5, <2>6
<1>18. QED
  BY <1>1, <1>12, <1>14, <1>15, <1>16, <1>17 DEF SendInv
\* appman_main receives.
LEMMA ReceiveIs ==
  ASSUME SendInv, D!Receive
  PROVE  SendInv'
<1> USE SendNumbers
<1> DEFINE new == [header |-> Head(mq).header, data |-> D!Over(msgbuf.data, Head(mq).data)]
<1>1. /\ mq # <<>> /\ msgbuf.header.call = 0 /\ msgbuf' = new /\ mq' = Tail(mq)
      /\ UNCHANGED <<snd, parts, block, asked, handled, n_faults>>
  BY DEF D!Receive
<1>2. mq \in Seq(Messages) /\ msgbuf \in Messages
  BY DEF SendInv, SendType
<1>3. /\ Len(mq) \in Nat /\ Len(mq) >= 1 /\ 1 \in 1 .. Len(mq) /\ Head(mq) = mq[1] /\ mq[1] \in Messages
      /\ mq' \in Seq(Messages) /\ Len(mq') = Len(mq) - 1 /\ \A k \in 1 .. Len(mq') : mq'[k] = mq[k + 1]
  BY <1>1, <1>2, HeadTailProperties, LenProperties, EmptySeq
<1>4. /\ new.header = mq[1].header /\ new.header \in MsgHeader /\ new.data \in Data
      /\ D!Front(new.data, Len(mq[1].data)) = mq[1].data
  <2>1. mq[1].header \in MsgHeader /\ mq[1].data \in Data /\ msgbuf.data \in Data
    BY <1>2, <1>3 DEF Messages
  <2>2. new.header = mq[1].header /\ new.data = D!Over(msgbuf.data, mq[1].data)
    BY <1>3
  <2>3. QED
    BY <2>1, <2>2, OverIs
<1>5. new \in Messages
  BY <1>4 DEF Messages
<1> HIDE DEF new
<1>6. SendType'
  BY <1>1, <1>3, <1>5 DEF SendInv, SendType
<1>7. SenderInv' /\ CallsInv' /\ BlockInv'
  BY <1>1 DEF SendInv, SenderInv, CallsInv, BlockInv, Calling
<1>8. ASSUME n_faults <= 1 PROVE StaticInv' /\ DeliveryInv' /\ OnceInv'
  <2>1. StaticInv /\ DeliveryInv /\ OnceInv
    BY <1>8 DEF SendInv
  <2>2. StaticInv'
    BY <2>1, <1>1 DEF StaticInv, InStatic
  <2>3. \A k \in 1 .. Len(mq') : k + 1 \in 1 .. Len(mq) /\ mq'[k] = mq[k + 1] /\ k + 1 # 1
    BY <1>3
  <2>4. DeliveryInv'
    <3>1. mq[1].header.call \in 1 .. Len(asked) /\ IsWhole(mq[1], asked[mq[1].header.call])
      BY <2>1, <1>3 DEF DeliveryInv
    <3>2. Carries(new, asked[mq[1].header.call])
      BY <3>1, <1>4 DEF Carries, IsWhole
    <3>3. \A k \in 1 .. Len(mq') : mq'[k].header.call \in 1 .. Len(asked) /\ IsWhole(mq'[k], asked[mq'[k].header.call])
      BY <2>1, <2>3 DEF DeliveryInv
    <3>4. msgbuf'.header.call \in 1 .. Len(asked) /\ Carries(msgbuf', asked[msgbuf'.header.call])
      BY <1>1, <1>4, <3>1, <3>2
    <3>5. QED
      BY <1>1, <2>1, <3>3, <3>4 DEF DeliveryInv
  <2>5. OnceInv'
    <3>1. msgbuf'.header.call = mq[1].header.call
      BY <1>1, <1>4
    <3>2. \A t \in Senders : snd[t].at # "idle" =>
            /\ \A k \in 1 .. Len(mq') : mq'[k].header.call # snd[t].call
            /\ msgbuf'.header.call # snd[t].call
      BY <2>1, <2>3, <3>1, <1>3 DEF OnceInv, Calling
    <3>3. \A j, k \in 1 .. Len(mq') : mq'[j].header.call = mq'[k].header.call => j = k
      <4> TAKE j, k \in 1 .. Len(mq')
      <4>1. mq'[j].header.call = mq'[k].header.call => j + 1 = k + 1
        BY <2>1, <2>3 DEF OnceInv
      <4>2. QED
        BY <4>1
    <3>4. \A k \in 1 .. Len(mq') : mq'[k].header.call # msgbuf'.header.call
      BY <2>1, <2>3, <3>1, <1>3 DEF OnceInv
    <3>5. /\ \A k \in 1 .. Len(mq'), j \in 1 .. Len(handled) : mq'[k].header.call # handled[j].call
          /\ \A j \in 1 .. Len(handled) : msgbuf'.header.call # handled[j].call
      BY <2>1, <2>3, <3>1, <1>3 DEF OnceInv
    <3>6. QED
      BY <2>1, <1>1, <3>2, <3>3, <3>4, <3>5 DEF OnceInv, Calling
  <2>6. QED
    BY <2>2, <2>4, <2>5
<1>9. QED
  BY <1>1, <1>6, <1>7, <1>8 DEF SendInv

\* appman_main calls the handler.
LEMMA ProcessIs ==
  ASSUME SendInv, D!Process
  PROVE  SendInv'
<1> USE SendNumbers
<1> DEFINE n == msgbuf.header.call
           got == [call |-> n, data |-> D!Given]
           new == [msgbuf EXCEPT !.header.call = 0]
<1>1. /\ n # 0 /\ handled' = Append(handled, got) /\ msgbuf' = new
      /\ UNCHANGED <<snd, parts, block, asked, mq, n_faults>>
  BY DEF D!Process
<1>2. /\ msgbuf \in Messages /\ msgbuf.header \in MsgHeader /\ msgbuf.data \in Data
      /\ n \in Nat /\ msgbuf.header.z_msg_len \in Nat
  BY DEF SendInv, SendType, Messages, MsgHeader
<1>3. got \in [call : Nat, data : Data] /\ got.call = n /\ got.data = D!Front(msgbuf.data, msgbuf.header.z_msg_len)
  <2>1. D!Given \in Data /\ D!Given = D!Front(msgbuf.data, msgbuf.header.z_msg_len)
    BY <1>2, FrontIs DEF D!Given
  <2>2. QED
    BY <1>2, <2>1
<1>4. new \in Messages /\ new.header.call = 0
  <2>1. [msgbuf.header EXCEPT !.call = 0] = [call |-> 0, z_msg_len |-> msgbuf.header.z_msg_len]
    BY <1>2 DEF MsgHeader
  <2>2. new = [header |-> [msgbuf.header EXCEPT !.call = 0], data |-> msgbuf.data]
    BY <1>2 DEF Messages
  <2>3. QED
    BY <1>2, <2>1, <2>2 DEF Messages, MsgHeader
<1> HIDE DEF n, got, new
<1>5. /\ handled' \in Seq([call : Nat, data : Data]) /\ Len(handled) \in Nat /\ Len(handled') = Len(handled) + 1
      /\ handled'[Len(handled) + 1] = got /\ \A k \in 1 .. Len(handled) : handled'[k] = handled[k]
  <2>1. handled \in Seq([call : Nat, data : Data])
    BY DEF SendInv, SendType
  <2>2. QED
    BY <1>1, <1>3, <2>1, CallBehind
<1>6. SendType'
  BY <1>1, <1>4, <1>5 DEF SendInv, SendType
<1>7. SenderInv' /\ CallsInv' /\ BlockInv'
  BY <1>1 DEF SendInv, SenderInv, CallsInv, BlockInv, Calling
<1>8. ASSUME n_faults <= 1 PROVE StaticInv' /\ DeliveryInv' /\ OnceInv'
  <2>1. StaticInv /\ DeliveryInv /\ OnceInv
    BY <1>8 DEF SendInv
  <2>2. StaticInv'
    BY <2>1, <1>1 DEF StaticInv, InStatic
  <2>3. n \in 1 .. Len(asked) /\ Carries(msgbuf, asked[n])
    BY <2>1, <1>1 DEF DeliveryInv, n
  <2>4. got.data = asked[n] /\ got.call = n
    BY <1>3, <2>3 DEF Carries
  <2>5. msgbuf'.header.call = 0
    BY <1>1, <1>4
  <2>6. \A k \in 1 .. Len(handled') : \/ k \in 1 .. Len(handled) /\ handled'[k] = handled[k]
                                      \/ k = Len(handled) + 1 /\ handled'[k] = got
    BY <1>5
  <2>7. DeliveryInv'
    <3>1. \A k \in 1 .. Len(handled') : /\ handled'[k].call \in 1 .. Len(asked)
                                        /\ handled'[k].data = asked[handled'[k].call]
      BY <2>1, <2>3, <2>4, <2>6 DEF DeliveryInv
    <3>2. QED
      BY <1>1, <2>1, <2>5, <3>1 DEF DeliveryInv
  <2>8. OnceInv'
    <3>1. \A t \in Senders : snd[t].at # "idle" =>
            /\ snd[t].call # 0
            /\ \A k \in 1 .. Len(handled') : handled'[k].call # snd[t].call
      <4> TAKE t \in Senders
      <4> HAVE snd[t].at # "idle"
      <4>1. snd[t].call \in 1 .. Len(asked)
        BY DEF SendInv, SenderInv, Calling
      <4>2. snd[t].call # n /\ \A k \in 1 .. Len(handled) : handled[k].call # snd[t].call
        BY <2>1 DEF OnceInv, Calling, n
      <4>3. QED
        BY <4>1, <4>2, <2>4, <2>6
    <3>2. \A k \in 1 .. Len(mq) : mq[k].header.call # 0 /\ mq[k].header.call # n
      BY <2>1 DEF DeliveryInv, OnceInv, n
    <3>3. \A k \in 1 .. Len(mq), j \in 1 .. Len(handled') : mq[k].header.call # handled'[j].call
      BY <2>1, <2>4, <2>6, <3>2 DEF OnceInv
    <3>4. \A j \in 1 .. Len(handled) : handled[j].call # n /\ handled[j].call # 0
      BY <2>1 DEF DeliveryInv, OnceInv, n
    <3>5. \A j \in 1 .. Len(handled') : handled'[j].call # 0
      BY <1>1, <2>4, <2>6, <3>4
    <3>6. \A j, k \in 1 .. Len(handled') : handled'[j].call = handled'[k].call => j = k
      BY <2>1, <2>4, <2>6, <3>4 DEF OnceInv
    <3>7. QED
      BY <1>1, <2>1, <2>5, <3>1, <3>2, <3>3, <3>5, <3>6 DEF OnceInv, Calling
  <2>9. QED
    BY <2>2, <2>7, <2>8
<1>9. QED
  BY <1>1, <1>6, <1>7, <1>8 DEF SendInv

\* The two properties of the messages from the invariant.
LEMMA SendShows == SendInv => D!HandlerGetsTheCall /\ D!CopyReturned
<1> SUFFICES ASSUME SendInv PROVE D!HandlerGetsTheCall /\ D!CopyReturned
  OBVIOUS
<1>1. DOMAIN handled = 1 .. Len(handled) /\ DOMAIN block = 1 .. Len(block)
  BY DEF SendInv, SendType
<1>2. D!HandlerGetsTheCall
  BY <1>1 DEF D!HandlerGetsTheCall, SendInv, DeliveryInv, OnceInv
<1>3. D!CopyReturned
  BY <1>1 DEF D!CopyReturned, SendInv, BlockInv
<1>4. QED
  BY <1>2, <1>3

\* Every step of a message keeps the invariant.
LEMMA SendStep == SendInv /\ D!DNext => SendInv'
<1> SUFFICES ASSUME SendInv, D!DNext PROVE SendInv'
  OBVIOUS
<1>1. ASSUME NEW t \in Senders,
             \/ \E given \in BOOLEAN, len \in Lengths : \/ D!u_app_send_msg(t, given, len)
                                                        \/ D!u_app_send_appmsg(t, given, len)
             \/ D!Self(t) \/ D!Join(t) \/ D!Send(t)
      PROVE  SendInv'
  BY <1>1, SendsMsg, SendsAppmsg, SelfIs, JoinIs, SendIs
<1>2. QED
  BY <1>1, ReceiveIs, ProcessIs DEF D!DNext

\* In a step of another component nothing changes that the invariants speak of.
LEMMA QueuesRest == MsgQListInv /\ UNCHANGED qvars => MsgQListInv'
BY DEF qvars, MsgQListInv, QueueType, RingInv, BusyInv, CountInv, ListedQs

\* As for the messages.
LEMMA SendRests == SendInv /\ UNCHANGED dvars => SendInv'
BY DEF dvars, SendInv, SendType, SenderInv, CallsInv, BlockInv, StaticInv, DeliveryInv, OnceInv,
       Calling, InStatic, Carries, IsWhole

\* The list of queues is a ring of those that were added, and keeps a queue as long
\* as it has a user; the handler gets what one caller sent, once, and a message's
\* copy is freed on every path.
THEOREM MessagesAre == MCSpec => []MessagesWhole
<1>1. MCInit => MsgQListInv /\ SendInv
  BY QueuesStart, SendStarts DEF MCInit
<1>2. MsgQListInv /\ [MCNext]_allvars => MsgQListInv'
  <2> SUFFICES ASSUME MsgQListInv, [MCNext]_allvars PROVE MsgQListInv'
    OBVIOUS
  <2>1. Q!QNext \/ UNCHANGED qvars
    BY DEF MCNext, allvars
  <2>2. QED
    BY <2>1, QueueStep, QueuesRest
<1>3. SendInv /\ [MCNext]_allvars => SendInv'
  <2> SUFFICES ASSUME SendInv, [MCNext]_allvars PROVE SendInv'
    OBVIOUS
  <2>1. D!DNext \/ UNCHANGED dvars
    BY DEF MCNext, allvars
  <2>2. QED
    BY <2>1, SendStep, SendRests
<1>4. MsgQListInv /\ SendInv => MessagesWhole
  BY QueuesShow, SendShows DEF MessagesWhole
<1>5. QED
  BY <1>1, <1>2, <1>3, <1>4, PTL DEF MCSpec
=============================================================================
