------------------------------ MODULE Netinfd ------------------------------
(***************************************************************************)
(* The network information daemon src/mw/linux_c_api/netinfd/prog/         *)
(* netinfd.c and its clients (libnetinfd.c, request_for_netinfd).          *)
(*                                                                         *)
(* main() accepts a connection and starts a thread for it; the socket is   *)
(* passed in one variable under a mutex that main locks and the new thread *)
(* unlocks.  The threads are counted in a table of MAX_THREAD slots.  A    *)
(* thread reads one request, serves it (a table of key and value pairs,    *)
(* scripts and look-ups in child processes, interface commands), writes    *)
(* the reply, closes the socket and leaves its slot.                       *)
(*                                                                         *)
(* A connection is named by its client.  A structure is Size cells on the  *)
(* wire, read and written in pieces.  The format of the structures is in   *)
(* module Request.  totalUsedThd is only printed and is left out.          *)
(***************************************************************************)
EXTENDS Integers, Sequences, FiniteSets

CONSTANTS Clients, Keys,
          Requests,     \* Requests[c]: the requests client c makes
          Ids,          \* thread identifiers (pthread_t), the least free one is next
          MAX_THREAD,   \* 10
          CONFIG_SIZE,  \* 16
          Size,         \* cells of a structure on the wire
          DnsCount,     \* rounds of the look-up's time-out
          Loads,        \* how many calls each client makes, in one run of the program
          MaxFaults

\* A request's key; a SET also has a value, and the two requests whose value the
\* daemon reads itself say whether it knows that value: "y" or "n" to enable an
\* interface, a time-out that is not negative for a look-up.
RequestTypes == {"GET", "SET", "DHCP", "IFCONF", "NIENABLE", "DNSLOOKUP"}
\* 0 in a slot names no thread.
ASSUME NetinfdAssumption ==
  /\ IsFiniteSet(Ids) /\ Ids \subseteq Nat \ {0}
  /\ MAX_THREAD \in Nat \ {0} /\ Size \in Nat \ {0}
  /\ CONFIG_SIZE \in Nat /\ DnsCount \in Nat /\ MaxFaults \in Nat
  /\ "none" \notin Clients \cup Keys
  /\ Loads \subseteq [Clients -> Nat]
  /\ \A c \in Clients : \A r \in Requests[c] :
       /\ r.type \in RequestTypes /\ r.key \in Keys /\ (r.type = "SET" => r.value \in Seq(Nat))
       /\ r.type \in {"NIENABLE", "DNSLOOKUP"} => r.known \in BOOLEAN

VARIABLES cl,           \* clients
          backlog,      \* connections not yet accepted
          main,         \* main(): pc, p_thread
          lock_thrdParam, acceptsock,
          NetinfdTd,    \* the slots
          h,            \* threads
          up, down,     \* cells on their way to the daemon, to the client
          ConfigHashTable,
          faults

nvars == <<cl, backlog, main, lock_thrdParam, acceptsock, NetinfdTd, h, up, down,
           ConfigHashTable, faults>>

None == "none"
NoThread == [pc |-> "none", sock |-> None, got |-> 0, ptr |-> 0, count |-> 0, child |-> "none",
             status |-> 0, value |-> <<>>]
NoRequest == [pc |-> "idle", req |-> None, sent |-> 0, got |-> 0, status |-> 0, value |-> <<>>,
           left |-> 0, set |-> [k \in Keys |-> <<>>]]
FreeEntry == [buse |-> 0, key |-> None, room |-> 0, value |-> <<>>]

\* request_init and config_init, the clients idle.
NInit == /\ \E load \in Loads : cl = [c \in Clients |-> [NoRequest EXCEPT !.left = load[c]]]
         /\ backlog = <<>> /\ main = [pc |-> "select", p_thread |-> 1]
         /\ lock_thrdParam = FALSE /\ acceptsock = None
         /\ NetinfdTd = [i \in 1 .. MAX_THREAD |-> 0]
         /\ h = [t \in Ids |-> NoThread]
         /\ up = [c \in Clients |-> 0] /\ down = [c \in Clients |-> 0]
         /\ ConfigHashTable = [i \in 1 .. CONFIG_SIZE |-> FreeEntry]
         /\ faults = 0

Alive == {t \in Ids : h[t].pc # "none"}
dvars == <<backlog, main, lock_thrdParam, acceptsock, NetinfdTd, h, ConfigHashTable>>

(***************************************************************************)
(* The client: connect, safe_write, safe_read, close (request_for_netinfd).*)
(***************************************************************************)
Connect(c, type) ==
  /\ cl[c].pc = "idle" /\ cl[c].left > 0
  /\ \E r \in {q \in Requests[c] : q.type = type} :
       cl' = [cl EXCEPT ![c] = [cl[c] EXCEPT !.pc = "write", !.req = r, !.sent = 0, !.got = 0, !.left = @ - 1]]
  /\ backlog' = Append(backlog, c)
  /\ up' = [up EXCEPT ![c] = 0] /\ down' = [down EXCEPT ![c] = 0]
  /\ UNCHANGED <<main, lock_thrdParam, acceptsock, NetinfdTd, h, ConfigHashTable, faults>>

netinfd_get(c) == Connect(c, "GET")
netinfd_set(c) == Connect(c, "SET")
netinfd_dhcp(c) == Connect(c, "DHCP")
netinfd_ifconf(c) == Connect(c, "IFCONF")
netinfd_nienable(c) == Connect(c, "NIENABLE")
netinfd_dnslookup(c) == Connect(c, "DNSLOOKUP")

safe_write(c) ==
  /\ cl[c].pc = "write"
  /\ \E n \in 1 .. Size - cl[c].sent :
       /\ up' = [up EXCEPT ![c] = @ + n]
       /\ cl' = [cl EXCEPT ![c].sent = @ + n, ![c].pc = IF cl[c].sent + n = Size THEN "read" ELSE @]
  /\ UNCHANGED <<dvars, down, faults>>

\* A read of a closed connection returns 0 and is tried again for ever, so
\* only a read that brings something is a step.
safe_read(c) ==
  /\ cl[c].pc = "read"
  /\ \E n \in 1 .. down[c] :
       /\ down' = [down EXCEPT ![c] = @ - n]
       /\ cl' = [cl EXCEPT ![c].got = @ + n, ![c].pc = IF cl[c].got + n = Size THEN "done" ELSE @]
  /\ UNCHANGED <<dvars, up, faults>>

\* netinfd_get, netinfd_set and the others return: the ghost field set keeps
\* the value this client set last for each key.
Return(c) ==
  /\ cl[c].pc = "done"
  /\ cl' = [cl EXCEPT ![c] = [NoRequest EXCEPT !.left = cl[c].left,
              !.set = IF cl[c].req.type = "SET" /\ cl[c].status = 0
                      THEN [cl[c].set EXCEPT ![cl[c].req.key] = cl[c].req.value] ELSE cl[c].set]]
  /\ UNCHANGED <<dvars, up, down, faults>>

(***************************************************************************)
(* main() and the slots.                                                   *)
(***************************************************************************)
\* The first free slot; with none free the pointer keeps the last slot given.
GetFreeThread ==
  LET free == {i \in 1 .. MAX_THREAD : NetinfdTd[i] = 0}
  IN  IF free = {} THEN main.p_thread ELSE CHOOSE i \in free : \A j \in free : i =< j

Select ==
  /\ main.pc = "select" /\ backlog # <<>>
  /\ main' = [pc |-> "lock", p_thread |-> GetFreeThread]
  /\ UNCHANGED <<cl, backlog, lock_thrdParam, acceptsock, NetinfdTd, h, up, down,
                 ConfigHashTable, faults>>

\* Mutant of MayLock: main does not wait for the thread to take its socket.
MayLockAlways == TRUE

MayLock == ~lock_thrdParam

Accept ==
  /\ main.pc = "lock" /\ MayLock
  /\ lock_thrdParam' = TRUE
  /\ \/ acceptsock' = Head(backlog) /\ UNCHANGED faults
     \/ faults < MaxFaults /\ faults' = faults + 1 /\ acceptsock' = None
  /\ backlog' = Tail(backlog)
  /\ main' = [main EXCEPT !.pc = "create"]
  /\ UNCHANGED <<cl, NetinfdTd, h, up, down, ConfigHashTable>>

Create ==
  /\ main.pc = "create"
  /\ main' = [main EXCEPT !.pc = "select"]
  /\ \/ \E t \in Ids \ Alive :
          /\ \A u \in Ids \ Alive : t =< u
          /\ h' = [h EXCEPT ![t] = [NoThread EXCEPT !.pc = "start"]]
          /\ NetinfdTd' = [NetinfdTd EXCEPT ![main.p_thread] = t]
          /\ UNCHANGED faults
     \/ /\ faults < MaxFaults /\ faults' = faults + 1
        /\ UNCHANGED <<h, NetinfdTd>>
  /\ UNCHANGED <<cl, backlog, lock_thrdParam, acceptsock, up, down, ConfigHashTable>>

(***************************************************************************)
(* The thread of one connection.                                           *)
(***************************************************************************)
svars == <<main, backlog, acceptsock, faults>>

TakeSocket(t) ==
  /\ h[t].pc = "start"
  /\ h' = [h EXCEPT ![t].pc = "read", ![t].sock = acceptsock]
  /\ lock_thrdParam' = FALSE
  /\ UNCHANGED <<svars, cl, NetinfdTd, up, down, ConfigHashTable>>

\* No socket, no memory or a failed read: the thread returns inside the
\* push/pop pair of its clean-up handler, which therefore does not run.
EarlyReturn(t) ==
  /\ h[t].pc = "read"
  /\ \/ h[t].sock = None /\ UNCHANGED faults
     \/ h[t].sock # None /\ h[t].got = 0 /\ faults < MaxFaults /\ faults' = faults + 1
  /\ h' = [h EXCEPT ![t] = NoThread]
  /\ UNCHANGED <<main, backlog, acceptsock, cl, lock_thrdParam, NetinfdTd, up, down, ConfigHashTable>>

ReadRequest(t) ==
  /\ h[t].pc = "read" /\ h[t].sock # None
  /\ \E n \in 1 .. up[h[t].sock] :
       /\ up' = [up EXCEPT ![h[t].sock] = @ - n]
       /\ h' = [h EXCEPT ![t].got = @ + n, ![t].pc = IF h[t].got + n = Size THEN "serve" ELSE @]
  /\ UNCHANGED <<svars, cl, lock_thrdParam, NetinfdTd, down, ConfigHashTable>>

Req(t) == cl[h[t].sock].req

\* The entry of the key, else the first free entry, else 0.
find_config(key) ==
  LET mine == {i \in 1 .. CONFIG_SIZE : ConfigHashTable[i].buse = 1 /\ ConfigHashTable[i].key = key}
      free == {i \in 1 .. CONFIG_SIZE : ConfigHashTable[i].buse = 0}
      first(S) == CHOOSE i \in S : \A j \in S : i =< j
  IN  IF mine # {} THEN first(mine) ELSE IF free # {} THEN first(free) ELSE 0

\* Neither strncpy of config_set copies a NUL, and the memory is malloc's: what
\* lies behind a string is a NUL by chance or goes on in it.
Behind == {<<>>, <<0>>}
Copied(value) == {value \o rest : rest \in Behind}

\* config_set on the entry found, as strings: what strcmp and a reader see there.
\* A free entry takes the pair, its key perhaps never to be found again (None); a
\* used one takes the value, over the beginning of an old one for which room was
\* made, whose end stays, or in larger memory.
Stored(e, key, value) ==
  IF e.buse = 0
  THEN [buse : {1}, key : {key, None}, room : {Len(value)}, value : Copied(value)]
  ELSE IF Len(value) <= e.room
  THEN {[e EXCEPT !.value = value \o SubSeq(e.value, Len(value) + 1, Len(e.value))]}
  ELSE {[e EXCEPT !.room = Len(value), !.value = copy] : copy \in Copied(value)}

\* atoi(request->value) * 100 rounds; from a negative number it counts down for ever.
Rounds(r) == IF r.type # "DNSLOOKUP" THEN 0 ELSE IF r.known THEN DnsCount ELSE -1

\* The switch over the request's type: GET and SET look for the entry, the
\* other requests fork a child (a failed fork answers nothing) or run a
\* command, whose status is not reported; an interface is neither enabled nor
\* disabled for another value than y and n, and the socket is closed.
Serve(t) ==
  /\ h[t].pc = "serve"
  /\ CASE Req(t).type \in {"GET", "SET"} ->
            /\ h' = [h EXCEPT ![t].pc = "entry", ![t].ptr = find_config(Req(t).key)]
            /\ UNCHANGED faults
       [] Req(t).type = "NIENABLE" ->
            /\ h' = IF Req(t).known THEN [h EXCEPT ![t].pc = "reply", ![t].got = 0, ![t].status = 0]
                    ELSE [h EXCEPT ![t].pc = "over", ![t].sock = None]
            /\ UNCHANGED faults
       [] OTHER ->
            \/ /\ h' = [h EXCEPT ![t].pc = "wait", ![t].child = "runs", ![t].count = Rounds(Req(t))]
               /\ UNCHANGED faults
            \/ /\ faults < MaxFaults /\ faults' = faults + 1
               /\ h' = [h EXCEPT ![t].pc = "over"]
  /\ UNCHANGED <<main, backlog, acceptsock, cl, lock_thrdParam, NetinfdTd, up, down, ConfigHashTable>>

Entry(t) ==
  /\ h[t].pc = "entry"
  /\ LET i == h[t].ptr
         e == ConfigHashTable[i]
     IN  IF Req(t).type = "GET"
         THEN /\ h' = [h EXCEPT ![t].pc = "reply", ![t].got = 0, ![t].status = 0,
                         ![t].value = IF i = 0 THEN <<>> ELSE IF e.buse = 0 THEN <<>> ELSE e.value]
              /\ UNCHANGED ConfigHashTable
         ELSE /\ h' = [h EXCEPT ![t].pc = "reply", ![t].got = 0, ![t].status = IF i = 0 THEN -1 ELSE 0]
              /\ IF i = 0 THEN UNCHANGED ConfigHashTable
                 ELSE \E new \in Stored(e, Req(t).key, Req(t).value) :
                        ConfigHashTable' = [ConfigHashTable EXCEPT ![i] = new]
  /\ UNCHANGED <<svars, cl, lock_thrdParam, NetinfdTd, up, down>>

\* The child ends by itself, with success or not (external: a script, gethostbyname).
ChildEnds(t) ==
  /\ h[t].pc = "wait" /\ h[t].child = "runs"
  /\ \E s \in {"ok", "bad"} : h' = [h EXCEPT ![t].child = s]
  /\ UNCHANGED <<svars, cl, lock_thrdParam, NetinfdTd, up, down, ConfigHashTable>>

\* Mutant of Patient: the look-up waits for its child as the scripts do.
PatientAlways(t) == TRUE

\* A script is waited for; a look-up only for its rounds.
Patient(t) == Req(t).type # "DNSLOOKUP" \/ h[t].count # 0

\* waitpid: the child's status, one more round, or the time-out, which kills it.
WaitChild(t) ==
  /\ h[t].pc = "wait"
  /\ \/ /\ h[t].child # "runs"
        /\ h' = [h EXCEPT ![t].pc = "reply", ![t].got = 0, ![t].child = "none",
                   ![t].status = IF h[t].child = "ok" THEN 0 ELSE -1]
     \/ /\ h[t].child = "runs" /\ Patient(t) /\ h[t].count > 0
        /\ h' = [h EXCEPT ![t].count = @ - 1]
     \/ /\ h[t].child = "runs" /\ ~Patient(t)
        /\ h' = [h EXCEPT ![t].pc = "reply", ![t].got = 0, ![t].child = "none", ![t].status = -1]
  /\ UNCHANGED <<svars, cl, lock_thrdParam, NetinfdTd, up, down, ConfigHashTable>>

\* safe_write of the reply, and the close after its last piece.
WriteReply(t) ==
  /\ h[t].pc = "reply"
  /\ \E n \in 1 .. Size - h[t].got :
       LET all == h[t].got + n = Size
           s == h[t].sock
       IN  /\ down' = [down EXCEPT ![s] = @ + n]
           /\ h' = [h EXCEPT ![t].got = @ + n, ![t].pc = IF all THEN "over" ELSE @,
                      ![t].sock = IF all THEN None ELSE @]
           /\ cl' = IF all THEN [cl EXCEPT ![s].status = h[t].status, ![s].value = h[t].value] ELSE cl
  /\ UNCHANGED <<svars, lock_thrdParam, NetinfdTd, up, ConfigHashTable>>

\* The first slot with the thread's name is free again.
FreeThisThread(t) ==
  LET mine == {i \in 1 .. MAX_THREAD : NetinfdTd[i] = t}
  IN  IF mine = {} THEN NetinfdTd
      ELSE [NetinfdTd EXCEPT ![CHOOSE i \in mine : \A j \in mine : i =< j] = 0]

Over(t) ==
  /\ h[t].pc = "over"
  /\ NetinfdTd' = FreeThisThread(t)
  /\ h' = [h EXCEPT ![t] = NoThread]
  /\ UNCHANGED <<svars, cl, lock_thrdParam, up, down, ConfigHashTable>>

Handler(t) == TakeSocket(t) \/ EarlyReturn(t) \/ ReadRequest(t) \/ Serve(t) \/ Entry(t)
              \/ WaitChild(t) \/ WriteReply(t) \/ Over(t)
ClientCall(c) == \/ netinfd_get(c) \/ netinfd_set(c) \/ netinfd_dhcp(c)
           \/ netinfd_ifconf(c) \/ netinfd_nienable(c) \/ netinfd_dnslookup(c)
Client(c) == safe_write(c) \/ safe_read(c) \/ Return(c)
Main == Select \/ Accept \/ Create

NNext == \/ \E c \in Clients : ClientCall(c) \/ Client(c)
         \/ Main
         \/ \E t \in Ids : Handler(t) \/ ChildEnds(t)

\* Every thread and process goes on; a script ends, a look-up need not.
NFair == /\ WF_nvars(Main)
         /\ \A c \in Clients : WF_nvars(Client(c))
         /\ \A t \in Ids : WF_nvars(Handler(t))
         /\ \A t \in Ids : WF_nvars(ChildEnds(t) /\ Req(t).type # "DNSLOOKUP")

(***************************************************************************)
(* The hand-over of the accepted socket: two threads never have the same   *)
(* connection, whatever fails, and the mutex is locked exactly while a     *)
(* socket has been accepted that no thread has taken yet.                  *)
(***************************************************************************)
OneThreadPerConnection ==
  /\ \A t, u \in Alive : (t # u /\ h[t].sock # None) => h[t].sock # h[u].sock
  /\ Cardinality({t \in Alive : h[t].pc = "start"}) =< 1
  /\ \A t \in Alive : h[t].pc = "start" => lock_thrdParam
  /\ acceptsock # None /\ (\E t \in Alive : h[t].pc = "start") =>
       ~\E t \in Alive : h[t].sock = acceptsock

(***************************************************************************)
(* The slots name running threads, each once, as long as no thread left by *)
(* an early return: however many more connections than slots there are, a  *)
(* slot is never lost for good.                                            *)
(***************************************************************************)
SlotsNameRunning ==
  faults = 0 =>
    /\ \A i \in 1 .. MAX_THREAD : NetinfdTd[i] # 0 => NetinfdTd[i] \in Alive
    /\ \A i, j \in 1 .. MAX_THREAD : (NetinfdTd[i] # 0 /\ NetinfdTd[i] = NetinfdTd[j]) => i = j
    /\ Cardinality(Alive) < MAX_THREAD => \E i \in 1 .. MAX_THREAD : NetinfdTd[i] = 0

(***************************************************************************)
(* netinfd_get returns what this client, the only one that sets, set last  *)
(* for that key, up to what config_set leaves or finds behind it, also     *)
(* when the table is full.  A key without its NUL in every entry is lost:  *)
(* then it returns nothing, and never an older value or another key's.     *)
(***************************************************************************)
Setter(c) == \E r \in Requests[c] : r.type = "SET"
OneSetter == \A c, d \in Clients : Setter(c) /\ Setter(d) => c = d
EntriesOf(key) == {i \in 1 .. CONFIG_SIZE : ConfigHashTable[i].buse = 1 /\ ConfigHashTable[i].key = key}
Prefixed(last, v) == SubSeq(v, 1, Len(last)) = last
GetReturnsLastSet ==
  OneSetter => \A c \in Clients :
    (Setter(c) /\ cl[c].pc = "done" /\ cl[c].req.type = "GET" /\ cl[c].status = 0) =>
       LET key == cl[c].req.key
       IN  IF EntriesOf(key) # {} THEN Prefixed(cl[c].set[key], cl[c].value) ELSE cl[c].value = <<>>

(***************************************************************************)
(* Every call of a client whose value the daemon knows returns, as long as *)
(* nothing failed inside the daemon: more connections than slots, a slow   *)
(* script, a look-up that hangs, or another client that is left without an *)
(* answer for its own value, do not stop it.                               *)
(***************************************************************************)
Understood(r) == r.type \in {"NIENABLE", "DNSLOOKUP"} => r.known
EachCallReturns ==
  \A c \in Clients : []<>(faults > 0 \/ cl[c].pc = "idle" \/ ~Understood(cl[c].req))
=============================================================================
