----------------------------- MODULE MCMessages -----------------------------
(* What the framework passes messages with, for TLC: a message queue, the   *)
(* daemon netinfd with its clients, a client of ipcd, and the wire format.  *)
(* Each behaviour is about one of them.                                     *)
EXTENDS MsgQueue, Netinfd, IpcClient, Request

VARIABLES part, cmd, priv, found

\* One client sets and gets two keys in a table of one entry, the other
\* runs a script, a look-up and a command, with one slot for two threads.
MCRequests ==
    [c1 |-> {[type |-> "SET", key |-> "k1", value |-> <<1, 2>>], [type |-> "SET", key |-> "k1", value |-> <<3>>],
             [type |-> "SET", key |-> "k2", value |-> <<2>>],
             [type |-> "GET", key |-> "k1"]},
     c2 |-> {[type |-> "DHCP", key |-> "k1"], [type |-> "IFCONF", key |-> "k1"]}
            \cup {[type |-> q, key |-> "k1", known |-> k] : q \in {"DNSLOOKUP", "NIENABLE"}, k \in BOOLEAN}]
MCLoads == {[c1 |-> 3, c2 |-> 0], [c1 |-> 1, c2 |-> 1], [c1 |-> 0, c2 |-> 2]}
MCTexts == {<<>>, <<1>>, <<2, 1>>, <<1, 2, 3>>, <<1, 1, 1, 1>>}

\* Bound: of the three messages one is of one word and two are of two, every
\* second one starts with a zero word; and the buffer of a receiver keeps its size:
\* the first one's is smaller than the longer messages, the other's larger.
LeadsAlternate == \A i \in DOMAIN slot : LET m == slot[i].msg
                                         IN  m.lead = m.tick % 2 /\ (m.tick > 0 => m.len = m.tick \div 2 + 1)
BuffersDiffer ==
    LET small == CHOOSE t \in Receivers : TRUE
        Suits(t, size) == size = 0 \/ (t = small <=> size < z_maxsize)
    IN  \A t \in Receivers : Suits(t, call[t].size) /\ Suits(t, got[t].buf)

wvars == <<cmd, priv, found>>
allvars == <<part, vars, nvars, ivars, wvars>>

MCInit == /\ part \in {"queue", "netinfd", "ipcd", "wire"}
          /\ Init /\ NInit /\ PInit
          /\ IF part = "wire" THEN cmd \in Strings /\ priv \in Strings /\ found \in Strings
             ELSE cmd = Null /\ priv = Null /\ found = Null
MCNext == \/ part = "queue" /\ Next /\ LeadsAlternate' /\ BuffersDiffer'
             /\ UNCHANGED <<part, nvars, ivars, wvars>>
          \/ part = "netinfd" /\ NNext /\ UNCHANGED <<part, vars, ivars, wvars>>
          \/ part = "ipcd" /\ PNext /\ UNCHANGED <<part, vars, nvars, wvars>>
MCSpec == /\ MCInit /\ [][MCNext]_allvars
          /\ \A t \in Receivers : WF_vars(part = "queue" /\ Dispatches(t))
          /\ WF_nvars(part = "netinfd" /\ Main)
          /\ \A c \in Clients : WF_nvars(part = "netinfd" /\ Client(c))
          /\ \A t \in Ids : /\ WF_nvars(part = "netinfd" /\ Handler(t))
                             /\ WF_nvars(part = "netinfd" /\ ChildEnds(t) /\ Req(t).type # "DNSLOOKUP")
          /\ PFair

\* See Netinfd: with more connections than slots each connection is served by
\* one thread, a slot in use names a running thread, and a GET answers with
\* what was set last.
ConnectionsServed == OneThreadPerConnection /\ SlotsNameRunning /\ GetReturnsLastSet
\* See IpcClient and Request: whatever step of a call fails, exactly the blocks
\* of the request are freed, a success is the daemon's and no callback comes
\* twice; a request that fits arrives as it was sent, another one is not sent,
\* and a reply packed in place says what the daemon found.
RequestsExact ==
    /\ RequestFreedExactly /\ SuccessIsTheDaemons /\ CallbackAtMostOnce
    /\ part = "wire" => RequestRoundTrip(cmd, priv) /\ ReplyRoundTrip(cmd, priv, found)
\* See Netinfd and IpcClient: the calls of the clients of netinfd return, and an
\* accepted asynchronous command of ipcd is called back.
CallsReturn == /\ part = "netinfd" => EachCallReturns
               /\ part = "ipcd" => CallbackComes
=============================================================================
