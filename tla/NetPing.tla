------------------------------- MODULE NetPing -------------------------------
(***************************************************************************)
(* The pings of mw/linux_c_api/c_mt_lx_net_cfg.c: c_net_ping_v4,           *)
(* c_dlna_net_ping_v4 and c_net_ping_v6, called by several threads of one  *)
(* process.  Every ping opens a raw socket and the kernel hands each ICMP  *)
(* packet to every raw socket of the family; the identifier in the packet  *)
(* is the process id, cut to 16 bits, so that nothing tells one ping of    *)
(* the process from another.  Descriptors are numbers that the kernel      *)
(* gives out again, the smallest first: the second close of an answered    *)
(* IPv4 ping may hit a socket of another thread, and a behaviour is        *)
(* followed up to there.                                                   *)
(***************************************************************************)
EXTENDS Integers, Sequences, FiniteSets, FiniteSetsExt, SequencesExt

CONSTANTS Pingers,     \* the threads
          Asked,       \* the pings: [kind, host, wait] the host is "up" or "down"
          Pids,        \* values of getpid()
          MaxPings,    \* bound on the calls
          MaxStrays    \* bound on packets that answer no ping

-----------------------------------------------------------------------------
(* The checksum.                                                             *)

\* ping_chksum of 16-bit words: the sum folded twice and complemented.
ping_chksum(words) ==
    LET sum  == FoldSeq(LAMBDA w, s : w + s, 0, words)
        fold == (sum \div 65536) + (sum % 65536)
    IN  65535 - ((fold + (fold \div 65536)) % 65536)

\* The receiver's test (RFC 1071) accepts every packet that carries the checksum
\* ping_chksum computes over it: the ones' complement sum of the words and the
\* checksum is 65535.
ChecksumVerifies(words) ==
    LET sum == FoldSeq(LAMBDA w, s : w + s, ping_chksum(words), words)
    IN  sum % 65535 = 0 /\ sum > 0

-----------------------------------------------------------------------------
(* The pings.                                                                *)

Family(kind) == IF kind = "v6" THEN 6 ELSE 4
IdMod == 65536             \* icmp_id is an unsigned short
PING_MS == 32768
Queue == 2                 \* bound on the packets a socket keeps
Fds == 1..Cardinality(Pingers)

VARIABLES pid,       \* getpid()
          ping,      \* the last or running ping of each thread
          fds,       \* descriptor -> its thread or "free"
          inbox,     \* descriptor -> packets to read
          flying,    \* replies on their way
          stole,     \* a thread closed a descriptor of another one
          pings, strays

gvars == <<pid, ping, fds, inbox, flying, stole, pings, strays>>

Quiet == [at |-> "idle", kind |-> "v4", host |-> "up", fd |-> 0, asked |-> 1, wait |-> 1,
          reads |-> 0, told |-> <<>>, alone |-> TRUE, silent |-> TRUE]

GInit == /\ pid \in Pids /\ ping = [p \in Pingers |-> Quiet]
         /\ fds = [f \in Fds |-> "free"] /\ inbox = [f \in Fds |-> <<>>]
         /\ flying = {} /\ stole = FALSE /\ pings = 0 /\ strays = 0

\* i2_wait is an INT16: the product of i2_wait *= 1000 is cut to it.
Int16(n) == ((n + 32768) % 65536) - 32768

\* At recvagain c_net_ping_v4 clears PING_MS, which is the sign of i2_wait, or
\* takes i2_wait for seconds, once more each time.
WaitTime(kind, w) == IF kind = "v4" THEN IF w < 0 THEN w + PING_MS ELSE Int16(w * 1000) ELSE w

\* notify_fn and the end of the call.
Tell(r, result) == [r EXCEPT !.at = "idle", !.told = Append(@, result), !.reads = 0, !.wait = 0]

\* close of the descriptor p opened; its record becomes r.
Close(p, r) ==
    /\ ping' = [ping EXCEPT ![p] = r]
    /\ fds' = [fds EXCEPT ![ping[p].fd] = "free"]
    /\ inbox' = [inbox EXCEPT ![ping[p].fd] = <<>>]
    /\ stole' = (stole \/ fds[ping[p].fd] \notin {p, "free"})
    /\ UNCHANGED <<pid, flying, pings, strays>>

\* A call: the name is resolved ...
Begin(p, a) ==
    /\ ping[p].at = "idle" /\ pings < MaxPings /\ pings' = pings + 1
    /\ ping' = [ping EXCEPT ![p] = [Quiet EXCEPT !.at = "open", !.kind = a.kind, !.host = a.host,
                                                 !.asked = a.wait, !.wait = a.wait, !.silent = FALSE]]
    /\ UNCHANGED <<pid, fds, inbox, flying, stole, strays>>

c_net_ping_v4(p, a) == a.kind = "v4" /\ Begin(p, a)
c_dlna_net_ping_v4(p, a) == a.kind = "dlna" /\ Begin(p, a)
c_net_ping_v6(p, a) == a.kind = "v6" /\ Begin(p, a)

\* ... or is not, or socket fails: sendto on -1 fails for IPv4.
NoSocket(p) ==
    /\ ping[p].at = "open"
    /\ ping' = [ping EXCEPT ![p] = Tell(@, "fail")]
    /\ UNCHANGED <<pid, fds, inbox, flying, stole, pings, strays>>

\* No memory for the address: the IPv4 pings return without a word.
NoMemory(p) ==
    /\ ping[p].at = "open" /\ ping[p].kind # "v6"
    /\ ping' = [ping EXCEPT ![p].at = "idle", ![p].silent = TRUE]
    /\ UNCHANGED <<pid, fds, inbox, flying, stole, pings, strays>>

\* socket.
Open(p) ==
    LET free == {f \in Fds : fds[f] = "free"} IN
    /\ ping[p].at = "open" /\ free # {}
    /\ fds' = [fds EXCEPT ![Min(free)] = p]
    /\ ping' = [ping EXCEPT ![p].at = "send", ![p].fd = Min(free)]
    /\ UNCHANGED <<pid, inbox, flying, stole, pings, strays>>

\* sendto (for IPv6 also SO_BINDTODEVICE and the malloc of the packet) fails.
SendFails(p) == ping[p].at = "send" /\ Close(p, Tell(ping[p], "fail"))

\* The answer of a host carries the identifier of the request.
Reply(kind, host) == [family |-> Family(kind), id |-> pid % IdMod, type |-> "reply", host |-> host]

Running(q) == ping[q].at \notin {"idle", "open"}

\* sendto.  A host that is up answers.
Send(p) ==
    LET r == ping[p] IN
    /\ r.at = "send"
    /\ flying' = IF r.host = "up" THEN flying \union {Reply(r.kind, r.host)} ELSE flying
    /\ ping' = [q \in Pingers |->
                   IF q = p THEN [r EXCEPT !.at = "wait",
                       !.alone = (flying = {} /\ inbox[r.fd] = <<>> /\ \A o \in Pingers \ {p} : ~Running(o))]
                   ELSE IF Running(q) THEN [ping[q] EXCEPT !.alone = FALSE] ELSE ping[q]]
    /\ UNCHANGED <<pid, fds, inbox, stole, pings, strays>>

\* select: an error for a negative time, which the code takes for data.
Select(p) ==
    /\ ping[p].at = "wait"
    /\ ping' = [ping EXCEPT ![p].at = "select", ![p].wait = WaitTime(ping[p].kind, @)]
    /\ UNCHANGED <<pid, fds, inbox, flying, stole, pings, strays>>

\* recvfrom waits without a bound.
Blocked(p) == ping[p].at = "select" /\ ping[p].wait < 0

TimeOut(p) ==
    /\ ping[p].at = "select" /\ ping[p].wait >= 0 /\ inbox[ping[p].fd] = <<>>
    /\ Close(p, Tell(ping[p], "fail"))

\* recvfrom fails.
RecvFails(p) == ping[p].at = "select" /\ Close(p, Tell(ping[p], "fail"))

\* Mutant of Mine: the identifier is not compared.
MineAnyway(packet) == TRUE

\* The identifier, 16 bits, is compared with the process id, 32 bits.
Mine(packet) == packet.id = pid

\* c_net_ping_v4 and c_net_ping_v6 wait again for what is not their reply.
ReadOther(p) ==
    LET f == ping[p].fd IN
    /\ ping[p].at = "select" /\ inbox[f] # <<>> /\ ping[p].kind # "dlna"
    /\ ~(Mine(Head(inbox[f])) /\ Head(inbox[f]).type = "reply")
    /\ ping' = [ping EXCEPT ![p].at = "wait", ![p].reads = @ + 1]
    /\ inbox' = [inbox EXCEPT ![f] = Tail(@)]
    /\ UNCHANGED <<pid, fds, flying, stole, pings, strays>>

\* c_dlna_net_ping_v4 gives up: told for another identifier, silent for another
\* type.
ReadDlna(p) ==
    LET f == ping[p].fd IN
    /\ ping[p].at = "select" /\ inbox[f] # <<>> /\ ping[p].kind = "dlna"
    /\ \/ ~Mine(Head(inbox[f])) /\ Close(p, Tell(ping[p], "fail"))
       \/ /\ Mine(Head(inbox[f])) /\ Head(inbox[f]).type # "reply"
          /\ Close(p, [ping[p] EXCEPT !.at = "idle", !.silent = TRUE])

\* A reply: the time is told and the socket closed; the IPv4 pings come to
\* another close behind the branch.
ReadReply(p) ==
    LET f == ping[p].fd IN
    /\ ping[p].at = "select" /\ inbox[f] # <<>>
    /\ Mine(Head(inbox[f])) /\ Head(inbox[f]).type = "reply"
    /\ Close(p, IF ping[p].kind = "v6" THEN Tell(ping[p], "time")
                ELSE [Tell(ping[p], "time") EXCEPT !.at = "close"])

CloseAgain(p) == ping[p].at = "close" /\ Close(p, [ping[p] EXCEPT !.at = "idle"])

\* The kernel hands a packet to every raw socket of its family.
Deliver(packet) ==
    inbox' = [f \in Fds |-> IF /\ fds[f] # "free" /\ Len(inbox[f]) < Queue
                               /\ Family(ping[fds[f]].kind) = packet.family
                            THEN Append(inbox[f], packet) ELSE inbox[f]]

\* A reply arrives, or is lost.
Arrive(packet) == Deliver(packet) /\ flying' = flying \ {packet} /\ UNCHANGED <<pid, ping, fds, stole, pings, strays>>
Lost(packet)   == flying' = flying \ {packet} /\ UNCHANGED <<pid, ping, fds, inbox, stole, pings, strays>>

\* Traffic of others, and what this process sends to the machine itself.
Stray ==
    /\ strays < MaxStrays /\ strays' = strays + 1
    /\ \E family \in {4, 6}, kind \in {[id |-> 0, type |-> "reply"], [id |-> pid % IdMod, type |-> "echo"]} :
           Deliver([family |-> family, id |-> kind.id, type |-> kind.type, host |-> "other"])
    /\ UNCHANGED <<pid, ping, fds, flying, stole, pings>>

Step(p) == \/ NoSocket(p) \/ NoMemory(p) \/ Open(p) \/ SendFails(p) \/ Send(p) \/ Select(p) \/ TimeOut(p)
           \/ RecvFails(p) \/ ReadOther(p) \/ ReadDlna(p) \/ ReadReply(p) \/ CloseAgain(p)

GNext == /\ ~stole
         /\ \/ \E p \in Pingers, a \in Asked : c_net_ping_v4(p, a) \/ c_dlna_net_ping_v4(p, a) \/ c_net_ping_v6(p, a)
            \/ \E p \in Pingers : Step(p)
            \/ \E packet \in flying : Arrive(packet) \/ Lost(packet)
            \/ Stray

\* Every thread goes on with its call, but recvfrom need not fail nor a packet
\* arrive: a ping that blocks stays blocked.
GFair == \A p \in Pingers : WF_gvars(~stole /\ ~Blocked(p) /\ Step(p))

-----------------------------------------------------------------------------
\* An ended ping has given its socket back: a descriptor in use belongs to the
\* running ping of its thread, on every path with its closes.
DescriptorsReturned ==
    ~stole => \A f \in Fds : fds[f] # "free" =>
                  Running(fds[f]) /\ ping[fds[f]].at # "close" /\ ping[fds[f]].fd = f

\* notify_fn is called once in each call.  The exceptions are the IPv4 pings
\* without memory and the dlna ping that reads another type of packet.
ToldOnce ==
    \A p \in Pingers : /\ Len(ping[p].told) <= 1
                       /\ ping[p].at = "idle" => (Len(ping[p].told) = 1 \/ ping[p].silent)

\* A time that is told means that the host answered, if no other ping of the
\* process was under way and no late reply to one.
TimeIsTheHosts ==
    \A p \in Pingers : ping[p].told = <<"time">> /\ ping[p].alone => ping[p].host = "up"

\* The time asked for bounds the first wait: seconds up to 32, or milliseconds
\* with PING_MS.  (After a packet of others c_net_ping_v4 multiplies again and
\* may come to wait without a bound.)
FirstWaitBounded ==
    \A p \in Pingers : Blocked(p) => \/ ping[p].reads > 0
                                     \/ ping[p].kind = "v4" /\ ping[p].asked > 32
                                     \/ ping[p].kind # "v4" /\ ping[p].asked < 0

\* Every ping ends, if it does not come to wait without a bound.
PingsEnd == []<>(\A p \in Pingers : ping[p].at = "idle" \/ Blocked(p) \/ stole)
=============================================================================
