----------------------------- MODULE MCNetProbe -----------------------------
(* What c_mt_lx_net_cfg.c asks of the network, for TLC: the IPv6            *)
(* configuration, pings, connection tests, ARP requests, PPPoE and the      *)
(* texts it reads.  Each behaviour is about one of them.                    *)
EXTENDS NetIpv6

\* By hand, with router advertisements, mixed, and automatic.
MCSettings == {[ra |-> FALSE, ip |-> 0, dns |-> 0], [ra |-> TRUE, ip |-> 1, dns |-> 1],
               [ra |-> TRUE, ip |-> 1, dns |-> 0], [ra |-> FALSE, ip |-> 1, dns |-> 1]}

\* Bound: the second request is by hand or leaves all to the routers.
SecondIsEither == requests = 2 => info.ra = (info.dns = AUTO)

\* Bound: two calls, requests or disablings, "d" before "e"; a third if the request
\* is for everything from the routers and nothing failed and no advertisement came.
FewCalls == /\ dis["e"] # "idle" => disables = 2
            /\ requests + disables > 2 => requests = 1 /\ info.ra /\ info.dns = AUTO /\ faults + adverts = 0

VARIABLES part,
          pid, ping, fds, inbox, flying, stole, pings, strays,
          test, frame, lookups, open, tests,
          conf, ask, request, reply, blocks, sockets, asks, packets,
          cfg, app, jobs, ptold, crash, ops,
          input

\* Waits of 2, of 33, whose product with 1000 does not fit in 16 bits, and one
\* with PING_MS.
Ping(k, h, w) == [kind |-> k, host |-> h, wait |-> w]
MCAsked == {Ping("v4", "up", 2), Ping("v4", "down", 33), Ping("v4", "down", -32268),
            Ping("dlna", "up", 2), Ping("v6", "up", 2), Ping("v6", "down", 2)}
G == INSTANCE NetPing WITH Pingers <- {"p", "q"}, Asked <- MCAsked, Pids <- {7, 65543}, MaxPings <- 2, MaxStrays <- 1

\* Bound: of two pings at a time, one goes to a host that is up.
OneIsUp == ping["q"].host = "up"

T == INSTANCE NetConnect WITH Urls <- {"u", "v"}, Polls <- 2, MaxTests <- 2

MCConfs == {<<"empty", "empty">>, <<"skip", "good">>, <<"good", "skip">>, <<"good", "good">>}
A == INSTANCE NetArp WITH Askers <- {"a", "b"}, Hosts <- {"h", "i"}, Confs <- MCConfs, MaxAsks <- 2, MaxPackets <- 1

P == INSTANCE NetPppoe WITH Fns <- {"f", "g"}, MaxOps <- 3, told <- ptold

X == INSTANCE NetText WITH Sync <- 3, Mac <- 2, Copies <- 2

gvars == <<pid, ping, fds, inbox, flying, stole, pings, strays>>
tvars == <<test, frame, lookups, open, tests>>
avars == <<conf, ask, request, reply, blocks, sockets, asks, packets>>
pvars == <<cfg, app, jobs, ptold, crash, ops>>
allvars == <<part, ivars, gvars, tvars, avars, pvars, input>>

-----------------------------------------------------------------------------
(* The inputs of the pure parts.                                             *)

SeqsUpTo(S, n) == UNION {[1..k -> S] : k \in 0..n}
Addresses == UNION {[1..k -> {0, 5, 16, 171, 255}] : k \in 1..3}
\* Interfaces whose names begin alike, and lines glued or not.
Names == {<<1>>, <<1, 0>>, <<2>>}
Lines == [name : Names, glued : BOOLEAN, rx : {3}, tx : {4, 5}]
ResolvLines == [key : {"nameserver", "search"}, family : {4, 6}, addr : {7, 8}]
Routes == [dst : {0, 9}, gw : {1, 2}, dev : {"eth0", "eth1"}]
Interfaces == [name : {0, 1, 2}, addr : {-1, 0, 5, 6}]
InfoLines == [key : X!InfoKeys, addr : {-1, 7, 8}]
\* 2001::, 3fff::, fe80::, fd00::, ff02::
AddressMsgs == [h : {8193, 16383, 65152, 64768, 65282}, index : {1, 2}, permanent : BOOLEAN, secondary : BOOLEAN]
LinkMsgs == [type : {"NEWLINK", "OTHER"}, index : {1, 2}, flags : {{}, {"rcvd"}}]
Reads == {X!Missing, {}, {"ready"}, {"rcvd", "managed"}, {"rcvd", "other", "ready"}}

\* Packets around the shortest one that can be magic, over 0xFF and another
\* byte, with every address those bytes make.
Packets == UNION {[1..n -> {255, 1}] : n \in 8..9}
Macs == [1..2 -> {255, 1}]

MCInit == /\ part \in {"ipv6", "ping", "connect", "arp", "pppoe",
                       "checksum", "prefix", "mac", "statistics", "dns", "routes", "interfaces",
                       "info", "addresses", "links", "advert", "magic"}
          /\ IInit
          /\ G!GInit /\ (part # "ping" => pid = 7)
          /\ T!TInit
          /\ A!AInit /\ (part # "arp" => conf = <<"good", "good">>)
          /\ P!PInit
          /\ input \in CASE part = "checksum"   -> SeqsUpTo({0, 1, 32767, 65534, 65535}, 3)
                         [] part = "prefix"     -> {<<n, len>> : n \in 0..8, len \in 8..9}
                         [] part = "mac"        -> Addresses \X BOOLEAN
                         [] part = "statistics" -> SeqsUpTo(Lines, 2) \X Names
                         [] part = "dns"        -> SeqsUpTo(ResolvLines, 3) \X {0, -1, 7, 8} \X {0, -1, 7, 9}
                         [] part = "routes"     -> SeqsUpTo(Routes, 3) \X {"eth0", "eth1"}
                         [] part = "interfaces" -> SeqsUpTo(Interfaces, 3) \X {5, 6, 7}
                         [] part = "info"       -> SeqsUpTo(InfoLines, 3) \X (0..6)
                         [] part = "addresses"  -> SeqsUpTo(AddressMsgs, 2) \X {1, 2}
                         [] part = "links"      -> SeqsUpTo(LinkMsgs, 3) \X (0..3) \X {1, 2}
                         [] part = "advert"     -> SeqsUpTo(Reads, 3) \X {{}, {"ready"}, {"managed"}} \X {"manual", "stateful"}
                         [] part = "magic"      -> Packets \X Macs \X (0..2)
                         [] OTHER               -> {<<>>}

MCNext == \/ part = "ipv6" /\ INext /\ SecondIsEither' /\ FewCalls' /\ UNCHANGED <<part, gvars, tvars, avars, pvars, input>>
          \/ part = "ping" /\ G!GNext /\ OneIsUp' /\ UNCHANGED <<part, ivars, tvars, avars, pvars, input>>
          \/ part = "connect" /\ T!TNext /\ UNCHANGED <<part, ivars, gvars, avars, pvars, input>>
          \/ part = "arp" /\ A!ANext /\ UNCHANGED <<part, ivars, gvars, tvars, pvars, input>>
          \/ part = "pppoe" /\ P!PNext /\ UNCHANGED <<part, ivars, gvars, tvars, avars, input>>

\* In a part that is not followed nothing is enabled: its fairness asks nothing.
MCSpec == MCInit /\ [][MCNext]_allvars /\ IFair /\ G!GFair /\ T!TFair /\ P!PFair

-----------------------------------------------------------------------------
\* See NetIpv6: a request is told at most once, a success has all that was asked
\* for, a configuration by hand has nothing of the routers' left, and a thread is
\* joined once.
Ipv6Exact == ToldAtMostOnce /\ SuccessIsComplete /\ ManualIsPure /\ JoinedOnce
\* See NetPing: a ping that ends has called back once and left no descriptor
\* open, a time means that the host answered, and the time asked for bounds the
\* first wait.
PingsExact == G!DescriptorsReturned /\ G!ToldOnce /\ G!TimeIsTheHosts /\ G!FirstWaitBounded
\* See NetConnect, NetArp and NetPppoe: a success is a connection, to an address
\* of the name asked for, a MAC is the asked host's, sockets and blocks are given
\* back, and a PPPoE configuration is whole or empty.
AnswersAreOwn == /\ T!OkIsConnected /\ T!TestsClose /\ T!OwnAddress
                 /\ A!MacIsAsked /\ A!ArpReleases /\ P!ConfigWhole
\* See NetText: what is set, printed or listed is what is read: addresses of
\* arping, the statistics of the interface's own line, DNS servers, gateways and
\* routes, interfaces, PPPoE's file, and the datagrams of netlink; exactly the
\* magic packets wake.  See NetIpv6 and NetPing: the prefix of a mask of n ones is
\* n, and a receiver accepts the checksum.
TextExact ==
    CASE part = "prefix" -> PrefixIsExact(input[1], input[2])
      [] part = "checksum" -> G!ChecksumVerifies(input)
      [] part = "mac" -> X!MacReadBack(input[1], input[2])
      [] part = "statistics" -> X!StatisticsExact(input[1], input[2])
      [] part = "dns" -> X!DnsReadBack(input[1], input[2], input[3]) /\ \A f \in {4, 6} : X!ServersAreFirst(input[1], f)
      [] part = "routes" -> X!GatewayIsDevices(input[1], input[2]) /\ X!RoutesRemoved(input[1], input[2])
      [] part = "interfaces" -> X!IfnameFound(input[1], input[2])
      [] part = "info" -> input[2] <= 2 * Len(input[1]) => X!PppoeInfoExact(input[1], input[2])
      [] part = "addresses" -> X!AddressFound(input[1], input[2])
      [] part = "links" -> input[2] <= Len(input[1]) => X!FlagsFound(input[1], input[2], input[3])
      [] part = "advert" -> X!RaDecides(input[1], input[2], input[3])
      [] part = "magic" -> X!ScanIsExact(input[1], input[2]) /\ X!CarryNeverHides(input[1], input[3], input[2])
      [] OTHER -> TRUE
\* See the modules: an IPv6 request is answered, pings end, connection tests
\* return, and a PPPoE connection that came up is told.
ProbesEnd == RequestAnswered /\ G!PingsEnd /\ T!TestsReturn /\ P!SuccessIsTold
=============================================================================
