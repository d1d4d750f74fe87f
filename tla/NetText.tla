------------------------------- MODULE NetText -------------------------------
(***************************************************************************)
(* What mw/linux_c_api/c_mt_lx_net_cfg.c reads: the MAC address that       *)
(* arping prints, /proc/net/dev, the routing tables, /etc/resolv.conf, the *)
(* list of interfaces, PPPoE's file, the kernel's netlink answers, and     *)
(* packets that wake the machine; and the arguments it gives to dns.script.*)
(* A text is a sequence of the words or characters the code tells apart,   *)
(* an answer a sequence of datagrams, a packet a sequence of bytes.        *)
(***************************************************************************)
EXTENDS Integers, Sequences, SequencesExt

CONSTANTS Sync,        \* bytes 0xFF in front of the addresses (6)
          Mac,         \* bytes of an address (6)
          Copies       \* copies of the address (16)

None == -1

-----------------------------------------------------------------------------
(* arp_search_mac_by_ip: "[a:b:...]" with groups of one or two hex digits.   *)

Open == 16   \* '['
Shut == 17   \* ']'
Colon == 18

\* hex2int of the digit with value d, written in either case.
hex2int(d) == IF d \in 0..15 THEN d ELSE -1

\* What a group of idx digits leaves in the address.
Byte(idx, mac) == IF idx = 1 THEN hex2int(mac[1]) ELSE hex2int(mac[1]) * 16 + hex2int(mac[2])

\* The loop over the text.  A third digit in a group fails.
ParseMac(text) ==
    LET f[i \in Nat, st \in [mac : Seq(Int), idx : Nat, out : Seq(Int), started : BOOLEAN]] ==
            IF i > Len(text) THEN [ok |-> st.started, out |-> st.out]
            ELSE LET c == text[i] IN
                 CASE c = Open  -> f[i + 1, [st EXCEPT !.started = TRUE]]
                   [] c = Shut  -> [ok |-> st.started, out |-> Append(st.out, Byte(st.idx, st.mac))]
                   [] c = Colon -> f[i + 1, [st EXCEPT !.out = Append(@, Byte(st.idx, st.mac)), !.idx = 0]]
                   [] OTHER     -> IF ~st.started THEN f[i + 1, st]
                                   ELSE IF st.idx > 1 THEN [ok |-> FALSE, out |-> st.out]
                                   ELSE f[i + 1, [st EXCEPT !.mac[st.idx + 1] = c, !.idx = @ + 1]]
    IN  f[1, [mac |-> <<0, 0>>, idx |-> 0, out |-> <<>>, started |-> FALSE]]

\* A byte in two digits, or in one if it fits and the printer drops the zero.
Digits(b, short) == IF short /\ b < 16 THEN <<b>> ELSE <<b \div 16, b % 16>>

\* Reading back what arping prints gives the address, with or without leading
\* zeros, whatever digits an earlier group left behind.
MacReadBack(mac, short) ==
    LET text == <<Open>> \o FlattenSeq([i \in 1..Len(mac) |-> Digits(mac[i], short) \o <<IF i = Len(mac) THEN Shut ELSE Colon>>])
    IN  ParseMac(text) = [ok |-> TRUE, out |-> mac]

-----------------------------------------------------------------------------
(* parse_ni_statistics over the words of /proc/net/dev.                      *)

\* A line: the name with its colon, glued to the first number if that is long,
\* then 8 numbers received and 8 sent.  A name is a sequence.
Words(line) ==
    (IF line.glued THEN <<[name |-> line.name, num |-> line.rx]>>
     ELSE <<[name |-> line.name, num |-> None], [name |-> <<>>, num |-> line.rx]>>)
    \o [i \in 1..7 |-> [name |-> <<>>, num |-> 0]]
    \o <<[name |-> <<>>, num |-> line.tx]>> \o [i \in 1..7 |-> [name |-> <<>>, num |-> 0]]

\* A word that begins with the interface's name is taken for its line: glued if
\* more than the colon follows the name.  The last such line counts.
parse_ni_statistics(words, ifname) ==
    LET f[i \in Nat, st \in [rx : Int, tx : Int]] ==
            IF i > Len(words) THEN st
            ELSE IF words[i].name = <<>> \/ ~IsPrefix(ifname, words[i].name) THEN f[i + 1, st]
            ELSE LET joined == words[i].num # None \/ words[i].name # ifname
                     at == IF joined THEN i ELSE i + 1
                 IN  f[at + 9, [rx |-> IF words[at].num = None THEN 0 ELSE words[at].num, tx |-> words[at + 8].num]]
    IN  f[1, [rx |-> 0, tx |-> 0]]

\* The bytes of an interface are those of its line, glued or not, if no other
\* interface's name begins with its name (eth1 and eth10).
StatisticsExact(lines, ifname) ==
    LET own == {i \in DOMAIN lines : IsPrefix(ifname, lines[i].name)}
    IN  \A i \in own : own = {i} /\ lines[i].name = ifname =>
            parse_ni_statistics(FlattenSeq([k \in DOMAIN lines |-> Words(lines[k])]), ifname)
                = [rx |-> lines[i].rx, tx |-> lines[i].tx]

-----------------------------------------------------------------------------
(* /etc/resolv.conf and dns.script.                                          *)

\* Lines "nameserver" with an address of the family; others are passed over.
\* c_net_ni_get_dns takes addresses without a colon, c_net_get_dns_v6 and
\* _net_rdnss_set_dns those with one.
IsServer(line, family) == line.key = "nameserver" /\ line.family = family

\* The loop stops at the second.
Servers(lines, family) ==
    LET f[i \in Nat, out \in Seq(Int)] ==
            IF i > Len(lines) \/ Len(out) = 2 THEN out
            ELSE f[i + 1, IF IsServer(lines[i], family) THEN Append(out, lines[i].addr) ELSE out]
    IN  f[1, <<>>]

c_net_ni_get_dns(lines) == Servers(lines, 4)
c_net_get_dns_v6(lines) == Servers(lines, 6)

AnyAddr == 0
Broadcast == -1   \* 0xFFFFFFFF
Valid(a) == a # AnyAddr /\ a # Broadcast

\* c_net_dns_config: "dns.script set" with the addresses that are valid; without
\* any, system runs an empty command.
DnsArguments(d1, d2) == IF Valid(d1) /\ Valid(d2) THEN <<d1, d2>>
                        ELSE IF Valid(d1) THEN <<d1>> ELSE IF Valid(d2) THEN <<d2>> ELSE <<>>

\* dns.script set replaces the IPv4 servers and leaves the other lines
\* (external: from what the code relies on).
Script(lines, args) ==
    [i \in DOMAIN args |-> [key |-> "nameserver", family |-> 4, addr |-> args[i]]]
    \o SelectSeq(lines, LAMBDA l : ~IsServer(l, 4))

\* What c_net_dns_config sets is what c_net_ni_get_dns reads, the valid
\* addresses in their order, and the IPv6 servers stay.
DnsReadBack(lines, d1, d2) ==
    LET new == Script(lines, DnsArguments(d1, d2))
    IN  Valid(d1) \/ Valid(d2) => /\ c_net_ni_get_dns(new) = SelectSeq(<<d1, d2>>, Valid)
                                   /\ c_net_get_dns_v6(new) = c_net_get_dns_v6(lines)

\* At most the first two servers of the family are returned, and none is missed.
ServersAreFirst(lines, family) ==
    LET all == SelectSeq(lines, LAMBDA l : IsServer(l, family))
    IN  Servers(lines, family) = [i \in 1..(IF Len(all) < 2 THEN Len(all) ELSE 2) |-> all[i].addr]

-----------------------------------------------------------------------------
(* Routes and interfaces.                                                    *)

\* c_net_ni_get_gateway: the first default route, whatever its interface.
c_net_ni_get_gateway(routes) ==
    LET i == SelectInSeq(routes, LAMBDA r : r.dst = 0) IN IF i = 0 THEN None ELSE routes[i].gw

\* c_net_ni_get_gw_v6: the first default route of the interface.
c_net_ni_get_gw_v6(routes, dev) ==
    LET i == SelectInSeq(routes, LAMBDA r : r.dst = 0 /\ r.dev = dev) IN IF i = 0 THEN None ELSE routes[i].gw

\* c_net_ni_delete_gw_v6: "ip -6 route del default dev" removes one route, or
\* fails (external).
c_net_ni_delete_gw_v6(routes, dev) ==
    LET i == SelectInSeq(routes, LAMBDA r : r.dst = 0 /\ r.dev = dev)
    IN  IF i = 0 THEN [ret |-> -1, routes |-> routes] ELSE [ret |-> 0, routes |-> RemoveAt(routes, i)]

\* c_net_ni_rmv6_gw: until no default route is found or removing one fails.
c_net_ni_rmv6_gw(routes, dev) ==
    LET f[rs \in Seq([dst : Int, gw : Int, dev : STRING])] ==
            IF c_net_ni_get_gw_v6(rs, dev) = None THEN [ret |-> 0, routes |-> rs]
            ELSE LET del == c_net_ni_delete_gw_v6(rs, dev) IN IF del.ret # 0 THEN del ELSE f[del.routes]
    IN  f[routes]

\* The gateway c_net_ni_get_gateway returns is the one of the interface asked
\* for, if no other interface has a default route: it does not compare the name.
GatewayIsDevices(routes, dev) ==
    (\A i \in DOMAIN routes : routes[i].dst = 0 => routes[i].dev = dev)
        => c_net_ni_get_gateway(routes) = c_net_ni_get_gw_v6(routes, dev)

\* The loop of c_net_ni_rmv6_gw removes the default routes of its interface and
\* nothing else, and succeeds: the command that deletes and the table that is
\* read agree on the route.
RoutesRemoved(routes, dev) ==
    c_net_ni_rmv6_gw(routes, dev) =
        [ret |-> 0, routes |-> SelectSeq(routes, LAMBDA r : ~(r.dst = 0 /\ r.dev = dev))]

\* c_net_ip_to_ifname: to the first empty name.  The loopback address is in
\* network order here and not skipped.
c_net_ip_to_ifname(conf, addr) ==
    LET i == SelectInSeq(conf, LAMBDA c : c.name = 0 \/ (Valid(c.addr) /\ c.addr = addr))
    IN  IF i = 0 \/ conf[i].name = 0 THEN None ELSE conf[i].name

\* A used address finds the first interface that has it, loopback included,
\* also behind interfaces without an address.
IfnameFound(conf, addr) ==
    LET used == SelectSeq(conf, LAMBDA c : c.name # 0)
        has  == {i \in DOMAIN used : used[i].addr = addr}
    IN  Valid(addr) /\ used = SubSeq(conf, 1, Len(used)) =>
            IF has = {} THEN c_net_ip_to_ifname(conf, addr) = None
            ELSE \E i \in has : (\A k \in has : i <= k) /\ c_net_ip_to_ifname(conf, addr) = used[i].name

-----------------------------------------------------------------------------
(* c_pppoe_get_info over the words of /var/pppoeinfo.                        *)

NoInfo == [IP |-> 0, Subnet |-> 0, router |-> 0, dns1 |-> 0, dns2 |-> 0]

\* A word is a key, or an address: None if inet_aton refuses it.
Word(key, addr) == [key |-> key, addr |-> addr]
InfoKeys == {"IP", "Subnet", "router", "DNS"}

\* Where the address behind a key goes; servers after the second go nowhere.
Stored(info, key, addr, dnscnt) ==
    CASE key # "DNS" -> [info EXCEPT ![key] = addr]
      [] dnscnt = 0  -> [info EXCEPT !.dns1 = addr]
      [] dnscnt = 1  -> [info EXCEPT !.dns2 = addr]
      [] OTHER       -> info

\* The loop: behind a key the next word is its value; a refused one leaves
\* t_addr as the value before made it, at first uninitialized (None).
c_pppoe_get_info(words) ==
    LET f[i \in Nat, st \in [info : [DOMAIN NoInfo -> Int], t_addr : Int, dnscnt : Nat]] ==
            IF i > Len(words) THEN st.info
            ELSE IF words[i].key \notin InfoKeys THEN f[i + 1, st]
            ELSE IF i = Len(words) THEN st.info
            ELSE LET key == words[i].key
                     addr == IF words[i + 1].addr = None THEN st.t_addr ELSE words[i + 1].addr
                 IN  f[i + 2, [info |-> Stored(st.info, key, addr, st.dnscnt), t_addr |-> addr,
                               dnscnt |-> IF key = "DNS" THEN st.dnscnt + 1 ELSE st.dnscnt]]
    IN  f[1, [info |-> NoInfo, t_addr |-> None, dnscnt |-> 0]]

\* A file of lines with a key and an address, read while only its first words
\* are written: a field has the address of its last whole line, the servers
\* those of the first two, and an address that is refused is taken to be the
\* one of the line before.
PppoeInfoExact(lines, cut) ==
    LET words == FlattenSeq([i \in DOMAIN lines |-> <<Word(lines[i].key, None), Word("-", lines[i].addr)>>])
        info  == c_pppoe_get_info(SubSeq(words, 1, cut))
        whole == cut \div 2
        valid(i) == {k \in 1..i : lines[k].addr # None}
        addr(i) == IF valid(i) = {} THEN None ELSE lines[CHOOSE k \in valid(i) : \A j \in valid(i) : j <= k].addr
        at(key) == SelectSeq([i \in 1..whole |-> i], LAMBDA i : lines[i].key = key)
        last(key) == IF at(key) = <<>> THEN 0 ELSE addr(Last(at(key)))
        dns(n) == IF Len(at("DNS")) < n THEN 0 ELSE addr(at("DNS")[n])
    IN  info = [IP |-> last("IP"), Subnet |-> last("Subnet"), router |-> last("router"), dns1 |-> dns(1), dns2 |-> dns(2)]

-----------------------------------------------------------------------------
(* Netlink: an answer is a sequence of datagrams, each one of messages.      *)

\* _net_ip_scope_v6 looks at the address as text: h is its first group, printed
\* without leading zeros ("::" and "::1" have none).
Leading(h) == IF h >= 4096 THEN h \div 4096 ELSE IF h >= 256 THEN h \div 256 ELSE IF h >= 16 THEN h \div 16 ELSE h

net_ip_scope_v6(h) ==
    CASE Leading(h) \in {2, 3}           -> "global"
      [] h = 65280                       -> "multicast"      \* ff00
      [] h = 65152                       -> "linklocal"      \* fe80
      [] h = 65216                       -> "sitelocal"      \* fec0
      [] h \in 64512..65023 \union {252, 253} \union 4032..4063 -> "unique"  \* fc.., fd..
      [] OTHER                           -> "unknown"

\* _net_ip_type_v6: the kernel's flags tell global addresses apart.
net_ip_type_v6(scope, permanent, secondary) ==
    IF scope # "global" THEN scope
    ELSE IF permanent THEN "permanent" ELSE IF secondary THEN "temp" ELSE "dynamic"

TypeOf(m) == net_ip_type_v6(net_ip_scope_v6(m.h), m.permanent, m.secondary)

\* c_net_ni_get_ip_v6: the first address of the interface with one of the types
\* in the first datagram; the others are not read.
c_net_ni_get_ip_v6(answer, ifidx, types) ==
    LET i == SelectInSeq(answer[1], LAMBDA m : m.index = ifidx /\ TypeOf(m) \in types)
    IN  IF i = 0 THEN None ELSE answer[1][i].h

\* The addresses of 2000::/3, fe80::/64 and fc00::/7 are found by their types, if
\* the kernel's answer is one datagram: none is missed and none of another
\* interface or kind returned.
AddressFound(msgs, ifidx) ==
    LET kinds == [linklocal |-> {65152}, unique |-> 64512..65023, dynamic |-> 8192..16383]
        is(m, t) == m.index = ifidx /\ m.h \in kinds[t] /\ (t = "dynamic" => ~m.permanent /\ ~m.secondary)
    IN  \A t \in DOMAIN kinds :
            LET own == SelectSeq(msgs, LAMBDA m : is(m, t))
            IN  c_net_ni_get_ip_v6(<<msgs>>, ifidx, {t}) = IF own = <<>> THEN None ELSE own[1].h

DONE == [type |-> "DONE", index |-> 0, flags |-> {}]
Missing == {"missing"}

\* _net_get_nlipv6flags: datagrams are read up to the message DONE; the flags
\* are those of the last link with the index.
net_get_nlipv6flags(answer, ifidx) ==
    LET f[d \in Nat, i \in Nat, flags \in SUBSET STRING] ==
            IF i > Len(answer[d]) THEN f[d + 1, 1, flags]
            ELSE LET m == answer[d][i]
                 IN  CASE m.type = "DONE" -> flags
                       [] m.type = "NEWLINK" /\ m.index = ifidx -> f[d, i + 1, m.flags]
                       [] OTHER -> f[d, i + 1, flags]
    IN  f[1, 1, Missing]

\* However the kernel cuts its answer into datagrams, the interface's flags are
\* found, exactly if the interface is there.
FlagsFound(msgs, cut, ifidx) ==
    LET all == msgs \o <<DONE>>
        own == SelectSeq(msgs, LAMBDA m : m.type = "NEWLINK" /\ m.index = ifidx)
    IN  net_get_nlipv6flags(<<SubSeq(all, 1, cut), SubSeq(all, cut + 1, Len(all))>>, ifidx)
            = IF own = <<>> THEN Missing ELSE Last(own).flags

\* What managed and other say of addresses and servers; servers set by hand stay.
RaStates(flags, dns) ==
    [ip  |-> IF "managed" \in flags THEN "stateful" ELSE "stateless",
     dns |-> IF dns = "manual" THEN dns ELSE IF "other" \in flags THEN "stateful" ELSE "stateless"]

\* Mutant of net_get_RA_bit: the flags kept before are preferred.
net_get_RA_bit_stale(reads, pre_flags, dns) ==
    RaStates(IF pre_flags # {} \/ reads = <<>> THEN pre_flags ELSE Last(reads), dns)

\* _net_get_RA_bit: the flags are read once a second until an advertisement is
\* seen; a read that fails leaves them.  After the last one the flags of any
\* earlier read, kept in a global, decide, and without any it is stateful.
net_get_RA_bit(reads, pre_flags, dns) ==
    LET f[i \in Nat, flags \in SUBSET STRING, pre \in SUBSET STRING] ==
            IF i > Len(reads) THEN IF pre = {} THEN RaStates({"managed", "other"}, dns) ELSE RaStates(pre, dns)
            ELSE LET new == IF reads[i] = Missing THEN flags ELSE reads[i]
                 IN  IF "rcvd" \in new THEN RaStates(new, dns)
                     ELSE f[i + 1, new, IF reads[i] = Missing THEN pre ELSE new]
    IN  f[1, {}, pre_flags]

\* An advertisement seen in time decides, whatever another network left in the
\* global; without one, an interface whose flags were never read is configured
\* statefully, and servers set by hand are never replaced.
RaDecides(reads, pre_flags, dns) ==
    LET res  == net_get_RA_bit(reads, pre_flags, dns)
        seen == SelectSeq(reads, LAMBDA r : "rcvd" \in r)
        any  == SelectSeq(<<pre_flags>> \o reads, LAMBDA r : r \notin {{}, Missing})
    IN  /\ seen # <<>> => res = RaStates(seen[1], dns)
        /\ any = <<>> => res.ip = "stateful"
        /\ dns = "manual" => res.dns = "manual"

-----------------------------------------------------------------------------
(* The search for a magic packet in magic_packet_monitor_thread, whose       *)
(* counter is carried from one packet into the next.                         *)

FF == 255
\* struct magic_p_mac at 0-based offset i of packet p holds Copies times mac.
MacsAt(p, i, mac) == \A k \in 0..(Copies * Mac - 1) : p[i + k + 1] = mac[(k % Mac) + 1]

\* The for loop over a packet.  counter keeps its value from the packet before;
\* after Sync bytes 0xFF and other addresses the search steps back, which can
\* lead in front of the packet: the loop is left undefined there.
Scan(p, carried, mac) ==
    LET limit == Len(p) - Copies * Mac
        f[i \in Int, counter \in Int] ==
            IF i >= limit THEN [found |-> FALSE, counter |-> counter, outside |-> FALSE]
            ELSE IF i < 0 THEN [found |-> FALSE, counter |-> counter, outside |-> TRUE]
            ELSE LET c == IF p[i + 1] = FF THEN counter + 1 ELSE 0
                 IN  IF c # Sync THEN f[i + 1, c]
                     ELSE IF MacsAt(p, i + 1, mac) THEN [found |-> TRUE, counter |-> 0, outside |-> FALSE]
                     ELSE f[i - (Sync - 1) + 1, 0]
    IN  f[0, carried]

\* Destination address: this machine's or broadcast.
ForUs(p, mac) == \/ \A k \in 1..Mac : p[k] = mac[k]
                 \/ \A k \in 1..Mac : p[k] = FF

\* What the monitor makes of a packet.
Received(p, carried, mac) ==
    IF ForUs(p, mac) THEN Scan(p, carried, mac)
    ELSE [found |-> FALSE, counter |-> carried, outside |-> FALSE]

\* A packet wakes the machine if it is addressed to it and holds anywhere Sync
\* bytes 0xFF followed by Copies times its address.
IsMagic(p, mac) ==
    /\ ForUs(p, mac)
    /\ \E i \in 0..(Len(p) - Sync - Copies * Mac) :
           (\A k \in 1..Sync : p[i + k] = FF) /\ MacsAt(p, i + Sync, mac)

\* The search with its steps back finds exactly the magic packets and stays in
\* the packet, when the packet before it did not end in bytes 0xFF.
ScanIsExact(p, mac) ==
    Received(p, 0, mac).found = IsMagic(p, mac) /\ ~Received(p, 0, mac).outside

\* Bytes 0xFF carried over from the packet before never hide a magic packet:
\* the search may leave the packet, else it finds it.
CarryNeverHides(p, carried, mac) ==
    IsMagic(p, mac) => Received(p, carried, mac).found \/ Received(p, carried, mac).outside
=============================================================================
