-------------------------------- MODULE NetArp --------------------------------
(***************************************************************************)
(* c_net_ip_to_mac and c_net_iptomac of mw/linux_c_api/c_mt_lx_net_cfg.c,  *)
(* called by several threads.  c_net_ip_to_mac asks each interface of the  *)
(* machine in turn; the request it sends (build_arp_req_packet) and the    *)
(* reply it reads are static buffers that all its callers share.           *)
(* c_net_iptomac asks eth0; its reply is a buffer of the call and it       *)
(* compares the sender with the address it was called with, but its        *)
(* request is static too (BuildArpRequestPacket).                          *)
(***************************************************************************)
EXTENDS Integers, Sequences, FiniteSets

CONSTANTS Askers,      \* the threads
          Hosts,       \* IP addresses; a host's MAC is named after it
          Confs,       \* what SIOCGIFCONF returns: sequences of "empty", "skip" (loopback, any, broadcast), "good"
          MaxAsks,     \* bound on the calls
          MaxPackets   \* bound on ARP packets read

Nobody == "nobody"     \* a cleared packet, an output buffer that was not written
Illegal == "illegal"   \* an address that inet_addr refuses: 255.255.255.255

VARIABLES conf,        \* the interfaces
          ask,         \* the call of each thread
          request,     \* the static request: function -> address asked for
          reply,       \* the static arp_rsp_packet: sender
          blocks,      \* blocks of get_ifconfig that are allocated
          sockets,     \* sockets that are open
          asks, packets

avars == <<conf, ask, request, reply, blocks, sockets, asks, packets>>

Quiet == [at |-> "idle", fn |-> "ip_to_mac", ip |-> Nobody, ifnum |-> 1, ret |-> 0, out |-> Nobody,
          alone |-> TRUE, failed |-> FALSE]

AInit == /\ conf \in Confs /\ ask = [a \in Askers |-> Quiet]
         /\ request = [fn \in {"ip_to_mac", "iptomac"} |-> Nobody] /\ reply = Nobody
         /\ blocks = 0 /\ sockets = 0 /\ asks = 0 /\ packets = 0

\* A call begins; calls that overlap share the static buffers.
Begin(a, fn, ip, at) ==
    /\ ask[a].at = "idle" /\ asks < MaxAsks /\ asks' = asks + 1
    /\ LET others == {b \in Askers \ {a} : ask[b].at # "idle"}
       IN  ask' = [b \in Askers |->
                      IF b = a THEN [Quiet EXCEPT !.at = at, !.fn = fn, !.ip = ip, !.alone = (others = {})]
                      ELSE IF b \in others THEN [ask[b] EXCEPT !.alone = FALSE] ELSE ask[b]]
    /\ UNCHANGED <<conf, request, reply, blocks, sockets, packets>>

-----------------------------------------------------------------------------
c_net_ip_to_mac(a, ip) == Begin(a, "ip_to_mac", ip, "config")

\* get_ifconfig: the two blocks are the caller's, or both are freed and -1.
get_ifconfig(a) ==
    /\ ask[a].at = "config"
    /\ \/ ask' = [ask EXCEPT ![a].at = "next"] /\ blocks' = blocks + 2
       \/ ask' = [ask EXCEPT ![a].at = "idle", ![a].ret = -1] /\ UNCHANGED blocks
    /\ UNCHANGED <<conf, request, reply, sockets, asks, packets>>

\* PGM_END of c_net_ip_to_mac: free_ifconfig.
End(a, r) == ask' = [ask EXCEPT ![a] = [r EXCEPT !.at = "idle"]] /\ blocks' = blocks - 2

\* The loop has seen all interfaces: ret is what the last one left.
LoopEnds(a) ==
    /\ ask[a].at = "next" /\ ask[a].ifnum > Len(conf) /\ End(a, ask[a])
    /\ UNCHANGED <<conf, request, reply, sockets, asks, packets>>

Interface(a) == ask[a].at = "next" /\ ask[a].ifnum <= Len(conf)

\* The address is looked at only in the loop.
AddressIllegal(a) ==
    /\ Interface(a) /\ ask[a].ip = Illegal /\ End(a, [ask[a] EXCEPT !.ret = -3])
    /\ UNCHANGED <<conf, request, reply, sockets, asks, packets>>

\* An empty name, or an address that is not asked through: next, with ret = 0.
SkipInterface(a) ==
    /\ Interface(a) /\ ask[a].ip # Illegal /\ conf[ask[a].ifnum] # "good"
    /\ ask' = [ask EXCEPT ![a].ifnum = @ + 1, ![a].ret = 0]
    /\ UNCHANGED <<conf, request, reply, blocks, sockets, asks, packets>>

\* build_etheraddr (-1) fails: next.
build_etheraddr_fails(a) ==
    /\ Interface(a) /\ ask[a].ip # Illegal /\ conf[ask[a].ifnum] = "good"
    /\ ask' = [ask EXCEPT ![a].ifnum = @ + 1, ![a].ret = -1]
    /\ UNCHANGED <<conf, request, reply, blocks, sockets, asks, packets>>

\* build_arp_req_packet fills the static request, or cannot (-2): next.
build_arp_req_packet(a) ==
    /\ Interface(a) /\ ask[a].ip # Illegal /\ conf[ask[a].ifnum] = "good"
    /\ \/ request' = [request EXCEPT !["ip_to_mac"] = ask[a].ip] /\ ask' = [ask EXCEPT ![a].at = "send", ![a].ret = 0]
       \/ ask' = [ask EXCEPT ![a].ifnum = @ + 1, ![a].ret = -2] /\ UNCHANGED request
    /\ UNCHANGED <<conf, reply, blocks, sockets, asks, packets>>

\* exe_arp_request: socket, bind and sendto, or one of them fails and the socket
\* is closed again.  c_net_ip_to_mac only looks for the time-out, and takes the
\* reply that is in the buffer.
Send(a) ==
    /\ ask[a].fn = "ip_to_mac" /\ ask[a].at = "send"
    /\ \/ ask' = [ask EXCEPT ![a].at = "recv"] /\ sockets' = sockets + 1
       \/ ask' = [ask EXCEPT ![a].at = "copy", ![a].failed = TRUE] /\ UNCHANGED sockets
    /\ UNCHANGED <<conf, request, reply, blocks, asks, packets>>

Receiving(a, fn) == ask[a].fn = fn /\ ask[a].at = "recv"

\* select fails (-5).
SelectFails(a) ==
    /\ Receiving(a, "ip_to_mac") /\ sockets' = sockets - 1
    /\ ask' = [ask EXCEPT ![a].at = "copy", ![a].failed = TRUE]
    /\ UNCHANGED <<conf, request, reply, blocks, asks, packets>>

\* The half second, which select counts down, is over (-4): no other interface
\* is asked.
TimeOut(a) ==
    /\ Receiving(a, "ip_to_mac") /\ sockets' = sockets - 1 /\ End(a, [ask[a] EXCEPT !.ret = -3])
    /\ UNCHANGED <<conf, request, reply, asks, packets>>

\* An ARP packet is read into the static reply; the one wanted is a reply of
\* the address in the static request.
Read(a, op, from) ==
    /\ Receiving(a, "ip_to_mac") /\ packets < MaxPackets /\ packets' = packets + 1
    /\ reply' = from
    /\ IF op = "reply" /\ from = request["ip_to_mac"]
       THEN sockets' = sockets - 1 /\ ask' = [ask EXCEPT ![a].at = "copy"]
       ELSE UNCHANGED <<ask, sockets>>
    /\ UNCHANGED <<conf, request, blocks, asks>>

\* get_src_mac_from_arp_packet copies the sender of the static reply.
Copy(a) ==
    /\ ask[a].at = "copy" /\ End(a, [ask[a] EXCEPT !.out = reply])
    /\ UNCHANGED <<conf, request, reply, sockets, asks, packets>>

-----------------------------------------------------------------------------
c_net_iptomac(a, ip) == Begin(a, "iptomac", ip, "device")

\* eth0 has no MAC (-8), address (-7) or index (-6), there is no socket (-5), or
\* it cannot be bound (-4) and is closed.
NoDevice(a) ==
    /\ ask[a].at = "device" /\ \E code \in -8..-4 : ask' = [ask EXCEPT ![a].at = "idle", ![a].ret = code]
    /\ UNCHANGED <<conf, request, reply, blocks, sockets, asks, packets>>

\* With the socket bound the static request is filled.
BuildArpRequestPacket(a) ==
    /\ ask[a].at = "device" /\ ask' = [ask EXCEPT ![a].at = "send"] /\ sockets' = sockets + 1
    /\ request' = [request EXCEPT !["iptomac"] = ask[a].ip]
    /\ UNCHANGED <<conf, reply, blocks, asks, packets>>

\* sendto; or it fails (-3).
SendOwn(a) ==
    /\ ask[a].fn = "iptomac" /\ ask[a].at = "send"
    /\ \/ ask' = [ask EXCEPT ![a].at = "recv"] /\ UNCHANGED sockets
       \/ ask' = [ask EXCEPT ![a].at = "idle", ![a].ret = -3] /\ sockets' = sockets - 1
    /\ UNCHANGED <<conf, request, reply, blocks, asks, packets>>

\* select says that the time is over (-1), or fails (-2).
SelectOwn(a) ==
    /\ Receiving(a, "iptomac") /\ sockets' = sockets - 1
    /\ \E code \in {-1, -2} : ask' = [ask EXCEPT ![a].at = "idle", ![a].ret = code]
    /\ UNCHANGED <<conf, request, reply, blocks, asks, packets>>

\* The sender is compared with the address of the call.
Wanted(a, op, from) == op = "reply" /\ from = ask[a].ip

\* A packet is read into the call's own buffer; the wanted one's MAC is copied.
ReadOwn(a, op, from) ==
    /\ Receiving(a, "iptomac") /\ packets < MaxPackets /\ packets' = packets + 1
    /\ IF Wanted(a, op, from)
       THEN sockets' = sockets - 1 /\ ask' = [ask EXCEPT ![a].at = "idle", ![a].out = from]
       ELSE UNCHANGED <<ask, sockets>>
    /\ UNCHANGED <<conf, request, reply, blocks, asks>>

Step(a) == \/ get_ifconfig(a) \/ LoopEnds(a) \/ AddressIllegal(a) \/ SkipInterface(a) \/ build_etheraddr_fails(a)
           \/ build_arp_req_packet(a) \/ Send(a) \/ SelectFails(a) \/ TimeOut(a) \/ Copy(a)
           \/ NoDevice(a) \/ BuildArpRequestPacket(a) \/ SendOwn(a) \/ SelectOwn(a)
           \/ \E op \in {"request", "reply"}, from \in Hosts : Read(a, op, from) \/ ReadOwn(a, op, from)

ANext == \/ \E a \in Askers, ip \in Hosts \union {Illegal} : c_net_ip_to_mac(a, ip) \/ c_net_iptomac(a, ip)
         \/ \E a \in Askers : Step(a)

-----------------------------------------------------------------------------
\* The MAC of a successful call is that of the host asked for: in c_net_iptomac
\* always, in c_net_ip_to_mac if no other call overlapped, some interface could
\* be asked and the request failed in no other way than by its time-out.
MacIsAsked ==
    \A a \in Askers :
        LET r == ask[a]
            asked == r.fn = "iptomac" \/ (r.alone /\ ~r.failed /\ r.ifnum <= Len(conf))
        IN  r.at = "idle" /\ r.ip # Nobody /\ r.ret = 0 /\ asked => r.out = r.ip

\* Sockets and the blocks of get_ifconfig belong to the calls that are under
\* way: every way out of the loop frees the blocks once and closes the socket.
ArpReleases ==
    /\ sockets = Cardinality({a \in Askers : ask[a].at = "recv" \/ (ask[a].fn = "iptomac" /\ ask[a].at = "send")})
    /\ blocks = 2 * Cardinality({a \in Askers : ask[a].fn = "ip_to_mac" /\ ask[a].at \notin {"idle", "config"}})
=============================================================================
