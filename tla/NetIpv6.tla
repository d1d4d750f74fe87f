------------------------------- MODULE NetIpv6 -------------------------------
(***************************************************************************)
(* IPv6 in mw/linux_c_api/c_mt_lx_net_cfg.c.  c_net_ni_start_config_ipv6   *)
(* stores the request in a global, cancels and joins the thread of the     *)
(* request before and makes Ipv6addr_mon_thread, which removes what is     *)
(* configured, asks the routers, starts SLAAC and DHCPv6 as they say, and  *)
(* calls back.  The thread can be cancelled at any of its steps.  The      *)
(* kernel keeps addresses, routes and switches and acts on advertisements  *)
(* by itself, and other threads may disable IPv6 at any time.  Most of it is  *)
(* done by shell commands whose result nobody looks at.  One interface;    *)
(* addresses by where they come from.                                      *)
(***************************************************************************)
EXTENDS Integers, Sequences, FiniteSets

CONSTANTS Settings,    \* IPV6_CONFIG_INFO_T: [ra, ip, dns]
          Disablers,   \* threads that call c_net_ni_disable_ipv6
          Binds,       \* rebind_times + 1 (11)
          Sends,       \* retry of the solicitations (4)
          Waits,       \* cnt, the seconds SLAAC is waited for (30)
          MaxRequests, \* bound on the requests
          MaxDisables, \* bound on the calls of the disablers
          MaxFaults,   \* bound on failing calls
          MaxAdverts   \* bound on advertisements the kernel acts on

VARIABLES info,        \* g_Ipv6SettingInfo, and which request it is
          id,          \* g_ipv6MonThread_id: none, alive, ended, joined
          mon,         \* the thread
          starter,     \* the call of c_net_ni_start_config_ipv6
          dis,         \* where each disabler is
          net,         \* what the kernel and resolv.conf hold
          rdnss,       \* s_isRdnssThreadOpen and the thread it is about
          rcvd,        \* g_is_RA_rcvd
          told,        \* callbacks, by request
          twice,       \* a thread was joined twice
          excused,     \* see JoinedOnce
          slipped,     \* an advertisement came between removing and switching off
          disturbed,   \* IPv6 was being disabled while the thread ran
          mixed,       \* a thread read the request of a later call
          requests, disables, faults, adverts

ivars == <<info, id, mon, starter, dis, net, rdnss, rcvd, told, twice, excused, slipped, disturbed, mixed, requests, disables, faults, adverts>>

MANUAL == 0
STATELESS == 1
STATEFUL == 2
AUTO == 1                       \* IPV6_SETTING_AUTO; IPV6_SETTING_MANUAL is MANUAL
NoInfo == [req |-> 0, ra |-> FALSE, ip |-> MANUAL, dns |-> MANUAL]
NoMon == [at |-> "none", info |-> NoInfo, ip |-> MANUAL, dns |-> MANUAL, n |-> 0, res |-> "none", mute |-> FALSE]
Bare == [addrs |-> {}, gw |-> FALSE, dns |-> "none", acceptra |-> TRUE, autoconf |-> TRUE, dhcp |-> FALSE, on |-> TRUE]

IInit == /\ info = NoInfo /\ id = "none" /\ mon = NoMon /\ starter = [at |-> "idle", info |-> NoInfo]
         /\ dis = [d \in Disablers |-> "idle"] /\ net = Bare /\ rdnss = [open |-> FALSE, thread |-> "none"] /\ rcvd = FALSE
         /\ told = [r \in 1..MaxRequests |-> 0] /\ twice = FALSE /\ excused = FALSE
         /\ slipped = FALSE /\ disturbed = FALSE /\ mixed = FALSE 
         /\ requests = 0 /\ disables = 0 /\ faults = 0 /\ adverts = 0

Fault == faults < MaxFaults /\ faults' = faults + 1
NoFault == UNCHANGED faults
calls == <<requests, disables>>
flags == <<twice, excused, slipped, disturbed, mixed>>
kernel == <<dis, net, rdnss, rcvd, adverts>>

-----------------------------------------------------------------------------
\* c_net_ni_start_config_ipv6 stores the request (_net_store_ipv6_setting_info
\* refuses one without callback, address or mode) before it stops the thread.
Request(s) ==
    /\ starter.at = "idle" /\ requests < MaxRequests /\ requests' = requests + 1
    /\ info' = [req |-> requests + 1, ra |-> s.ra, ip |-> s.ip, dns |-> s.dns]
    /\ starter' = [at |-> "stop", info |-> info']
    /\ UNCHANGED <<id, mon, kernel, told, flags, disables, faults>>

\* pthread_cancel and pthread_join.  A thread cancelled between joining rdnss and
\* clearing its BOOL leaves the BOOL behind; one cancelled after making rdnss leaves
\* it a thread that has yet to set it.
StopOld ==
    /\ starter.at = "stop" /\ starter' = [starter EXCEPT !.at = "create"]
    /\ IF id = "none" THEN UNCHANGED <<id, mon, twice, excused>>
       ELSE /\ id' = "joined" /\ mon' = NoMon /\ twice' = (twice \/ id = "joined")
            /\ excused' = (excused \/ mon.at \in {"closing", "opening"})
    /\ UNCHANGED <<info, kernel, told, slipped, disturbed, mixed, calls, faults>>

\* pthread_create; when it fails the joined id stays.
Create ==
    /\ starter.at = "create" /\ starter' = [starter EXCEPT !.at = "idle"]
    /\ \/ /\ id' = "alive" /\ NoFault /\ UNCHANGED excused
          /\ mon' = [NoMon EXCEPT !.at = "copy", !.n = starter.info.req]
          /\ disturbed' = (\E d \in Disablers : dis[d] # "idle")
       \/ Fault /\ excused' = TRUE /\ UNCHANGED <<id, mon, disturbed>>
    /\ UNCHANGED <<info, kernel, told, twice, slipped, mixed, calls>>

\* c_net_ni_disable_ipv6 clears g_is_RA_rcvd and removes all that is configured,
\* also under a running thread ...
Disable(d) ==
    /\ dis[d] = "idle" /\ disables < MaxDisables /\ disables' = disables + 1
    /\ dis' = [dis EXCEPT ![d] = "dhcpoff"] /\ rcvd' = FALSE
    /\ disturbed' = (disturbed \/ mon.at # "none")
    /\ UNCHANGED <<info, id, mon, starter, net, rdnss, adverts, told, twice, excused, slipped, mixed, requests, faults>>

\* ... and then switches IPv6 off, which takes the rest of the addresses with it.
KernelOff(d) ==
    /\ dis[d] = "kernoff" /\ dis' = [dis EXCEPT ![d] = "idle"]
    /\ \/ net' = [net EXCEPT !.addrs = {}, !.gw = FALSE, !.on = FALSE] /\ NoFault
       \/ Fault /\ UNCHANGED net
    /\ UNCHANGED <<info, id, mon, starter, rdnss, rcvd, adverts, told, flags, calls>>

Enable ==
    /\ ~net.on /\ net' = [net EXCEPT !.on = TRUE]
    /\ UNCHANGED <<info, id, mon, starter, dis, rdnss, rcvd, adverts, told, flags, calls, faults>>

-----------------------------------------------------------------------------
\* The thread copies the global, which a later call may have stored already.
Copy ==
    /\ mon.at = "copy"
    /\ mon' = [mon EXCEPT !.at = "dhcpoff", !.info = info, !.ip = info.ip, !.dns = info.dns]
    /\ mixed' = (mixed \/ info.req # mon.n)
    /\ UNCHANGED <<info, id, starter, kernel, told, twice, excused, slipped, disturbed, calls, faults>>

\* c_net_ni_rmv6config_all, by the thread or by a disabler.
Removers == {"mon"} \union Disablers
Place(w) == IF w = "mon" THEN mon.at ELSE dis[w]
Moves(w, at) == IF w = "mon" THEN mon' = [mon EXCEPT !.at = at] /\ UNCHANGED dis
                ELSE dis' = [dis EXCEPT ![w] = at] /\ UNCHANGED mon
unmoved == <<info, id, starter, rcvd, adverts, told, disturbed, mixed, calls>>

\* DHCPv6 is stopped ...
DhcpOff(w) ==
    /\ Place(w) = "dhcpoff" /\ Moves(w, "dynoff")
    /\ \/ net' = [net EXCEPT !.dhcp = FALSE] /\ NoFault
       \/ Fault /\ UNCHANGED net
    /\ UNCHANGED <<unmoved, rdnss, twice, excused, slipped>>

Dynamic == {"dynamic", "dhcp"}       \* NET_IP_TYPE_V6_GLOBAL_DYNAMIC

\* c_net_ni_get_ip_v6 finds an address of these types among those of the kernel.
Has(types) == net.addrs \intersect types # {}

\* c_net_ni_delete_ip_v6 for each of them.
Deleted(types) == net.addrs \ types

\* ... the addresses of SLAAC and DHCPv6 are removed, unless removing one fails, when the
\* rest of c_net_ni_rmv6config_SLAAC is skipped, or asking for them, which ends the loop as
\* if none were left ...
DynamicOff(w) ==
    /\ Place(w) = "dynoff"
    /\ \/ /\ net' = [net EXCEPT !.addrs = Deleted(Dynamic), !.gw = FALSE] /\ Moves(w, "stopping")
          /\ slipped' = (slipped /\ w # "mon") /\ NoFault /\ UNCHANGED excused
       \/ /\ Has(Dynamic) /\ Fault /\ UNCHANGED slipped
          /\ \/ Moves(w, "manualoff") /\ excused' = TRUE /\ UNCHANGED net
             \/ Moves(w, "stopping") /\ net' = [net EXCEPT !.gw = FALSE] /\ UNCHANGED excused
    /\ UNCHANGED <<unmoved, rdnss, twice>>

\* ... c_net_ni_stop_rdnss looks at s_isRdnssThreadOpen ...
Among == {"joining", "closing", "making", "opening"}      \* inside stop or start of rdnss
Beside(w) == \E v \in Removers \ {w} : Place(v) \in Among

LooksAtRdnss(w) ==
    /\ Place(w) = "stopping" /\ Moves(w, IF rdnss.open THEN "joining" ELSE "slaacoff")
    /\ excused' = (excused \/ (rdnss.open /\ Beside(w)))
    /\ UNCHANGED <<unmoved, net, rdnss, twice, slipped, faults>>

\* ... cancels and joins the thread ...
JoinsRdnss(w) ==
    /\ Place(w) = "joining" /\ Moves(w, "closing")
    /\ rdnss' = [rdnss EXCEPT !.thread = "joined"] /\ twice' = (twice \/ rdnss.thread = "joined")
    /\ UNCHANGED <<unmoved, net, excused, slipped, faults>>

\* Mutant of ClosesRdnss: the BOOL stays TRUE.
ClosesRdnssNot(w) ==
    /\ Place(w) = "closing" /\ Moves(w, "slaacoff")
    /\ UNCHANGED <<unmoved, net, rdnss, twice, excused, slipped, faults>>

\* ... and clears the BOOL ...
ClosesRdnss(w) ==
    /\ Place(w) = "closing" /\ Moves(w, "slaacoff") /\ rdnss' = [rdnss EXCEPT !.open = FALSE]
    /\ UNCHANGED <<unmoved, net, twice, excused, slipped, faults>>

\* ... only then autoconf and accept_ra are switched off, if the commands do it ...
SlaacOff(w) ==
    /\ Place(w) = "slaacoff" /\ Moves(w, "manualoff")
    /\ \E auto, ra \in BOOLEAN :
          /\ IF auto /\ ra THEN NoFault ELSE Fault
          /\ net' = [net EXCEPT !.autoconf = @ /\ ~auto, !.acceptra = @ /\ ~ra]
    /\ UNCHANGED <<unmoved, rdnss, twice, excused, slipped>>

\* ... and c_net_ni_rmv6config_manual removes addresses, routes and servers.
ManualOff(w) ==
    /\ Place(w) = "manualoff"
    /\ Moves(w, IF w # "mon" THEN "kernoff" ELSE IF mon.info.ra THEN "bind" ELSE "slaac")
    /\ \/ net' = [net EXCEPT !.addrs = Deleted({"manual"}), !.gw = FALSE, !.dns = "none"] /\ NoFault
       \/ net' = [net EXCEPT !.addrs = Deleted({"manual"}), !.gw = FALSE] /\ Fault
       \/ /\ Has({"manual"}) /\ Fault
          /\ net' \in {net, [net EXCEPT !.gw = FALSE, !.dns = "none"]}
    /\ UNCHANGED <<unmoved, rdnss, twice, excused, slipped>>

Removes(w) == \/ DhcpOff(w) \/ DynamicOff(w) \/ LooksAtRdnss(w) \/ JoinsRdnss(w)
              \/ ClosesRdnss(w) \/ SlaacOff(w) \/ ManualOff(w)

-----------------------------------------------------------------------------
Goto(at) == mon' = [mon EXCEPT !.at = at]
others == <<info, id, starter, dis, adverts, told, slipped, disturbed, mixed, calls>>

\* How address and servers are got: in RA mode as the advertisement says, else
\* from the setting; manual servers stay.
Choice(i, bits) ==
    IF i.ra THEN [ip |-> IF bits.managed THEN STATEFUL ELSE STATELESS,
                  dns |-> IF i.dns = MANUAL THEN MANUAL ELSE IF bits.other THEN STATEFUL ELSE STATELESS]
    ELSE [ip |-> IF i.ip = AUTO THEN STATEFUL ELSE MANUAL, dns |-> IF i.dns = AUTO THEN STATEFUL ELSE MANUAL]

Chosen(bits) == LET c == Choice(mon.info, bits) IN mon' = [mon EXCEPT !.at = "starting", !.ip = c.ip, !.dns = c.dns, !.n = 0]
NoRouter == [managed |-> TRUE, other |-> TRUE]       \* "use default": stateful
Bits == [managed : BOOLEAN, other : BOOLEAN]

\* _icmpv6_get_ra: accept_ra is on, if the command does it; binding to the link
\* local address is tried Binds times ...
Bind ==
    /\ mon.at = "bind"
    /\ \/ mon' = [mon EXCEPT !.at = "solicit", !.n = 0] /\ NoFault /\ net' = [net EXCEPT !.acceptra = TRUE]
       \/ mon' = [mon EXCEPT !.at = "solicit", !.n = 0] /\ Fault /\ UNCHANGED net
       \/ mon.n + 1 < Binds /\ Fault /\ mon' = [mon EXCEPT !.n = @ + 1] /\ net' = [net EXCEPT !.acceptra = TRUE]
       \/ mon.n + 1 >= Binds /\ Fault /\ Chosen(NoRouter) /\ net' = [net EXCEPT !.acceptra = TRUE]
    /\ UNCHANGED <<others, rdnss, rcvd, twice, excused>>

\* _icmpv6_recvadv passes over what is no advertisement of this link until the
\* first that is one, the end of the time or a failing poll.
RecvAdv == [got : {TRUE}, bits : Bits] \union [got : {FALSE}, failed : BOOLEAN]

\* ... and Sends solicitations are sent, each waited for two seconds; a failing
\* send or receive ends it.
Solicit ==
    /\ mon.at = "solicit"
    /\ \E val \in RecvAdv :
          IF val.got THEN Chosen(val.bits) /\ rcvd' = TRUE /\ NoFault
          ELSE /\ UNCHANGED rcvd /\ IF val.failed THEN Fault ELSE NoFault
               /\ IF val.failed \/ mon.n + 1 >= Sends THEN Chosen(NoRouter) ELSE mon' = [mon EXCEPT !.n = @ + 1]
    /\ UNCHANGED <<others, net, rdnss, twice, excused>>

\* The mode without advertisements.
Ignore ==
    /\ mon.at = "slaac" /\ Chosen(NoRouter)
    /\ UNCHANGED <<others, net, rdnss, rcvd, twice, excused, faults>>

\* c_net_ni_start_SLAAC: the switches, and between them the rdnss thread, whose
\* failure is not looked at.
StartSlaac ==
    /\ mon.at = "starting" /\ Goto(IF mon.dns = STATELESS THEN "making" ELSE "dhcp")
    /\ LET wants == [net EXCEPT !.autoconf = @ \/ mon.ip = STATELESS,
                                !.acceptra = @ \/ (mon.ip # MANUAL /\ mon.dns # STATELESS)]
       IN  (net' = wants /\ NoFault) \/ (net # wants /\ Fault /\ UNCHANGED net)
    /\ excused' = (excused \/ (mon.dns = STATELESS /\ Beside("mon")))
    /\ UNCHANGED <<others, rdnss, rcvd, twice>>

\* c_net_ni_start_rdnss cancels and joins a thread that is still open itself,
\* before c_net_ni_stop_rdnss does so again.  pthread_create may fail ...
StartRdnss ==
    /\ mon.at = "making" /\ twice' = (twice \/ rdnss.open)
    /\ \/ rdnss' = [open |-> FALSE, thread |-> "new"] /\ NoFault /\ Goto("opening")
       \/ /\ rdnss' = [open |-> FALSE, thread |-> IF rdnss.open THEN "joined" ELSE rdnss.thread]
          /\ Fault /\ Goto("accept")
    /\ UNCHANGED <<others, net, rcvd, excused>>

\* ... after it the BOOL is TRUE ...
OpensRdnss ==
    /\ mon.at = "opening" /\ Goto("accept") /\ rdnss' = [rdnss EXCEPT !.open = TRUE]
    /\ UNCHANGED <<others, net, rcvd, twice, excused, faults>>

\* ... which the new thread also writes, whenever it runs.
RdnssRuns ==
    /\ rdnss.thread = "new" /\ rdnss' = [open |-> TRUE, thread |-> "alive"]
    /\ UNCHANGED <<others, mon, net, rcvd, twice, excused, faults>>

\* c_net_ni_accept_RA and the solicitation after it.
AcceptRa ==
    /\ mon.at = "accept" /\ Goto("dhcp")
    /\ \/ net' = [net EXCEPT !.acceptra = @ \/ mon.ip # MANUAL] /\ NoFault
       \/ ~net.acceptra /\ mon.ip # MANUAL /\ Fault /\ UNCHANGED net
    /\ UNCHANGED <<others, rdnss, rcvd, twice, excused>>

\* c_net_ni_start_dhcpv6 for what is stateful; a failing script is a failure.
Dhcp ==
    /\ mon.at = "dhcp"
    /\ IF STATEFUL \notin {mon.ip, mon.dns} THEN Goto("info") /\ NoFault /\ UNCHANGED net
       ELSE \/ /\ Goto("info") /\ NoFault
               /\ net' = [net EXCEPT !.dhcp = TRUE, !.addrs = IF mon.ip = STATEFUL THEN @ \union {"dhcp"} ELSE @,
                                     !.dns = IF mon.dns = STATEFUL THEN "dhcp" ELSE @]
            \/ Fault /\ mon' = [mon EXCEPT !.at = "tell", !.res = "FAILURE"] /\ UNCHANGED net
    /\ UNCHANGED <<others, rdnss, rcvd, twice, excused>>

\* Everything that is stateless is there.
Got == (mon.ip = STATELESS => Has(Dynamic)) /\ (mon.dns = STATELESS => net.dns # "none")

\* c_net_ni_get_SLAAC_info looks for it once a second.
WaitInfo ==
    /\ mon.at = "info"
    /\ mon' = IF Got THEN [mon EXCEPT !.at = "manual"]
              ELSE IF mon.n + 1 < Waits THEN [mon EXCEPT !.n = @ + 1]
              ELSE [mon EXCEPT !.at = "tell", !.res = "FAILURE"]
    /\ UNCHANGED <<others, net, rdnss, rcvd, twice, excused, faults>>

\* c_net_ni_set_ip_v6 adds the address, c_net_ni_set_gw_v6 the route,
\* c_net_set_dns_v6 the servers, if its command does it.
IpSet(addrs)      == addrs \union {"manual"}
GatewaySet(gw)    == TRUE
DnsSet(dns, done) == IF done THEN "manual" ELSE dns

\* c_net_ni_manual_config_ipv6: address and route, each whatever became of the
\* other, then the servers, whose command nobody looks at.
Manual ==
    /\ mon.at = "manual"
    /\ \E ip, gw, dns \in BOOLEAN :
          /\ mon.ip # MANUAL => ip /\ gw
          /\ mon.dns # MANUAL => dns
          /\ IF ip /\ gw /\ dns THEN NoFault ELSE Fault
          /\ mon' = [mon EXCEPT !.at = "tell", !.res = IF ip /\ gw THEN "SUCCESS" ELSE "FAILURE", !.mute = ~dns]
          /\ net' = [net EXCEPT !.addrs = IF mon.ip = MANUAL /\ ip THEN IpSet(@) ELSE @,
                                !.gw = IF mon.ip = MANUAL /\ gw THEN GatewaySet(@) ELSE @,
                                !.dns = IF mon.dns = MANUAL THEN DnsSet(@, dns) ELSE @]
    /\ UNCHANGED <<others, rdnss, rcvd, twice, excused>>

Tell ==
    /\ mon.at = "tell" /\ Goto("end") /\ told' = [told EXCEPT ![mon.info.req] = @ + 1]
    /\ UNCHANGED <<info, id, starter, kernel, flags, calls, faults>>

End ==
    /\ mon.at = "end" /\ mon' = [mon EXCEPT !.at = "none"] /\ id' = "ended"
    /\ UNCHANGED <<info, starter, kernel, told, flags, calls, faults>>

-----------------------------------------------------------------------------
\* The kernel acts on an advertisement while its switches are on; rdnss takes the
\* servers out of it.
Advert ==
    /\ adverts < MaxAdverts /\ adverts' = adverts + 1 /\ net.acceptra /\ net.on
    /\ net' = [net EXCEPT !.addrs = IF net.autoconf THEN @ \union {"dynamic"} ELSE @, !.gw = TRUE,
                          !.dns = IF rdnss.thread = "alive" /\ @ = "none" THEN "ra" ELSE @]
    /\ slipped' = (slipped \/ mon.at \in {"stopping", "joining", "closing", "slaacoff"})
    /\ UNCHANGED <<info, id, mon, starter, dis, rdnss, rcvd, told, twice, excused, disturbed, mixed, calls, faults>>

MonStep == \/ Copy \/ Removes("mon") \/ Bind \/ Solicit \/ Ignore
           \/ StartSlaac \/ StartRdnss \/ OpensRdnss \/ AcceptRa \/ Dhcp \/ WaitInfo \/ Manual \/ Tell \/ End
INext == \/ \E s \in Settings : Request(s)
         \/ \E d \in Disablers : Disable(d) \/ Removes(d) \/ KernelOff(d)
         \/ StopOld \/ Create \/ MonStep \/ RdnssRuns \/ Advert \/ Enable

\* The caller and the thread are scheduled; scripts end, waits are bounded.
IFair == WF_ivars(StopOld \/ Create) /\ WF_ivars(MonStep)

-----------------------------------------------------------------------------
\* A request is called back at most once, although its thread may be cancelled
\* anywhere, unless a thread of an earlier request read it before it was stopped.
ToldAtMostOnce == ~mixed => \A r \in 1..MaxRequests : told[r] <= 1

\* Success means that everything the setting asked for is there: a manual address
\* and manual servers, or an address and servers that were got, unless IPv6 was
\* being disabled meanwhile.  The command that sets manual servers may have failed
\* without anyone hearing of it, and one that removes servers before.
SuccessIsComplete ==
    mon.at = "tell" /\ mon.res = "SUCCESS" /\ ~disturbed =>
        /\ ~mon.info.ra /\ mon.info.ip = MANUAL => "manual" \in net.addrs
        /\ mon.info.dns = MANUAL => net.dns = "manual" \/ mon.mute
        /\ mon.info.ra \/ mon.info.ip = AUTO => Has(Dynamic)
        /\ mon.info.dns = AUTO => net.dns \in {"dhcp", "ra"} \/ (faults > 0 /\ net.dns # "none")

\* A manual configuration leaves no address of SLAAC, unless removing one failed
\* or an advertisement came after it was removed and before autoconf was off.
ManualIsPure ==
    mon.at = "tell" /\ mon.res = "SUCCESS" /\ ~mon.info.ra /\ mon.info.ip = MANUAL /\ ~slipped /\ ~disturbed /\ faults = 0 =>
        ~Has(Dynamic)

\* No thread is joined a second time, by the thread, its canceller or two disablers
\* at any of their steps, unless
\*   - two were inside the stop or the start of rdnss at the same time (excused),
\*   - the thread was cancelled between joining or making rdnss and its BOOL,
\*   - an address could not be removed, when rdnss is not stopped, or
\*   - the thread of a request could not be made, when its joined id stays.
JoinedOnce == ~excused => ~twice

\* The last request is answered, whatever was cancelled for it, if its thread
\* could be made.
RequestAnswered ==
    \A r \in 1..MaxRequests : (starter.at = "create" /\ starter.info.req = r) ~>
        (told[r] > 0 \/ requests > r \/ (starter.at = "idle" /\ id \in {"none", "joined"}))

-----------------------------------------------------------------------------
\* _mask2prefix_v6: from the last bit on, zero bits are taken off.
Mask2Prefix(mask) ==
    LET n == Len(mask)
        f[p \in Nat] == IF p = 0 THEN 0 ELSE IF mask[p] = 1 THEN p ELSE f[p - 1]
    IN  f[n]

\* For a mask of n ones and then zeros the prefix is n, the zero mask included.
PrefixIsExact(n, len) == Mask2Prefix([k \in 1..len |-> IF k <= n THEN 1 ELSE 0]) = n
=============================================================================
