------------------------------ MODULE NetCore ------------------------------
(***************************************************************************)
(* The network core below TCP (net/core.c): one ARP entry, the DHCP        *)
(* client, what net_rx_frame does with ARP, DHCP, UDP and ICMP frames, the *)
(* two event rings, and the loops of sys_sendto and sys_recvfrom for UDP   *)
(* and raw ICMP sockets.                                                   *)
(*                                                                         *)
(* An address is <<network, host>>, and every mask is 255.255.255.0.  A    *)
(* host's hardware address is its address.  Each DHCP server offers one    *)
(* lease; once there was a request, any of them may acknowledge its own.   *)
(* Whatever was sent may arrive at any time, any number of times, or       *)
(* never; only datagrams for the sockets are numbered and arrive once at   *)
(* most.                                                                   *)
(***************************************************************************)
EXTENDS Integers, Sequences, FiniteSets

CONSTANTS
    RetryTicks, MaxRetries,     \* DHCP_RETRY_TICKS, DHCP_MAX_RETRIES
    EventRing,                  \* NET_UDP_EVENT_RING, NET_ICMP_EVENT_RING
    Leases,                     \* what the servers offer, each one [ip, gw]
    Remotes,                    \* the addresses of the other hosts
    Socks, Ports,               \* slots of the socket table; ports, none of them 0
    Patience,                   \* turns of a loop before the call gives up
    MaxDatagrams

ASSUME NetAssumption ==
    /\ RetryTicks \in Nat \ {0} /\ MaxRetries \in Nat \ {0} /\ EventRing \in Nat \ {0, 1}
    /\ Patience \in Nat \ {0} /\ MaxDatagrams \in Nat
    /\ 0 \notin Ports /\ IsFiniteSet(Leases) /\ IsFiniteSet(Socks)

VARIABLES
    net,     \* g_dev, g_arp, g_dhcp, the event rings, what has been asked by broadcast so
             \* far, and the frames that the last step has sent to a host
    dgs,     \* the sockets
    got,     \* what the sockets have received, in order: <<bound port, event>>
    ticks    \* since the device was registered

netvars == <<net, dgs, got, ticks>>

Zero == <<0, 0>>
StaticIp == <<1, 15>>
StaticGw == <<1, 2>>

\* The ticks after which DHCP must have been decided.
Deadline == RetryTicks * (MaxRetries + 1) + 1

Open == {"udp", "raw"}
NoSock == [type |-> "free", bound |-> 0, call |-> "none", left |-> 0, dst |-> Zero]

\* Before net_register_device.
NetFresh == [present |-> FALSE, ip |-> Zero, gw |-> Zero, arp |-> <<>>, state |-> "DISABLED",
             age |-> 0, retries |-> 0, offered |-> <<>>, udp |-> <<>>, icmp |-> 0,
             serial |-> 0, asked |-> {}, tx |-> {}]

\* When no server has answered and dhcp_apply_fallback_static was called.
NetGivenUp == [NetFresh EXCEPT !.present = TRUE, !.ip = StaticIp, !.gw = StaticGw, !.state = "FAILED",
                               !.age = RetryTicks, !.retries = MaxRetries,
                               !.asked = {[kind |-> "who-has", ip |-> StaticGw], [kind |-> "discover", ip |-> Zero]}]

NetStart(n, t) == net = n /\ dgs = [s \in Socks |-> NoSock] /\ got = <<>> /\ ticks = t
NetInit == NetStart(NetFresh, 0)

----------------------------------------------------------------------------
\* Every frame that is built goes to net_tx_raw.  That the driver could not send it is
\* as if it were lost, but for the result of sys_sendto.
net_tx_raw(n, src, dst, mac) ==
    [n EXCEPT !.tx = @ \cup {[src |-> src, dst |-> dst, mac |-> mac]}]

\* The same, to all.
Broadcast(n, kind, ip) == [n EXCEPT !.asked = @ \cup {[kind |-> kind, ip |-> ip]}]

send_arp_request(n, target) == Broadcast(n, "who-has", target)

send_arp_reply(n, f) == net_tx_raw(n, n.ip, f.spa, f.sha)

net_register_device ==
    /\ ~net.present
    /\ net' = send_arp_request([net EXCEPT !.present = TRUE, !.ip = StaticIp, !.gw = StaticGw,
                                           !.tx = {}], StaticGw)
    /\ UNCHANGED <<dgs, got, ticks>>

arp_cache_update(n, ip, mac) == [n EXCEPT !.arp = <<ip, mac>>]

Near(a, b) == a[1] = b[1]

NextHop(n, dst) == IF Near(n.ip, dst) THEN dst ELSE n.gw

resolve_l2_next_hop(n, dst) ==
    IF ~Near(n.ip, dst) /\ n.gw = Zero THEN [net |-> n, ret |-> "EHOSTUNREACH", mac |-> Zero]
    ELSE IF n.arp # <<>> /\ n.arp[1] = NextHop(n, dst)
    THEN [net |-> n, ret |-> "ok", mac |-> n.arp[2]]
    ELSE [net |-> send_arp_request(n, NextHop(n, dst)), ret |-> "EAGAIN", mac |-> Zero]

send_ipv4_udp(n, mac, dst) == net_tx_raw(n, n.ip, dst, mac)

send_ipv4_icmp(n, mac, dst) == net_tx_raw(n, n.ip, dst, mac)

net_send_udp(n, dst) ==
    LET r == resolve_l2_next_hop(n, dst)
    IN  IF r.ret = "ok" THEN [r EXCEPT !.net = send_ipv4_udp(n, r.mac, dst)] ELSE r

net_send_icmp_echo(n, dst) ==
    LET r == resolve_l2_next_hop(n, dst)
    IN  IF r.ret = "ok" THEN [r EXCEPT !.net = send_ipv4_icmp(n, r.mac, dst)] ELSE r

----------------------------------------------------------------------------
\* The DHCP client.  Every message has the same xid.  An acknowledgement is not compared
\* with what was offered and requested, nor its server with the one asked.
dhcp_send_discover(n) ==
    Broadcast([n EXCEPT !.age = 0, !.retries = @ + 1, !.state = "DISCOVER_SENT"],
              "discover", Zero)

dhcp_send_request(n) ==
    Broadcast([n EXCEPT !.age = 0, !.retries = @ + 1, !.state = "REQUEST_SENT"],
              "request", n.offered.ip)

dhcp_apply_fallback_static(n) ==
    send_arp_request([n EXCEPT !.state = "FAILED", !.ip = StaticIp, !.gw = StaticGw], StaticGw)

\* Mutant of dhcp_on_offer: any offer is taken, even when one has been requested.
OfferAnytime(n, f) ==
    IF f.type # "offer" THEN n ELSE dhcp_send_request([n EXCEPT !.offered = f.lease])

dhcp_on_offer(n, f) ==
    IF f.type # "offer" \/ n.state # "DISCOVER_SENT" THEN n
    ELSE dhcp_send_request([n EXCEPT !.offered = f.lease])

dhcp_on_ack(n, f) ==
    IF f.type # "ack" \/ n.state # "REQUEST_SENT" THEN n
    ELSE LET b == [n EXCEPT !.ip = f.lease.ip, !.gw = f.lease.gw, !.state = "BOUND"]
         IN  IF b.gw = Zero THEN b ELSE send_arp_request(b, b.gw)

dhcp_tick(n) ==
    IF ~n.present \/ n.state \in {"BOUND", "FAILED"} THEN n
    ELSE IF n.state = "DISABLED" THEN dhcp_send_discover(n)
    ELSE IF n.age < RetryTicks THEN n
    ELSE IF n.retries >= MaxRetries THEN dhcp_apply_fallback_static(n)
    ELSE IF n.state = "DISCOVER_SENT" THEN dhcp_send_discover(n)
    ELSE dhcp_send_request(n)

----------------------------------------------------------------------------
\* A full ring loses its oldest event.
udp_event_push(ring, e) == Append(IF Len(ring) = EventRing - 1 THEN Tail(ring) ELSE ring, e)

\* No property tells one answer to a ping from another: the ring is their number.
icmp_event_push(ring) == IF ring = EventRing - 1 THEN ring ELSE ring + 1

send_icmp_echo_reply(n, f) == net_tx_raw(n, n.ip, f.src, f.mac)

udp_rx(n, f) ==
    IF f.dst # n.ip THEN [n EXCEPT !.serial = @ + 1]
    ELSE [n EXCEPT !.serial = @ + 1, !.udp = udp_event_push(@, [port |-> f.port, n |-> n.serial + 1])]

icmp_rx(n, f) ==
    IF f.dst # n.ip THEN n
    ELSE IF f.type = "echo" THEN send_icmp_echo_reply(n, f)
    ELSE [n EXCEPT !.icmp = icmp_event_push(@)]

net_rx_frame(n, f) ==
    IF ~n.present THEN n
    ELSE CASE f.kind = "arp" ->
                LET m == arp_cache_update(n, f.spa, f.sha)
                IN  IF f.oper = "request" /\ f.tpa = n.ip THEN send_arp_reply(m, f) ELSE m
           [] f.kind = "dhcp" -> dhcp_on_ack(dhcp_on_offer(n, f), f)
           [] f.kind = "udp" -> udp_rx(n, f)
           [] f.kind = "icmp" -> icmp_rx(n, f)
           [] OTHER -> n

\* The frames that may be waiting in the driver: answers to what was and what the
\* other hosts send of their own.  A host that has no address yet asks with Zero.  A host
\* of another network is heard through the gateway.
Asked(kind) == {a.ip : a \in {a \in net.asked : a.kind = kind}}

Frames ==
    [kind : {"arp"}, oper : {"request"}, spa : {Zero}, sha : {StaticGw}, tpa : {net.ip}]
    \cup {[kind |-> "arp", oper |-> "reply", spa |-> r, sha |-> r, tpa |-> net.ip] :
             r \in Remotes \cap Asked("who-has")}
    \cup [kind : {"dhcp"}, type : {"offer"}, lease : {l \in Leases : Zero \in Asked("discover")}]
    \cup [kind : {"dhcp"}, type : {"ack"}, lease : {l \in Leases : Asked("request") # {}}]
    \cup {f \in [kind : {"udp"}, dst : {StaticIp, net.ip}, port : Ports] :
             net.serial < MaxDatagrams}
    \cup {[kind |-> "icmp", dst |-> net.ip, type |-> type, src |-> r, mac |-> NextHop(net, r)] :
             type \in {"echo", "reply"}, r \in Remotes}
    \cup {[kind |-> "none"]}

\* net_tick but for the TCP timers: the DHCP client, and then the driver's frames.
Tick(n, f) ==
    net_rx_frame(dhcp_tick([n EXCEPT !.age = IF @ < RetryTicks THEN @ + 1 ELSE @]), f)

Ticked(n) ==
    /\ net' = n
    /\ ticks' = IF net.present /\ ticks <= Deadline THEN ticks + 1 ELSE ticks

\* The timer interrupt.
net_tick_dhcp ==
    /\ \E f \in Frames : Ticked(Tick([net EXCEPT !.tx = {}], f))
    /\ UNCHANGED <<dgs, got>>

\* The interrupt of the virtio driver, which hands in a frame at once.
net_rx_irq ==
    /\ net.present
    /\ \E f \in Frames : net' = net_rx_frame([net EXCEPT !.tx = {}], f)
    /\ UNCHANGED <<dgs, got, ticks>>

----------------------------------------------------------------------------
\* The system calls.  What a call leaves in net.tx is of its own step.
sys_socket(s, type) ==
    /\ net.present /\ dgs[s].type = "free"
    /\ dgs' = [dgs EXCEPT ![s] = [NoSock EXCEPT !.type = type]]
    /\ UNCHANGED <<net, got, ticks>>

sys_bind(s, port) ==
    /\ dgs[s].type \in Open /\ dgs[s].call = "none"
    /\ dgs' = [dgs EXCEPT ![s].bound = port]
    /\ UNCHANGED <<net, got, ticks>>

sys_close(s) ==
    /\ dgs[s].type \in Open /\ dgs[s].call = "none"
    /\ dgs' = [dgs EXCEPT ![s] = NoSock]
    /\ UNCHANGED <<net, got, ticks>>

\* A UDP socket that has no port gets the one of its slot, 40000 + idx.
sys_sendto(s, dst) ==
    /\ dgs[s].type \in Open /\ dgs[s].call = "none"
    /\ dgs' = [dgs EXCEPT ![s].call = "send", ![s].left = Patience, ![s].dst = dst,
                          ![s].bound = IF dgs[s].type = "udp" /\ @ = 0 THEN s ELSE @]
    /\ UNCHANGED <<net, got, ticks>>

sys_recvfrom(s) ==
    /\ dgs[s].type \in Open /\ dgs[s].call = "none"
    /\ dgs' = [dgs EXCEPT ![s].call = "recv", ![s].left = Patience]
    /\ UNCHANGED <<net, got, ticks>>

Return(s) == dgs' = [dgs EXCEPT ![s].call = "none", ![s].left = 0, ![s].dst = Zero]

\* Ctrl-C ends the wait, looked for in every eighth turn.
interrupt(s) == dgs[s].call # "none" /\ Return(s) /\ UNCHANGED <<net, got, ticks>>

\* After a turn in vain: net_tick, and the processor to another.
Again(s, n) ==
    /\ \E f \in Frames : Ticked(Tick(n, f))
    /\ IF dgs[s].left = 1 THEN Return(s) ELSE dgs' = [dgs EXCEPT ![s].left = @ - 1]
    /\ UNCHANGED got

send_turn(s) ==
    /\ dgs[s].call = "send"
    /\ LET n == [net EXCEPT !.tx = {}]
           r == IF dgs[s].type = "udp" THEN net_send_udp(n, dgs[s].dst)
                ELSE net_send_icmp_echo(n, dgs[s].dst)
       IN  IF r.ret = "EAGAIN" THEN Again(s, r.net)
           ELSE net' = r.net /\ Return(s) /\ UNCHANGED <<got, ticks>>

\* The oldest event for the port, or for any port if the socket has none.
ForPort(port) == {i \in 1..Len(net.udp) : port = 0 \/ net.udp[i].port = port}

Without(q, i) == SubSeq(q, 1, i - 1) \o SubSeq(q, i + 1, Len(q))

net_recv_udp_event(s, i) ==
    /\ got' = Append(got, <<dgs[s].bound, net.udp[i]>>)
    /\ net' = [net EXCEPT !.udp = Without(@, i), !.tx = {}]

recv_udp_turn(s) ==
    /\ dgs[s].call = "recv" /\ dgs[s].type = "udp"
    /\ IF ForPort(dgs[s].bound) = {} THEN Again(s, [net EXCEPT !.tx = {}])
       ELSE /\ \E i \in ForPort(dgs[s].bound) :
                  (\A j \in ForPort(dgs[s].bound) : i <= j) /\ net_recv_udp_event(s, i)
            /\ Return(s) /\ UNCHANGED <<ticks>>

\* Any raw socket gets the oldest answer, whoever asked.
recv_icmp_turn(s) ==
    /\ dgs[s].call = "recv" /\ dgs[s].type = "raw"
    /\ IF net.icmp = 0 THEN Again(s, [net EXCEPT !.tx = {}])
       ELSE /\ net' = [net EXCEPT !.icmp = @ - 1, !.tx = {}]
            /\ Return(s) /\ UNCHANGED <<got, ticks>>

NetNext ==
    \/ net_register_device \/ net_tick_dhcp \/ net_rx_irq
    \/ \E s \in Socks :
          \/ \E type \in Open : sys_socket(s, type)
          \/ \E port \in Ports : sys_bind(s, port)
          \/ \E dst \in Remotes : sys_sendto(s, dst)
          \/ sys_recvfrom(s) \/ sys_close(s) \/ interrupt(s)
          \/ send_turn(s) \/ recv_udp_turn(s) \/ recv_icmp_turn(s)

NetSpec == NetInit /\ [][NetNext]_netvars

----------------------------------------------------------------------------
\* The address of the machine and the frames that it sends.  The static address is
\* replaced once, by an address and the gateway that the same server gave with it,
\* although offers and acknowledgements come from several servers, late and again; it need
\* not be the lease that was requested.  DHCP is decided within a
\* bounded time, and never asks again.  A frame for a host carries the hardware address
\* of the next hop as it is at that moment, and the machine's own address, although one
\* ARP entry serves all destinations and the address and the gateway change under the
\* loops that wait for it.
HostOK ==
    /\ net.state = "BOUND" => [ip |-> net.ip, gw |-> net.gw] \in Leases
    /\ net.present /\ net.state # "BOUND" => net.ip = StaticIp /\ net.gw = StaticGw
    /\ ticks > Deadline => net.state \in {"BOUND", "FAILED"}
    /\ net.retries <= MaxRetries + 1
    /\ \A f \in net.tx : f.dst # Zero => f.mac = NextHop(net, f.dst) /\ f.src = net.ip

\* Each datagram goes to one socket at most, to one that is bound to its port or to no
\* port, and the datagrams of a port are received in the order in which they arrived,
\* whichever sockets share the ring.
DatagramsOK ==
    /\ \A i \in 1..Len(got) : LET e == got[i][2] IN
          /\ got[i][1] \in {0, e.port}
          /\ \A j \in 1..Len(net.udp) : net.udp[j].n # e.n
          /\ \A j \in 1..i - 1 : got[j][2].port = e.port => got[j][2].n < e.n
    /\ \A i, j \in 1..Len(net.udp) : i < j => net.udp[i].n < net.udp[j].n

\* What the machine is and sends, and what its sockets receive.
NetOK == HostOK /\ DatagramsOK
=============================================================================
