-------------------------------- MODULE Dhcp --------------------------------
(***************************************************************************)
(* The DHCP client (dhcp.c) on the stack of Ip, with the servers and hosts *)
(* of its Ethernet.  The client is suspended in a receive between its      *)
(* steps; a step runs from the return of recv_udp over the handling of     *)
(* what came to the send it ends in.                                       *)
(*                                                                         *)
(* Answers of DHCP servers are in the set net, from which they come late,  *)
(* out of order, repeatedly or not at all; a frame of the board stays on   *)
(* the wire until its next, and whoever is addressed may take it any       *)
(* number of times.  The board may be reset: what it knew is lost, what    *)
(* servers and network know is not.  The transaction id of a boot comes    *)
(* from the cycle counter, which starts over at a reset, so it may be one  *)
(* of an earlier boot; and a lease may run out at any time, as the client  *)
(* never renews one.  Boots are numbered, and a new id is written as the   *)
(* number of its boot; the client knows neither that number nor the ids of *)
(* the boots before it.                                                    *)
(***************************************************************************)
EXTENDS Ip, FiniteSets

CONSTANTS
  DhcpServers,  \* the hosts that answer DHCP
  Pool,         \* Pool[s]: the addresses server s hands out
  Echoes,       \* the echo messages hosts send, <<checksum, sum of the rest>>
  MaxFlight,    \* bound on the answers under way to the board
  MaxLives      \* bound on the boots

ASSUME DhcpAssumption ==
  /\ DhcpServers \subseteq Hosts /\ Pool \in [DhcpServers -> SUBSET Addr]
  /\ \A e \in Echoes : e[1] \in Nat /\ e[1] <= 65535 /\ e[2] \in Nat /\ e[2] + 131070 <= MaxSum
  /\ MaxFlight \in Nat /\ MaxLives \in Nat

VARIABLES
  pc,       \* where the client is: "start", in a receive ("offer", "ack"), "done"
  inbox,    \* the datagram delivered to its recv_udp, or NoData
  xid,      \* the transaction id of this boot, 0 until it is drawn
  life,     \* the number of this boot
  earlier,  \* history: the transaction ids of the boots before
  net,      \* the answers of DHCP servers under way to the board
  lease,    \* lease[a]: the boot in which a was granted to the board last, or 0
  expired,  \* the addresses whose lease has run out since
  taken     \* the addresses of Addr that somebody else uses

leaseVars == <<lease, expired, taken>>
envVars == <<life, earlier, net, leaseVars>>
clientVars == <<pc, inbox, xid>>
vars == <<ipVars, clientVars, envVars>>

Dhcp(type, x, a) == [type |-> type, xid |-> x, addr |-> a]
NoData == [src |-> Unspecified, msg |-> Dhcp("none", 0, Unspecified)]

Init ==
  /\ IpInit
  /\ wire = NoFrame
  /\ pc = "start" /\ inbox = NoData /\ xid = 0
  /\ life = 1 /\ earlier = {}
  /\ net = {}
  /\ lease = [a \in Addr |-> 0] /\ expired = {}
  /\ taken = {}

-----------------------------------------------------------------------------
(* The client. *)

BadAccepts(type) == inbox.msg.type = type
\* dhcp_check and the test of the message type behind it.
Accepts(type) == inbox.msg.type = type /\ inbox.msg.xid = xid

SendDiscover(x) == IpSend(Broadcast, Dhcp("discover", x, Unspecified))

\* The transaction id is what the cycle counter says: one that no boot has had, for
\* which the number of this boot stands, or one of an earlier boot.
Start ==
  /\ pc = "start"
  /\ pc' = "offer"
  /\ UNCHANGED <<ipv4, ip_ready, cacheVars, inbox>>
  /\ \E x \in earlier \cup {life} : xid' = x /\ SendDiscover(x)

\* Nothing within three seconds, or something else than an offer.
DiscoverAgain ==
  /\ pc = "offer" /\ ~ Accepts("offer")
  /\ inbox' = NoData
  /\ UNCHANGED <<ipv4, ip_ready, cacheVars, pc, xid>>
  /\ SendDiscover(xid)

\* An offer: the address is taken into use, and its server asked for it.
TakeOffer ==
  /\ pc = "offer" /\ Accepts("offer")
  /\ pc' = "ack" /\ inbox' = NoData
  /\ ipv4' = inbox.msg.addr
  /\ dhcp_server_ip' = inbox.src
  /\ dhcp_server_mac' = MAC_BROADCAST
  /\ UNCHANGED <<ip_ready, server_mac, xid>>
  /\ \E s \in {inbox.src}, a \in {inbox.msg.addr} : IpSend(s, Dhcp("request", xid, a))

BadRequestAgain ==
  /\ pc = "ack" /\ inbox # NoData /\ ~ Accepts("ack")
  /\ inbox' = NoData
  /\ UNCHANGED <<ipv4, ip_ready, cacheVars, pc, xid>>
  /\ \E s \in {dhcp_server_ip}, a \in {ipv4} : IpSend(s, Dhcp("request", xid, a))
\* Nothing within a quarter of a second, or something else than an ACK, a refusal
\* included: the request is repeated.
RequestAgain ==
  /\ pc = "ack" /\ ~ Accepts("ack")
  /\ inbox' = NoData
  /\ UNCHANGED <<ipv4, ip_ready, cacheVars, pc, xid>>
  /\ \E s \in {dhcp_server_ip}, a \in {ipv4} : IpSend(s, Dhcp("request", xid, a))

TakeAck ==
  /\ pc = "ack" /\ Accepts("ack")
  /\ pc' = "done" /\ inbox' = NoData
  /\ ipv4' = inbox.msg.addr
  /\ ip_ready' = TRUE
  /\ UNCHANGED <<cacheVars, wire, xid>>

Client ==
  /\ Start \/ DiscoverAgain \/ TakeOffer \/ RequestAgain \/ TakeAck
  /\ UNCHANGED envVars

-----------------------------------------------------------------------------
(* The receiving task. *)

\* The filter of the client's recv_udp: any source at first, then the server.
\* A datagram that comes before the last was looked at is dropped.
Listening(f) ==
  /\ Admitted(f)
  /\ pc \in {"offer", "ack"} /\ inbox = NoData
  /\ pc = "ack" => f.src = dhcp_server_ip
\* A datagram that is delivered may come again.
HandleUdp(f) ==
  /\ f \in net /\ net' \in {net, net \ {f}}
  /\ Listening(f)
  /\ inbox' = [src |-> f.src, msg |-> f.msg]
  /\ UNCHANGED <<ipVars, pc, xid, life, earlier, leaseVars>>

\* ARP and ping of the hosts.  What their frames say of them never changes, so
\* it makes no difference whether they come late, and they are not kept in net:
\* a reply to the board's question, a question or probe for an address, an echo
\* request.
ArpReply(h) ==
  /\ wire.kind = "arp" /\ wire.op = "request" /\ wire.ip_daddr = h
  /\ HandleArp(Arp("reply", Mac(h), h, wire.mac_saddr, wire.ip_saddr))
ArpQuestion(h, a) ==
  \E sip \in {h, Unspecified} : HandleArp(Arp("request", Mac(h), sip, MAC_BROADCAST, a))
Ping(h, e) == HandleEcho(Packet(BoardMac, Mac(h), h, ipv4, Echo(e[1], e[2])))

HostStep(h) ==
  /\ \/ ArpReply(h)
     \/ \E a \in Addr : ArpQuestion(h, a)
     \/ \E e \in Echoes : Ping(h, e)
  /\ UNCHANGED <<clientVars, envVars>>

Send(a) ==
  /\ SendData(a)
  /\ UNCHANGED <<clientVars, envVars>>

\* Power off and on.
Reboot ==
  /\ life < MaxLives /\ life' = life + 1
  /\ ipv4' = Unspecified /\ ip_ready' = FALSE
  /\ server_mac' = MAC_BROADCAST
  /\ dhcp_server_ip' = Unspecified /\ dhcp_server_mac' = MAC_BROADCAST
  /\ pc' = "start" /\ inbox' = NoData /\ xid' = 0
  /\ earlier' = earlier \cup ({xid} \ {0})
  /\ UNCHANGED <<wire, net, leaseVars>>

-----------------------------------------------------------------------------
(* Servers, hosts and the network. *)

boardVars == <<ipVars, clientVars, life, earlier>>

\* A frame is added; one that was there may be lost, and is when there are too
\* many.
Put(f) ==
  net' \in {s \in {net \cup {f}} \cup {(net \ {g}) \cup {f} : g \in net} :
              Cardinality(s) <= MaxFlight}
Lose(f) ==
  /\ f \in net /\ net' = net \ {f}
  /\ UNCHANGED <<boardVars, leaseVars>>

OfferOf(s, a, x) == Packet(BoardMac, Mac(s), s, a, Dhcp("offer", x, a))
AckOf(s, a, x) == Packet(BoardMac, Mac(s), s, a, Dhcp("ack", x, a))
NakOf(s, x) == Packet(MAC_BROADCAST, Mac(s), s, Broadcast, Dhcp("nak", x, Unspecified))

Asked(type) == wire.kind = "ipv4" /\ wire.msg.type = type

\* Any address of the server nobody else uses may be offered; nothing is reserved
\* by that.
Offer(s, a) ==
  /\ Asked("discover") /\ a \in Pool[s] \ taken
  /\ Put(OfferOf(s, a, wire.msg.xid))
  /\ UNCHANGED <<boardVars, leaseVars>>

\* A request is granted while nobody else has the address, and refused after.
Answer(s) ==
  /\ Asked("request") /\ wire.dst = s /\ wire.dst_mac = Mac(s)
  /\ LET a == wire.msg.addr
     IN  IF a \in taken
         THEN Put(NakOf(s, wire.msg.xid)) /\ UNCHANGED <<lease, expired>>
         ELSE /\ Put(AckOf(s, a, wire.msg.xid))
              /\ lease' = [lease EXCEPT ![a] = life] /\ expired' = expired \ {a}
  /\ UNCHANGED <<boardVars, taken>>

\* The client never renews its lease, so it may run out in this boot as well as
\* after it; then the address may go to somebody else.
Expire(a) ==
  /\ lease[a] # 0 /\ expired' = expired \cup {a}
  /\ UNCHANGED <<boardVars, net, lease, taken>>
GiveAway(a) ==
  /\ lease[a] = 0 \/ a \in expired
  /\ taken' = taken \cup {a}
  /\ UNCHANGED <<boardVars, net, lease, expired>>

Environment ==
  \/ \E s \in DhcpServers : Answer(s) \/ \E a \in Addr : Offer(s, a)
  \/ \E a \in Addr : Expire(a) \/ GiveAway(a)
  \/ \E f \in net : Lose(f)

Next ==
  \/ Client
  \/ \E f \in net : HandleUdp(f)
  \/ \E h \in Hosts : Send(h) \/ HostStep(h)
  \/ Reboot
  \/ Environment

Spec == Init /\ [][Next]_vars

\* The client's timers fire.  A server that is asked again and again answers at
\* last while the client listens, and of answers under way again and again one
\* arrives; so do the ARP replies.  The TFTP client repeats its request.
Fairness ==
  /\ WF_vars(Client)
  /\ WF_vars(Send(Server))
  /\ SF_vars(\E s \in DhcpServers, a \in Addr :
               inbox = NoData /\ Offer(s, a) /\ wire.msg.xid = xid)
  /\ SF_vars(\E s \in DhcpServers : inbox = NoData /\ Answer(s))
  /\ SF_vars(\E f \in net : HandleUdp(f) /\ f.msg.xid = xid /\ f.msg.type = pc)
  /\ SF_vars(\E h \in Hosts : ArpReply(h) /\ UNCHANGED <<clientVars, envVars>>)
FairSpec == Spec /\ Fairness

-----------------------------------------------------------------------------
(* Properties. *)

\* Every variable but the frames keeps its type.
TypeOK ==
  /\ ipv4 \in Addr \cup {Unspecified} /\ ip_ready \in BOOLEAN
  /\ dhcp_server_ip \in Hosts \cup {Unspecified}
  /\ pc \in {"start", "offer", "ack", "done"}
  /\ life \in Nat \ {0} /\ earlier \subseteq 1..life - 1
  /\ xid \in 0..life /\ (xid = 0) = (pc = "start")
  /\ lease \in [Addr -> 0..life]
  /\ expired \subseteq Addr /\ taken \subseteq Addr

\* Once the board says it is ready, its address is one that was granted to it,
\* whatever answers come late; in this boot, if the transaction id, all that tells
\* the boots apart, is not by chance one of an earlier boot; and nobody else uses
\* the address as long as the lease, which the client never renews, runs.
AddressOurs ==
  ip_ready => /\ lease[ipv4] # 0
              /\ xid \notin earlier => lease[ipv4] = life
              /\ ipv4 \in taken => ipv4 \in expired

\* A packet of the board carries the MAC address of the host its IP address
\* names, and goes to all only if it is meant for all.
DatagramsAddressed ==
  wire.kind = "ipv4" =>
    wire.dst_mac = IF wire.dst = Broadcast THEN MAC_BROADCAST ELSE Mac(wire.dst)

\* An echo reply passes the check it was derived under, except for a message of
\* zeros, whose checksum becomes 0 where a sum of the message would give 65535.
EchoReplyValid ==
  (wire.kind = "ipv4" /\ wire.msg.type = "echo reply") =>
    \/ wire.msg.check = 0 /\ wire.msg.rest = 0
    \/ Final(EchoReply + wire.msg.check + wire.msg.rest) = 0

\* The address offered stays free until it is granted, and some address is free.
\* Without the former the board repeats a request that is always refused.
Kept == taken # Addr /\ (pc = "ack" => ipv4 \notin taken)

\* The board gets an address in the end, although its first request is always
\* lost (nobody's MAC address is known) and answers of earlier boots come in.
Acquired == []Kept => <>[]ip_ready

\* A board that stays ready reaches the server: ip_send loses datagrams only until
\* a reply to its ARP request has come.
ServerReached ==
  <>[]ip_ready => []<>(wire.kind = "ipv4" /\ wire.dst = Server /\ wire.msg = Data)
=============================================================================
