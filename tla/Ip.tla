--------------------------------- MODULE Ip ---------------------------------
(***************************************************************************)
(* The IPv4 side of ip.c: the address of the interface, the cache of two   *)
(* MAC addresses, ARP, echo replies and sending.  Handlers are actions on  *)
(* a frame that has arrived; who sends it, and what becomes of a DHCP      *)
(* datagram, is the business of Dhcp.                                      *)
(*                                                                         *)
(* Frames, like buffers that are rewritten in place, carry the fields that *)
(* decide something.  A frame with a broken header or checksum is dropped, *)
(* which is as good as lost; the checksum of an echo message is followed   *)
(* because its reply's is derived from it.  The access times of the cache  *)
(* are never read.  As elsewhere, a Bad... definition is a faulty variant. *)
(***************************************************************************)
EXTENDS Checksum

CONSTANTS
  Hosts,        \* the other stations on the Ethernet, by IPv4 address
  Server,       \* server_ip: the host with the client and the TFTP server
  Addr,         \* the addresses the DHCP servers hand out
  Unspecified,  \* 0.0.0.0
  Broadcast     \* 255.255.255.255

ASSUME AddressAssumption ==
  /\ Server \in Hosts
  /\ Hosts \cap Addr = {}
  /\ {Unspecified, Broadcast} \cap (Hosts \cup Addr) = {} /\ Unspecified # Broadcast

VARIABLES
  ipv4,             \* ifinfo.ipv4
  ip_ready,         \* the DHCP client is done
  server_mac,       \* cache entry of server_ip
  dhcp_server_ip,   \* whom the second cache entry is about
  dhcp_server_mac,  \* that entry
  wire              \* the frame the board sent last

ipVars == <<ipv4, ip_ready, server_mac, dhcp_server_ip, dhcp_server_mac, wire>>
cacheVars == <<server_mac, dhcp_server_ip, dhcp_server_mac>>

\* MAC_BROADCAST is also the mark of an empty cache entry.
Mac(h) == <<"mac", h>>
BoardMac == <<"board">>
MAC_BROADCAST == <<"all">>

\* An ARP frame goes where it is about; the question goes to all.
Arp(op, smac, sip, dmac, dip) ==
  [kind |-> "arp", dst_mac |-> dmac, op |-> op,
   mac_saddr |-> smac, ip_saddr |-> sip, ip_daddr |-> dip]
Packet(dmac, smac, sip, dip, m) ==
  [kind |-> "ipv4", dst_mac |-> dmac, src_mac |-> smac, src |-> sip, dst |-> dip, msg |-> m]
NoFrame == [kind |-> "none"]

\* ICMP echo messages: their checksum and the sum of all words but the first.
Echo(check, rest) == [type |-> "echo", check |-> check, rest |-> rest]
EchoAnswer(check, rest) == [type |-> "echo reply", check |-> check, rest |-> rest]
\* A datagram of the judge daemon or the TFTP client.
Data == [type |-> "data"]

\* init_ip, after a reset.  server_mac and the DHCP server's entry are empty.
IpInit ==
  /\ ipv4 = Unspecified
  /\ ip_ready = FALSE
  /\ server_mac = MAC_BROADCAST
  /\ dhcp_server_ip = Unspecified
  /\ dhcp_server_mac = MAC_BROADCAST

-----------------------------------------------------------------------------
(* The cache. *)

QueryMac(a) ==
  CASE a = Server -> server_mac
    [] a # Server /\ a = dhcp_server_ip -> dhcp_server_mac
    [] OTHER -> MAC_BROADCAST
MacFound(a) ==
  \/ QueryMac(a) # MAC_BROADCAST
  \/ a = Broadcast /\ a \notin {Server, dhcp_server_ip}

BadUpdateMac(a, mac) ==
  /\ server_mac' = mac
  /\ dhcp_server_mac' = IF a = dhcp_server_ip THEN mac ELSE dhcp_server_mac
UpdateMac(a, mac) ==
  /\ server_mac' = IF a = Server THEN mac ELSE server_mac
  /\ dhcp_server_mac' = IF a = dhcp_server_ip THEN mac ELSE dhcp_server_mac

-----------------------------------------------------------------------------
(* Sending. *)

BadIpSend(a, m) ==
  wire' = IF MacFound(a)' THEN Packet(QueryMac(a)', BoardMac, ipv4', a, m) ELSE wire
\* send_udp and ip_send, as the last thing a step does: without a MAC address an
\* ARP request takes the place of the datagram, which is lost.
IpSend(a, m) ==
  wire' = IF MacFound(a)' THEN Packet(QueryMac(a)', BoardMac, ipv4', a, m)
                          ELSE Arp("request", BoardMac, ipv4', MAC_BROADCAST, a)

\* The daemon or the TFTP client sends to host a: they do once the address is
\* there, the latter again and again until the server answers.
SendData(a) ==
  /\ ip_ready
  /\ UNCHANGED <<ipv4, ip_ready, cacheVars>>
  /\ IpSend(a, Data)

-----------------------------------------------------------------------------
(* Receiving. *)

ToMe(a) == a = ipv4 \/ ipv4 = Unspecified

\* What handle_frame and handle_ipv4 let through; before the address is ready
\* only UDP, which an echo request is not.
Admitted(f) ==
  /\ f.dst_mac \in {BoardMac, MAC_BROADCAST}
  /\ f.kind = "ipv4" => ToMe(f.dst) /\ (f.msg.type = "echo" => ip_ready)

\* handle_arp: learn the sender's address, unless it is a probe, and answer what
\* asks for ours.
HandleArp(f) ==
  /\ f.kind = "arp" /\ Admitted(f)
  /\ IF f.ip_saddr = Unspecified THEN UNCHANGED <<server_mac, dhcp_server_mac>>
                                 ELSE UpdateMac(f.ip_saddr, f.mac_saddr)
  /\ wire' = IF f.op = "request" /\ f.ip_daddr = ipv4
             THEN Arp("reply", BoardMac, ipv4, f.mac_saddr, f.ip_saddr) ELSE wire
  /\ UNCHANGED <<ipv4, ip_ready, dhcp_server_ip>>

\* handle_icmpv4 and do_icmpv4_echo: the frame goes back with the addresses
\* exchanged and the checksum corrected.  It is for our address alone once the
\* board has one, so its destination is not a multicast address.
HandleEcho(f) ==
  /\ f.kind = "ipv4" /\ Admitted(f) /\ f.msg.type = "echo"
  /\ Final(EchoRequest + f.msg.check + f.msg.rest) = 0
  /\ wire' = Packet(f.src_mac, BoardMac, f.dst, f.src,
                    EchoAnswer(Update(f.msg.check), f.msg.rest))
  /\ UNCHANGED <<ipv4, ip_ready, cacheVars>>
=============================================================================
