----------------------------- MODULE DhcpProofs -----------------------------
(***************************************************************************)
(* Proofs about Dhcp, for any hosts, servers, addresses, transaction ids,  *)
(* echo messages and number of boots: the address of a board that is ready *)
(* was granted to it, in this boot if its transaction id is new, its       *)
(* packets carry the right MAC addresses, and its echo replies pass the    *)
(* check.  The argument for the first is that every answer under way has a *)
(* transaction id of an earlier boot or the one of this boot, so that an   *)
(* acknowledgement with a new one was sent in this boot; for the second    *)
(* that hosts tell the truth about themselves, so whatever the cache holds *)
(* is true.                                                                *)
(***************************************************************************)
EXTENDS Dhcp, TLAPS

-----------------------------------------------------------------------------
(* Checksums: what the ones' complement sums of ip.h guarantee for every      *)
(* message that fits a frame.  Two foldings are enough, a message sealed with *)
(* its checksum passes the check, and the corrected checksum of an echo reply *)
(* passes whenever the request did, but for a message of zeros.               *)


\* One folding takes a multiple of 65535 away and never reaches zero.
LEMMA FoldOnce ==
  ASSUME NEW s \in Nat, s > 0, s <= MaxSum
  PROVE  \E q \in Nat :
            /\ Fold(s) \in Nat /\ Fold(s) = s - q * 65535
            /\ Fold(s) > 0 /\ Fold(s) <= 131070
<1> DEFINE q == s \div 65536
           r == s % 65536
<1>1. q \in Nat /\ q <= 65535 /\ r \in Nat /\ r <= 65535 /\ s = (q * 65536) + r
  BY SMT DEF MaxSum
<1>2. Fold(s) = r + q
  BY SMT DEF Fold
<1> HIDE DEF q, r
<1>3. /\ q \in Nat /\ Fold(s) \in Nat /\ Fold(s) = s - q * 65535
      /\ Fold(s) > 0 /\ Fold(s) <= 131070
  BY <1>1, <1>2, SMT
<1>4. QED
  BY <1>3, SMT

\* Two foldings leave one word, congruent to the sum, and zero only for zero.
LEMMA FoldTwice ==
  ASSUME NEW s \in Nat, s > 0, s <= MaxSum
  PROVE  \E q \in Nat :
            Fold(Fold(s)) \in Nat /\ Fold(Fold(s)) > 0 /\ Fold(Fold(s)) <= 65535 /\ Fold(Fold(s)) = s - q * 65535
<1>1. PICK p \in Nat : /\ Fold(s) \in Nat /\ Fold(s) = s - p * 65535
                       /\ Fold(s) > 0 /\ Fold(s) <= 131070
  BY FoldOnce, SMT
<1> DEFINE f == Fold(s)
           q == f \div 65536
           r == f % 65536
<1>2. /\ f \in Nat /\ f > 0 /\ f <= 131070
      /\ f = s - p * 65535
  BY <1>1, SMT
<1>3. Fold(f) = r + q
  BY SMT DEF Fold
<1> HIDE DEF f
<1>4. q \in Nat /\ q <= 1 /\ r \in Nat /\ r <= 65535 /\ f = (q * 65536) + r
  BY <1>2, SMT
<1> HIDE DEF q, r
<1>5. /\ p + q \in Nat
      /\ Fold(f) \in Nat /\ Fold(f) > 0 /\ Fold(f) <= 65535
      /\ Fold(f) = s - (p + q) * 65535
  BY <1>2, <1>3, <1>4, SMT
<1>6. QED
  BY <1>5, SMT DEF f

\* ip_checksum_final of a sum: a word; the sum and its checksum together are a
\* multiple of 65535, and it is 65535 for zero only.
LEMMA FinalValue ==
  ASSUME NEW s \in Nat, s > 0, s <= MaxSum
  PROVE  \E q \in Nat : Final(s) \in Nat /\ Final(s) <= 65534 /\ Final(s) + s = (q + 1) * 65535
<1>1. PICK q \in Nat :
            Fold(Fold(s)) \in Nat /\ Fold(Fold(s)) > 0 /\ Fold(Fold(s)) <= 65535 /\ Fold(Fold(s)) = s - q * 65535
  BY FoldTwice, SMT
<1> DEFINE w == Fold(Fold(s))
<1>2. w \in Nat /\ w > 0 /\ w <= 65535 /\ w = s - q * 65535
  BY <1>1, SMT
<1>3. Final(s) = 65535 - (w % 65536)
  BY SMT DEF Final, Complement
<1> HIDE DEF w
<1>4. Final(s) \in Nat /\ Final(s) <= 65534 /\ Final(s) + s = (q + 1) * 65535
  BY <1>2, <1>3, SMT
<1>5. QED
  BY <1>4, SMT

\* The check passes exactly for the multiples of 65535 but zero.
LEMMA FinalZero ==
  ASSUME NEW s \in Nat, s > 0, s <= MaxSum
  PROVE  Final(s) = 0 <=> \E q \in Nat : s = (q + 1) * 65535
<1>1. PICK q \in Nat : Final(s) \in Nat /\ Final(s) <= 65534 /\ Final(s) + s = (q + 1) * 65535
  BY FinalValue, SMT
<1>2. ASSUME Final(s) = 0 PROVE s = (q + 1) * 65535
  BY <1>1, <1>2, SMT
<1>3. ASSUME NEW p \in Nat, s = (p + 1) * 65535 PROVE Final(s) = 0
  BY <1>1, <1>3, SMT
<1>4. QED
  BY <1>2, <1>3, SMT

\* A header or datagram passes the receiver's check once ip_checksum has filled
\* in its checksum field (send_udp, do_icmpv4_echo).
THEOREM SealedPasses ==
  ASSUME NEW rest \in Nat, rest > 0, rest + 65535 <= MaxSum
  PROVE  Final(rest + Final(rest)) = 0
<1>1. rest <= MaxSum
  BY SMT DEF MaxSum
<1>2. PICK q \in Nat : Final(rest) \in Nat /\ Final(rest) <= 65534 /\ Final(rest) + rest = (q + 1) * 65535
  BY <1>1, FinalValue, SMT
<1> DEFINE t == rest + Final(rest)
<1>3. t = (q + 1) * 65535
  BY <1>2, SMT
<1>4. t \in Nat /\ t > 0 /\ t <= MaxSum
  BY <1>2, SMT DEF MaxSum
<1> HIDE DEF t
<1>5. Final(t) = 0
  BY <1>3, <1>4, FinalZero, SMT
<1>6. QED
  BY <1>5, SMT DEF t

\* The sums behind an echo reply: m of the request, n of the correction, and t
\* of the reply with the checksum c it gets.
LEMMA Correction ==
  ASSUME NEW check \in Nat, check <= 65535, NEW rest \in Nat,
         NEW m \in Nat, m = 8 + check + rest, m <= MaxSum, Final(m) = 0,
         NEW c \in Nat, NEW n \in Nat, n = 131062 - check, c = Final(n),
         NEW t \in Nat, t = c + rest, t > 0, t <= MaxSum
  PROVE  Final(t) = 0
<1>1. n > 0 /\ n <= MaxSum /\ m > 0
  BY SMT DEF MaxSum
<1>2. PICK q \in Nat : Final(n) \in Nat /\ Final(n) <= 65534 /\ Final(n) + n = (q + 1) * 65535
  BY <1>1, FinalValue, SMT
<1>3. PICK p \in Nat : m = (p + 1) * 65535
  BY <1>1, FinalZero, SMT
<1>4. t = ((q + 1) + (p + 1) - 2) * 65535
  BY <1>2, <1>3, SMT
<1>5. p + q - 1 \in Nat
  BY <1>4, SMT
<1>6. t = ((p + q - 1) + 1) * 65535
  BY <1>4, SMT
<1>7. \E k \in Nat : t = (k + 1) * 65535
  <2> DEFINE k == p + q - 1
  <2>1. k \in Nat /\ t = (k + 1) * 65535
    BY <1>5, <1>6, SMT
  <2> HIDE DEF k
  <2>2. QED
    BY <2>1, SMT
<1>8. QED
  BY <1>7, FinalZero, SMT

\* The corrected checksum of do_icmpv4_echo passes the code's own check if the
\* request did, unless checksum and all other words of the reply are zero.
THEOREM EchoReplyPasses ==
  \A check \in Nat, rest \in Nat :
    check <= 65535 /\ rest + 131070 <= MaxSum /\ Final(EchoRequest + check + rest) = 0 =>
      (Update(check) = 0 /\ rest = 0) \/ Final(EchoReply + Update(check) + rest) = 0
<1> SUFFICES ASSUME NEW check \in Nat, NEW rest \in Nat
             PROVE  check <= 65535 /\ rest + 131070 <= MaxSum
                      /\ Final(EchoRequest + check + rest) = 0
                      /\ ~ (Update(check) = 0 /\ rest = 0)
                    => Final(EchoReply + Update(check) + rest) = 0
  BY SMT
<1>1. CASE ~ (check <= 65535 /\ rest + 131070 <= MaxSum)
  BY <1>1, SMT
<1>2. CASE check <= 65535 /\ rest + 131070 <= MaxSum
  <2> DEFINE n == 131062 - check
             m == EchoRequest + check + rest
             c == Update(check)
             t == EchoReply + Update(check) + rest
  <2>1. n \in Nat /\ n = 131062 - check /\ n > 0 /\ n <= MaxSum
    BY <1>2, SMT DEF MaxSum
  <2>2. m \in Nat /\ m = 8 + check + rest /\ m <= MaxSum
    BY <1>2, SMT DEF MaxSum, EchoRequest
  <2>3. c = Final(n)
    <3>1. Complement(check) + Complement(EchoRequest) + EchoReply = n
      BY <1>2, SMT DEF Complement, EchoRequest, EchoReply
    <3>2. QED
      BY <3>1, SMT DEF Update
  <2>4. c \in Nat /\ c <= 65534
    <3> HIDE DEF n, c
    <3>1. PICK q \in Nat : Final(n) \in Nat /\ Final(n) <= 65534 /\ Final(n) + n = (q + 1) * 65535
      BY <2>1, FinalValue, SMT
    <3>2. QED
      BY <2>3, <3>1, SMT
  <2>5. t = c + rest
    BY <2>4, SMT DEF EchoReply
  <2> SUFFICES Final(m) = 0 /\ ~ (c = 0 /\ rest = 0) => Final(t) = 0
    OBVIOUS
  <2> HIDE DEF n, m, c, t
  <2>6. t \in Nat /\ t <= MaxSum /\ (~ (c = 0 /\ rest = 0) => t > 0)
    BY <1>2, <2>4, <2>5, SMT DEF MaxSum
  <2>7. QED
    BY <1>2, <2>1, <2>2, <2>3, <2>4, <2>5, <2>6, Correction, SMT
<1>3. QED
  BY <1>1, <1>2, SMT

-----------------------------------------------------------------------------
(* The client and the stack. *)

\* The cache holds nothing but the truth.
CacheTrue ==
  /\ server_mac # MAC_BROADCAST => server_mac = Mac(Server)
  /\ dhcp_server_mac # MAC_BROADCAST => dhcp_server_mac = Mac(dhcp_server_ip)

\* The transaction ids drawn so far.
Drawn == earlier \cup ({xid} \ {0})

\* An answer of a server: it is to a request of this boot or an earlier one, an
\* acknowledgement tells of a lease, and one to this boot with a transaction id
\* that is new of a lease of this boot.
Granted(m) ==
  /\ m.type \in {"offer", "ack"} => m.addr \in Addr
  /\ m.type = "ack" => /\ lease[m.addr] # 0
                       /\ m.xid = xid /\ xid \notin earlier => lease[m.addr] = life
AnswersOK == \A f \in net : f.src \in Hosts /\ f.msg.xid \in Drawn /\ Granted(f.msg)
InboxOK ==
  inbox.msg.xid # 0 => inbox.src \in Hosts /\ inbox.msg.xid \in Drawn /\ Granted(inbox.msg)

\* What servers answer to.
RequestOK ==
  (wire.kind = "ipv4" /\ wire.msg.type \in {"discover", "request"}) =>
    /\ wire.msg.xid \in Drawn
    /\ wire.msg.type = "request" => wire.msg.addr \in Addr

ClientOK ==
  /\ pc = "ack" => ipv4 \in Addr /\ dhcp_server_ip \in Hosts
  /\ ip_ready => /\ pc = "done" /\ ipv4 \in Addr /\ lease[ipv4] # 0
                 /\ xid \notin earlier => lease[ipv4] = life

\* An address whose lease runs is not given away.
LeasesKept == \A a \in Addr : lease[a] # 0 /\ a \notin expired => a \notin taken

IInv ==
  /\ TypeOK /\ CacheTrue /\ AnswersOK /\ InboxOK /\ RequestOK /\ ClientOK /\ LeasesKept
  /\ DatagramsAddressed /\ EchoReplyValid

LEMMA InitHolds == Init => IInv
<1> SUFFICES ASSUME Init PROVE IInv
  OBVIOUS
<1>1. TypeOK
  <2>1. /\ lease \in [Addr -> 0..life] /\ expired \subseteq Addr /\ taken \subseteq Addr
        /\ life \in Nat \ {0} /\ earlier \subseteq 1..life - 1 /\ xid \in 0..life
    BY DEF Init
  <2> QED BY <2>1 DEF Init, IpInit, TypeOK
<1>2. InboxOK
  BY DEF Init, InboxOK, NoData, Dhcp
<1>3. CacheTrue /\ AnswersOK /\ ClientOK /\ LeasesKept
  BY DEF Init, IpInit, CacheTrue, AnswersOK, ClientOK, LeasesKept
<1>4. RequestOK /\ DatagramsAddressed /\ EchoReplyValid
  BY DEF Init, RequestOK, DatagramsAddressed, EchoReplyValid, NoFrame
<1> QED BY <1>1, <1>2, <1>3, <1>4 DEF IInv

-----------------------------------------------------------------------------
(* The steps that several actions share. *)

\* What ip_send puts on the wire, if the cache is true: a packet that is addressed
\* right, or an ARP request.
LEMMA SendAddressed ==
  ASSUME NEW a \in Hosts \cup {Broadcast}, NEW m, IpSend(a, m), CacheTrue', TypeOK'
  PROVE  \/ wire'.kind = "arp"
         \/ /\ wire'.kind = "ipv4" /\ wire'.dst = a /\ wire'.msg = m
            /\ wire'.dst_mac = IF a = Broadcast THEN MAC_BROADCAST ELSE Mac(a)
<1>1. CASE ~ MacFound(a)'
  BY <1>1 DEF IpSend, Arp
<1>2. CASE MacFound(a)'
  <2>1. wire' = Packet(QueryMac(a)', BoardMac, ipv4', a, m)
    BY <1>2 DEF IpSend
  <2>2. QueryMac(a)' = IF a = Broadcast THEN MAC_BROADCAST ELSE Mac(a)
    <3>1. CASE a = Server
      BY <1>2, <3>1, AddressAssumption DEF MacFound, QueryMac, CacheTrue
    <3>2. CASE a # Server /\ a = dhcp_server_ip'
      BY <1>2, <3>2, AddressAssumption DEF MacFound, QueryMac, CacheTrue, TypeOK
    <3>3. CASE a # Server /\ a # dhcp_server_ip'
      BY <1>2, <3>3 DEF MacFound, QueryMac
    <3> QED BY <3>1, <3>2, <3>3
  <2> QED BY <2>1, <2>2 DEF Packet
<1> QED BY <1>1, <1>2

\* ... so it keeps the facts about the frame on the wire.
LEMMA SendHolds ==
  ASSUME NEW a \in Hosts \cup {Broadcast}, NEW m, IpSend(a, m), CacheTrue', TypeOK',
         m.type # "echo reply",
         m.type \in {"discover", "request"} =>
           m.xid \in Drawn' /\ (m.type = "request" => m.addr \in Addr)
  PROVE  RequestOK' /\ DatagramsAddressed' /\ EchoReplyValid'
BY SendAddressed DEF RequestOK, DatagramsAddressed, EchoReplyValid

\* HandleArp learns from what hosts say of themselves.
LEMMA ArpHolds ==
  ASSUME IInv, NEW h \in Hosts, NEW op \in {"request", "reply"}, NEW sip \in {h, Unspecified},
         NEW dmac, NEW dip, HandleArp(Arp(op, Mac(h), sip, dmac, dip)),
         UNCHANGED <<clientVars, envVars>>
  PROVE  IInv'
<1> USE DEF IInv
<1> DEFINE f == Arp(op, Mac(h), sip, dmac, dip)
<1>1. f.mac_saddr = Mac(h) /\ f.ip_saddr = sip
  BY DEF Arp
<1>2. /\ UNCHANGED <<ipv4, ip_ready, dhcp_server_ip, pc, inbox, xid, life, earlier,
                     net, lease, expired, taken>>
      /\ wire' = wire \/ wire'.kind = "arp"
      /\ IF f.ip_saddr = Unspecified THEN UNCHANGED <<server_mac, dhcp_server_mac>>
                                     ELSE UpdateMac(f.ip_saddr, f.mac_saddr)
  BY DEF HandleArp, clientVars, envVars, leaseVars, Arp
<1>3. CacheTrue'
  <2>1. CASE f.ip_saddr = Unspecified
    BY <1>2, <2>1 DEF CacheTrue
  <2>2. CASE f.ip_saddr # Unspecified
    <3>1. sip = h /\ UpdateMac(h, Mac(h))
      BY <1>1, <1>2, <2>2
    <3> QED BY <1>2, <3>1 DEF UpdateMac, CacheTrue
  <2> QED BY <2>1, <2>2
<1>4. TypeOK' /\ AnswersOK' /\ InboxOK' /\ ClientOK' /\ LeasesKept'
  BY <1>2 DEF TypeOK, AnswersOK, InboxOK, ClientOK, LeasesKept, Granted, Drawn
<1>5. RequestOK' /\ DatagramsAddressed' /\ EchoReplyValid'
  BY <1>2 DEF RequestOK, DatagramsAddressed, EchoReplyValid, Drawn
<1> QED BY <1>3, <1>4, <1>5

\* do_icmpv4_echo: the packet goes back to the host it came from, and its
\* checksum is that of EchoReplyPasses.
LEMMA PingHolds ==
  ASSUME IInv, NEW h \in Hosts, NEW e \in Echoes, Ping(h, e), UNCHANGED <<clientVars, envVars>>
  PROVE  IInv'
<1> USE DEF IInv
<1>1. e[1] \in Nat /\ e[1] <= 65535 /\ e[2] \in Nat /\ e[2] + 131070 <= MaxSum
  BY DhcpAssumption, SMT
<1>2. /\ UNCHANGED <<ipv4, ip_ready, server_mac, dhcp_server_ip, dhcp_server_mac, pc, inbox, xid, life,
                     earlier, net, lease, expired, taken>>
      /\ Final(EchoRequest + e[1] + e[2]) = 0
      /\ wire' = Packet(Mac(h), BoardMac, ipv4, h, EchoAnswer(Update(e[1]), e[2]))
  BY DEF Ping, HandleEcho, Packet, Echo, cacheVars, clientVars, envVars, leaseVars
<1>3. /\ wire'.kind = "ipv4" /\ wire'.dst = h /\ wire'.dst_mac = Mac(h)
      /\ wire'.msg.type = "echo reply"
      /\ wire'.msg.check = Update(e[1]) /\ wire'.msg.rest = e[2]
  BY <1>2 DEF Packet, EchoAnswer
<1>4. (Update(e[1]) = 0 /\ e[2] = 0) \/ Final(EchoReply + Update(e[1]) + e[2]) = 0
  BY <1>1, <1>2, EchoReplyPasses
<1>5. EchoReplyValid'
  BY <1>3, <1>4 DEF EchoReplyValid
<1>6. DatagramsAddressed'
  BY <1>3, AddressAssumption DEF DatagramsAddressed
<1>7. RequestOK'
  BY <1>3 DEF RequestOK
<1>8. TypeOK' /\ CacheTrue' /\ AnswersOK' /\ InboxOK' /\ ClientOK' /\ LeasesKept'
  BY <1>2 DEF TypeOK, CacheTrue, AnswersOK, InboxOK, ClientOK, LeasesKept, Granted, Drawn
<1> QED BY <1>5, <1>6, <1>7, <1>8

\* A DHCP server's answer enters the network.
LEMMA PutHolds ==
  ASSUME IInv, NEW f, Put(f), UNCHANGED <<boardVars, taken>>,
         f.src \in Hosts /\ f.msg.xid \in Drawn /\ Granted(f.msg)',
         lease' \in [Addr -> 0..life], \A a \in Addr : lease'[a] \in {lease[a], life},
         expired' \subseteq Addr, LeasesKept'
  PROVE  IInv'
<1> USE DEF IInv
<1>1. UNCHANGED <<ipv4, ip_ready, server_mac, dhcp_server_ip, dhcp_server_mac, wire, pc, inbox, xid,
                  life, earlier, taken>>
  BY DEF boardVars, ipVars, clientVars
<1>2. net' \subseteq net \cup {f}
  BY DEF Put
<1>3. \A m : Granted(m) => Granted(m)'
  BY <1>1 DEF Granted, TypeOK
<1>4. Drawn' = Drawn
  BY <1>1 DEF Drawn
<1>5. AnswersOK'
  BY <1>2, <1>3, <1>4 DEF AnswersOK
<1>6. InboxOK'
  BY <1>1, <1>3, <1>4 DEF InboxOK
<1>7. ClientOK'
  BY <1>1 DEF ClientOK, TypeOK
<1>8. TypeOK'
  BY <1>1 DEF TypeOK
<1>9. CacheTrue' /\ RequestOK' /\ DatagramsAddressed' /\ EchoReplyValid'
  BY <1>1, <1>4 DEF CacheTrue, RequestOK, DatagramsAddressed, EchoReplyValid
<1> QED BY <1>5, <1>6, <1>7, <1>8, <1>9

-----------------------------------------------------------------------------
(* The client. *)

\* The transaction id drawn is that of no answer under way, or one of an earlier boot.
LEMMA StartHolds == ASSUME IInv, Start, UNCHANGED envVars PROVE IInv'
<1> USE DEF IInv
<1>1. PICK x \in earlier \cup {life} : xid' = x /\ SendDiscover(x)
  BY DEF Start
<1>2. /\ UNCHANGED <<ipv4, ip_ready, server_mac, dhcp_server_ip, dhcp_server_mac, inbox>>
      /\ UNCHANGED <<life, earlier, net, lease, expired, taken>>
      /\ pc = "start" /\ pc' = "offer" /\ xid = 0 /\ xid' # 0
  BY <1>1, DhcpAssumption DEF Start, cacheVars, envVars, leaseVars, TypeOK
<1>3. Drawn = earlier /\ Drawn' = earlier \cup {x}
  BY <1>1, <1>2 DEF Drawn
<1>4. \A m : m.xid \in Drawn /\ Granted(m) => Granted(m)'
  BY <1>2, <1>3 DEF Granted
<1>5. AnswersOK' /\ InboxOK'
  BY <1>2, <1>3, <1>4 DEF AnswersOK, InboxOK
<1>6. CacheTrue' /\ TypeOK' /\ ClientOK' /\ LeasesKept'
  BY <1>1, <1>2 DEF CacheTrue, TypeOK, ClientOK, LeasesKept
<1>7. RequestOK' /\ DatagramsAddressed' /\ EchoReplyValid'
  <2> DEFINE m == Dhcp("discover", x, Unspecified)
  <2>1. m.type = "discover" /\ m.xid \in Drawn'
    BY <1>3 DEF Dhcp
  <2>2. IpSend(Broadcast, m)
    BY <1>1 DEF SendDiscover
  <2> HIDE DEF m
  <2> QED BY <1>6, <2>1, <2>2, SendHolds
<1> QED BY <1>5, <1>6, <1>7

LEMMA ClientHolds == ASSUME IInv, Client PROVE IInv'
<1> USE DEF IInv
<1>e. UNCHANGED <<life, earlier, net, lease, expired, taken>>
  BY DEF Client, envVars, leaseVars
<1>n. NoData.msg.xid = 0
  BY DEF NoData, Dhcp
<1>1. CASE Start
  BY <1>1, StartHolds DEF Client
<1>2. ASSUME UNCHANGED xid PROVE AnswersOK' /\ LeasesKept' /\ Drawn' = Drawn
  BY <1>e, <1>2 DEF AnswersOK, LeasesKept, Drawn, Granted
<1>3. CASE DiscoverAgain
  <2>1. /\ UNCHANGED <<ipv4, ip_ready, server_mac, dhcp_server_ip, dhcp_server_mac, pc, xid>>
        /\ inbox' = NoData /\ pc = "offer" /\ xid # 0
        /\ IpSend(Broadcast, Dhcp("discover", xid, Unspecified))
    BY <1>3 DEF DiscoverAgain, SendDiscover, cacheVars, TypeOK
  <2>2. CacheTrue' /\ TypeOK' /\ ClientOK' /\ InboxOK'
    BY <1>e, <1>n, <2>1 DEF CacheTrue, TypeOK, ClientOK, InboxOK
  <2>3. RequestOK' /\ DatagramsAddressed' /\ EchoReplyValid'
    <3> DEFINE m == Dhcp("discover", xid, Unspecified)
    <3>1. m.type = "discover" /\ m.xid \in Drawn'
      BY <1>2, <2>1 DEF Dhcp, Drawn
    <3>2. IpSend(Broadcast, m)
      BY <2>1
    <3> HIDE DEF m
    <3> QED BY <2>2, <3>1, <3>2, SendHolds
  <2> QED BY <1>2, <2>1, <2>2, <2>3
<1>4. CASE TakeOffer
  <2>1. /\ pc' = "ack" /\ inbox' = NoData /\ UNCHANGED <<ip_ready, server_mac, xid>>
        /\ ipv4' = inbox.msg.addr /\ dhcp_server_ip' = inbox.src
        /\ dhcp_server_mac' = MAC_BROADCAST
        /\ pc = "offer" /\ inbox.msg.type = "offer" /\ inbox.msg.xid = xid /\ xid # 0
    BY <1>4 DEF TakeOffer, Accepts, TypeOK
  <2>2. PICK s \in {inbox.src}, a \in {inbox.msg.addr} : IpSend(s, Dhcp("request", xid, a))
    BY <1>4 DEF TakeOffer
  <2>3. s \in Hosts /\ a \in Addr /\ s = inbox.src /\ a = inbox.msg.addr
    BY <2>1, <2>2 DEF InboxOK, Granted
  <2>4. CacheTrue' /\ TypeOK' /\ ClientOK' /\ InboxOK'
    BY <1>e, <1>n, <2>1, <2>3 DEF CacheTrue, TypeOK, ClientOK, InboxOK
  <2>5. RequestOK' /\ DatagramsAddressed' /\ EchoReplyValid'
    <3> DEFINE m == Dhcp("request", xid, a)
    <3>1. m.type = "request" /\ m.xid \in Drawn' /\ m.addr \in Addr
      BY <1>2, <2>1, <2>3 DEF Dhcp, Drawn
    <3>2. IpSend(s, m)
      BY <2>2
    <3> HIDE DEF m
    <3> QED BY <2>3, <2>4, <3>1, <3>2, SendHolds
  <2> QED BY <1>2, <2>1, <2>4, <2>5
<1>5. CASE RequestAgain
  <2>1. /\ UNCHANGED <<ipv4, ip_ready, server_mac, dhcp_server_ip, dhcp_server_mac, pc, xid>>
        /\ pc = "ack" /\ inbox' = NoData /\ xid # 0
    BY <1>5 DEF RequestAgain, cacheVars, TypeOK
  <2>2. PICK s \in {dhcp_server_ip}, a \in {ipv4} : IpSend(s, Dhcp("request", xid, a))
    BY <1>5 DEF RequestAgain
  <2>3. s \in Hosts /\ a \in Addr
    BY <2>1, <2>2 DEF ClientOK
  <2>4. CacheTrue' /\ TypeOK' /\ ClientOK' /\ InboxOK'
    BY <1>e, <1>n, <2>1 DEF CacheTrue, TypeOK, ClientOK, InboxOK
  <2>5. RequestOK' /\ DatagramsAddressed' /\ EchoReplyValid'
    <3> DEFINE m == Dhcp("request", xid, a)
    <3>1. m.type = "request" /\ m.xid \in Drawn' /\ m.addr \in Addr
      BY <1>2, <2>1, <2>3 DEF Dhcp, Drawn
    <3>2. IpSend(s, m)
      BY <2>2
    <3> HIDE DEF m
    <3> QED BY <2>3, <2>4, <3>1, <3>2, SendHolds
  <2> QED BY <1>2, <2>1, <2>4, <2>5
<1>6. CASE TakeAck
  <2>1. /\ UNCHANGED <<server_mac, dhcp_server_ip, dhcp_server_mac, wire, xid>>
        /\ pc = "ack" /\ pc' = "done" /\ inbox' = NoData
        /\ ipv4' = inbox.msg.addr /\ ip_ready' = TRUE
        /\ inbox.msg.type = "ack" /\ inbox.msg.xid = xid /\ xid # 0
    BY <1>6 DEF TakeAck, Accepts, cacheVars, TypeOK
  <2>2. ipv4' \in Addr /\ lease[ipv4'] # 0 /\ (xid \notin earlier => lease[ipv4'] = life)
    BY <2>1 DEF InboxOK, Granted
  <2>3. CacheTrue' /\ TypeOK' /\ ClientOK' /\ InboxOK'
    BY <1>e, <1>n, <2>1, <2>2 DEF CacheTrue, TypeOK, ClientOK, InboxOK
  <2>4. RequestOK' /\ DatagramsAddressed' /\ EchoReplyValid'
    BY <1>2, <2>1 DEF RequestOK, DatagramsAddressed, EchoReplyValid
  <2> QED BY <1>2, <2>1, <2>3, <2>4
<1> QED BY <1>1, <1>3, <1>4, <1>5, <1>6 DEF Client

-----------------------------------------------------------------------------
(* The others. *)

\* The facts that stand while the board does not move and leases are kept.
LEMMA QuietHolds ==
  ASSUME IInv, UNCHANGED <<ipVars, pc, xid>>, UNCHANGED <<life, earlier, lease>>
  PROVE  /\ CacheTrue' /\ RequestOK' /\ ClientOK' /\ DatagramsAddressed' /\ EchoReplyValid'
         /\ expired' \subseteq Addr /\ taken' \subseteq Addr => TypeOK'
         /\ Drawn' = Drawn /\ \A m : Granted(m) => Granted(m)'
<1> USE DEF IInv
<1>1. UNCHANGED <<ipv4, ip_ready, server_mac, dhcp_server_ip, dhcp_server_mac, wire, pc, xid>>
  BY DEF ipVars
<1>2. Drawn' = Drawn /\ \A m : Granted(m) => Granted(m)'
  BY <1>1 DEF Drawn, Granted
<1>3. CacheTrue' /\ RequestOK' /\ ClientOK' /\ DatagramsAddressed' /\ EchoReplyValid'
  BY <1>1, <1>2 DEF CacheTrue, RequestOK, ClientOK, DatagramsAddressed, EchoReplyValid
<1>4. expired' \subseteq Addr /\ taken' \subseteq Addr => TypeOK'
  BY <1>1 DEF TypeOK
<1> QED BY <1>2, <1>3, <1>4

LEMMA DeliverHolds == ASSUME IInv, NEW f \in net, HandleUdp(f) PROVE IInv'
<1> USE DEF IInv
<1>1. /\ UNCHANGED <<ipVars, pc, xid>> /\ UNCHANGED <<life, earlier, lease>>
      /\ UNCHANGED <<expired, taken>>
      /\ net' \subseteq net /\ inbox' = [src |-> f.src, msg |-> f.msg]
  BY DEF HandleUdp, leaseVars
<1>2. AnswersOK' /\ InboxOK'
  BY <1>1, QuietHolds DEF AnswersOK, InboxOK
<1>3. LeasesKept'
  BY <1>1 DEF LeasesKept
<1>4. TypeOK'
  BY <1>1, QuietHolds DEF TypeOK
<1> QED BY <1>1, <1>2, <1>3, <1>4, QuietHolds

LEMMA HostHolds ==
  ASSUME IInv, NEW h \in Hosts, Send(h) \/ HostStep(h)
  PROVE  IInv'
<1> USE DEF IInv
<1>1. CASE Send(h)
  <2>1. /\ UNCHANGED <<ipv4, ip_ready, server_mac, dhcp_server_ip, dhcp_server_mac, pc, inbox, xid,
                       life, earlier, net, lease, expired, taken>>
        /\ IpSend(h, Data)
    BY <1>1 DEF Send, SendData, cacheVars, clientVars, envVars, leaseVars
  <2>2. TypeOK' /\ CacheTrue' /\ AnswersOK' /\ InboxOK' /\ ClientOK' /\ LeasesKept'
    BY <2>1 DEF TypeOK, CacheTrue, AnswersOK, InboxOK, ClientOK, LeasesKept, Granted, Drawn
  <2>3. Data.type = "data"
    BY DEF Data
  <2>4. RequestOK' /\ DatagramsAddressed' /\ EchoReplyValid'
    BY <2>1, <2>2, <2>3, SendHolds
  <2> QED BY <2>2, <2>4
<1>2. CASE HostStep(h)
  <2>1. UNCHANGED <<clientVars, envVars>>
    BY <1>2 DEF HostStep
  <2>2. CASE ArpReply(h)
    BY <2>1, <2>2, ArpHolds DEF ArpReply
  <2>3. ASSUME NEW a \in Addr, ArpQuestion(h, a) PROVE IInv'
    BY <2>1, <2>3, ArpHolds DEF ArpQuestion
  <2>4. ASSUME NEW e \in Echoes, Ping(h, e) PROVE IInv'
    BY <2>1, <2>4, PingHolds
  <2> QED BY <1>2, <2>2, <2>3, <2>4 DEF HostStep
<1> QED BY <1>1, <1>2

\* After a reset every answer under way is to an earlier boot.
LEMMA RebootHolds == ASSUME IInv, Reboot PROVE IInv'
<1> USE DEF IInv
<1>1. /\ life' = life + 1 /\ life \in Nat \ {0} /\ UNCHANGED <<wire, net, lease, expired, taken>>
      /\ ipv4' = Unspecified /\ ip_ready' = FALSE /\ server_mac' = MAC_BROADCAST
      /\ dhcp_server_ip' = Unspecified /\ dhcp_server_mac' = MAC_BROADCAST
      /\ pc' = "start" /\ inbox' = NoData /\ xid' = 0 /\ earlier' = Drawn
  BY DEF Reboot, TypeOK, leaseVars, Drawn
<1>2. Drawn' = Drawn /\ 0 \notin Drawn /\ Drawn \subseteq 1..life
  BY <1>1, DhcpAssumption DEF Drawn, TypeOK
<1>3. TypeOK'
  <2>1. life' \in Nat \ {0} /\ lease' \in [Addr -> 0..life']
    <3>1. \A n \in 0..life : n \in 0..life'
      BY <1>1
    <3> QED BY <1>1, <3>1 DEF TypeOK
  <2>2. earlier' \subseteq 1..life' - 1 /\ xid' \in 0..life'
    BY <1>1, <1>2
  <2> QED BY <1>1, <2>1, <2>2 DEF TypeOK
<1>4. CacheTrue' /\ ClientOK' /\ LeasesKept'
  BY <1>1 DEF CacheTrue, ClientOK, LeasesKept
<1>5. AnswersOK'
  BY <1>1, <1>2 DEF AnswersOK, Granted
<1>6. InboxOK'
  <2>1. NoData.msg.xid = 0
    BY DEF NoData, Dhcp
  <2> QED BY <1>1, <2>1 DEF InboxOK
<1>7. RequestOK'
  BY <1>1, <1>2 DEF RequestOK
<1>8. DatagramsAddressed' /\ EchoReplyValid'
  BY <1>1 DEF DatagramsAddressed, EchoReplyValid
<1> QED BY <1>3, <1>4, <1>5, <1>6, <1>7, <1>8

LEMMA EnvironmentHolds == ASSUME IInv, Environment PROVE IInv'
<1> USE DEF IInv
<1>n. life \in 0..life /\ life # 0
  BY DEF TypeOK
<1>1. ASSUME NEW s \in DhcpServers, Answer(s) PROVE IInv'
  <2>0. PICK a, x : a = wire.msg.addr /\ x = wire.msg.xid
    OBVIOUS
  <2>1. s \in Hosts /\ a \in Addr /\ x \in Drawn /\ UNCHANGED <<boardVars, taken>>
    BY <1>1, <2>0, DhcpAssumption DEF Answer, Asked, RequestOK
  <2>2. life' = life
    BY <2>1 DEF boardVars
  <2>3. CASE a \in taken
    <3>1. Put(NakOf(s, x)) /\ lease' = lease /\ expired' = expired
      BY <1>1, <2>0, <2>3 DEF Answer
    <3>2. NakOf(s, x).src = s /\ NakOf(s, x).msg.xid = x /\ Granted(NakOf(s, x).msg)'
      BY DEF NakOf, Packet, Dhcp, Granted
    <3>3. /\ LeasesKept' /\ lease' \in [Addr -> 0..life] /\ expired' \subseteq Addr
          /\ \A b \in Addr : lease'[b] \in {lease[b], life}
      BY <2>1, <3>1 DEF LeasesKept, TypeOK
    <3> QED BY <2>1, <3>1, <3>2, <3>3, PutHolds
  <2>4. CASE a \notin taken
    <3>1. Put(AckOf(s, a, x)) /\ lease' = [lease EXCEPT ![a] = life] /\ expired' = expired \ {a}
      BY <1>1, <2>0, <2>4 DEF Answer
    <3>2. /\ lease'[a] = life /\ lease' \in [Addr -> 0..life] /\ expired' \subseteq Addr
          /\ \A b \in Addr : lease'[b] \in {lease[b], life}
      BY <1>n, <2>1, <3>1 DEF TypeOK
    <3>3. LeasesKept'
      BY <2>1, <2>4, <3>1 DEF LeasesKept, TypeOK
    <3>4. /\ AckOf(s, a, x).src = s /\ AckOf(s, a, x).msg.xid = x
          /\ AckOf(s, a, x).msg.type = "ack" /\ AckOf(s, a, x).msg.addr = a
      BY DEF AckOf, Packet, Dhcp
    <3>5. Granted(AckOf(s, a, x).msg)'
      BY <1>n, <2>1, <2>2, <3>2, <3>4 DEF Granted
    <3> QED BY <2>1, <3>1, <3>2, <3>3, <3>4, <3>5, PutHolds
  <2> QED BY <2>3, <2>4
<1>2. ASSUME NEW s \in DhcpServers, NEW a \in Addr, Offer(s, a) PROVE IInv'
  <2>0. PICK x : x = wire.msg.xid
    OBVIOUS
  <2>1. s \in Hosts /\ x \in Drawn /\ Put(OfferOf(s, a, x))
        /\ UNCHANGED <<boardVars, taken>> /\ lease' = lease /\ expired' = expired
    BY <1>2, <2>0, DhcpAssumption DEF Offer, Asked, RequestOK, leaseVars
  <2>2. OfferOf(s, a, x).src = s /\ OfferOf(s, a, x).msg.xid = x /\ Granted(OfferOf(s, a, x).msg)'
    BY DEF OfferOf, Packet, Dhcp, Granted
  <2>3. /\ LeasesKept' /\ lease' \in [Addr -> 0..life] /\ expired' \subseteq Addr
        /\ \A b \in Addr : lease'[b] \in {lease[b], life}
    BY <2>1 DEF LeasesKept, TypeOK
  <2> QED BY <2>1, <2>2, <2>3, PutHolds
<1>3. ASSUME NEW a \in Addr, Expire(a) \/ GiveAway(a) PROVE IInv'
  <2>1. /\ UNCHANGED <<ipVars, pc, xid>> /\ UNCHANGED <<life, earlier, lease>>
        /\ UNCHANGED <<inbox, net>>
    BY <1>3 DEF Expire, GiveAway, boardVars, clientVars
  <2>2. expired' \subseteq Addr /\ taken' \subseteq Addr
    BY <1>3 DEF Expire, GiveAway, TypeOK
  <2>3. LeasesKept'
    BY <1>3 DEF Expire, GiveAway, LeasesKept, TypeOK
  <2>4. AnswersOK' /\ InboxOK'
    BY <2>1, QuietHolds DEF AnswersOK, InboxOK
  <2> QED BY <2>1, <2>2, <2>3, <2>4, QuietHolds
<1>4. ASSUME NEW f \in net, Lose(f) PROVE IInv'
  <2>1. /\ UNCHANGED <<ipVars, pc, xid>> /\ UNCHANGED <<life, earlier, lease>>
        /\ UNCHANGED <<inbox, expired, taken>> /\ net' \subseteq net
    BY <1>4 DEF Lose, boardVars, clientVars, leaseVars
  <2>2. AnswersOK' /\ InboxOK'
    BY <2>1, QuietHolds DEF AnswersOK, InboxOK
  <2>3. LeasesKept' /\ expired' \subseteq Addr /\ taken' \subseteq Addr
    BY <2>1 DEF LeasesKept, TypeOK
  <2> QED BY <2>1, <2>2, <2>3, QuietHolds
<1> QED BY <1>1, <1>2, <1>3, <1>4 DEF Environment

-----------------------------------------------------------------------------
(* The theorems. *)

LEMMA StepHolds == IInv /\ [Next]_vars => IInv'
<1> SUFFICES ASSUME IInv, [Next]_vars PROVE IInv'
  OBVIOUS
<1>1. CASE Client
  BY <1>1, ClientHolds
<1>2. ASSUME NEW f \in net, HandleUdp(f) PROVE IInv'
  BY <1>2, DeliverHolds
<1>3. ASSUME NEW h \in Hosts, Send(h) \/ HostStep(h) PROVE IInv'
  BY <1>3, HostHolds
<1>4. CASE Reboot
  BY <1>4, RebootHolds
<1>5. CASE Environment
  BY <1>5, EnvironmentHolds
<1>6. CASE UNCHANGED vars
  <2>1. /\ UNCHANGED <<ipVars, pc, xid>> /\ UNCHANGED <<life, earlier, lease>>
        /\ UNCHANGED <<inbox, net, expired, taken>>
    BY <1>6 DEF vars, clientVars, envVars, leaseVars
  <2>2. AnswersOK' /\ InboxOK'
    BY <2>1, QuietHolds DEF IInv, AnswersOK, InboxOK
  <2>3. LeasesKept' /\ expired' \subseteq Addr /\ taken' \subseteq Addr
    BY <2>1 DEF IInv, LeasesKept, TypeOK
  <2> QED BY <2>1, <2>2, <2>3, QuietHolds DEF IInv
<1> QED BY <1>1, <1>2, <1>3, <1>4, <1>5, <1>6 DEF Next

\* The inductive invariant, for all values of the constants.
THEOREM Invariance == Spec => []IInv
BY InitHolds, StepHolds, PTL DEF Spec

\* A board that says it is ready has an address that was granted to it, however
\* late answers to earlier boots come: in this boot, if its transaction id is none of
\* theirs, and nobody else's as long as the lease runs.
THEOREM AddressIsOurs == Spec => []AddressOurs
<1>1. IInv => AddressOurs
  BY DEF IInv, TypeOK, ClientOK, LeasesKept, AddressOurs
<1> QED BY <1>1, Invariance, PTL

\* No packet of the board goes to the MAC address of another host than the one
\* its IP address names.
THEOREM PacketsAddressed == Spec => []DatagramsAddressed
<1>1. IInv => DatagramsAddressed
  BY DEF IInv
<1> QED BY <1>1, Invariance, PTL

\* The echo replies of the board pass the check of whoever asked.
THEOREM RepliesValid == Spec => []EchoReplyValid
<1>1. IInv => EchoReplyValid
  BY DEF IInv
<1> QED BY <1>1, Invariance, PTL
=============================================================================
