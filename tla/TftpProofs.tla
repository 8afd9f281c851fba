----------------------------- MODULE TftpProofs -----------------------------
(***************************************************************************)
(* Theorems about Tftp, for every session, every number of transfers the   *)
(* server opens for a request and every set of stray packets, over a       *)
(* network that loses, repeats and reorders.  Every claim about a packet   *)
(* (PacketOK) is bounded by something that only grows (Grow), so it stays  *)
(* true however long the packet is under way; an action is then left with  *)
(* its own packet and with the two ends.                                   *)
(***************************************************************************)
EXTENDS Tftp, SequenceTheorems, TLAPS

Blocks == [file : AnyFile, n : Nat]
Session == [open : BOOLEAN, seq : Nat, got : Seq(Blocks)]

\* The transfers of a session are numbered from 1.
LEMMA SessionFacts ==
  /\ Len(Transfers) \in Nat
  /\ Index = 1 .. Len(Transfers)
  /\ \A i \in Index : NumBlocks(i) \in Nat /\ NumBlocks(i) >= 1
  /\ \A i \in Index : IsGet(i) \in BOOLEAN
<1>1. Len(Transfers) \in Nat /\ Index = 1 .. Len(Transfers)
  BY TransfersAssumption, LenProperties DEF Index
<1>2. \A i \in Index : Transfers[i] \in [op : Op, blocks : Nat \ {0}]
  BY <1>1, TransfersAssumption, ElementOfSeq
<1> QED
  BY <1>1, <1>2 DEF NumBlocks, IsGet

\* A server port belongs to one transfer, and is none of the ports not there.
LEMMA PortFacts ==
  /\ NoPort \notin ServerPort
  /\ \A p \in ServerPort : p[1] \in Index
<1>1. \A p \in ServerPort : p[1] \in Index
  BY DEF ServerPort
<1>2. NoPort[1] = 0
  BY DEF NoPort
<1> QED
  BY <1>1, <1>2, SessionFacts

\* The beginning of a file, block by block.
LEMMA PrefixFacts ==
  ASSUME NEW i \in Index, NEW n \in Nat
  PROVE  /\ Prefix(i, n) \in Seq(Blocks)
         /\ Len(Prefix(i, n)) = n
         /\ Block(i, n) \in Blocks
         /\ Append(Prefix(i, n), Block(i, n + 1)) = Prefix(i, n + 1)
<1>1. \A j \in Nat : Block(i, j) \in Blocks
  BY DEF Block, Blocks, AnyFile
<1>2. \A l \in Nat : Prefix(i, l) \in Seq(Blocks) /\ Len(Prefix(i, l)) = l
  <2> SUFFICES ASSUME NEW l \in Nat
               PROVE  Prefix(i, l) \in Seq(Blocks) /\ Len(Prefix(i, l)) = l
    OBVIOUS
  <2>1. Prefix(i, l) \in [1 .. l -> Blocks]
    BY <1>1 DEF Prefix
  <2> QED
    BY <2>1
<1>3. Append(Prefix(i, n), Block(i, n + 1)) = Prefix(i, n + 1)
  <2>1. n + 1 \in Nat /\ Block(i, n + 1) \in Blocks
    BY <1>1
  <2> DEFINE s == Append(Prefix(i, n), Block(i, n + 1))
  <2>2. /\ s \in Seq(Blocks) /\ Len(s) = n + 1
        /\ \A j \in 1 .. n : s[j] = Prefix(i, n)[j]
        /\ s[n + 1] = Block(i, n + 1)
    BY <1>2, <2>1, AppendProperties
  <2>3. \A j \in 1 .. n + 1 : s[j] = Prefix(i, n + 1)[j]
    BY <2>2 DEF Prefix
  <2> QED
    BY <1>2, <2>1, <2>2, <2>3, SeqEqual
<1> QED
  BY <1>1, <1>2, <1>3

\* An empty file has no block, a file is as long as its blocks are many.
LEMMA PrefixEnds ==
  ASSUME NEW i \in Index
  PROVE  /\ Prefix(i, 0) = <<>>
         /\ Prefix(i, 1) = <<Block(i, 1)>>
         /\ Prefix(i, NumBlocks(i)) = File(i)
<1>1. Prefix(i, 0) = <<>>
  BY PrefixFacts, EmptySeq, SeqEqual
<1>2. Append(<<>>, Block(i, 1)) = <<Block(i, 1)>>
  OBVIOUS
<1>3. Prefix(i, 1) = Append(Prefix(i, 0), Block(i, 1))
  <2>1. Append(Prefix(i, 0), Block(i, 0 + 1)) = Prefix(i, 0 + 1)
    BY PrefixFacts
  <2> QED
    BY <2>1
<1>4. Prefix(i, NumBlocks(i)) = File(i)
  BY DEF Prefix, File
<1> QED
  BY <1>1, <1>2, <1>3, <1>4

\* A packet that is no request has a direction, a server port and a number.
LEMMA PacketFields ==
  ASSUME NEW m \in Packet, m.op # "request"
  PROVE  /\ m.op \in {"ack", "data", "error"} /\ m.dir \in {"server", "client"}
         /\ m.port \in ServerPort /\ m.port[1] \in Index /\ m.seq \in Nat /\ m.short \in BOOLEAN
  BY PortFacts DEF Packet

\* What a packet carries is a block of some file.
LEMMA PacketTypes ==
  ASSUME NEW m \in Packet, m.op # "request"
  PROVE  Payload(m) \in Blocks
  BY DEF Packet, Payload, Block, Blocks
\* What the two ends send are packets, and say what they were made of.
LEMMA SentPackets ==
  ASSUME NEW op \in {"ack", "data", "error"}, NEW p \in ServerPort, NEW n \in Nat
  PROVE  /\ ToServer(op, p, n) \in Packet /\ ToClient(op, p, n) \in Packet
         /\ ToServer(op, p, n).op = op /\ ToServer(op, p, n).dir = "server"
         /\ ToServer(op, p, n).port = p /\ ToServer(op, p, n).seq = n
         /\ ToClient(op, p, n).op = op /\ ToClient(op, p, n).dir = "client"
         /\ ToClient(op, p, n).port = p /\ ToClient(op, p, n).seq = n
         /\ ToServer(op, p, n).file = p[1] /\ ToClient(op, p, n).file = p[1]
         /\ ToClient(op, p, n).short <=> n = NumBlocks(p[1])
<1>1. p[1] \in AnyFile /\ (n = NumBlocks(p[1])) \in BOOLEAN
  BY PortFacts DEF AnyFile
<1> QED
  BY <1>1 DEF ToServer, ToClient, TftpPacket, Packet
LEMMA SentRequest ==
  ASSUME NEW i \in Index
  PROVE  Request(i) \in Packet /\ Request(i).op = "request"
  BY DEF Request, Packet

-----------------------------------------------------------------------------
(* What every step does: ports once chosen stay, files and transfers grow,   *)
(* the window moves on within a transfer.                                    *)

Grow ==
  /\ \A i \in Index : server_port[i] # NoPort => server_port'[i] = server_port[i]
  /\ \A i \in Index : Len(buff'[i]) >= Len(buff[i])
  /\ \A p \in ServerPort : serve[p].open => serve'[p].open /\ serve'[p].seq >= serve[p].seq
  /\ (k' = k /\ window' >= window) \/ k' = k + 1
  /\ seen \subseteq seen' /\ taken \subseteq taken'

\* The types of what the proofs do arithmetic with, before and after a step.
Typed ==
  /\ k \in Nat /\ k >= 1 /\ window \in Nat
  /\ \A i \in Index : buff[i] \in Seq(Blocks) /\ Len(buff[i]) \in Nat
  /\ \A i \in Index : server_port[i] \in ServerPort \cup {NoPort}
  /\ \A p \in ServerPort :
       serve[p].open \in BOOLEAN /\ serve[p].seq \in Nat /\ serve[p].got \in Seq(Blocks)
LEMMA Types ==
  /\ TypeOK => Typed
  /\ TypeOK' => Typed'
<1>1. \A s \in Seq(Blocks) : Len(s) \in Nat
  BY LenProperties
<1>2. \A s \in Session : s.open \in BOOLEAN /\ s.seq \in Nat /\ s.got \in Seq(Blocks)
  BY DEF Session
<1>3. TypeOK => Typed
  <2> SUFFICES ASSUME TypeOK PROVE Typed
    OBVIOUS
  <2>1. buff \in [Index -> Seq(Blocks)] /\ serve \in [ServerPort -> Session]
    BY DEF TypeOK, Blocks, Session
  <2>2. \A p \in ServerPort : serve[p] \in Session
    BY <2>1
  <2>3. k \in Index \cup {Len(Transfers) + 1} /\ window \in Nat
    BY DEF TypeOK
  <2>4. server_port \in [Index -> ServerPort \cup {NoPort}]
    BY DEF TypeOK
  <2>5. k \in Nat /\ k >= 1
    BY <2>3, SessionFacts
  <2> QED
    BY <1>1, <1>2, <2>1, <2>2, <2>3, <2>4, <2>5 DEF Typed
<1>4. TypeOK' => Typed'
  <2> SUFFICES ASSUME TypeOK' PROVE Typed'
    OBVIOUS
  <2>1. buff' \in [Index -> Seq(Blocks)] /\ serve' \in [ServerPort -> Session]
    BY DEF TypeOK, Blocks, Session
  <2>2. \A p \in ServerPort : serve'[p] \in Session
    BY <2>1
  <2>3. k' \in Index \cup {Len(Transfers) + 1} /\ window' \in Nat
    BY DEF TypeOK
  <2>4. server_port' \in [Index -> ServerPort \cup {NoPort}]
    BY DEF TypeOK
  <2>5. k' \in Nat /\ k' >= 1
    BY <2>3, SessionFacts
  <2> QED
    BY <1>1, <1>2, <2>1, <2>2, <2>3, <2>4, <2>5 DEF Typed
<1> QED
  BY <1>3, <1>4

\* A packet under way stays within its bounds.
LEMMA PacketsStay ==
  ASSUME IInv, TypeOK', Grow, NEW m \in net
  PROVE  PacketOK(m)'
<1>1. PacketOK(m) /\ m \in Packet
  BY DEF IInv, TypeOK
<1> SUFFICES ASSUME m.op # "request"
             PROVE  PacketOK(m)'
  BY DEF PacketOK
<1> DEFINE i == m.port[1]
<1>2. m.port \in ServerPort /\ i \in Index /\ m.seq \in Nat /\ m.port # NoPort
  BY <1>1, PacketFields, PortFacts
<1>3. i \in Index => IsGet(i) \in BOOLEAN /\ NumBlocks(i) \in Nat
  BY SessionFacts
<1>4. /\ k \in Nat /\ window \in Nat /\ Len(buff[i]) \in Nat /\ serve[m.port].seq \in Nat
      /\ window' \in Nat /\ Len(buff'[i]) \in Nat /\ serve'[m.port].seq \in Nat
  BY <1>2, Types DEF Typed, IInv
<1>5. i > k => server_port[i] = NoPort
  BY <1>2 DEF IInv, ClientOK
<1>6. ASSUME m.dir = "server"
      PROVE  /\ server_port'[i] = m.port /\ m.file = i
             /\ \/ /\ m.op = "ack" /\ IsGet(i)
                   /\ i \notin seen' /\ m.seq <= NumBlocks(i) => m.seq <= Len(buff'[i])
                \/ /\ m.op = "data" /\ ~ IsGet(i)
                   /\ 1 <= m.seq /\ m.seq <= NumBlocks(i)
                   /\ i = k' => m.seq <= window'
  <2>1. server_port[i] = m.port /\ server_port'[i] = m.port /\ m.file = i
    BY <1>1, <1>2, <1>6 DEF PacketOK, Grow
  <2>2. CASE /\ m.op = "ack" /\ IsGet(i)
             /\ i \notin seen /\ m.seq <= NumBlocks(i) => m.seq <= Len(buff[i])
    BY <1>2, <1>3, <1>4, <2>1, <2>2 DEF Grow
  <2>3. CASE /\ m.op = "data" /\ ~ IsGet(i) /\ 1 <= m.seq /\ m.seq <= NumBlocks(i)
             /\ i = k => m.seq <= window
    <3>1. i = k' => k' = k /\ window' >= window
      BY <1>2, <1>4, <1>5, <2>1 DEF Grow
    <3> QED
      BY <1>2, <1>4, <2>1, <2>3, <3>1
  <2> QED
    BY <1>1, <1>6, <2>1, <2>2, <2>3 DEF PacketOK
<1>7. ASSUME m.dir = "client", m \notin Stray, m.op # "error"
      PROVE  /\ m.op = IF IsGet(i) THEN "data" ELSE "ack"
             /\ m.file = i /\ (m.short <=> m.seq = NumBlocks(i))
             /\ serve'[m.port].open /\ m.seq <= serve'[m.port].seq
             /\ IsGet(i) => 1 <= m.seq /\ m.seq <= NumBlocks(i)
  BY <1>1, <1>2, <1>4, <1>7 DEF PacketOK, Grow
<1> QED
  BY <1>6, <1>7 DEF PacketOK

\* A client that moves on leaves the server within its bounds.
LEMMA ServerStays ==
  ASSUME IInv, TypeOK', Grow, serve' = serve
  PROVE  ServerOK'
<1> SUFFICES ASSUME NEW p \in ServerPort
             PROVE  PortOK(p)'
  BY DEF ServerOK
<1> DEFINE i == p[1]
           s == serve[p]
<1>1. i \in Index /\ p # NoPort
  BY PortFacts
<1>2. /\ k \in Nat /\ window \in Nat /\ Len(buff[i]) \in Nat /\ s.seq \in Nat
      /\ k' \in Nat /\ window' \in Nat /\ Len(buff'[i]) \in Nat /\ Len(buff'[i]) >= Len(buff[i])
  BY <1>1, Types DEF Typed, IInv, Grow
<1>3. server_port[i] = p => server_port'[i] = p
  BY <1>1 DEF Grow
<1>4. i > k => server_port[i] = NoPort
  BY <1>1 DEF IInv, ClientOK
<1>5. PortOK(p)
  BY DEF IInv, ServerOK
<1>6. s.open /\ ~ IsGet(i) /\ i = k' => s.seq <= window'
  <2>1. CASE server_port[i] = p
    BY <1>1, <1>2, <1>4, <1>5, <2>1 DEF Grow, PortOK
  <2>2. CASE server_port[i] # p
    BY <1>2, <1>5, <2>2 DEF PortOK
  <2> QED
    BY <2>1, <2>2
<1>7. i \notin seen' => i \notin seen
  BY DEF Grow
<1>8. s.open /\ IsGet(i) /\ (i \notin seen' \/ server_port'[i] # p) =>
        s.seq <= (IF server_port'[i] = p THEN Len(buff'[i]) + 1 ELSE 1)
  <2>1. CASE server_port[i] = p
    BY <1>2, <1>3, <1>5, <1>7, <2>1 DEF PortOK
  <2>2. CASE server_port[i] # p
    BY <1>2, <1>5, <2>2 DEF PortOK
  <2> QED
    BY <2>1, <2>2
<1> QED
  BY <1>2, <1>3, <1>5, <1>6, <1>8 DEF PortOK

\* A server that moves on leaves what the client knows of it true.
LEMMA ClientStays ==
  ASSUME IInv, TypeOK', Grow, UNCHANGED clientVars,
         \A i \in Index : i < k /\ ~ IsGet(i) /\ i \notin taken =>
           serve'[server_port[i]].got = serve[server_port[i]].got
  PROVE  ClientOK' /\ FailsForAReason'
<1> USE DEF clientVars
<1>1. FailsForAReason'
  BY DEF IInv, FailsForAReason
<1>2. TransfersComplete'
  BY DEF IInv, ClientOK, TransfersComplete, File, Block, NumBlocks, IsGet
<1>3. \A i \in Index : server_port[i] # NoPort => server_port[i] \in ServerPort
  BY Types DEF Typed, IInv
<1>4. \A i \in Index : i < k /\ ~ IsGet(i) /\ i \notin taken =>
        server_port[i] # NoPort /\ serve'[server_port[i]].open
  BY <1>3 DEF IInv, ClientOK, Grow
<1>5. pc \in {"data", "ack"} /\ k \notin taken =>
        serve'[server_port[k]].open /\ serve'[server_port[k]].seq >= window - 1
  <2> SUFFICES ASSUME pc \in {"data", "ack"}, k \notin taken
               PROVE  serve'[server_port[k]].open /\ serve'[server_port[k]].seq >= window - 1
    OBVIOUS
  <2>1. /\ k \in Index /\ server_port[k] # NoPort
        /\ serve[server_port[k]].open /\ serve[server_port[k]].seq >= window - 1
    BY DEF IInv, ClientOK
  <2>2. server_port[k] \in ServerPort
    BY <1>3, <2>1
  <2>3. /\ window \in Nat /\ serve[server_port[k]].seq \in Nat
        /\ serve'[server_port[k]].seq \in Nat
    BY <2>2, Types DEF Typed, IInv
  <2> QED
    BY <2>1, <2>2, <2>3 DEF Grow
<1> QED
  BY <1>1, <1>2, <1>4, <1>5 DEF IInv, ClientOK

\* So a step is left with the types, its own side and the packets it sends.
LEMMA StepInv ==
  ASSUME IInv, TypeOK', Grow, ClientOK', ServerOK', FailsForAReason',
         \A m \in net' \ net : PacketOK(m)'
  PROVE  IInv'
<1>1. \A m \in net' : PacketOK(m)'
  BY PacketsStay
<1> QED
  BY <1>1 DEF IInv

-----------------------------------------------------------------------------
(* The server and the network.                                               *)

\* What the server sends for a transfer.
LEMMA CurrentPacket ==
  ASSUME NEW p \in ServerPort, NEW n \in Nat
  PROVE  /\ Current(p, n) \in Packet
         /\ Current(p, n).op = IF IsGet(p[1]) THEN "data" ELSE "ack"
         /\ Current(p, n).dir = "client" /\ Current(p, n).port = p /\ Current(p, n).seq = n
         /\ Current(p, n).file = p[1] /\ (Current(p, n).short <=> n = NumBlocks(p[1]))
  BY SentPackets DEF Current

\* A packet of an open transfer that the server has reached is within its bounds.
LEMMA CurrentOK ==
  ASSUME NEW p \in ServerPort, NEW n \in Nat, serve'[p].open, n <= serve'[p].seq,
         IsGet(p[1]) => 1 <= n /\ n <= NumBlocks(p[1])
  PROVE  PacketOK(Current(p, n))'
  BY CurrentPacket DEF PacketOK

\* A step of the server moves one port and leaves the others and the client alone.
LEMMA ServerMoves ==
  ASSUME IInv, UNCHANGED clientVars, NEW p \in ServerPort, NEW s \in Session,
         serve' = [serve EXCEPT ![p] = s],
         serve[p].open => s.open /\ s.seq >= serve[p].seq,
         \A j \in Index : j < k /\ ~ IsGet(j) /\ j \notin taken /\ server_port[j] = p =>
           s.got = serve[p].got,
         PortOK(p)', net' \subseteq Packet, \A m \in net' \ net : PacketOK(m)'
  PROVE  IInv'
<1> USE DEF clientVars
<1>1. TypeOK /\ Typed
  BY Types DEF IInv
<1>2. serve \in [ServerPort -> Session] /\ serve' \in [ServerPort -> Session]
  BY <1>1 DEF TypeOK, Session, Blocks
<1>3. TypeOK'
  BY <1>1, <1>2 DEF TypeOK, Session, Blocks
<1>4. serve'[p] = s /\ \A q \in ServerPort : q # p => serve'[q] = serve[q]
  BY <1>2
<1>5. Grow
  BY <1>1, <1>4 DEF Grow, Typed
<1>6. \A j \in Index : j < k /\ ~ IsGet(j) /\ j \notin taken =>
        serve'[server_port[j]].got = serve[server_port[j]].got
  <2>1. \A j \in Index : j < k /\ ~ IsGet(j) /\ j \notin taken => server_port[j] \in ServerPort
    BY <1>1 DEF IInv, ClientOK, Typed
  <2> QED
    BY <1>4, <2>1
<1>7. ServerOK'
  BY <1>4 DEF IInv, ServerOK, PortOK
<1> QED
  BY <1>3, <1>5, <1>6, <1>7, ClientStays, StepInv

\* A step that sends and changes neither end.
LEMMA Sends ==
  ASSUME IInv, UNCHANGED <<clientVars, serve>>,
         net' \subseteq Packet, \A m \in net' \ net : PacketOK(m)'
  PROVE  IInv'
<1> USE DEF clientVars
<1>1. TypeOK /\ Typed
  BY Types DEF IInv
<1>2. TypeOK'
  BY <1>1 DEF TypeOK
<1>3. Grow
  BY <1>1 DEF Grow, Typed
<1> QED
  BY <1>2, <1>3, ServerStays, ClientStays, StepInv

LEMMA ServeStep ==
  ASSUME IInv, NEW p \in ServerPort, Serve(p)
  PROVE  IInv'
<1> DEFINE s == [open |-> TRUE, seq |-> FirstSeq(p), got |-> <<>>]
           i == p[1]
<1>1. UNCHANGED clientVars /\ ~ serve[p].open
  BY DEF Serve
<1>2. /\ i \in Index /\ FirstSeq(p) \in Nat
      /\ FirstSeq(p) = IF IsGet(i) THEN 1 ELSE 0
      /\ IsGet(i) => 1 <= FirstSeq(p) /\ FirstSeq(p) <= NumBlocks(i)
  BY PortFacts, SessionFacts DEF FirstSeq
<1>3. Typed /\ net \subseteq Packet
  BY Types DEF IInv, TypeOK
<1>4. CASE serve' = [serve EXCEPT ![p] = s] /\ Send({Current(p, FirstSeq(p))})
  <2>1. s \in Session /\ s.open = TRUE /\ s.seq = FirstSeq(p) /\ s.got = <<>>
    BY <1>2 DEF Session
  <2>2. serve'[p] = s
    BY <1>4 DEF IInv, TypeOK
  <2>3. PortOK(p)'
    <3>1. NumBlocks(i) \in Nat /\ Len(buff[i]) \in Nat /\ window \in Nat
      BY <1>2, <1>3, SessionFacts DEF Typed
    <3>2. IsGet(i) => s.seq >= 1 /\ s.seq <= (IF server_port[i] = p THEN Len(buff[i]) + 1 ELSE 1)
      BY <1>2, <2>1, <3>1
    <3>3. ~ IsGet(i) =>
            s.seq <= NumBlocks(i) /\ s.got = Prefix(i, s.seq) /\ s.seq = 0 /\ s.seq <= window
      BY <1>2, <2>1, <3>1, PrefixEnds
    <3> QED
      BY <1>1, <2>1, <2>2, <3>2, <3>3 DEF PortOK, clientVars
  <2>4. \A j \in Index : ~ (j < k /\ ~ IsGet(j) /\ j \notin taken /\ server_port[j] = p)
    BY <1>1 DEF IInv, ClientOK
  <2>5. net' \subseteq Packet
    BY <1>2, <1>3, <1>4, CurrentPacket DEF Send
  <2>6. \A m \in net' \ net : PacketOK(m)'
    <3>1. serve'[p].open /\ FirstSeq(p) <= serve'[p].seq
      BY <1>2, <2>1, <2>2
    <3>2. PacketOK(Current(p, FirstSeq(p)))'
      BY <1>2, <3>1, CurrentOK
    <3> QED
      BY <1>4, <3>2 DEF Send
  <2> QED
    BY <1>1, <1>4, <2>1, <2>3, <2>4, <2>5, <2>6, ServerMoves
<1>5. CASE Send({ToClient("error", p, 0)}) /\ UNCHANGED serve
  <2>1. /\ ToClient("error", p, 0) \in Packet
        /\ ToClient("error", p, 0).op = "error" /\ ToClient("error", p, 0).dir = "client"
    BY SentPackets
  <2>2. net' \subseteq Packet
    BY <1>3, <1>5, <2>1 DEF Send
  <2>3. \A m \in net' \ net : PacketOK(m)'
    BY <1>5, <2>1 DEF Send, PacketOK
  <2> QED
    BY <1>1, <1>5, <2>2, <2>3, Sends
<1> QED
  BY <1>4, <1>5 DEF Serve

\* A port that moves on, written out as a record.
LEMMA PortFields ==
  ASSUME NEW s \in Session
  PROVE  s.open \in BOOLEAN /\ s.seq \in Nat /\ s.got \in Seq(Blocks)
  BY DEF Session
LEMMA PortMoves ==
  ASSUME NEW s \in Session, NEW n \in Nat
  PROVE  [s EXCEPT !.seq = n] = [open |-> s.open, seq |-> n, got |-> s.got]
  BY SMT DEF Session

LEMMA ServeAckStep ==
  ASSUME IInv, NEW m \in net, m.op # "request", m.dir = "server",
         ServeAck(m), UNCHANGED clientVars
  PROVE  IInv'
<1> DEFINE p == m.port
           i == p[1]
           s == [open |-> serve[p].open, seq |-> serve[p].seq + 1, got |-> serve[p].got]
<1>1. Typed /\ net \subseteq Packet /\ PacketOK(m) /\ serve \in [ServerPort -> Session]
  BY Types DEF IInv, TypeOK, Session, Blocks
<1>2. p \in ServerPort /\ i \in Index /\ m.seq \in Nat /\ serve[p] \in Session
  BY <1>1, PacketFields
<1>3. /\ serve[p].open /\ m.op = "ack" /\ m.seq = serve[p].seq /\ m.seq <= NumBlocks(i)
      /\ serve' = [serve EXCEPT ![p].seq = @ + 1]
      /\ IF m.seq < NumBlocks(i) THEN Send({Current(p, m.seq + 1)}) ELSE UNCHANGED net
  BY DEF ServeAck
<1>4. /\ s \in Session /\ s.open = serve[p].open /\ s.seq = m.seq + 1 /\ s.got = serve[p].got
      /\ serve' = [serve EXCEPT ![p] = s]
  <2>1. serve[p].seq + 1 \in Nat
    BY <1>2, PortFields
  <2>2. [serve[p] EXCEPT !.seq = @ + 1] = s
    BY <1>2, <2>1, PortMoves
  <2>3. serve' = [serve EXCEPT ![p] = [serve[p] EXCEPT !.seq = @ + 1]]
    BY <1>3
  <2>4. s \in Session
    BY <1>2, <2>1, PortFields DEF Session
  <2> QED
    BY <1>3, <2>2, <2>3, <2>4
<1> HIDE DEF s
<1>5. serve'[p] = s
  BY <1>1, <1>2, <1>4
<1>6. IsGet(i) /\ server_port[i] = p /\ (i \notin seen => m.seq <= Len(buff[i]))
  BY <1>3 DEF PacketOK, IInv
<1>7. NumBlocks(i) \in Nat /\ Len(buff[i]) \in Nat
  BY <1>1, <1>2, SessionFacts DEF Typed
<1>8. PortOK(p)'
  <2>1. s.open /\ s.seq >= 1 /\ (i \notin seen => s.seq <= Len(buff[i]) + 1)
    BY <1>2, <1>3, <1>4, <1>6, <1>7
  <2> QED
    BY <1>5, <1>6, <2>1 DEF PortOK, clientVars
<1>9. net' \subseteq Packet /\ \A x \in net' \ net : PacketOK(x)'
  <2>1. CASE m.seq < NumBlocks(i)
    <3>1. m.seq + 1 \in Nat /\ serve'[p].open /\ m.seq + 1 <= serve'[p].seq
          /\ 1 <= m.seq + 1 /\ m.seq + 1 <= NumBlocks(i)
      BY <1>2, <1>3, <1>4, <1>5, <1>7, <2>1
    <3>2. PacketOK(Current(p, m.seq + 1))'
      BY <1>2, <3>1, CurrentOK
    <3>3. Current(p, m.seq + 1) \in Packet
      BY <1>2, <3>1, CurrentPacket
    <3> QED
      BY <1>1, <1>3, <2>1, <3>2, <3>3 DEF Send
  <2>2. CASE ~ m.seq < NumBlocks(i)
    BY <1>1, <1>3, <2>2
  <2> QED
    BY <2>1, <2>2
<1>10. s.seq >= serve[p].seq
  BY <1>2, <1>3, <1>4
<1> QED
  BY <1>2, <1>4, <1>8, <1>9, <1>10, ServerMoves

LEMMA ServeDataStep ==
  ASSUME IInv, NEW m \in net, m.op # "request", m.dir = "server",
         ServeData(m), UNCHANGED clientVars
  PROVE  IInv'
<1> DEFINE p == m.port
           i == p[1]
           s == [open |-> TRUE, seq |-> m.seq, got |-> Append(serve[p].got, Payload(m))]
<1>1. Typed /\ net \subseteq Packet /\ PacketOK(m) /\ serve \in [ServerPort -> Session]
  BY Types DEF IInv, TypeOK, Session, Blocks
<1>2. p \in ServerPort /\ i \in Index /\ m.seq \in Nat /\ serve[p] \in Session
  BY <1>1, PacketFields
<1>3. /\ serve[p].open /\ m.op = "data" /\ m.seq <= serve[p].seq + 1
      /\ Send({Current(p, m.seq)})
      /\ IF m.seq = serve[p].seq + 1
         THEN serve' = [serve EXCEPT ![p] = s]
         ELSE UNCHANGED serve
  BY DEF ServeData
<1>4. /\ ~ IsGet(i) /\ server_port[i] = p /\ m.file = i
      /\ 1 <= m.seq /\ m.seq <= NumBlocks(i)
      /\ i = k => m.seq <= window
  BY <1>1, <1>3 DEF PacketOK
<1>5. NumBlocks(i) \in Nat /\ window \in Nat /\ serve[p].seq \in Nat
  BY <1>1, <1>2, SessionFacts DEF Typed
<1>6. serve[p].got = Prefix(i, serve[p].seq)
  BY <1>2, <1>3, <1>4 DEF IInv, ServerOK, PortOK
<1>7. net' \subseteq Packet
  BY <1>1, <1>2, <1>3, CurrentPacket DEF Send
<1>8. CASE m.seq = serve[p].seq + 1
  <2>1. Payload(m) = Block(i, serve[p].seq + 1)
    BY <1>4, <1>8 DEF Payload
  <2>2. Append(serve[p].got, Payload(m)) = Prefix(i, serve[p].seq + 1)
    BY <1>2, <1>5, <1>6, <2>1, PrefixFacts
  <2>3. Prefix(i, serve[p].seq + 1) \in Seq(Blocks)
    <3>1. serve[p].seq + 1 \in Nat
      BY <1>5
    <3> QED
      BY <1>2, <3>1, PrefixFacts
  <2>4. /\ s \in Session /\ s.open = serve[p].open /\ s.seq = m.seq
        /\ s.got = Prefix(i, m.seq)
        /\ serve' = [serve EXCEPT ![p] = s]
    <3>1. Append(serve[p].got, Payload(m)) \in Seq(Blocks)
      BY <2>2, <2>3
    <3>2. s \in Session
      BY <1>2, <3>1 DEF Session
    <3> QED
      BY <1>3, <1>8, <2>2, <3>2
  <2> HIDE DEF s
  <2>5. serve'[p] = s
    BY <1>1, <1>2, <2>4
  <2>6. PortOK(p)'
    BY <1>3, <1>4, <2>4, <2>5 DEF PortOK, clientVars
  <2>7. \A j \in Index : ~ (j < k /\ ~ IsGet(j) /\ j \notin taken /\ server_port[j] = p)
    <3> SUFFICES ASSUME NEW j \in Index, j < k, ~ IsGet(j), j \notin taken, server_port[j] = p
                 PROVE  FALSE
      OBVIOUS
    <3>1. p = NoPort \/ p[1] = j
      BY DEF IInv, ClientOK
    <3>2. j = i
      BY <1>2, <3>1, PortFacts
    <3>3. serve[p].got = Prefix(i, NumBlocks(i))
      BY <3>2, PrefixEnds DEF IInv, ClientOK, TransfersComplete
    <3>4. serve[p].seq = NumBlocks(i)
      <4>1. Len(Prefix(i, NumBlocks(i))) = NumBlocks(i)
        BY <1>2, <1>5, PrefixFacts
      <4>2. Len(Prefix(i, serve[p].seq)) = serve[p].seq
        BY <1>2, <1>5, PrefixFacts
      <4> QED
        BY <1>6, <3>3, <4>1, <4>2
    <3> QED
      BY <1>4, <1>5, <1>8, <3>4
  <2>8. \A x \in net' \ net : PacketOK(x)'
    <3>1. serve'[p].open /\ m.seq <= serve'[p].seq
      <4>1. s.open /\ m.seq <= s.seq
        BY <1>2, <1>3, <2>4
      <4> QED
        BY <2>5, <4>1
    <3>2. PacketOK(Current(p, m.seq))'
      BY <1>2, <1>4, <3>1, CurrentOK
    <3> QED
      BY <1>3, <3>2 DEF Send
  <2>9. s.seq >= serve[p].seq
    BY <1>5, <1>8, <2>4
  <2> QED
    BY <1>2, <1>7, <2>4, <2>6, <2>7, <2>8, <2>9, ServerMoves
<1>9. CASE m.seq # serve[p].seq + 1
  <2>1. serve' = serve /\ m.seq <= serve[p].seq
    BY <1>2, <1>3, <1>5, <1>9
  <2>2. PacketOK(Current(p, m.seq))'
    BY <1>2, <1>3, <1>4, <2>1, CurrentOK
  <2>3. \A x \in net' \ net : PacketOK(x)'
    BY <1>3, <2>2 DEF Send
  <2> QED
    BY <1>7, <2>1, <2>3, Sends
<1> QED
  BY <1>8, <1>9

LEMMA ServerTimeoutStep ==
  ASSUME IInv, NEW p \in ServerPort, ServerTimeout(p)
  PROVE  IInv'
<1>1. Typed /\ net \subseteq Packet /\ PortOK(p)
  BY Types DEF IInv, TypeOK, ServerOK
<1>2. /\ serve[p].open /\ (IsGet(p[1]) => serve[p].seq <= NumBlocks(p[1]))
      /\ Send({Current(p, serve[p].seq)}) /\ UNCHANGED <<clientVars, serve>>
  BY DEF ServerTimeout
<1>3. serve[p].seq \in Nat /\ (IsGet(p[1]) => 1 <= serve[p].seq)
  BY <1>1, <1>2 DEF Typed, PortOK
<1>4. serve'[p].open /\ serve[p].seq <= serve'[p].seq
  BY <1>2, <1>3
<1>5. PacketOK(Current(p, serve[p].seq))'
  BY <1>2, <1>3, <1>4, CurrentOK
<1>6. net' \subseteq Packet
  BY <1>1, <1>2, <1>3, CurrentPacket DEF Send
<1>7. \A x \in net' \ net : PacketOK(x)'
  BY <1>2, <1>5 DEF Send
<1> QED
  BY <1>2, <1>6, <1>7, Sends

\* The network only drops packets.
LEMMA LoseStep ==
  ASSUME IInv, NEW m \in net, Lose(m)
  PROVE  IInv'
<1>1. net' \subseteq net /\ net \subseteq Packet /\ UNCHANGED <<clientVars, serve>>
  BY DEF IInv, TypeOK, Lose
<1> QED
  BY <1>1, Sends

-----------------------------------------------------------------------------
(* The client: it talks to port q, and goes on, finishes or fails.           *)

Talks(q) ==
  /\ q \in ServerPort /\ q[1] = k /\ server_port[k] \in {NoPort, q}
  /\ server_port' = [server_port EXCEPT ![k] = q]
Stores(b) ==
  /\ b \in Seq(Blocks) /\ Len(b) >= Len(buff[k])
  /\ buff' = [buff EXCEPT ![k] = b]
InTransfer == pc \in {"first", "data", "ack"}
Marks(q) ==
  /\ seen \subseteq seen' /\ seen' \subseteq seen \cup {k}
  /\ taken \subseteq taken' /\ taken' \subseteq taken \cup {k}
  /\ k \in taken' => k \in seen' /\ \E m \in Stray : m.port = q

\* What a step in a transfer keeps of the other transfers.
LEMMA ClientFrame ==
  ASSUME IInv, InTransfer, NEW q, Talks(q), Marks(q), NEW b, Stores(b), serve' = serve,
         (k' = k /\ window' >= window) \/ k' = k + 1
  PROVE  /\ k \in Index /\ k \in Nat /\ Typed
         /\ server_port' \in [Index -> ServerPort \cup {NoPort}] /\ buff' \in [Index -> Seq(Blocks)]
         /\ server_port'[k] = q /\ buff'[k] = b
         /\ \A i \in Index : i # k => server_port'[i] = server_port[i] /\ buff'[i] = buff[i]
         /\ seen' \subseteq Index /\ taken' \subseteq Index
         /\ \A i \in taken' : i \in seen' /\ \E m \in Stray : m.port = server_port'[i]
         /\ \A i \in Index : i # k => (i \in seen' <=> i \in seen) /\ (i \in taken' <=> i \in taken)
         /\ Grow
<1>1. k \in Index
  BY DEF InTransfer, IInv, ClientOK
<1>2. Typed
  BY Types DEF IInv
<1>3. server_port \in [Index -> ServerPort \cup {NoPort}] /\ buff \in [Index -> Seq(Blocks)]
  BY DEF IInv, TypeOK, Blocks
<1>4. server_port' \in [Index -> ServerPort \cup {NoPort}] /\ buff' \in [Index -> Seq(Blocks)]
  BY <1>1, <1>3 DEF Talks, Stores
<1>5. /\ server_port'[k] = q /\ buff'[k] = b
      /\ \A i \in Index : i # k => server_port'[i] = server_port[i] /\ buff'[i] = buff[i]
  BY <1>1, <1>3 DEF Talks, Stores
<1>6. \A i \in Index : server_port[i] # NoPort => server_port'[i] = server_port[i]
  BY <1>5 DEF Talks
<1>7. \A i \in Index : Len(buff'[i]) >= Len(buff[i])
  BY <1>2, <1>5 DEF Stores, Typed
<1>8. \A p \in ServerPort : serve'[p].seq >= serve[p].seq
  BY <1>2 DEF Typed
<1>9. Grow
  BY <1>6, <1>7, <1>8 DEF Grow, Marks
<1>10. seen' \subseteq Index /\ taken' \subseteq Index
  BY <1>1 DEF IInv, TypeOK, Marks
<1>11. \A i \in taken' : i \in seen' /\ \E m \in Stray : m.port = server_port'[i]
  <2> SUFFICES ASSUME NEW i \in taken'
               PROVE  i \in seen' /\ \E m \in Stray : m.port = server_port'[i]
    OBVIOUS
  <2>1. CASE i = k
    BY <1>5, <2>1 DEF Marks
  <2>2. CASE i # k
    <3>1. i \in taken /\ i \in Index
      BY <1>10, <2>2 DEF Marks
    <3>2. i \in seen /\ \E m \in Stray : m.port = server_port[i]
      BY <3>1 DEF IInv, ClientOK
    <3> QED
      BY <1>5, <2>2, <3>1, <3>2 DEF Marks
  <2> QED
    BY <2>1, <2>2
<1> QED
  BY <1>1, <1>2, <1>4, <1>5, <1>9, <1>10, <1>11 DEF Typed, Marks

\* A transfer that is not over.
LEMMA Continues ==
  ASSUME IInv, InTransfer, NEW q, Talks(q), Marks(q), NEW b, Stores(b), serve' = serve,
         k' = k, why' = why, pc' = IF IsGet(k) THEN "data" ELSE "ack",
         NEW n \in Nat, window' = n, window <= n, 1 <= n,
         k \notin taken' =>
           n <= NumBlocks(k) /\ serve[q].open /\ serve[q].seq >= n - 1,
         IsGet(k) => n >= 2 /\ (k \notin taken' => b = Prefix(k, n - 1)),
         ~ IsGet(k) => n <= NumBlocks(k) /\ b = buff[k],
         net' \subseteq Packet, \A m \in net' \ net : PacketOK(m)'
  PROVE  IInv'
<1>1. window' >= window
  BY Types DEF Typed, IInv
<1>2. /\ k \in Index /\ k \in Nat /\ Typed
      /\ server_port' \in [Index -> ServerPort \cup {NoPort}] /\ buff' \in [Index -> Seq(Blocks)]
      /\ server_port'[k] = q /\ buff'[k] = b
      /\ \A i \in Index : i # k => server_port'[i] = server_port[i] /\ buff'[i] = buff[i]
      /\ seen' \subseteq Index /\ taken' \subseteq Index
      /\ \A i \in taken' : i \in seen' /\ \E m \in Stray : m.port = server_port'[i]
      /\ \A i \in Index : i # k => (i \in seen' <=> i \in seen) /\ (i \in taken' <=> i \in taken)
      /\ Grow
  BY <1>1, ClientFrame
<1>3. q # NoPort
  BY PortFacts DEF Talks
<1>4. pc' \in {"data", "ack"} /\ (pc' = "data" => IsGet(k)) /\ (pc' = "ack" => ~ IsGet(k))
  BY <1>2, SessionFacts
<1>5. TypeOK'
  BY <1>2, <1>4 DEF IInv, TypeOK, Pc, Blocks
<1>6. FailsForAReason'
  BY DEF IInv, FailsForAReason, Marks
<1>7. \A i \in Index : i < k => i # k
  BY <1>2
<1>8. TransfersComplete'
  <2>1. \A i \in Index : i < k =>
          server_port'[i] = server_port[i] /\ buff'[i] = buff[i] /\ (i \in taken' <=> i \in taken)
    BY <1>2, <1>7
  <2> QED
    BY <2>1 DEF IInv, ClientOK, TransfersComplete, IsGet, File, NumBlocks, Block
<1>9. \A i \in Index :
        /\ server_port'[i] = NoPort \/ (server_port'[i] \in ServerPort /\ server_port'[i][1] = i)
        /\ i > k => server_port'[i] = NoPort /\ buff'[i] = <<>> /\ i \notin seen'
        /\ i < k /\ ~ IsGet(i) /\ i \notin taken' =>
             server_port'[i] # NoPort /\ serve[server_port'[i]].open
  <2> SUFFICES ASSUME NEW i \in Index
               PROVE
        /\ server_port'[i] = NoPort \/ (server_port'[i] \in ServerPort /\ server_port'[i][1] = i)
        /\ i > k => server_port'[i] = NoPort /\ buff'[i] = <<>> /\ i \notin seen'
        /\ i < k /\ ~ IsGet(i) /\ i \notin taken' =>
             server_port'[i] # NoPort /\ serve[server_port'[i]].open
    OBVIOUS
  <2>1. CASE i = k
    BY <1>2, <2>1 DEF Talks
  <2>2. CASE i # k
    BY <1>2, <2>2 DEF IInv, ClientOK
  <2> QED
    BY <2>1, <2>2
<1>10. pc # "failed"
  BY DEF InTransfer
<1>11. ClientOK'
  BY <1>2, <1>3, <1>4, <1>8, <1>9, <1>10 DEF ClientOK, IInv, IsGet, Prefix, NumBlocks, Block
<1> QED
  BY <1>2, <1>5, <1>6, <1>11, ServerStays, StepInv

\* A transfer that is over.
LEMMA Finishes ==
  ASSUME IInv, InTransfer, NEW q, Talks(q), Marks(q), NEW b, Stores(b), serve' = serve,
         Finish, why' = why,
         IsGet(k) /\ k \notin taken' => b = File(k),
         ~ IsGet(k) /\ k \notin taken' => serve[q].open /\ serve[q].got = File(k),
         net' \subseteq Packet, \A m \in net' \ net : PacketOK(m)'
  PROVE  IInv'
<1>1. k' = k + 1 /\ window' = 0 /\ pc' = IF k = Len(Transfers) THEN "done" ELSE "request"
  BY DEF Finish
<1>2. /\ k \in Index /\ k \in Nat /\ Typed
      /\ server_port' \in [Index -> ServerPort \cup {NoPort}] /\ buff' \in [Index -> Seq(Blocks)]
      /\ server_port'[k] = q /\ buff'[k] = b
      /\ \A i \in Index : i # k => server_port'[i] = server_port[i] /\ buff'[i] = buff[i]
      /\ seen' \subseteq Index /\ taken' \subseteq Index
      /\ \A i \in taken' : i \in seen' /\ \E m \in Stray : m.port = server_port'[i]
      /\ \A i \in Index : i # k => (i \in seen' <=> i \in seen) /\ (i \in taken' <=> i \in taken)
      /\ Grow
  BY <1>1, ClientFrame
<1>3. q # NoPort
  BY PortFacts DEF Talks
<1>4. pc # "failed" /\ why = "none"
  BY DEF InTransfer, IInv, ClientOK
<1>5. k' \in Index \cup {Len(Transfers) + 1} /\ (pc' # "done" => k' \in Index)
  BY <1>1, <1>2, SessionFacts
<1>6. TypeOK'
  BY <1>1, <1>2, <1>5 DEF IInv, TypeOK, Pc, Blocks
<1>7. FailsForAReason'
  BY <1>4 DEF FailsForAReason
<1>8. \A i \in Index : (i < k' <=> i < k \/ i = k) /\ (i > k' \/ i = k' => i > k) /\ (i > k => i # k)
                      /\ (i < k => i # k)
  BY <1>1, <1>2, SessionFacts
<1>9. TransfersComplete'
  <2> SUFFICES ASSUME NEW i \in Index, i < k'
               PROVE  IF i \in taken' THEN \E m \in Stray : m.port = server_port'[i]
                      ELSE IF IsGet(i) THEN buff'[i] = File(i)
                      ELSE serve[server_port'[i]].got = File(i)
    BY DEF TransfersComplete, IsGet, File, NumBlocks, Block
  <2>1. CASE i = k
    BY <1>2, <2>1
  <2>2. CASE i < k
    BY <1>2, <1>8, <2>2 DEF IInv, ClientOK, TransfersComplete
  <2> QED
    BY <1>8, <2>1, <2>2
<1>10. \A i \in Index :
        /\ server_port'[i] = NoPort \/ (server_port'[i] \in ServerPort /\ server_port'[i][1] = i)
        /\ i > k' \/ i = k' => server_port'[i] = NoPort /\ buff'[i] = <<>> /\ i \notin seen'
        /\ i < k' /\ ~ IsGet(i) /\ i \notin taken' =>
             server_port'[i] # NoPort /\ serve[server_port'[i]].open
  <2> SUFFICES ASSUME NEW i \in Index
               PROVE
        /\ server_port'[i] = NoPort \/ (server_port'[i] \in ServerPort /\ server_port'[i][1] = i)
        /\ i > k' \/ i = k' => server_port'[i] = NoPort /\ buff'[i] = <<>> /\ i \notin seen'
        /\ i < k' /\ ~ IsGet(i) /\ i \notin taken' =>
             server_port'[i] # NoPort /\ serve[server_port'[i]].open
    OBVIOUS
  <2>1. CASE i = k
    BY <1>2, <1>3, <1>8, <2>1 DEF Talks
  <2>2. CASE i # k
    BY <1>2, <1>8, <2>2 DEF IInv, ClientOK
  <2> QED
    BY <2>1, <2>2
<1>11. \A i \in taken' : i \in seen' /\ \E m \in Stray : m.port = server_port'[i]
  BY <1>2
<1>12. ClientOK'
  BY <1>1, <1>4, <1>5, <1>9, <1>10, <1>11 DEF ClientOK, IsGet
<1> QED
  BY <1>2, <1>6, <1>7, <1>12, ServerStays, StepInv

\* A transfer that fails, and the session with it.
LEMMA Fails ==
  ASSUME IInv, InTransfer, NEW q, Talks(q), Marks(q), UNCHANGED <<buff, serve>>,
         NEW reason \in Why, Fail(reason),
         reason \in {"opcode", "notfirst"} => k \in seen'
  PROVE  IInv'
<1>1. pc' = "failed" /\ why' = reason /\ UNCHANGED <<k, window, net>>
  BY DEF Fail
<1>2. Stores(buff[k])
  <2>1. k \in Index /\ Typed /\ buff \in [Index -> Seq(Blocks)]
    BY Types DEF InTransfer, IInv, ClientOK, TypeOK, Blocks
  <2>2. buff = [buff EXCEPT ![k] = buff[k]]
    BY <2>1
  <2> QED
    BY <2>1, <2>2 DEF Stores, Typed
<1>3. window' >= window
  BY <1>1, Types DEF Typed, IInv
<1>4. /\ k \in Index /\ k \in Nat /\ Typed
      /\ server_port' \in [Index -> ServerPort \cup {NoPort}]
      /\ server_port'[k] = q
      /\ \A i \in Index : i # k => server_port'[i] = server_port[i]
      /\ seen' \subseteq Index /\ taken' \subseteq Index
      /\ \A i \in taken' : i \in seen' /\ \E m \in Stray : m.port = server_port'[i]
      /\ \A i \in Index : i # k => (i \in seen' <=> i \in seen) /\ (i \in taken' <=> i \in taken)
      /\ Grow
  BY <1>1, <1>2, <1>3, ClientFrame
<1>5. q # NoPort
  BY PortFacts DEF Talks
<1>6. TypeOK'
  BY <1>1, <1>4 DEF IInv, TypeOK, Pc
<1>7. FailsForAReason'
  BY <1>1 DEF FailsForAReason
<1>8. TransfersComplete'
  <2>0. \A i \in Index : i < k => i # k
    BY <1>4
  <2>1. \A i \in Index : i < k => server_port'[i] = server_port[i] /\ (i \in taken' <=> i \in taken)
    BY <1>4, <2>0
  <2> QED
    BY <1>1, <2>1 DEF IInv, ClientOK, TransfersComplete, IsGet, File, NumBlocks, Block
<1>9. \A i \in Index :
        /\ server_port'[i] = NoPort \/ (server_port'[i] \in ServerPort /\ server_port'[i][1] = i)
        /\ i > k => server_port'[i] = NoPort /\ buff[i] = <<>> /\ i \notin seen'
        /\ i < k /\ ~ IsGet(i) /\ i \notin taken' =>
             server_port'[i] # NoPort /\ serve[server_port'[i]].open
  <2> SUFFICES ASSUME NEW i \in Index
               PROVE
        /\ server_port'[i] = NoPort \/ (server_port'[i] \in ServerPort /\ server_port'[i][1] = i)
        /\ i > k => server_port'[i] = NoPort /\ buff[i] = <<>> /\ i \notin seen'
        /\ i < k /\ ~ IsGet(i) /\ i \notin taken' =>
             server_port'[i] # NoPort /\ serve[server_port'[i]].open
    OBVIOUS
  <2>1. CASE i = k
    BY <1>4, <2>1 DEF Talks
  <2>2. CASE i # k
    BY <1>4, <2>2 DEF IInv, ClientOK
  <2> QED
    BY <2>1, <2>2
<1>10. ClientOK'
  BY <1>1, <1>4, <1>8, <1>9 DEF ClientOK, IsGet
<1> QED
  BY <1>1, <1>4, <1>6, <1>7, <1>10, ServerStays, StepInv

\* A packet for the client is one the server got to, or a stray one.
LEMMA Arrives ==
  ASSUME IInv, NEW m \in net, m.op # "request", m.dir = "client"
  PROVE  /\ m.op \in {"ack", "data", "error"} /\ m.port \in ServerPort /\ m.port[1] \in Index
         /\ m.seq \in Nat
         /\ m.short \in BOOLEAN
         /\ m \notin Stray /\ m.op # "error" =>
              /\ m.op = IF IsGet(m.port[1]) THEN "data" ELSE "ack"
              /\ m.file = m.port[1] /\ (m.short <=> m.seq = NumBlocks(m.port[1]))
              /\ serve[m.port].open /\ m.seq <= serve[m.port].seq
              /\ IsGet(m.port[1]) => 1 <= m.seq /\ m.seq <= NumBlocks(m.port[1])
         /\ net \subseteq Packet
<1>1. m \in Packet /\ PacketOK(m) /\ net \subseteq Packet
  BY DEF IInv, TypeOK
<1> QED
  BY <1>1, PacketFields DEF PacketOK

\* What a packet from port q does to the history.
LEMMA Noted ==
  ASSUME IInv, InTransfer, NEW m \in net, Note(m), taken' = taken \/ Take(m), Talks(m.port)
  PROVE  /\ Marks(m.port)
         /\ m \in Stray => k \in seen'
         /\ m \in Stray /\ Take(m) => k \in taken'
         /\ m \notin Stray => seen' = seen /\ taken' = taken
<1>1. k \in Index
  BY DEF InTransfer, IInv, ClientOK
<1>2. k \in taken => k \in seen /\ \E x \in Stray : x.port = server_port[k]
  BY <1>1 DEF IInv, ClientOK
<1>3. k \in taken => \E x \in Stray : x.port = m.port
  <2> SUFFICES ASSUME k \in taken PROVE \E x \in Stray : x.port = m.port
    OBVIOUS
  <2>1. PICK x \in Stray : x.port = server_port[k]
    BY <1>2
  <2>2. x.port \in ServerPort
    BY StrayAssumption, PacketFields
  <2> QED
    BY <2>1, <2>2, PortFacts DEF Talks
<1>4. CASE m \in Stray
  BY <1>1, <1>2, <1>3, <1>4 DEF Note, Take, Marks
<1>5. CASE m \notin Stray
  BY <1>2, <1>3, <1>5 DEF Note, Take, Marks
<1> QED
  BY <1>4, <1>5

\* The port of a transfer under way, and a first answer's.
LEMMA TalksOn ==
  ASSUME IInv, pc \in {"data", "ack"}
  PROVE  /\ k \in Index /\ server_port[k] \in ServerPort /\ server_port[k][1] = k
         /\ server_port' = server_port => Talks(server_port[k])
         /\ buff' = buff => Stores(buff[k])
<1>1. k \in Index /\ server_port[k] # NoPort /\ Typed
  BY Types DEF IInv, ClientOK
<1>2. server_port[k] \in ServerPort /\ server_port[k][1] = k
  BY <1>1 DEF IInv, ClientOK
<1>3. server_port \in [Index -> ServerPort \cup {NoPort}] /\ buff \in [Index -> Seq(Blocks)]
  BY DEF IInv, TypeOK, Blocks
<1>4. [server_port EXCEPT ![k] = server_port[k]] = server_port /\ [buff EXCEPT ![k] = buff[k]] = buff
  BY <1>3
<1> QED
  BY <1>1, <1>2, <1>4 DEF Talks, Stores, Typed
LEMMA TalksFirst ==
  ASSUME IInv, pc = "first", NEW q \in ServerPort, q[1] = k,
         server_port' = [server_port EXCEPT ![k] = q]
  PROVE  /\ Talks(q) /\ k \in Index /\ window = 0 /\ server_port[k] = NoPort /\ buff[k] = <<>>
         /\ buff' = buff => Stores(buff[k])
<1>1. k \in Index /\ window = 0 /\ server_port[k] = NoPort /\ buff[k] = <<>> /\ Typed
  BY Types DEF IInv, ClientOK
<1>2. buff \in [Index -> Seq(Blocks)]
  BY DEF IInv, TypeOK, Blocks
<1>3. buff = [buff EXCEPT ![k] = buff[k]]
  BY <1>2
<1> QED
  BY <1>1, <1>3 DEF Talks, Stores, Typed

\* A packet that is refused is an error or a stray one.
LEMMA RefusedStep ==
  ASSUME IInv, InTransfer, NEW m \in net, m.op # "request", m.dir = "client",
         m.port[1] = k, Talks(m.port), Note(m), UNCHANGED <<buff, serve>>,
         Refused(m, IF IsGet(k) THEN "data" ELSE "ack")
  PROVE  IInv'
<1> DEFINE op == IF IsGet(k) THEN "data" ELSE "ack"
<1>0. Marks(m.port) /\ (m \in Stray => k \in seen')
  <2>1. taken' = taken
    BY DEF Refused, Fail
  <2> QED
    BY <2>1, Noted
<1>1. CASE m.op = "error" /\ Fail("error")
  <2>1. "error" \in Why /\ "error" \notin {"opcode", "notfirst"}
    BY DEF Why
  <2> QED
    BY <1>0, <1>1, <2>1, Fails
<1>2. CASE m.op \notin {"error", op} /\ Fail("opcode")
  <2>1. "opcode" \in Why
    BY DEF Why
  <2>2. m \in Stray
    BY <1>2, Arrives
  <2> QED
    BY <1>0, <1>2, <2>1, <2>2, Fails
<1> QED
  BY <1>1, <1>2 DEF Refused

LEMMA SendRequestStep ==
  ASSUME IInv, SendRequest \/ RequestTimeout
  PROVE  IInv'
<1>1. /\ pc \in {"request", "first"} /\ pc' = "first" /\ net' = net \cup {Request(k)}
      /\ UNCHANGED <<k, window, buff, server_port, why, seen, taken, serve>>
  BY DEF SendRequest, RequestTimeout, clientVars, Send
<1>2. k \in Index /\ Typed
  BY <1>1, Types DEF IInv, ClientOK
<1>3. Request(k) \in Packet /\ Request(k).op = "request"
  BY <1>2, SentRequest
<1>4. TypeOK'
  BY <1>1, <1>3 DEF IInv, TypeOK, Pc
<1>5. Grow
  BY <1>1, <1>2 DEF Grow, Typed
<1>6. TransfersComplete'
  BY <1>1 DEF IInv, ClientOK, TransfersComplete, IsGet, File, NumBlocks, Block
<1>7. ClientOK'
  BY <1>1, <1>2, <1>6 DEF IInv, ClientOK, IsGet
<1>8. FailsForAReason'
  BY <1>1 DEF IInv, FailsForAReason
<1>9. \A m \in net' \ net : PacketOK(m)'
  BY <1>1, <1>3 DEF PacketOK
<1> QED
  BY <1>1, <1>4, <1>5, <1>7, <1>8, <1>9, ServerStays, StepInv

\* What the client sends is within its bounds.
LEMMA AckOK ==
  ASSUME NEW p \in ServerPort, NEW n \in Nat, server_port'[p[1]] = p, IsGet(p[1]),
         p[1] \notin seen' /\ n <= NumBlocks(p[1]) => n <= Len(buff'[p[1]])
  PROVE  ToServer("ack", p, n) \in Packet /\ PacketOK(ToServer("ack", p, n))'
<1> DEFINE m == ToServer("ack", p, n)
<1>1. m \in Packet /\ m.op = "ack" /\ m.dir = "server" /\ m.port = p /\ m.seq = n
      /\ m.file = p[1]
  BY SentPackets
<1> HIDE DEF m
<1>2. PacketOK(m)'
  BY <1>1 DEF PacketOK, IsGet, NumBlocks
<1> QED
  BY <1>1, <1>2 DEF m
LEMMA DataOK ==
  ASSUME NEW p \in ServerPort, NEW n \in Nat, server_port'[p[1]] = p, ~ IsGet(p[1]),
         1 <= n, n <= NumBlocks(p[1]), p[1] = k' => n <= window'
  PROVE  ToServer("data", p, n) \in Packet /\ PacketOK(ToServer("data", p, n))'
<1> DEFINE m == ToServer("data", p, n)
<1>1. m \in Packet /\ m.op = "data" /\ m.dir = "server" /\ m.port = p /\ m.seq = n
      /\ m.file = p[1]
  BY SentPackets
<1> HIDE DEF m
<1>2. PacketOK(m)'
  BY <1>1 DEF PacketOK, IsGet, NumBlocks
<1> QED
  BY <1>1, <1>2 DEF m

LEMMA GetTimeoutStep ==
  ASSUME IInv, GetTimeout
  PROVE  IInv'
<1>1. pc = "data" /\ Fail("timeout") /\ UNCHANGED <<buff, server_port, serve>>
  BY DEF GetTimeout
<1>2. "timeout" \in Why /\ "timeout" \notin {"opcode", "notfirst"} /\ InTransfer
  BY <1>1 DEF Why, InTransfer
<1>3. Talks(server_port[k])
  BY <1>1, TalksOn
<1>4. Marks(server_port[k])
  <2>1. seen' = seen /\ taken' = taken /\ k \in Index
    BY <1>1, TalksOn DEF GetTimeout, Fail
  <2> QED
    BY <2>1 DEF Marks, IInv, ClientOK
<1> QED
  BY <1>1, <1>2, <1>3, <1>4, Fails

LEMMA PutTimeoutStep ==
  ASSUME IInv, PutTimeout
  PROVE  IInv'
<1>1. /\ pc = "ack" /\ Send({ToServer("data", server_port[k], window)})
      /\ UNCHANGED <<clientVars, serve>>
  BY DEF PutTimeout
<1>2. k \in Index /\ server_port[k] \in ServerPort /\ server_port[k][1] = k
  BY <1>1, TalksOn
<1>3. window \in Nat /\ ~ IsGet(k) /\ 1 <= window /\ window <= NumBlocks(k) /\ net \subseteq Packet
  BY <1>1 DEF IInv, ClientOK, TypeOK
<1>4. window' = window /\ server_port' = server_port
  BY <1>1 DEF clientVars
<1>5. PICK p \in ServerPort, n \in Nat : p = server_port[k] /\ n = window
  BY <1>2, <1>3
<1>6. ToServer("data", p, n) \in Packet /\ PacketOK(ToServer("data", p, n))'
  <2>1. p[1] = k /\ server_port'[p[1]] = p /\ n <= window'
    BY <1>2, <1>3, <1>4, <1>5
  <2>2. ~ IsGet(p[1]) /\ 1 <= n /\ n <= NumBlocks(p[1])
    BY <1>2, <1>3, <1>5
  <2> QED
    BY <2>1, <2>2, DataOK
<1>7. net' = net \cup {ToServer("data", p, n)}
  BY <1>1, <1>5 DEF Send
<1> QED
  BY <1>1, <1>3, <1>6, <1>7, Sends

LEMMA GetFirstStep ==
  ASSUME IInv, NEW m \in net, m.op # "request", m.dir = "client", GetFirst(m)
  PROVE  IInv'
<1>1. /\ pc = "first" /\ IsGet(k) /\ m.port[1] = k /\ serve' = serve /\ Note(m)
      /\ server_port' = [server_port EXCEPT ![k] = m.port]
  BY DEF GetFirst
<1>2. m.port \in ServerPort /\ m.seq \in Nat /\ net \subseteq Packet
  BY Arrives
<1>3. /\ Talks(m.port) /\ k \in Index /\ window = 0 /\ server_port[k] = NoPort /\ buff[k] = <<>>
      /\ buff' = buff => Stores(buff[k])
  BY <1>1, <1>2, TalksFirst
<1>4. InTransfer /\ NumBlocks(k) \in Nat /\ NumBlocks(k) >= 1
  BY <1>1, <1>3, SessionFacts DEF InTransfer
<1>5. CASE Refused(m, "data") /\ UNCHANGED buff
  BY <1>1, <1>3, <1>4, <1>5, RefusedStep
<1>6. CASE m.op = "data" /\ m.seq # 1 /\ Fail("notfirst") /\ UNCHANGED buff
  <2>1. "notfirst" \in Why
    BY DEF Why
  <2>2. m \in Stray
    <3> SUFFICES ASSUME m \notin Stray PROVE FALSE
      OBVIOUS
    <3>1. /\ serve[m.port].open /\ m.seq <= serve[m.port].seq /\ 1 <= m.seq
      BY <1>1, <1>6, Arrives
    <3>2. m.port # server_port[k]
      BY <1>2, <1>3, PortFacts
    <3>3. PortOK(m.port)
      BY <1>2 DEF IInv, ServerOK
    <3>4. serve[m.port].seq <= 1
      BY <1>1, <3>1, <3>2, <3>3 DEF PortOK
    <3>5. serve[m.port].seq \in Nat
      BY <1>2, Types DEF IInv, Typed
    <3> QED
      BY <1>2, <1>6, <3>1, <3>4, <3>5
  <2>3. Marks(m.port) /\ k \in seen'
    BY <1>1, <1>3, <1>4, <1>6, <2>2, Noted DEF Fail
  <2> QED
    BY <1>1, <1>3, <1>4, <1>6, <2>1, <2>3, Fails
<1>7. CASE /\ m.op = "data" /\ m.seq = 1
           /\ Send({ToServer("ack", m.port, m.seq)})
           /\ buff' = [buff EXCEPT ![k] = <<Payload(m)>>]
           /\ IF m.short THEN Finish
              ELSE window' = 2 /\ pc' = "data" /\ UNCHANGED k
           /\ Take(m) /\ UNCHANGED why
  <2> DEFINE b == <<Payload(m)>>
  <2>1. buff' = [buff EXCEPT ![k] = b] /\ b \in Seq(Blocks) /\ Len(b) = 1
    <3>1. Payload(m) \in Blocks
      BY <1>2, PacketTypes
    <3> QED
      BY <1>7, <3>1
  <2>2. Stores(b)
    <3>1. Len(buff[k]) = 0
      BY <1>3
    <3> QED
      BY <2>1, <3>1 DEF Stores
  <2>3. /\ Marks(m.port) /\ (m \in Stray => k \in taken' /\ k \in seen')
    BY <1>1, <1>3, <1>4, <1>7, Noted
  <2>4. m \notin Stray =>
          /\ serve[m.port].open /\ serve[m.port].seq >= 1 /\ (m.short <=> NumBlocks(k) = 1)
          /\ b = Prefix(k, 1)
    <3> SUFFICES ASSUME m \notin Stray
                 PROVE  /\ serve[m.port].open /\ serve[m.port].seq >= 1
                        /\ m.short <=> NumBlocks(k) = 1
                        /\ b = Prefix(k, 1)
      OBVIOUS
    <3>1. /\ serve[m.port].open /\ 1 <= serve[m.port].seq
          /\ m.file = k /\ (m.short <=> 1 = NumBlocks(k))
      BY <1>1, <1>7, Arrives
    <3>2. serve[m.port].seq \in Nat
      BY <1>2, Types DEF IInv, Typed
    <3>3. b = <<Block(k, 1)>>
      BY <1>7, <3>1 DEF Payload
    <3> QED
      BY <1>3, <3>1, <3>2, <3>3, PrefixEnds
  <2>5. buff'[k] = b /\ server_port'[k] = m.port
    BY <1>1, <1>3, <2>1 DEF IInv, TypeOK
  <2>6. ToServer("ack", m.port, m.seq) \in Packet /\ PacketOK(ToServer("ack", m.port, m.seq))'
    <3>1. PICK i \in Index : i = k
      BY <1>3
    <3>2. server_port'[i] = m.port /\ Len(buff'[i]) = 1 /\ m.port[1] = i /\ IsGet(i)
      BY <1>1, <2>1, <2>5, <3>1
    <3>3. m.seq = 1
      BY <1>7
    <3>4. m.seq <= Len(buff'[i])
      BY <3>2, <3>3
    <3> QED
      BY <1>2, <3>2, <3>4, AckOK
  <2>7. net' \subseteq Packet /\ \A x \in net' \ net : PacketOK(x)'
    BY <1>2, <1>7, <2>6 DEF Send
  <2> HIDE DEF b
  <2>8. CASE m.short
    <3>1. Finish /\ (k \notin taken' => b = File(k))
      BY <1>3, <1>7, <2>3, <2>4, <2>8, PrefixEnds
    <3> QED
      BY <1>1, <1>3, <1>4, <1>7, <2>2, <2>3, <2>7, <3>1, Finishes
  <2>9. CASE ~ m.short
    <3>1. window' = 2 /\ pc' = "data" /\ k' = k
      BY <1>7, <2>9
    <3>2. 2 \in Nat /\ window <= 2 /\ 1 <= 2 /\ 2 >= 2 /\ 2 - 1 = 1
      BY <1>3
    <3>3. k \notin taken' =>
            2 <= NumBlocks(k) /\ serve[m.port].open /\ serve[m.port].seq >= 2 - 1 /\ b = Prefix(k, 2 - 1)
      BY <1>4, <2>3, <2>4, <2>9, <3>2
    <3> QED
      BY <1>1, <1>3, <1>4, <1>7, <2>2, <2>3, <2>7, <3>1, <3>2, <3>3, Continues
  <2> QED
    BY <2>8, <2>9
<1> QED
  BY <1>5, <1>6, <1>7 DEF GetFirst

LEMMA GetDataStep ==
  ASSUME IInv, NEW m \in net, m.op # "request", m.dir = "client", GetData(m)
  PROVE  IInv'
<1>1. pc = "data" /\ Expected(m) /\ Note(m) /\ serve' = serve /\ server_port' = server_port
  BY DEF GetData
<1>2. m.port \in ServerPort /\ m.seq \in Nat /\ net \subseteq Packet
  BY Arrives
<1>3. /\ k \in Index /\ m.port = server_port[k] /\ m.port[1] = k /\ Talks(m.port)
      /\ buff' = buff => Stores(buff[k])
  BY <1>1, TalksOn DEF Expected
<1>4. /\ InTransfer /\ NumBlocks(k) \in Nat /\ IsGet(k)
      /\ window \in Nat /\ window >= 2 /\ window - 1 \in Nat
      /\ buff[k] \in Seq(Blocks) /\ Len(buff[k]) \in Nat
      /\ serve[m.port].seq \in Nat
  <2>1. window \in Nat /\ window >= 2 /\ IsGet(k)
    BY <1>1 DEF IInv, ClientOK, TypeOK
  <2> QED
    BY <1>1, <1>2, <1>3, <2>1, SessionFacts, Types DEF InTransfer, IInv, Typed
\* The transfer of a client that took no stray block.
<1>5. k \notin taken =>
        /\ window <= NumBlocks(k) /\ buff[k] = Prefix(k, window - 1) /\ Len(buff[k]) = window - 1
        /\ serve[m.port].open /\ serve[m.port].seq >= window - 1
  <2> SUFFICES ASSUME k \notin taken
               PROVE  /\ window <= NumBlocks(k) /\ buff[k] = Prefix(k, window - 1)
                      /\ Len(buff[k]) = window - 1
                      /\ serve[m.port].open /\ serve[m.port].seq >= window - 1
    OBVIOUS
  <2>1. /\ window <= NumBlocks(k) /\ buff[k] = Prefix(k, window - 1)
        /\ serve[m.port].open /\ serve[m.port].seq >= window - 1
    BY <1>1, <1>3 DEF IInv, ClientOK
  <2>2. Len(Prefix(k, window - 1)) = window - 1
    BY <1>3, <1>4, PrefixFacts
  <2> QED
    BY <2>1, <2>2
<1>6. taken \subseteq seen
  BY DEF IInv, ClientOK, TypeOK
<1>7. CASE Refused(m, "data") /\ UNCHANGED buff
  BY <1>1, <1>3, <1>4, <1>7, RefusedStep
<1>8. CASE /\ m.op = "data"
           /\ Send({ToServer("ack", server_port[k], m.seq)})
           /\ IF InWindow(m)
              THEN /\ buff' = [buff EXCEPT ![k] = Append(@, Payload(m))]
                   /\ IF m.short THEN Finish
                      ELSE window' = window + 1 /\ UNCHANGED <<k, pc>>
                   /\ Take(m)
              ELSE UNCHANGED <<k, pc, window, buff, taken>>
           /\ UNCHANGED why
  <2>1. net' = net \cup {ToServer("ack", m.port, m.seq)}
    BY <1>3, <1>8 DEF Send
  <2>2. /\ Marks(m.port) /\ (m \in Stray => k \in seen')
        /\ m \in Stray /\ Take(m) => k \in taken'
        /\ m \notin Stray => seen' = seen /\ taken' = taken
    BY <1>1, <1>3, <1>4, <1>8, Noted
  <2>3. m \notin Stray =>
          /\ serve[m.port].open /\ m.seq <= serve[m.port].seq
          /\ m.file = k /\ (m.short <=> m.seq = NumBlocks(k)) /\ m.seq <= NumBlocks(k)
    BY <1>3, <1>4, <1>8, Arrives
  <2>4. (k \notin seen' /\ m.seq <= NumBlocks(k) => m.seq <= Len(buff'[k]))
        => net' \subseteq Packet /\ \A x \in net' \ net : PacketOK(x)'
    <3> SUFFICES ASSUME k \notin seen' /\ m.seq <= NumBlocks(k) => m.seq <= Len(buff'[k])
                 PROVE  net' \subseteq Packet /\ \A x \in net' \ net : PacketOK(x)'
      OBVIOUS
    <3>1. PICK i \in Index : i = k
      BY <1>3
    <3>2. /\ server_port'[i] = m.port /\ m.port[1] = i /\ IsGet(i)
          /\ i \notin seen' /\ m.seq <= NumBlocks(i) => m.seq <= Len(buff'[i])
      BY <1>1, <1>3, <1>4, <3>1
    <3>3. ToServer("ack", m.port, m.seq) \in Packet /\ PacketOK(ToServer("ack", m.port, m.seq))'
      BY <1>2, <3>2, AckOK
    <3> QED
      BY <1>2, <2>1, <3>3
  <2>5. CASE InWindow(m)
    <3> DEFINE b == Append(buff[k], Payload(m))
    <3>1. /\ m.seq = window /\ buff' = [buff EXCEPT ![k] = b] /\ Take(m)
      BY <1>8, <2>5 DEF InWindow
    <3>2. b \in Seq(Blocks) /\ Len(b) = Len(buff[k]) + 1
      <4>1. Payload(m) \in Blocks
        BY <1>2, PacketTypes
      <4> QED
        BY <1>4, <4>1, AppendProperties
    <3>3. k \notin taken' => m \notin Stray /\ k \notin taken
      BY <2>2, <3>1 DEF Marks
    <3>4. k \notin taken' => b = Prefix(k, window) /\ Len(b) = window
      <4> SUFFICES ASSUME k \notin taken' PROVE b = Prefix(k, window) /\ Len(b) = window
        OBVIOUS
      <4>1. Payload(m) = Block(k, (window - 1) + 1) /\ (window - 1) + 1 = window
        BY <1>4, <2>3, <3>1, <3>3 DEF Payload
      <4>2. Append(Prefix(k, window - 1), Block(k, (window - 1) + 1)) = Prefix(k, (window - 1) + 1)
        BY <1>3, <1>4, PrefixFacts
      <4>3. b = Prefix(k, window)
        BY <1>5, <3>3, <4>1, <4>2
      <4> QED
        BY <1>3, <1>4, <4>3, PrefixFacts
    <3>5. Stores(b) /\ buff'[k] = b
      <4>1. buff \in [Index -> Seq(Blocks)]
        BY DEF IInv, TypeOK, Blocks
      <4>2. Len(b) >= Len(buff[k])
        BY <1>4, <3>2
      <4> HIDE DEF b
      <4> QED
        BY <1>3, <3>1, <3>2, <4>1, <4>2 DEF Stores
    <3>6. net' \subseteq Packet /\ \A x \in net' \ net : PacketOK(x)'
      <4>1. k \notin seen' => k \notin taken'
        BY <2>2 DEF Marks
      <4>2. k \notin seen' => m.seq <= Len(buff'[k])
        BY <1>4, <3>1, <3>4, <3>5, <4>1
      <4> QED
        BY <2>4, <4>2
    <3>7. CASE m.short
      <4>1. Finish
        BY <1>8, <2>5, <3>7
      <4>2. k \notin taken' => b = File(k)
        BY <1>3, <2>3, <3>1, <3>3, <3>4, <3>7, PrefixEnds
      <4> HIDE DEF b
      <4> QED
        BY <1>1, <1>3, <1>4, <1>8, <2>2, <3>5, <3>6, <4>1, <4>2, Finishes
    <3>8. CASE ~ m.short
      <4> DEFINE n == window + 1
      <4>1. window' = n /\ pc' = "data" /\ k' = k
        BY <1>1, <1>8, <2>5, <3>8
      <4>2. n \in Nat /\ window <= n /\ 1 <= n /\ n >= 2 /\ n - 1 = window
        BY <1>4
      <4>3. k \notin taken' =>
              /\ n <= NumBlocks(k) /\ serve[m.port].open /\ serve[m.port].seq >= n - 1
              /\ b = Prefix(k, n - 1)
        BY <1>4, <2>3, <3>1, <3>3, <3>4, <3>8, <4>2
      <4> HIDE DEF b, n
      <4> QED
        BY <1>1, <1>3, <1>4, <1>8, <2>2, <3>5, <3>6, <4>1, <4>2, <4>3, Continues
    <3> QED
      BY <3>7, <3>8
  <2>6. CASE ~ InWindow(m)
    <3>1. UNCHANGED <<k, pc, window, buff, taken, why>> /\ m.seq # window
      BY <1>8, <2>6 DEF InWindow
    <3>2. k \notin seen' => m.seq <= window
      <4> SUFFICES ASSUME k \notin seen' PROVE m.seq <= window
        OBVIOUS
      <4>1. m \notin Stray /\ k \notin seen /\ k \notin taken
        BY <1>6, <2>2
      <4>2. serve[m.port].open /\ m.seq <= serve[m.port].seq
        BY <2>3, <4>1
      <4>3. PortOK(m.port)
        BY <1>2 DEF IInv, ServerOK
      <4>4. serve[m.port].seq <= (window - 1) + 1
        BY <1>3, <1>4, <1>5, <4>1, <4>2, <4>3 DEF PortOK
      <4> QED
        BY <1>2, <1>4, <4>2, <4>4
    <3>3. k \notin seen' /\ m.seq <= NumBlocks(k) => m.seq <= Len(buff'[k])
      <4> SUFFICES ASSUME k \notin seen' PROVE m.seq <= Len(buff'[k])
        OBVIOUS
      <4>1. k \notin taken
        BY <1>6, <2>2 DEF Marks
      <4> QED
        BY <1>2, <1>4, <1>5, <3>1, <3>2, <4>1
    <3>4. net' \subseteq Packet /\ \A x \in net' \ net : PacketOK(x)'
      BY <2>4, <3>3
    <3>5. PICK n \in Nat : n = window
      BY <1>4
    <3>6. n >= 2 /\ 1 <= n /\ window <= n /\ window' = n
      BY <1>4, <3>1, <3>5
    <3> QED
      BY <1>1, <1>3, <1>4, <1>5, <2>2, <3>1, <3>4, <3>5, <3>6, Continues
  <2> QED
    BY <2>5, <2>6
<1> QED
  BY <1>7, <1>8 DEF GetData

LEMMA PutFirstStep ==
  ASSUME IInv, NEW m \in net, m.op # "request", m.dir = "client", PutFirst(m)
  PROVE  IInv'
<1>1. /\ pc = "first" /\ ~ IsGet(k) /\ m.port[1] = k /\ serve' = serve /\ buff' = buff /\ Note(m)
      /\ server_port' = [server_port EXCEPT ![k] = m.port]
  BY DEF PutFirst
<1>2. m.port \in ServerPort /\ m.seq \in Nat /\ net \subseteq Packet
  BY Arrives
<1>3. /\ Talks(m.port) /\ k \in Index /\ window = 0 /\ server_port[k] = NoPort
      /\ Stores(buff[k])
  BY <1>1, <1>2, TalksFirst
<1>4. InTransfer /\ NumBlocks(k) \in Nat /\ NumBlocks(k) >= 1
  BY <1>1, <1>3, SessionFacts DEF InTransfer
<1>5. serve[m.port].seq \in Nat
  BY <1>2, Types DEF IInv, Typed
<1>6. CASE Refused(m, "ack")
  BY <1>1, <1>3, <1>4, <1>6, RefusedStep
<1>7. CASE m.op = "ack" /\ m.seq # 0 /\ Fail("notfirst")
  <2>1. "notfirst" \in Why
    BY DEF Why
  <2>2. m \in Stray
    <3> SUFFICES ASSUME m \notin Stray PROVE FALSE
      OBVIOUS
    <3>1. serve[m.port].open /\ m.seq <= serve[m.port].seq
      BY <1>7, Arrives
    <3>2. m.port # server_port[k]
      BY <1>2, <1>3, PortFacts
    <3>3. PortOK(m.port)
      BY <1>2 DEF IInv, ServerOK
    <3>4. serve[m.port].seq = 0
      BY <1>1, <3>1, <3>2, <3>3 DEF PortOK
    <3> QED
      BY <1>2, <1>7, <3>1, <3>4
  <2>3. Marks(m.port) /\ k \in seen'
    BY <1>1, <1>3, <1>4, <1>7, <2>2, Noted DEF Fail
  <2> QED
    BY <1>1, <1>3, <1>4, <1>7, <2>1, <2>3, Fails
<1>8. CASE /\ m.op = "ack" /\ m.seq = 0
           /\ Send({ToServer("data", m.port, 1)})
           /\ window' = 1 /\ pc' = "ack"
           /\ Take(m) /\ UNCHANGED <<k, why>>
  <2>1. Marks(m.port) /\ (m \in Stray => k \in taken')
    BY <1>1, <1>3, <1>4, <1>8, Noted
  <2>2. k \notin taken' => serve[m.port].open
    BY <1>8, <2>1, Arrives
  <2>3. ToServer("data", m.port, 1) \in Packet /\ PacketOK(ToServer("data", m.port, 1))'
    <3>1. PICK i \in Index : i = k
      BY <1>3
    <3>2. server_port'[i] = m.port
      BY <1>1, <3>1 DEF IInv, TypeOK
    <3>3. m.port[1] = i /\ ~ IsGet(i) /\ 1 <= NumBlocks(i)
      BY <1>1, <1>4, <3>1
    <3>4. 1 \in Nat /\ 1 <= 1 /\ 1 <= window'
      BY <1>8
    <3> QED
      BY <1>2, <3>2, <3>3, <3>4, DataOK
  <2>4. net' \subseteq Packet /\ \A x \in net' \ net : PacketOK(x)'
    BY <1>2, <1>8, <2>3 DEF Send
  <2>5. 1 \in Nat /\ window <= 1 /\ 1 <= 1 /\ 1 <= NumBlocks(k) /\ serve[m.port].seq >= 1 - 1
    BY <1>3, <1>4, <1>5
  <2> QED
    BY <1>1, <1>3, <1>4, <1>8, <2>1, <2>2, <2>4, <2>5, Continues
<1> QED
  BY <1>6, <1>7, <1>8 DEF PutFirst

LEMMA PutAckStep ==
  ASSUME IInv, NEW m \in net, m.op # "request", m.dir = "client", PutAck(m)
  PROVE  IInv'
<1>1. /\ pc = "ack" /\ Expected(m) /\ Note(m) /\ serve' = serve /\ server_port' = server_port /\ buff' = buff
  BY DEF PutAck
<1>2. m.port \in ServerPort /\ m.seq \in Nat /\ net \subseteq Packet
  BY Arrives
<1>3. /\ k \in Index /\ m.port = server_port[k] /\ m.port[1] = k /\ Talks(m.port)
      /\ Stores(buff[k])
  BY <1>1, TalksOn DEF Expected
<1>4. /\ InTransfer /\ NumBlocks(k) \in Nat /\ ~ IsGet(k)
      /\ window \in Nat /\ window >= 1 /\ window <= NumBlocks(k)
      /\ serve[m.port].seq \in Nat
  <2>1. window \in Nat /\ window >= 1 /\ window <= NumBlocks(k) /\ ~ IsGet(k)
    BY <1>1 DEF IInv, ClientOK, TypeOK
  <2>2. serve[m.port].seq \in Nat
    BY <1>2, Types DEF IInv, Typed
  <2> QED
    BY <1>1, <1>3, <2>1, <2>2, SessionFacts DEF InTransfer
<1>5. CASE Refused(m, "ack")
  BY <1>1, <1>3, <1>4, <1>5, RefusedStep
<1>6. CASE /\ m.op = "ack" /\ Acked(m)
           /\ IF window = NumBlocks(k) THEN Finish /\ UNCHANGED net
              ELSE /\ window' = window + 1
                   /\ Send({ToServer("data", server_port[k], window + 1)})
                   /\ UNCHANGED <<k, pc>>
           /\ Take(m) /\ UNCHANGED why
  <2>1. m.seq = window /\ m.op = "ack" /\ why' = why /\ Take(m)
    BY <1>6 DEF Acked
  <2>2. Marks(m.port) /\ (k \notin taken' => m \notin Stray)
    BY <1>1, <1>3, <1>4, <2>1, Noted
  <2>3. k \notin taken' => serve[m.port].open /\ window <= serve[m.port].seq
    BY <2>1, <2>2, Arrives
  <2>4. PortOK(m.port)
    BY <1>2 DEF IInv, ServerOK
  <2>5. CASE window = NumBlocks(k)
    <3>1. k \notin taken' => serve[m.port].open /\ serve[m.port].got = File(k)
      <4> SUFFICES ASSUME k \notin taken'
                   PROVE  serve[m.port].open /\ serve[m.port].got = File(k)
        OBVIOUS
      <4>1. /\ serve[m.port].seq <= NumBlocks(k)
            /\ serve[m.port].got = Prefix(k, serve[m.port].seq)
        BY <1>3, <1>4, <2>3, <2>4 DEF PortOK
      <4>2. serve[m.port].seq = NumBlocks(k)
        BY <1>4, <2>3, <2>5, <4>1
      <4> QED
        BY <1>3, <2>3, <4>1, <4>2, PrefixEnds
    <3>2. Finish /\ net' = net
      BY <1>6, <2>5
    <3> QED
      BY <1>1, <1>2, <1>3, <1>4, <2>1, <2>2, <3>1, <3>2, Finishes
  <2>6. CASE window # NumBlocks(k)
    <3>1. /\ window' = window + 1 /\ k' = k /\ pc' = "ack"
          /\ net' = net \cup {ToServer("data", m.port, window + 1)}
      BY <1>1, <1>3, <1>6, <2>6 DEF Send
    <3>2. PICK i \in Index, n \in Nat : i = k /\ n = window + 1
      BY <1>3, <1>4
    <3>3. /\ 1 <= n /\ n <= NumBlocks(k) /\ window <= n /\ n <= window' /\ window' = n
          /\ k \notin taken' => serve[m.port].seq >= n - 1
      BY <1>4, <2>3, <2>6, <3>1, <3>2
    <3>4. ToServer("data", m.port, n) \in Packet /\ PacketOK(ToServer("data", m.port, n))'
      <4>1. server_port'[m.port[1]] = m.port /\ ~ IsGet(m.port[1]) /\ n <= NumBlocks(m.port[1])
        BY <1>1, <1>3, <1>4, <3>3
      <4> QED
        BY <1>2, <3>2, <3>3, <4>1, DataOK
    <3>5. net' \subseteq Packet /\ \A x \in net' \ net : PacketOK(x)'
      BY <1>2, <3>1, <3>2, <3>4
    <3> QED
      BY <1>1, <1>3, <1>4, <2>1, <2>2, <2>3, <3>1, <3>3, <3>5, Continues
  <2> QED
    BY <2>5, <2>6
<1>7. CASE m.op = "ack" /\ ~ Acked(m) /\ UNCHANGED <<k, pc, window, why, taken, net>>
  <2>1. Marks(m.port)
    BY <1>1, <1>3, <1>4, <1>7, Noted
  <2>2. PICK n \in Nat : n = window
    BY <1>4
  <2>3. k \notin taken => serve[m.port].open /\ serve[m.port].seq >= window - 1
    BY <1>1, <1>3 DEF IInv, ClientOK
  <2>4. n <= NumBlocks(k) /\ 1 <= n /\ window <= n /\ window' = n
    BY <1>4, <1>7, <2>2
  <2> QED
    BY <1>1, <1>2, <1>3, <1>4, <1>7, <2>1, <2>2, <2>3, <2>4, Continues
<1> QED
  BY <1>5, <1>6, <1>7 DEF PutAck

-----------------------------------------------------------------------------
(* The theorems.                                                             *)

LEMMA InitInv == Init => IInv
<1> SUFFICES ASSUME Init PROVE IInv
  OBVIOUS
<1>1. \A m \in Stray : m \in Packet /\ m.op # "request" /\ m.dir = "client" /\ m.file = 0
  BY StrayAssumption
<1>2. TypeOK
  <2>1. Closed \in [open : BOOLEAN, seq : Nat, got : Seq([file : AnyFile, n : Nat])]
    BY DEF Closed
  <2>2. k \in Index \cup {Len(Transfers) + 1}
    BY SessionFacts DEF Init
  <2>3. pc \in Pc /\ why \in Why /\ window \in Nat
    BY DEF Init, Pc, Why
  <2> QED
    BY <1>1, <2>1, <2>2, <2>3 DEF Init, TypeOK
<1>3. ClientOK
  <2>1. pc # "done" => k \in Index
    <3> SUFFICES ASSUME pc # "done" PROVE k \in Index
      OBVIOUS
    <3>1. Transfers # <<>> /\ k = 1
      BY DEF Init
    <3>2. Len(Transfers) >= 1
      BY <3>1, TransfersAssumption, EmptySeq
    <3> QED
      BY <3>1, <3>2, SessionFacts
  <2>2. \A i \in Index : ~ (i < 1)
    BY SessionFacts
  <2> QED
    BY <2>1, <2>2 DEF Init, ClientOK, TransfersComplete
<1>4. ServerOK
  <2>1. \A p \in ServerPort : serve[p] = Closed /\ ~ serve[p].open
    BY DEF Init, Closed
  <2> QED
    BY <2>1 DEF ServerOK, PortOK
<1>5. FailsForAReason
  BY DEF Init, FailsForAReason
<1>6. \A m \in net : PacketOK(m)
  BY <1>1 DEF Init, PacketOK
<1> QED
  BY <1>2, <1>3, <1>4, <1>5, <1>6 DEF IInv

LEMMA NextInv ==
  ASSUME IInv, [Next \/ \E m \in net : Lose(m)]_vars
  PROVE  IInv'
<1>1. CASE SendRequest \/ RequestTimeout
  BY <1>1, SendRequestStep
<1>2. CASE GetTimeout
  BY <1>2, GetTimeoutStep
<1>3. CASE PutTimeout
  BY <1>3, PutTimeoutStep
<1>4. ASSUME NEW m \in net, Receive(m)
      PROVE  IInv'
  BY <1>4, GetFirstStep, GetDataStep, PutFirstStep, PutAckStep DEF Receive
<1>5. ASSUME NEW m \in net, ServerReceive(m)
      PROVE  IInv'
  BY <1>5, ServeAckStep, ServeDataStep DEF ServerReceive
<1>6. ASSUME NEW p \in ServerPort, Serve(p)
      PROVE  IInv'
  BY <1>6, ServeStep
<1>7. ASSUME NEW p \in ServerPort, ServerTimeout(p)
      PROVE  IInv'
  BY <1>7, ServerTimeoutStep
<1>8. ASSUME NEW m \in net, Lose(m)
      PROVE  IInv'
  BY <1>8, LoseStep
<1>9. CASE UNCHANGED vars
  <2>1. net' = net /\ UNCHANGED <<clientVars, serve>> /\ net \subseteq Packet
    BY <1>9 DEF vars, IInv, TypeOK
  <2> QED
    BY <2>1, Sends
<1> QED
  BY <1>1, <1>2, <1>3, <1>4, <1>5, <1>6, <1>7, <1>8, <1>9 DEF Next, Timeout

\* The invariant holds of every session, over a network that may lose, repeat
\* and reorder any packet (tftp_get_file, tftp_put_file, tftp_check_resp).
THEOREM LossyInvariance == LossySpec => []IInv
<1> QED
  BY InitInv, NextInv, PTL DEF LossySpec

\* Without the step that takes a packet out of the network, in the Spec of the
\* runs, a session is still one of these.
THEOREM SpecIsLossy == Spec => LossySpec
<1>1. [Next]_vars => [Next \/ \E m \in net : Lose(m)]_vars
  OBVIOUS
<1> QED
  BY <1>1, PTL DEF Spec, LossySpec

\* What the invariant says of the two ends of a running transfer.
LEMMA InvLockStep == IInv => LockStep
<1> SUFFICES ASSUME IInv, pc \in {"data", "ack"}, k \notin (IF IsGet(k) THEN seen ELSE taken)
             PROVE  /\ serve[server_port[k]].open
                    /\ serve[server_port[k]].seq \in {window - 1, window}
  BY DEF LockStep
<1> DEFINE p == server_port[k]
<1>1. k \in Index /\ p \in ServerPort /\ p[1] = k
  BY TalksOn
<1>0. k \notin taken /\ (IsGet(k) => k \notin seen)
  BY <1>1 DEF IInv, ClientOK
<1>2. /\ serve[p].open /\ serve[p].seq >= window - 1
      /\ pc = "data" => IsGet(k) /\ window >= 2 /\ buff[k] = Prefix(k, window - 1)
      /\ pc = "ack" => ~ IsGet(k)
  BY <1>0 DEF IInv, ClientOK
<1>3. window \in Nat /\ serve[p].seq \in Nat
  BY <1>1, Types DEF IInv, Typed
<1>4. PortOK(p)
  BY <1>1 DEF IInv, ServerOK
<1>5. serve[p].seq <= window
  <2>1. CASE pc = "data"
    <3>1. window - 1 \in Nat
      BY <1>2, <1>3, <2>1
    <3>2. Len(buff[k]) = window - 1
      BY <1>1, <1>2, <2>1, <3>1, PrefixFacts
    <3>3. serve[p].seq <= Len(buff[k]) + 1
      BY <1>0, <1>1, <1>2, <1>4, <2>1 DEF PortOK
    <3> QED
      BY <1>3, <3>2, <3>3
  <2>2. CASE pc = "ack"
    BY <1>1, <1>2, <1>4, <2>2 DEF PortOK
  <2> QED
    BY <2>1, <2>2
<1> QED
  BY <1>2, <1>3, <1>5

\* A get that returned 0 has every block of its file, in order and once, and a
\* put that returned 0 has left every block with the server, whatever the network
\* does and whatever packets of earlier transfers reach a port used again
\* (get_port), unless the client took one from its own server port for the packet
\* it waited for (tftp.c 102, 149, 208 and 251).
THEOREM Completes == LossySpec => []TransfersComplete
<1>1. IInv => TransfersComplete
  BY DEF IInv, ClientOK
<1> QED
  BY <1>1, LossyInvariance, PTL

\* Client and server are never more than a block apart, unless the client of a get
\* received a stray packet or that of a put took one for its own.
THEOREM StaysInLockStep == LossySpec => []LockStep
  BY InvLockStep, LossyInvariance, PTL

\* However often a request is repeated and whatever the network does, a session
\* fails over an unexpected packet only if it received one of an earlier transfer.
THEOREM OnlyStraysConfuse == LossySpec => []FailsForAReason
<1>1. IInv => FailsForAReason
  BY DEF IInv
<1> QED
  BY <1>1, LossyInvariance, PTL
=============================================================================
