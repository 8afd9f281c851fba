-------------------------------- MODULE Tftp --------------------------------
(***************************************************************************)
(* The TFTP client of the judge daemon (src/tftp.c) over a network that    *)
(* loses, repeats and reorders: one session is a sequence of transfers,    *)
(* each with a client port of its own.  The server is not part of the      *)
(* repository (start_fileserver starts one); it is modelled by the         *)
(* protocol the client expects: every request it gets, a repeated one      *)
(* included, opens a transfer on a port of its own, and it works in lock   *)
(* step, one block per acknowledgement.                                    *)
(*                                                                         *)
(* A file is a sequence of blocks; only its last block is shorter than     *)
(* TFTP_CHUNK_SIZE.  A block carries its file and its place.               *)
(*                                                                         *)
(* get_port guarantees no fresh port, so packets of an earlier transfer    *)
(* may reach a later one (Stray).  The client has no means to know them:   *)
(* seen and taken are history variables, read by no action, that record    *)
(* whether it met one and whether it went on because of one.               *)
(*                                                                         *)
(* A definition named Bad... is a faulty variant that no action uses.      *)
(***************************************************************************)
EXTENDS Integers, Sequences, FiniteSets, FiniteSetsExt

CONSTANTS
  Transfers,  \* the session: a sequence of [op : {"get", "put"}, blocks : Nat]
  MaxServe,   \* how many transfers the server opens for one request, repeated
  Stray       \* packets of earlier transfers to a port that is used again

Op == {"get", "put"}
ASSUME TransfersAssumption == Transfers \in Seq([op : Op, blocks : Nat \ {0}])
ASSUME MaxServeAssumption == MaxServe \in Nat \ {0}

VARIABLES
  k,            \* the transfer the client is in
  pc,           \* where: see Pc
  window,       \* the block expected by a get, the block sent by a put
  buff,         \* buff[i]: the blocks get i has stored
  server_port,  \* server_port[i]: the port transfer i talks to
  why,          \* why the session failed, "none" if it did not
  seen,         \* history: the transfers whose client received a stray packet
  taken,        \* history: ... and took one for the packet it waited for
  net,          \* the packets under way
  serve         \* serve[p]: the transfer behind server port p

clientVars == <<k, pc, window, buff, server_port, why, seen, taken>>
vars == <<clientVars, net, serve>>

Index == DOMAIN Transfers
IsGet(i) == Transfers[i].op = "get"
NumBlocks(i) == Transfers[i].blocks
Block(i, n) == [file |-> i, n |-> n]
File(i) == [n \in 1 .. NumBlocks(i) |-> Block(i, n)]

\* The client port of transfer i is i: get_port draws it from the cycle
\* counter, and two draws of a session are taken to differ.
ServerPort == Index \X (1 .. MaxServe)
NoPort == <<0, 0>>
Closed == [open |-> FALSE, seq |-> 0, got |-> <<>>]

\* Packets to the server's well-known port, to a server port and to the client.
\* file and short describe what a data packet carries: whose block it is, and
\* whether it is shorter than TFTP_CHUNK_SIZE.
Request(i) == [op |-> "request", file |-> i]
TftpPacket(op, dir, p, n) ==
  [op |-> op, dir |-> dir, port |-> p, seq |-> n, file |-> p[1], short |-> n = NumBlocks(p[1])]
ToServer(op, p, n) == TftpPacket(op, "server", p, n)
ToClient(op, p, n) == TftpPacket(op, "client", p, n)
AnyFile == {0} \cup Index
Packet ==
  [op : {"request"}, file : Index]
  \cup [op : {"ack", "data", "error"}, dir : {"server", "client"}, port : ServerPort, seq : Nat,
        file : AnyFile, short : BOOLEAN]

\* A stray packet is any packet to the client, from any server port and with any
\* block number; what it carries is of no file of this session.
ASSUME StrayAssumption ==
  \A m \in Stray : m \in Packet /\ m.op # "request" /\ m.dir = "client" /\ m.file = 0

\* The block a data packet carries.
Payload(m) == Block(m.file, m.seq)

Pc == {"request", "first", "data", "ack", "done", "failed"}
Why == {"none", "error", "opcode", "notfirst", "timeout"}

TypeOK ==
  /\ k \in Index \cup {Len(Transfers) + 1}
  /\ pc \in Pc
  /\ window \in Nat
  /\ buff \in [Index -> Seq([file : AnyFile, n : Nat])]
  /\ server_port \in [Index -> ServerPort \cup {NoPort}]
  /\ why \in Why
  /\ seen \subseteq Index /\ taken \subseteq Index
  /\ net \subseteq Packet
  /\ serve \in [ServerPort -> [open : BOOLEAN, seq : Nat, got : Seq([file : AnyFile, n : Nat])]]

Init ==
  /\ k = 1
  /\ pc = IF Transfers = <<>> THEN "done" ELSE "request"
  /\ window = 0
  /\ buff = [i \in Index |-> <<>>]
  /\ server_port = [i \in Index |-> NoPort]
  /\ why = "none"
  /\ seen = {} /\ taken = {}
  /\ net = Stray
  /\ serve = [p \in ServerPort |-> Closed]

-----------------------------------------------------------------------------
(* The client.  It sends and then listens in one step: what arrives in between *)
(* finds no receiver and is lost.                                            *)

Send(S) == net' = net \cup S

\* A request, repeated until something comes back to the client port.
SendRequest ==
  /\ pc = "request"
  /\ pc' = "first"
  /\ Send({Request(k)})
  /\ UNCHANGED <<k, window, buff, server_port, why, seen, taken, serve>>
RequestTimeout ==
  /\ pc = "first"
  /\ Send({Request(k)})
  /\ UNCHANGED <<clientVars, serve>>

\* The end of a transfer: the session goes on with the next one.
Finish ==
  /\ k' = k + 1
  /\ pc' = IF k = Len(Transfers) THEN "done" ELSE "request"
  /\ window' = 0
Fail(reason) ==
  /\ pc' = "failed" /\ why' = reason
  /\ UNCHANGED <<k, window, taken, net>>

\* History: m came, m was what the client waited for.
Note(m) == seen' = IF m \in Stray THEN seen \cup {k} ELSE seen
Take(m) == taken' = IF m \in Stray THEN taken \cup {k} ELSE taken

\* recv_udp in the loop of a request takes any sender port, afterwards only the
\* one that answered first.
Expected(m) == m.port = server_port[k]

\* tftp_check_resp
Refused(m, op) ==
  \/ m.op = "error" /\ Fail("error")
  \/ m.op \notin {"error", op} /\ Fail("opcode")

\* tftp_get_file: the first block.
GetFirst(m) ==
  /\ pc = "first" /\ IsGet(k)
  /\ m.port[1] = k
  /\ server_port' = [server_port EXCEPT ![k] = m.port]
  /\ \/ Refused(m, "data") /\ UNCHANGED <<buff>>
     \/ m.op = "data" /\ m.seq # 1 /\ Fail("notfirst") /\ UNCHANGED buff
     \/ /\ m.op = "data" /\ m.seq = 1
        /\ Send({ToServer("ack", m.port, m.seq)})
        /\ buff' = [buff EXCEPT ![k] = <<Payload(m)>>]
        /\ IF m.short THEN Finish
           ELSE window' = 2 /\ pc' = "data" /\ UNCHANGED k
        /\ Take(m) /\ UNCHANGED why
  /\ Note(m) /\ UNCHANGED serve

\* ... and the others.  Every block is acknowledged, stored only if it is next.
BadInWindow(m) == m.seq <= window
InWindow(m) == m.seq = window
GetData(m) ==
  /\ pc = "data"
  /\ Expected(m)
  /\ \/ Refused(m, "data") /\ UNCHANGED buff
     \/ /\ m.op = "data"
        /\ Send({ToServer("ack", server_port[k], m.seq)})
        /\ IF InWindow(m)
           THEN /\ buff' = [buff EXCEPT ![k] = Append(@, Payload(m))]
                /\ IF m.short THEN Finish
                   ELSE window' = window + 1 /\ UNCHANGED <<k, pc>>
                /\ Take(m)
           ELSE UNCHANGED <<k, pc, window, buff, taken>>
        /\ UNCHANGED why
  /\ Note(m) /\ UNCHANGED <<server_port, serve>>
GetTimeout ==
  /\ pc = "data"
  /\ Fail("timeout")
  /\ UNCHANGED <<buff, server_port, seen, serve>>

\* tftp_put_file: the acknowledgement of the request, and the first block.
PutFirst(m) ==
  /\ pc = "first" /\ ~ IsGet(k)
  /\ m.port[1] = k
  /\ server_port' = [server_port EXCEPT ![k] = m.port]
  /\ \/ Refused(m, "ack")
     \/ m.op = "ack" /\ m.seq # 0 /\ Fail("notfirst")
     \/ /\ m.op = "ack" /\ m.seq = 0
        /\ Send({ToServer("data", m.port, 1)})
        /\ window' = 1 /\ pc' = "ack"
        /\ Take(m) /\ UNCHANGED <<k, why>>
  /\ Note(m) /\ UNCHANGED <<buff, serve>>

\* ... and the others.  An acknowledgement of another block is passed over.
BadAcked(m) == TRUE
Acked(m) == m.seq = window
PutAck(m) ==
  /\ pc = "ack"
  /\ Expected(m)
  /\ \/ Refused(m, "ack")
     \/ /\ m.op = "ack" /\ Acked(m)
        /\ IF window = NumBlocks(k) THEN Finish /\ UNCHANGED net
           ELSE /\ window' = window + 1
                /\ Send({ToServer("data", server_port[k], window + 1)})
                /\ UNCHANGED <<k, pc>>
        /\ Take(m) /\ UNCHANGED why
     \/ m.op = "ack" /\ ~ Acked(m) /\ UNCHANGED <<k, pc, window, why, taken, net>>
  /\ Note(m) /\ UNCHANGED <<buff, server_port, serve>>
BadPutTimeoutRestart ==
  /\ pc = "ack" /\ pc' = "request"
  /\ UNCHANGED <<k, window, buff, server_port, why, seen, taken, net, serve>>
BadPutTimeoutSilent == pc = "ack" /\ UNCHANGED vars
PutTimeout ==
  /\ pc = "ack"
  /\ Send({ToServer("data", server_port[k], window)})
  /\ UNCHANGED <<clientVars, serve>>

Receive(m) ==
  /\ m \in net /\ m.op # "request" /\ m.dir = "client"
  /\ GetFirst(m) \/ GetData(m) \/ PutFirst(m) \/ PutAck(m)
Timeout == RequestTimeout \/ GetTimeout \/ PutTimeout

-----------------------------------------------------------------------------
(* The server and the network. *)

\* What an open transfer last sent.
Current(p, n) == ToClient(IF IsGet(p[1]) THEN "data" ELSE "ack", p, n)
FirstSeq(p) == IF IsGet(p[1]) THEN 1 ELSE 0

Serve(p) ==
  /\ Request(p[1]) \in net
  /\ ~ serve[p].open
  /\ \/ /\ serve' = [serve EXCEPT ![p] = [open |-> TRUE, seq |-> FirstSeq(p), got |-> <<>>]]
        /\ Send({Current(p, FirstSeq(p))})
     \/ Send({ToClient("error", p, 0)}) /\ UNCHANGED serve
  /\ UNCHANGED clientVars

\* A get goes on with the acknowledgement of the block last sent.
ServeAck(m) ==
  LET p == m.port
  IN  /\ m.op = "ack" /\ serve[p].open
      /\ m.seq = serve[p].seq /\ m.seq <= NumBlocks(p[1])
      /\ serve' = [serve EXCEPT ![p].seq = @ + 1]
      /\ IF m.seq < NumBlocks(p[1]) THEN Send({Current(p, m.seq + 1)}) ELSE UNCHANGED net
\* A put stores the next block; a block it has is acknowledged again.
ServeData(m) ==
  LET p == m.port
  IN  /\ m.op = "data" /\ serve[p].open
      /\ m.seq <= serve[p].seq + 1
      /\ IF m.seq = serve[p].seq + 1
         THEN serve' = [serve EXCEPT ![p] =
                          [open |-> TRUE, seq |-> m.seq, got |-> Append(@.got, Payload(m))]]
         ELSE UNCHANGED serve
      /\ Send({Current(p, m.seq)})
ServerReceive(m) ==
  /\ m \in net /\ m.op # "request" /\ m.dir = "server"
  /\ ServeAck(m) \/ ServeData(m)
  /\ UNCHANGED clientVars
ServerTimeout(p) ==
  /\ serve[p].open
  /\ IsGet(p[1]) => serve[p].seq <= NumBlocks(p[1])
  /\ Send({Current(p, serve[p].seq)})
  /\ UNCHANGED <<clientVars, serve>>

\* Delivery leaves a packet in the network, where it may be delivered again.
Lose(m) ==
  /\ m \in net
  /\ net' = net \ {m}
  /\ UNCHANGED <<clientVars, serve>>

Next ==
  \/ SendRequest \/ Timeout
  \/ \E m \in net : Receive(m) \/ ServerReceive(m)
  \/ \E p \in ServerPort : Serve(p) \/ ServerTimeout(p)
  \/ pc \in {"done", "failed"} /\ UNCHANGED vars

Spec == Init /\ [][Next]_vars

\* Spec with loss as a step.  A packet never delivered is as good as lost, so
\* Spec has the same safety; a packet repeated in vain needs the step.
LossySpec == Init /\ [][Next \/ \E m \in net : Lose(m)]_vars

\* A packet that moves the client on, or repeats what the server is at.
Fresh(m) ==
  clientVars' # clientVars \/ (m.port = server_port[k] /\ m.seq = serve[m.port].seq)

\* Timers fire, the server answers and repeats itself, and of packets under way
\* again and again one is delivered at last.  No fairness of GetTimeout: thirty
\* seconds are longer than the server's own timeout.
Fairness ==
  /\ WF_vars(SendRequest) /\ WF_vars(RequestTimeout) /\ WF_vars(PutTimeout)
  /\ \A p \in ServerPort : WF_vars(ServerTimeout(p))
  /\ SF_vars(\E p \in ServerPort : Serve(p) /\ serve' # serve)
  /\ SF_vars(\E m \in net : Receive(m) /\ Fresh(m))
  /\ SF_vars(\E m \in net : ServerReceive(m) /\ serve' # serve)
FairSpec == LossySpec /\ Fairness

-----------------------------------------------------------------------------
(* Properties. *)

\* A get that returned 0 has every block of the file, in order and once; a put
\* that returned 0 has left every block with the server.  The one exception is a
\* transfer that took a stray packet for its own, and that needs one from the
\* very server port the transfer talks to.
TransfersComplete ==
  \A i \in Index : i < k =>
    IF i \in taken THEN \E m \in Stray : m.port = server_port[i]
    ELSE IF IsGet(i) THEN buff[i] = File(i)
    ELSE serve[server_port[i]].got = File(i)

\* The two ends of a running transfer are never more than a block apart: the
\* server is at the block the client expects or the one before, so an
\* acknowledgement never lets it run ahead of what the client has stored, and
\* the block number of the packet under way tells old from new.  Of a get this
\* ends with the first stray block, which the client acknowledges even if it is
\* not the one it expects; a put is not disturbed by those it passes over.
LockStep ==
  pc \in {"data", "ack"} /\ k \notin (IF IsGet(k) THEN seen ELSE taken) =>
    /\ serve[server_port[k]].open
    /\ serve[server_port[k]].seq \in {window - 1, window}

\* Repeating a request, which opens a second transfer at the server, never makes
\* the session fail: it fails when the server says so or falls silent, or over a
\* stray packet.
FailsForAReason == why \in {"opcode", "notfirst"} => k \in seen

\* The invariant behind these three.  What the client has done so far ...
Prefix(i, n) == [j \in 1 .. n |-> Block(i, j)]
ClientOK ==
  /\ \A i \in Index :
       /\ server_port[i] = NoPort \/ (server_port[i] \in ServerPort /\ server_port[i][1] = i)
       /\ i > k \/ (i = k /\ pc \in {"request", "first"}) =>
            server_port[i] = NoPort /\ buff[i] = <<>> /\ i \notin seen
       /\ i < k /\ ~ IsGet(i) /\ i \notin taken =>
            server_port[i] # NoPort /\ serve[server_port[i]].open
       /\ i \in taken => i \in seen /\ \E m \in Stray : m.port = server_port[i]
  /\ pc # "done" => k \in Index
  /\ pc # "failed" => why = "none"
  /\ pc \in {"request", "first"} => window = 0
  /\ pc \in {"data", "ack"} =>
       /\ server_port[k] # NoPort
       /\ k \notin taken =>
            /\ window <= NumBlocks(k)
            /\ serve[server_port[k]].open /\ serve[server_port[k]].seq >= window - 1
  /\ pc = "data" =>
       /\ IsGet(k) /\ window >= 2
       /\ k \notin taken => buff[k] = Prefix(k, window - 1)
  /\ pc = "ack" => ~ IsGet(k) /\ window >= 1 /\ window <= NumBlocks(k)
  /\ TransfersComplete
\* ... bounds what the server has done: a port the client does not talk to stays
\* at the beginning ...
PortOK(p) ==
  LET i == p[1]
      mine == server_port[i] = p
      s == serve[p]
  IN  /\ ~ s.open => s = Closed
      /\ s.open /\ IsGet(i) =>
           /\ s.seq >= 1
           /\ i \notin seen \/ ~ mine => s.seq <= (IF mine THEN Len(buff[i]) + 1 ELSE 1)
      /\ s.open /\ ~ IsGet(i) =>
           /\ s.seq <= NumBlocks(i) /\ s.got = Prefix(i, s.seq)
           /\ ~ mine => s.seq = 0
           /\ mine /\ i = k => s.seq <= window
ServerOK == \A p \in ServerPort : PortOK(p)
\* ... and both bound the packets under way.
PacketOK(m) ==
  m.op # "request" =>
    LET i == m.port[1]
    IN  /\ m.dir = "server" =>
             /\ server_port[i] = m.port /\ m.file = i
             /\ \/ /\ m.op = "ack" /\ IsGet(i)
                   /\ i \notin seen /\ m.seq <= NumBlocks(i) => m.seq <= Len(buff[i])
                \/ /\ m.op = "data" /\ ~ IsGet(i)
                   /\ 1 <= m.seq /\ m.seq <= NumBlocks(i)
                   /\ i = k => m.seq <= window
        /\ m.dir = "client" /\ m \notin Stray /\ m.op # "error" =>
             /\ m.op = IF IsGet(i) THEN "data" ELSE "ack"
             /\ m.file = i /\ (m.short <=> m.seq = NumBlocks(i))
             /\ serve[m.port].open /\ m.seq <= serve[m.port].seq
             /\ IsGet(i) => 1 <= m.seq /\ m.seq <= NumBlocks(i)
IInv == TypeOK /\ ClientOK /\ ServerOK /\ FailsForAReason /\ \A m \in net : PacketOK(m)

\* The session ends, although every single packet may be lost, as long as the
\* server goes on answering.  (A put has no limit to its retries: a server that
\* forgets the transfer before the last acknowledgement arrives stops it.)
SessionEnds == <>(pc \in {"done", "failed"})
=============================================================================
