----------------------------- MODULE NetKernel -----------------------------
(***************************************************************************)
(* The kernel at work: the three tasks main.c creates (iptask, the DHCP    *)
(* client, the judge daemon) as programs over the calls of Sched, with the *)
(* Ethernet DMA engine and the two frame buffers they share.               *)
(*                                                                         *)
(* A program is its control flow: at[t] names the last blocking call of    *)
(* task t, and the ...Edges sets say which call may come next.  What a     *)
(* packet contains is a choice between edges; the TFTP transfers are       *)
(* followed only as far as sends, receives and timeouts go.                *)
(* As in Sched, a definition named Bad... is a faulty variant.             *)
(*                                                                         *)
(* A send_udp ends in one frame on the wire whether or not the MAC address *)
(* is known: ip_send turns the frame into an ARP request in the same       *)
(* buffer when it is not.                                                  *)
(***************************************************************************)
EXTENDS Sched

VARIABLES
  at,        \* at[t]: the blocking call task t made last, "new" before any
  rx,        \* the receive descriptor: "off", "armed" or "full"
  tx,        \* the frame buffers the transmit engine still reads from
  ip_ready,  \* set by the DHCP client when it has its lease
  has_ipv4,  \* ifinfo.ipv4 is not 0.0.0.0
  owed       \* history: the senders a yielding dispatch waits for, see below

netVars == <<at, rx, tx, ip_ready, has_ipv4, owed>>
kernelVars == <<vars, netVars>>

\* The task table, in the order main.c fills it.
IpTask == 1
DhcpTask == 2
JudgeTask == 3
ASSUME TaskTableAssumption == NumTasks = 4

Buffer == {"dma_buff", "udp_buff"}

-----------------------------------------------------------------------------
(* The programs. *)

\* What each recv_udp listens for.  Ports and addresses are names; a transfer
\* uses one client port and one server port ("tid").
FilterAt ==
  [offer |-> [dport |-> "dhcpc", saddr |-> Any, sport |-> "dhcps"],
   lease |-> [dport |-> "dhcpc", saddr |-> "dhcpd", sport |-> "dhcps"],
   req   |-> [dport |-> "judge", saddr |-> Any, sport |-> Any],
   first |-> [dport |-> "tftpc", saddr |-> "server", sport |-> Any],
   data  |-> [dport |-> "tftpc", saddr |-> "server", sport |-> "tid"],
   wack  |-> [dport |-> "tftpc", saddr |-> "server", sport |-> Any],
   pack  |-> [dport |-> "tftpc", saddr |-> "server", sport |-> "tid"]]
ASSUME FiltersAssumption == Filters = {FilterAt[n] : n \in DOMAIN FilterAt}

\* Each program is a set of edges: a call, how it came out, and a call that may
\* come next.  A send is "sent"; a recv_udp brings "data" or "none".
\* dhcp_entry: DISCOVER until an offer, REQUEST until an ACK; anything else
\* that arrives repeats the round.
DhcpEdges ==
  {<<"discover", "sent", "offer">>,
   <<"offer", "none", "discover">>, <<"offer", "data", "discover">>, <<"offer", "data", "request">>,
   <<"request", "sent", "lease">>,
   <<"lease", "none", "request">>, <<"lease", "data", "request">>, <<"lease", "data", "done">>}
\* tftp_get_file: RRQ until an answer, then blocks and their ACKs; a silent
\* server or a bad packet ends the transfer, and with it the session.
GetEdges ==
  {<<"rrq", "sent", "first">>,
   <<"first", "none", "rrq">>, <<"first", "data", "dack">>, <<"first", "data", "result">>,
   <<"dack", "sent", "data">>,
   <<"data", "data", "dack">>, <<"data", "data", "result">>, <<"data", "none", "result">>}
\* tftp_put_file: WRQ until an answer, then each block until its ACK.
PutEdges ==
  {<<"wrq", "sent", "wack">>,
   <<"wack", "none", "wrq">>, <<"wack", "data", "put">>, <<"wack", "data", "result">>,
   <<"put", "sent", "pack">>,
   <<"pack", "none", "put">>, <<"pack", "data", "put">>, <<"pack", "data", "pack">>,
   <<"pack", "data", "result">>}
\* judge_entry and do_judge: acknowledge a request, fetch two files, run the
\* program (no call), upload its output, send the result.
JudgeEdges ==
  {<<"req", "none", "req">>, <<"req", "data", "req">>, <<"req", "data", "ack">>,
   <<"ack", "sent", "rrq">>,
   <<"dack", "sent", "rrq">>, <<"dack", "sent", "wrq">>, <<"dack", "sent", "result">>,
   <<"result", "sent", "req">>}
Edges == DhcpEdges \cup GetEdges \cup PutEdges \cup JudgeEdges

SendNode == {"discover", "request", "ack", "rrq", "dack", "wrq", "put", "result"}
RecvNode == DOMAIN FilterAt
Node == SendNode \cup RecvNode \cup {"new", "arm", "handle", "gate", "done"}

\* How the call of task t came out.
Outcome(t) ==
  IF at[t] \in SendNode THEN "sent" ELSE IF ReturnsZero(t) THEN "none" ELSE "data"
Followers(n, o) == {m \in Node : <<n, o, m>> \in Edges}

\* judge_entry yields until the address is there.
BadJudgeGate == has_ipv4
JudgeGate == ip_ready /\ has_ipv4

\* The calls task t may make next.
NextNodes(t) ==
  CASE at[t] = "new" /\ t = DhcpTask -> IF ip_ready /\ has_ipv4 THEN {"done"} ELSE {"discover"}
    [] at[t] \in {"new", "gate"} /\ t = JudgeTask -> IF JudgeGate THEN {"req"} ELSE {"gate"}
    [] OTHER -> Followers(at[t], Outcome(t))

NetTypeOK ==
  /\ at \in [Task -> Node]
  /\ rx \in {"off", "armed", "full"}
  /\ tx \subseteq Buffer
  /\ ip_ready \in BOOLEAN /\ has_ipv4 \in BOOLEAN
  /\ owed \subseteq Task

NetInit ==
  /\ Init
  /\ at = [t \in Task |-> "new"]
  /\ rx = "off"
  /\ tx = {}
  /\ ip_ready = FALSE /\ has_ipv4 = FALSE
  /\ owed = {}

\* owed forgets a sender once it has control.
KeepOwed == owed' = owed \ {current'}

-----------------------------------------------------------------------------
(* The DMA engine (driver/axiethernet.c). *)

\* One transmit descriptor: a second frame is queued while the first is on its
\* way, or replaces it.
BeginDmaSend(b) == tx' \in {tx \cup {b}, {b}}

\* A frame arrives in the armed buffer; a frame has been sent.
RxComplete ==
  /\ rx = "armed" /\ rx' = "full"
  /\ UNCHANGED <<vars, at, tx, ip_ready, has_ipv4, owed>>
TxComplete(b) ==
  /\ b \in tx /\ tx' = tx \ {b}
  /\ UNCHANGED <<vars, at, rx, ip_ready, has_ipv4, owed>>

\* eth_poll_recv, eth_poll_send; no task ever waits for the terminal.
EventReady(e) ==
  \/ e = "eth_recv" /\ rx # "armed"
  \/ e = "eth_send" /\ tx = {}

-----------------------------------------------------------------------------
(* The idle loop, with the devices it polls. *)

NetPoll ==
  /\ pos < ScanPos
  /\ Poll(EventReady(PollOrder[pos]))
  /\ KeepOwed
  /\ UNCHANGED <<at, rx, tx, ip_ready, has_ipv4>>

NetIdle ==
  \/ NetPoll
  \/ /\ Scan \/ ScanEnd
     /\ KeepOwed
     /\ UNCHANGED <<at, rx, tx, ip_ready, has_ipv4>>

\* The return of whatever call the task was suspended in.
NetReturn(t) ==
  /\ Return(t) \/ WaitReturn(t) \/ DispatchReturn(t)
  /\ KeepOwed
  /\ UNCHANGED <<at, rx, tx, ip_ready, has_ipv4>>

-----------------------------------------------------------------------------
(* iptask: arm the receive descriptor, wait, handle the frame. *)

BadIpArm ==
  /\ Running(IpTask) /\ at[IpTask] \in {"new", "handle"}
  /\ rx' = IF at[IpTask] = "new" THEN "armed" ELSE rx
  /\ Wait(IpTask, "eth_recv")
  /\ at' = [at EXCEPT ![IpTask] = "arm"]
  /\ KeepOwed
  /\ UNCHANGED <<tx, ip_ready, has_ipv4>>
IpArm ==
  /\ Running(IpTask) /\ at[IpTask] \in {"new", "handle"}
  /\ rx' = "armed"
  /\ Wait(IpTask, "eth_recv")
  /\ at' = [at EXCEPT ![IpTask] = "arm"]
  /\ KeepOwed
  /\ UNCHANGED <<tx, ip_ready, has_ipv4>>

BadHandleReply ==
  /\ Running(IpTask) /\ at[IpTask] = "arm"
  /\ BeginDmaSend("dma_buff")
  /\ at' = [at EXCEPT ![IpTask] = "handle"]
  /\ UNCHANGED <<vars, rx, ip_ready, has_ipv4>>
  /\ KeepOwed
\* A neighbour solicitation or an echo request, of either IP version (handle_arp
\* and do_icmpv4_echo end the same way): the answer is written over the frame in
\* dma_buff and sent from there.
HandleReply ==
  /\ Running(IpTask) /\ at[IpTask] = "arm"
  /\ BeginDmaSend("dma_buff")
  /\ Wait(IpTask, "eth_send")
  /\ at' = [at EXCEPT ![IpTask] = "handle"]
  /\ KeepOwed
  /\ UNCHANGED <<rx, ip_ready, has_ipv4>>

\* A UDP datagram, before or after the address is known: task_dispatch_udp.
\* When it yields, owed is the set of senders whose frame is already out.
HandleUdp(d) ==
  /\ Running(IpTask) /\ at[IpTask] = "arm"
  /\ Dispatch(IpTask, d)
  /\ at' = [at EXCEPT ![IpTask] = "handle"]
  /\ owed' = IF current' = Idle /\ tx = {} THEN Waiters("eth_send") ELSE {}
  /\ UNCHANGED <<rx, tx, ip_ready, has_ipv4>>

\* Anything else, a broken frame included, is dropped.
HandleDrop ==
  /\ Running(IpTask) /\ at[IpTask] = "arm"
  /\ at' = [at EXCEPT ![IpTask] = "handle"]
  /\ UNCHANGED <<vars, rx, tx, ip_ready, has_ipv4>>
  /\ KeepOwed

-----------------------------------------------------------------------------
(* The DHCP client and the judge daemon. *)

\* set_ifinfo_ipv4 takes any address of an offer or an ACK, 0.0.0.0 included;
\* set_ip_ready follows the ACK.
BadLease(n) ==
  /\ has_ipv4' \in IF <<at[DhcpTask], n>> = <<"offer", "request">> THEN BOOLEAN ELSE {has_ipv4}
  /\ ip_ready' = (ip_ready \/ <<at[DhcpTask], n>> = <<"offer", "request">>)
Lease(n) ==
  /\ has_ipv4' \in IF <<at[DhcpTask], n>> \in {<<"offer", "request">>, <<"lease", "done">>}
                   THEN BOOLEAN ELSE {has_ipv4}
  /\ ip_ready' = (ip_ready \/ <<at[DhcpTask], n>> = <<"lease", "done">>)

\* send_udp: build the frame in udp_buff, start the engine, wait for it.
BadSendUdp(t) ==
  /\ BeginDmaSend("udp_buff")
  /\ Wait(t, "eth_recv")
SendUdp(t) ==
  /\ BeginDmaSend("udp_buff")
  /\ Wait(t, "eth_send")

ClientStep(t) ==
  /\ Running(t)
  /\ \E n \in NextNodes(t) :
       /\ \/ n \in SendNode /\ SendUdp(t)
          \/ n \in RecvNode /\ RecvUdp(t, FilterAt[n]) /\ tx' = tx
          \/ n = "gate" /\ SchedYield(t) /\ tx' = tx
          \/ n = "done" /\ Wait(t, "exit") /\ tx' = tx
       /\ at' = [at EXCEPT ![t] = n]
       /\ IF t = DhcpTask THEN Lease(n) ELSE UNCHANGED <<ip_ready, has_ipv4>>
  /\ KeepOwed
  /\ UNCHANGED rx

NetElapse(t) == Elapse(t) /\ UNCHANGED netVars

-----------------------------------------------------------------------------

IpStep == IpArm \/ HandleReply \/ (\E d \in Dgrams : HandleUdp(d)) \/ HandleDrop
NetTaskStep(t) ==
  \/ NetReturn(t)
  \/ t = IpTask /\ IpStep
  \/ t \in {DhcpTask, JudgeTask} /\ ClientStep(t)
DeviceStep == RxComplete \/ \E b \in Buffer : TxComplete(b)

NetNext ==
  \/ NetIdle
  \/ \E t \in Task : NetTaskStep(t) \/ NetElapse(t)
  \/ DeviceStep

NetSpec == NetInit /\ [][NetNext]_kernelVars

\* The processor runs, deadlines pass and the engine finishes what it sends;
\* nothing is assumed of the network.
NetFairness ==
  /\ WF_kernelVars(NetIdle)
  /\ \A t \in Task : WF_kernelVars(NetTaskStep(t)) /\ WF_kernelVars(NetElapse(t))
  /\ \A b \in Buffer : WF_kernelVars(TxComplete(b))
NetFairSpec == NetSpec /\ NetFairness

-----------------------------------------------------------------------------
(* Properties. *)

\* Task t is inside send_udp, with its frame in udp_buff.
Sending(t) == at[t] \in SendNode /\ call[t] = "wait"

\* There is one udp_buff and no lock.  Two tasks are never inside send_udp at
\* once, because the judge daemon waits for ip_ready and the DHCP client never
\* sends after it has set that.
UdpBuffExclusive == \A t, u \in Task : Sending(t) /\ Sending(u) => t = u

\* While the engine reads a buffer, the task that filled it is suspended in the
\* send: nobody rewrites the frame, and dma_buff is not armed for reception.
\* While it may write dma_buff, iptask is suspended waiting for the frame; and
\* when iptask wakes, a frame is there.
BuffersOwned ==
  /\ "dma_buff" \in tx =>
       rx # "armed" /\ at[IpTask] = "handle" /\ call[IpTask] = "wait" /\ current # IpTask
  /\ "udp_buff" \in tx => \E t \in Task : Sending(t) /\ current # t
  /\ rx = "armed" => call[IpTask] = "wait" /\ bit[IpTask] = "eth_recv" /\ current # IpTask
  /\ current = IpTask /\ call[IpTask] = "wait" /\ bit[IpTask] = "eth_recv" => rx = "full"

\* Before the address is ready nobody but the DHCP client gets a datagram,
\* although handle_ipv4 lets any UDP datagram pass.
OnlyDhcpBeforeReady ==
  ~ ip_ready => \A t \in Task \ {DhcpTask} : ~ wp[t].is_waiting /\ out[t] = NoData

\* Once the judge daemon has passed its gate the address it sends from is valid
\* and final: the DHCP client has exited.
AddressSettled ==
  at[JudgeTask] \notin {"new", "gate"} =>
    ip_ready /\ has_ipv4 /\ at[DhcpTask] = "done" /\ call[DhcpTask] = "wait"

\* ip_ready parts the two clients of the stack in time.
StartupOrder == OnlyDhcpBeforeReady /\ AddressSettled

\* The yield inside task_dispatch_udp is worth its while: when iptask looks for
\* a receiver the second time, every task whose frame had been sent at the first
\* look has run, and so may have reached its recv_udp.
RetryAfterSenders == current = IpTask /\ call[IpTask] = "dispatch" => owed = {}

\* The invariant behind these four.  Each task stays in its own program, and a
\* suspended task is inside the call its program made last.
DhcpNode == {"new", "discover", "offer", "request", "lease", "done"}
JudgeNode ==
  {"new", "gate", "req", "ack", "rrq", "first", "dack", "data", "wrq", "wack", "put", "pack", "result"}
ProgramsOK ==
  /\ at[Idle] = "new"
  /\ at[IpTask] \in {"new", "arm", "handle"}
  /\ at[DhcpTask] \in DhcpNode
  /\ at[JudgeTask] \in JudgeNode
  /\ \A t \in Task :
       /\ call[t] = "recv" => at[t] \in RecvNode
       /\ call[t] = "dispatch" => at[t] = "handle"
       /\ call[t] = "wait" =>
            /\ at[t] \in SendNode \cup {"arm", "handle", "done"}
            /\ bit[t] = CASE at[t] = "arm" -> "eth_recv" [] at[t] = "done" -> "exit"
                          [] OTHER -> "eth_send"
       /\ at[t] = "arm" => call[t] \in {"wait", "run"}
       /\ at[t] = "done" => call[t] = "wait"
\* ip_ready tells where the DHCP client is.
GateOK ==
  /\ ip_ready <=> at[DhcpTask] = "done"
  /\ StartupOrder
\* The descriptor is off only before iptask has armed it.
BuffersOK ==
  /\ BuffersOwned
  /\ at[IpTask] # "new" => rx # "off"
\* iptask handles a frame between the poll that woke it and the poll of the
\* transmit event, so the first thing after its yield is that poll, and it wakes
\* the one sender there can be.
RetryOK ==
  /\ current = IpTask /\ at[IpTask] = "arm" => pos = 4
  /\ owed # {} =>
       /\ current = Idle /\ pos = 4 /\ tx = {} /\ call[IpTask] = "dispatch"
       /\ owed \subseteq Waiters("eth_send")
NetInv == NetTypeOK /\ ProgramsOK /\ GateOK /\ BuffersOK /\ RetryOK

\* iptask is never held up for good: a received frame is handled and the buffer
\* armed again, whatever the network sends and whatever the others transmit.
ReceiverRearms == rx = "full" ~> rx = "armed"

\* send_udp returns, provided the network falls silent: iptask comes first in
\* the task table, so a steady flow of frames it answers keeps the others from
\* the transmit event.
QuietNetwork == <>[](rx # "full")
SendReturns == QuietNetwork => \A t \in Task : Sending(t) ~> ~ Sending(t)
=============================================================================
