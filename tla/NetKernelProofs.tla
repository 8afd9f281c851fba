-------------------------- MODULE NetKernelProofs --------------------------
(***************************************************************************)
(* Theorems about NetKernel, for every set of datagrams.  The kernel is an *)
(* instance of the scheduler, so the invariant of Sched holds of it; with  *)
(* it NetInv is inductive, one lemma per action.                           *)
(***************************************************************************)
EXTENDS NetKernel, SchedProofs

\* The entries of the task table.
LEMMA TaskTable ==
  /\ Task = {Idle, IpTask, DhcpTask, JudgeTask}
  /\ IpTask \in Task /\ DhcpTask \in Task /\ JudgeTask \in Task /\ Idle \in Task
  /\ Idle # IpTask /\ Idle # DhcpTask /\ Idle # JudgeTask
  /\ IpTask # DhcpTask /\ IpTask # JudgeTask /\ DhcpTask # JudgeTask
  BY TaskTableAssumption DEF Task, Idle, IpTask, DhcpTask, JudgeTask

\* The places where a program is inside recv_udp.
LEMMA ReceivingNodes ==
  /\ RecvNode = {"offer", "lease", "req", "first", "data", "wack", "pack"}
  /\ \A n \in RecvNode : FilterAt[n] \in Filters
<1>1. RecvNode = {"offer", "lease", "req", "first", "data", "wack", "pack"}
  BY DEF RecvNode, FilterAt
<1> QED
  BY <1>1, FiltersAssumption DEF RecvNode

\* The DHCP client stays in its program, and leaves it from "lease" alone.
LEMMA DhcpFollows ==
  ASSUME NEW n \in DhcpNode, NEW o, NEW m \in Followers(n, o)
  PROVE  /\ m \in {"discover", "offer", "request", "lease", "done"}
         /\ m = "done" => n = "lease"
         /\ n = "lease" => m \in {"request", "done"}
  BY DEF Followers, Edges, DhcpEdges, GetEdges, PutEdges, JudgeEdges, DhcpNode

\* So does the judge daemon.
LEMMA JudgeFollows ==
  ASSUME NEW n \in JudgeNode, NEW o, NEW m \in Followers(n, o)
  PROVE  n \notin {"new", "gate"} /\ m \in JudgeNode \ {"new", "gate"}
  BY DEF Followers, Edges, DhcpEdges, GetEdges, PutEdges, JudgeEdges, JudgeNode

-----------------------------------------------------------------------------
(* Every step of the kernel is a step of the scheduler.                      *)

LEMMA StepIsSchedStep ==
  ASSUME [NetNext]_kernelVars
  PROVE  [Next]_vars
<1>1. CASE NetIdle
  <2>1. CASE NetPoll
    <3>1. EventReady(PollOrder[pos]) \in BOOLEAN
      BY DEF EventReady
    <3> QED
      BY <2>1, <3>1 DEF NetPoll, Next, IdleStep
  <2> QED
    BY <1>1, <2>1 DEF NetIdle, Next, IdleStep
<1>2. ASSUME NEW t \in Task, NetReturn(t)
      PROVE  Next
  BY <1>2 DEF NetReturn, Next, TaskStep
<1>3. CASE IpStep
  <2>1. CASE IpArm \/ HandleReply
    BY <2>1, TaskTable DEF IpArm, HandleReply, Next, TaskStep, WaitBit, Event
  <2>2. ASSUME NEW d \in Dgrams, HandleUdp(d)
        PROVE  Next
    BY <2>2, TaskTable DEF HandleUdp, Next, TaskStep
  <2>3. CASE HandleDrop
    BY <2>3 DEF HandleDrop
  <2> QED
    BY <1>3, <2>1, <2>2, <2>3 DEF IpStep
<1>4. ASSUME NEW t \in Task, ClientStep(t)
      PROVE  Next
  <2>1. PICK n \in NextNodes(t) :
          \/ n \in SendNode /\ SendUdp(t)
          \/ n \in RecvNode /\ RecvUdp(t, FilterAt[n])
          \/ n = "gate" /\ SchedYield(t)
          \/ n = "done" /\ Wait(t, "exit")
    BY <1>4 DEF ClientStep
  <2> QED
    BY <2>1, ReceivingNodes DEF SendUdp, Next, TaskStep, WaitBit, Event
<1>5. ASSUME NEW t \in Task, NetElapse(t)
      PROVE  Next
  BY <1>5 DEF NetElapse, Next
<1>6. CASE DeviceStep
  BY <1>6 DEF DeviceStep, RxComplete, TxComplete
<1>7. CASE UNCHANGED kernelVars
  BY <1>7 DEF kernelVars
<1> QED
  BY <1>1, <1>2, <1>3, <1>4, <1>5, <1>6, <1>7 DEF NetNext, NetTaskStep

\* The kernel is written over the scheduler's actions, so it implements Sched by
\* construction; what this is for is that the scheduler's invariant holds of it.
LEMMA Implements == NetSpec => Spec
<1>1. NetInit => Init
  BY DEF NetInit
<1> QED
  BY <1>1, StepIsSchedStep, PTL DEF NetSpec, Spec

-----------------------------------------------------------------------------
(* Facts about a state.                                                      *)

\* Whoever waits for the transmit event, iptask aside, is inside send_udp, and
\* there is only one such task.
LEMMA Exclusive == NetInv => UdpBuffExclusive
<1>. SUFFICES ASSUME NetInv, NEW t \in Task, NEW u \in Task, Sending(t), Sending(u)
              PROVE  t = u
  BY DEF UdpBuffExclusive
<1>1. ASSUME NEW v \in Task, Sending(v)
      PROVE  v \in {DhcpTask, JudgeTask} /\ at[v] \notin {"new", "gate", "done"}
  BY <1>1, TaskTable DEF Sending, SendNode, NetInv, ProgramsOK
<1>2. ~ (Sending(DhcpTask) /\ Sending(JudgeTask))
  BY <1>1, TaskTable DEF NetInv, GateOK, StartupOrder, AddressSettled
<1> QED
  BY <1>1, <1>2

LEMMA OneSender ==
  ASSUME IInv, NetInv, call[IpTask] = "dispatch",
         NEW t \in Waiters("eth_send"), NEW u \in Waiters("eth_send")
  PROVE  t = u
<1>1. ASSUME NEW v \in Waiters("eth_send")
      PROVE  v \in Task /\ Sending(v)
  <2>1. v \in Task /\ call[v] = "wait" /\ bit[v] = "eth_send"
    BY <1>1 DEF Waiters, IInv, SuspendedOK
  <2>2. at[v] \in SendNode \cup {"handle"}
    BY <2>1 DEF NetInv, ProgramsOK
  <2>3. v # IpTask
    BY <2>1
  <2>4. at[v] # "handle"
    BY <2>1, <2>3, TaskTable DEF NetInv, ProgramsOK, DhcpNode, JudgeNode
  <2> QED
    BY <2>1, <2>2, <2>4 DEF Sending
<1> QED
  BY <1>1, Exclusive DEF UdpBuffExclusive

\* Before the address is ready only the DHCP client can be inside recv_udp.
LEMMA EarlyReceivers ==
  IInv /\ ProgramsOK /\ (at[JudgeTask] \notin {"new", "gate"} => ip_ready) /\ ~ ip_ready
    => \A t \in Task \ {DhcpTask} : ~ wp[t].is_waiting
<1>. SUFFICES ASSUME IInv, ProgramsOK, at[JudgeTask] \notin {"new", "gate"} => ip_ready,
                     ~ ip_ready, NEW t \in Task \ {DhcpTask}, wp[t].is_waiting
              PROVE  FALSE
  OBVIOUS
<1>1. at[t] \in RecvNode
  BY DEF IInv, RecvBuffersLive, ProgramsOK
<1>2. at[t] \notin {"new", "arm", "handle", "gate"}
  BY <1>1, ReceivingNodes
<1> QED
  BY <1>2, TaskTable DEF ProgramsOK

\* So nobody else gets a datagram, whatever step is taken.
LEMMA EarlyOut ==
  ASSUME IInv, NetInv, [Next]_vars, ~ ip_ready, NEW t \in Task \ {DhcpTask}
  PROVE  out'[t] = NoData
<1>1. out[t] = NoData /\ ~ wp[t].is_waiting
  BY DEF NetInv, GateOK, StartupOrder, OnlyDhcpBeforeReady
<1>2. ASSUME NEW d \in Dgrams, Receivers(d) # {}, Deliver(d)
      PROVE  out'[t] = NoData
  <2>1. PICK r \in Task : wp[r].is_waiting /\ out' = [out EXCEPT ![r] = d]
    BY <1>2, DeliverEffect
  <2> QED
    BY <1>1, <2>1 DEF IInv, TypeOK
<1>3. ASSUME NEW u \in Task, TaskStep(u)
      PROVE  out'[t] = NoData
  <2>1. CASE \E f \in Filters : RecvUdp(u, f)
    BY <1>1, <2>1 DEF RecvUdp, IInv, TypeOK
  <2>2. ASSUME NEW d \in Dgrams, Dispatch(u, d)
        PROVE  out'[t] = NoData
    BY <1>1, <1>2, <2>2 DEF Dispatch
  <2>3. CASE DispatchReturn(u)
    <3>1. held[u] \in Dgrams
      BY <2>3 DEF DispatchReturn, IInv, SuspendedOK
    <3> QED
      BY <1>1, <1>2, <2>3, <3>1 DEF DispatchReturn
  <2> QED
    BY <1>1, <1>3, <2>1, <2>2, <2>3 DEF TaskStep, Wait, WaitReturn, SchedYield, Sleep, Return
<1>4. ASSUME NEW u \in Task, Elapse(u)
      PROVE  out'[t] = NoData
  BY <1>1, <1>4 DEF Elapse, ElapseTimer, ElapseUdp
<1>5. CASE IdleStep
  BY <1>1, <1>5 DEF IdleStep, Poll, Scan, ScanEnd
<1>6. CASE UNCHANGED vars
  BY <1>1, <1>6 DEF vars
<1> QED
  BY <1>3, <1>4, <1>5, <1>6 DEF Next

-----------------------------------------------------------------------------
(* Conjuncts of NetInv that many steps keep for the same reason.             *)

\* A step that leaves the programs where they are, and returns to none but the
\* task in control.
LEMMA ProgramsKept ==
  ASSUME IInv, NetInv, at' = at,
         \A t \in Task : \/ call'[t] = call[t] /\ bit'[t] = bit[t]
                         \/ call'[t] = "run" /\ t = current
  PROVE  ProgramsOK'
<1>1. ASSUME NEW t \in Task, at[t] = "done"
      PROVE  t # current
  <2>1. call[t] = "wait" /\ bit[t] = "exit"
    BY <1>1 DEF NetInv, ProgramsOK
  <2> QED
    BY <2>1 DEF IInv, SuspendedOK, ExitedNeverRuns
<1> QED
  BY <1>1 DEF NetInv, ProgramsOK

\* What is left to be shown of the gate, whatever the step.
LEMMA GateSettled ==
  ASSUME IInv, IInv', NetInv, [Next]_vars, ProgramsOK', ip_ready => ip_ready',
         ip_ready' <=> at'[DhcpTask] = "done",
         at'[JudgeTask] \notin {"new", "gate"} => ip_ready' /\ has_ipv4'
  PROVE  GateOK'
<1>1. AddressSettled'
  BY TaskTable DEF AddressSettled, ProgramsOK
<1>2. OnlyDhcpBeforeReady'
  <2>1. ASSUME ~ ip_ready'
        PROVE  \A t \in Task \ {DhcpTask} : ~ wp'[t].is_waiting
    <3>1. (IInv /\ ProgramsOK /\ (at[JudgeTask] \notin {"new", "gate"} => ip_ready) /\ ~ ip_ready
             => \A t \in Task \ {DhcpTask} : ~ wp[t].is_waiting)'
      BY EarlyReceivers, PTL
    <3> QED
      BY <2>1, <3>1
  <2>2. ASSUME ~ ip_ready'
        PROVE  \A t \in Task \ {DhcpTask} : out'[t] = NoData
    BY <2>2, EarlyOut
  <2> QED
    BY <2>1, <2>2 DEF OnlyDhcpBeforeReady
<1> QED
  BY <1>1, <1>2 DEF GateOK, StartupOrder

\* A step that moves neither client.
LEMMA GateKept ==
  ASSUME IInv, IInv', NetInv, [Next]_vars, ProgramsOK',
         at'[DhcpTask] = at[DhcpTask], at'[JudgeTask] = at[JudgeTask],
         UNCHANGED <<ip_ready, has_ipv4>>
  PROVE  GateOK'
<1>1. ip_ready' <=> at'[DhcpTask] = "done"
  BY DEF NetInv, GateOK
<1>2. at'[JudgeTask] \notin {"new", "gate"} => ip_ready' /\ has_ipv4'
  BY DEF NetInv, GateOK, StartupOrder, AddressSettled
<1> QED
  BY <1>1, <1>2, GateSettled

-----------------------------------------------------------------------------
(* The idle loop.                                                            *)

\* A poll gives control to a task that waits for its event, when that is ready.
LEMMA PollWakes ==
  ASSUME IInv, NetPoll, current' # Idle
  PROVE  /\ current' \in Waiters(PollOrder[pos]) /\ EventReady(PollOrder[pos])
         /\ call[current'] = "wait" /\ bit[current'] = PollOrder[pos]
<1>. DEFINE w == Waiters(PollOrder[pos])
<1>1. current' = IF EventReady(PollOrder[pos]) /\ w # {} THEN Min(w) ELSE Idle
  BY DEF NetPoll, Poll
<1>2. EventReady(PollOrder[pos]) /\ w # {} /\ current' = Min(w)
  BY <1>1
<1>3. w \subseteq Task
  BY DEF Waiters
<1>4. current' \in w
  BY <1>2, <1>3, MinInSet
<1>5. current' \in Task /\ PollOrder[pos] \in wait[current']
  BY <1>4 DEF Waiters
<1> QED
  BY <1>2, <1>4, <1>5 DEF IInv, SuspendedOK

\* The scan gives control to no task inside wait(w).
LEMMA ScanWakes ==
  ASSUME IInv, Scan \/ ScanEnd, current' # Idle
  PROVE  call[current'] # "wait"
<1>1. current' \in Task /\ wait[current'] = {}
  BY DEF Scan, ScanEnd, CanRun, IInv, TypeOK
<1> QED
  BY <1>1 DEF IInv, SuspendedOK

LEMMA PollNetInv ==
  ASSUME IInv, IInv', NetInv, [Next]_vars, NetPoll
  PROVE  NetInv'
<1>1. /\ current = Idle /\ pos < ScanPos /\ pos' = pos + 1 /\ owed' = owed \ {current'}
      /\ UNCHANGED <<at, rx, tx, ip_ready, has_ipv4, call, bit, wait>>
  BY DEF NetPoll, Poll, KeepOwed
<1>2. pos \in 1 .. 4
  BY <1>1 DEF IInv, TypeOK, ScanPos
<1>3. PollOrder[3] = "eth_recv" /\ PollOrder[4] = "eth_send" /\ PollOrder[1] = "tty_recv" /\ PollOrder[2] = "tty_send"
  BY DEF PollOrder
<1>4. NetTypeOK'
  BY <1>1 DEF NetInv, NetTypeOK
<1>5. ProgramsOK'
  BY <1>1, ProgramsKept
<1>6. GateOK'
  BY <1>1, <1>5, GateKept
<1>7. ASSUME NEW t \in Task, current' = t, t # Idle
      PROVE  /\ call[t] = "wait" /\ bit[t] = "eth_recv" => pos = 3 /\ rx # "armed"
             /\ call[t] = "wait" /\ bit[t] = "eth_send" => pos = 4 /\ tx = {}
             /\ call[t] = "wait"
  BY <1>2, <1>3, <1>7, PollWakes DEF EventReady
<1>8. BuffersOK'
  <2>1. ASSUME "dma_buff" \in tx
        PROVE  /\ rx # "armed" /\ at[IpTask] = "handle" /\ call[IpTask] = "wait"
               /\ current' # IpTask
    <3>1. rx # "armed" /\ at[IpTask] = "handle" /\ call[IpTask] = "wait"
      BY <2>1 DEF NetInv, BuffersOK, BuffersOwned
    <3>2. bit[IpTask] = "eth_send"
      BY <3>1, TaskTable DEF NetInv, ProgramsOK
    <3> QED
      BY <2>1, <3>1, <3>2, <1>7, TaskTable
  <2>2. ASSUME "udp_buff" \in tx
        PROVE  \E t \in Task : Sending(t) /\ current' # t
    <3>1. PICK t \in Task : Sending(t)
      BY <2>2 DEF NetInv, BuffersOK, BuffersOwned
    <3>2. call[t] = "wait" /\ bit[t] = "eth_send" /\ t # Idle
      BY <3>1, TaskTable DEF NetInv, ProgramsOK, Sending, SendNode
    <3> QED
      BY <2>2, <3>1, <3>2, <1>7
  <2>3. ASSUME rx = "armed"
        PROVE  call[IpTask] = "wait" /\ bit[IpTask] = "eth_recv" /\ current' # IpTask
    <3>1. call[IpTask] = "wait" /\ bit[IpTask] = "eth_recv"
      BY <2>3 DEF NetInv, BuffersOK, BuffersOwned
    <3> QED
      BY <2>3, <3>1, <1>7, TaskTable
  <2>4. ASSUME current' = IpTask, call[IpTask] = "wait", bit[IpTask] = "eth_recv"
        PROVE  rx = "full"
    <3>1. rx # "armed"
      BY <2>4, <1>7, TaskTable
    <3>2. at[IpTask] # "new"
      BY <2>4, TaskTable DEF NetInv, ProgramsOK, SendNode
    <3> QED
      BY <3>1, <3>2 DEF NetInv, BuffersOK, NetTypeOK
  <2> QED
    BY <1>1, <2>1, <2>2, <2>3, <2>4 DEF NetInv, BuffersOK, BuffersOwned, Sending
<1>9. RetryOK'
  <2>1. ASSUME current' = IpTask, at[IpTask] = "arm"
        PROVE  pos' = 4
    <3>1. call[IpTask] = "wait" /\ bit[IpTask] = "eth_recv"
      BY <2>1, <1>7, TaskTable DEF NetInv, ProgramsOK
    <3> QED
      BY <2>1, <3>1, <1>1, <1>7, TaskTable
  <2>2. ASSUME owed # {}
        PROVE  owed' = {}
    <3>1. pos = 4 /\ tx = {} /\ call[IpTask] = "dispatch" /\ owed \subseteq Waiters("eth_send")
      BY <2>2 DEF NetInv, RetryOK
    <3>2. current' = Min(Waiters("eth_send")) /\ Waiters("eth_send") # {}
      BY <2>2, <3>1, <1>3 DEF NetPoll, Poll, EventReady
    <3>3. Min(Waiters("eth_send")) \in Waiters("eth_send")
      <4>1. Waiters("eth_send") \subseteq Task
        BY DEF Waiters
      <4> QED
        BY <3>2, <4>1, MinInSet
    <3>4. Waiters("eth_send") = {current'}
      BY <3>1, <3>2, <3>3, OneSender
    <3> QED
      BY <1>1, <3>1, <3>4
  <2>3. owed = {} => owed' = {}
    BY <1>1
  <2> QED
    BY <1>1, <2>1, <2>2, <2>3 DEF RetryOK
<1> QED
  BY <1>4, <1>5, <1>6, <1>8, <1>9 DEF NetInv

LEMMA ScanNetInv ==
  ASSUME IInv, IInv', NetInv, [Next]_vars, NetIdle, ~ NetPoll
  PROVE  NetInv'
<1>1. /\ current = Idle /\ pos = ScanPos /\ owed' = owed \ {current'} /\ (Scan \/ ScanEnd)
      /\ UNCHANGED <<at, rx, tx, ip_ready, has_ipv4, call, bit, wait>>
  BY DEF NetIdle, Scan, ScanEnd, KeepOwed
<1>2. NetTypeOK'
  BY <1>1 DEF NetInv, NetTypeOK
<1>3. ProgramsOK'
  BY <1>1, ProgramsKept
<1>4. GateOK'
  BY <1>1, <1>3, GateKept
<1>5. ASSUME NEW t \in Task, current' = t, t # Idle
      PROVE  call[t] # "wait"
  BY <1>1, <1>5, ScanWakes
<1>6. BuffersOK'
  <2>1. "udp_buff" \in tx => \E t \in Task : Sending(t) /\ current' # t
    <3>. SUFFICES ASSUME "udp_buff" \in tx
                  PROVE  \E t \in Task : Sending(t) /\ current' # t
      OBVIOUS
    <3>1. PICK t \in Task : Sending(t)
      BY DEF NetInv, BuffersOK, BuffersOwned
    <3>2. call[t] = "wait" /\ t # Idle
      BY <3>1, TaskTable DEF NetInv, ProgramsOK, Sending, SendNode
    <3> QED
      BY <3>1, <3>2, <1>5
  <2>2. call[IpTask] = "wait" => current' # IpTask
    BY <1>5, TaskTable
  <2> QED
    BY <1>1, <2>1, <2>2 DEF NetInv, BuffersOK, BuffersOwned, Sending
<1>7. RetryOK'
  <2>1. owed = {} /\ owed' = {}
    BY <1>1 DEF NetInv, RetryOK, ScanPos
  <2>2. ~ (current' = IpTask /\ at[IpTask] = "arm")
    <3>. SUFFICES ASSUME current' = IpTask, at[IpTask] = "arm"
                  PROVE  FALSE
      OBVIOUS
    <3>1. call[IpTask] = "run"
      BY <1>5, TaskTable DEF NetInv, ProgramsOK
    <3> QED
      BY <1>1, <3>1, TaskTable DEF IInv, SuspendedOK
  <2> QED
    BY <1>1, <2>1, <2>2 DEF RetryOK
<1> QED
  BY <1>2, <1>3, <1>4, <1>6, <1>7 DEF NetInv

-----------------------------------------------------------------------------
(* Returns, deadlines and devices.                                           *)

LEMMA ReturnNetInv ==
  ASSUME IInv, IInv', NetInv, [Next]_vars, NEW t \in Task, NetReturn(t)
  PROVE  NetInv'
<1>1. /\ current = t /\ current' = t /\ t # Idle /\ pos' = pos /\ owed' = owed \ {t}
      /\ call' = [call EXCEPT ![t] = "run"]
      /\ \A u \in Task : u # t => bit'[u] = bit[u]
      /\ UNCHANGED <<at, rx, tx, ip_ready, has_ipv4>>
  BY DEF NetReturn, Return, WaitReturn, DispatchReturn, KeepOwed, IInv, TypeOK, idleVars
<1>2. \A u \in Task : call'[u] = IF u = t THEN "run" ELSE call[u]
  BY <1>1 DEF IInv, TypeOK
<1>3. NetTypeOK'
  BY <1>1 DEF NetInv, NetTypeOK
<1>4. ProgramsOK'
  BY <1>1, <1>2, ProgramsKept
<1>5. GateOK'
  BY <1>1, <1>4, GateKept
<1>6. BuffersOK'
  <2>1. "udp_buff" \in tx => \E u \in Task : Sending(u) /\ current # u
    BY DEF NetInv, BuffersOK, BuffersOwned
  <2>2. ("udp_buff" \in tx => \E u \in Task : Sending(u) /\ current # u)'
    BY <1>1, <1>2, <2>1 DEF Sending
  <2> QED
    BY <1>1, <1>2, <2>2, TaskTable DEF NetInv, BuffersOK, BuffersOwned
<1>7. RetryOK'
  BY <1>1 DEF NetInv, RetryOK
<1> QED
  BY <1>3, <1>4, <1>5, <1>6, <1>7 DEF NetInv

LEMMA ElapseNetInv ==
  ASSUME IInv, IInv', NetInv, [Next]_vars, NEW t \in Task, NetElapse(t)
  PROVE  NetInv'
<1>1. UNCHANGED <<current, call, bit, wait, pos, at, rx, tx, ip_ready, has_ipv4, owed>>
  BY DEF NetElapse, netVars, Elapse, ElapseTimer, ElapseUdp, idleVars
<1>2. ProgramsOK'
  BY <1>1, ProgramsKept
<1>3. GateOK'
  BY <1>1, <1>2, GateKept
<1> QED
  BY <1>1, <1>2, <1>3
  DEF NetInv, NetTypeOK, BuffersOK, BuffersOwned, RetryOK, Sending, Waiters

LEMMA DeviceNetInv ==
  ASSUME IInv, IInv', NetInv, [Next]_vars, DeviceStep
  PROVE  NetInv'
<1>1. UNCHANGED <<vars, at, ip_ready, has_ipv4, owed>>
  BY DEF DeviceStep, RxComplete, TxComplete
<1>2. UNCHANGED <<current, call, bit, wait, pos>>
  BY <1>1 DEF vars
<1>3. ProgramsOK'
  BY <1>1, <1>2, ProgramsKept
<1>4. GateOK'
  BY <1>1, <1>3, GateKept
<1>5. CASE RxComplete
  <2>1. rx = "armed" /\ rx' = "full" /\ tx' = tx
    BY <1>5 DEF RxComplete
  <2> QED
    BY <1>1, <1>2, <1>3, <1>4, <2>1
    DEF NetInv, NetTypeOK, BuffersOK, BuffersOwned, RetryOK, Sending, Waiters
<1>6. ASSUME NEW b \in Buffer, TxComplete(b)
      PROVE  NetInv'
  <2>1. b \in tx /\ tx' = tx \ {b} /\ rx' = rx
    BY <1>6 DEF TxComplete
  <2> QED
    BY <1>1, <1>2, <1>3, <1>4, <2>1
    DEF NetInv, NetTypeOK, BuffersOK, BuffersOwned, RetryOK, Sending, Waiters
<1> QED
  BY <1>5, <1>6 DEF DeviceStep

-----------------------------------------------------------------------------
(* iptask.                                                                   *)

\* While iptask runs no buffer of its is with the engine, and no sender is owed
\* the processor.
LEMMA IpRunning ==
  ASSUME IInv, NetInv, Running(IpTask)
  PROVE  /\ current = IpTask /\ call[IpTask] = "run" /\ "dma_buff" \notin tx
         /\ rx # "armed" /\ owed = {}
         /\ "udp_buff" \in tx => \E t \in Task : Sending(t) /\ t # IpTask /\ t # Idle
<1>1. current = IpTask /\ call[IpTask] = "run" /\ IpTask # Idle
  BY DEF Running
<1>2. ASSUME "udp_buff" \in tx
      PROVE  \E t \in Task : Sending(t) /\ t # IpTask /\ t # Idle
  <2>1. PICK t \in Task : Sending(t) /\ current # t
    BY <1>2 DEF NetInv, BuffersOK, BuffersOwned
  <2> QED
    BY <1>1, <2>1, TaskTable DEF NetInv, ProgramsOK, Sending, SendNode
<1> QED
  BY <1>1, <1>2 DEF NetInv, BuffersOK, BuffersOwned, RetryOK

\* What a step of iptask leaves to be shown of the programs and the gate.
LEMMA IpProgram ==
  ASSUME IInv, IInv', NetInv, [Next]_vars, Running(IpTask),
         NEW n \in {"arm", "handle"}, at' = [at EXCEPT ![IpTask] = n],
         \A t \in Task \ {IpTask} : call'[t] = call[t] /\ bit'[t] = bit[t],
         \/ call'[IpTask] = "run"
         \/ call'[IpTask] = "dispatch" /\ n = "handle"
         \/ call'[IpTask] = "wait" /\ bit'[IpTask] = (IF n = "arm" THEN "eth_recv" ELSE "eth_send"),
         UNCHANGED <<ip_ready, has_ipv4>>
  PROVE  ProgramsOK' /\ GateOK' /\ at' \in [Task -> Node]
<1>1. /\ at \in [Task -> Node] /\ at' \in [Task -> Node] /\ at'[IpTask] = n
      /\ \A t \in Task \ {IpTask} : at'[t] = at[t]
  BY TaskTable DEF NetInv, NetTypeOK, Node
<1>2. ProgramsOK'
  <2>1. ASSUME NEW t \in Task \ {IpTask}
        PROVE  (/\ call[t] = "recv" => at[t] \in RecvNode
                /\ call[t] = "dispatch" => at[t] = "handle"
                /\ call[t] = "wait" =>
                     /\ at[t] \in SendNode \cup {"arm", "handle", "done"}
                     /\ bit[t] = CASE at[t] = "arm" -> "eth_recv" [] at[t] = "done" -> "exit"
                                   [] OTHER -> "eth_send"
                /\ at[t] = "arm" => call[t] \in {"wait", "run"}
                /\ at[t] = "done" => call[t] = "wait")'
    BY <1>1 DEF NetInv, ProgramsOK
  <2>2. (/\ call[IpTask] = "recv" => at[IpTask] \in RecvNode
         /\ call[IpTask] = "dispatch" => at[IpTask] = "handle"
         /\ call[IpTask] = "wait" =>
              /\ at[IpTask] \in SendNode \cup {"arm", "handle", "done"}
              /\ bit[IpTask] = CASE at[IpTask] = "arm" -> "eth_recv" [] at[IpTask] = "done" -> "exit"
                                 [] OTHER -> "eth_send"
         /\ at[IpTask] = "arm" => call[IpTask] \in {"wait", "run"}
         /\ at[IpTask] = "done" => call[IpTask] = "wait")'
    BY <1>1
  <2> QED
    BY <1>1, <2>1, <2>2, TaskTable DEF NetInv, ProgramsOK
<1>3. GateOK'
  BY <1>1, <1>2, GateKept, TaskTable
<1> QED
  BY <1>1, <1>2, <1>3

LEMMA IpArmNetInv ==
  ASSUME IInv, IInv', NetInv, [Next]_vars, IpArm
  PROVE  NetInv'
<1>1. /\ Running(IpTask) /\ rx' = "armed" /\ at' = [at EXCEPT ![IpTask] = "arm"]
      /\ current' = Idle /\ owed' = owed \ {Idle} /\ tx' = tx
      /\ call' = [call EXCEPT ![IpTask] = "wait"] /\ bit' = [bit EXCEPT ![IpTask] = "eth_recv"]
      /\ UNCHANGED <<ip_ready, has_ipv4>>
  BY DEF IpArm, Wait, Suspend, KeepOwed
<1>2. /\ call'[IpTask] = "wait" /\ bit'[IpTask] = "eth_recv"
      /\ \A t \in Task \ {IpTask} : call'[t] = call[t] /\ bit'[t] = bit[t]
  BY <1>1, TaskTable DEF IInv, TypeOK
<1>3. ProgramsOK' /\ GateOK' /\ at' \in [Task -> Node]
  BY <1>1, <1>2, IpProgram
<1>4. at'[IpTask] = "arm" /\ \A t \in Task \ {IpTask} : at'[t] = at[t]
  BY <1>1, TaskTable DEF NetInv, NetTypeOK
<1>5. NetTypeOK'
  BY <1>1, <1>3 DEF NetInv, NetTypeOK
<1>6. ("udp_buff" \in tx => \E t \in Task : Sending(t) /\ current # t)'
  BY <1>1, <1>2, <1>4, IpRunning, TaskTable DEF Sending
<1>7. BuffersOK'
  BY <1>1, <1>2, <1>4, <1>6, IpRunning, TaskTable DEF BuffersOK, BuffersOwned
<1>8. RetryOK'
  BY <1>1, IpRunning, TaskTable DEF RetryOK
<1> QED
  BY <1>3, <1>5, <1>7, <1>8 DEF NetInv

LEMMA HandleReplyNetInv ==
  ASSUME IInv, IInv', NetInv, [Next]_vars, HandleReply
  PROVE  NetInv'
<1>1. /\ Running(IpTask) /\ at' = [at EXCEPT ![IpTask] = "handle"]
      /\ current' = Idle /\ owed' = owed \ {Idle}
      /\ tx' \in {tx \cup {"dma_buff"}, {"dma_buff"}}
      /\ call' = [call EXCEPT ![IpTask] = "wait"] /\ bit' = [bit EXCEPT ![IpTask] = "eth_send"]
      /\ UNCHANGED <<rx, ip_ready, has_ipv4>>
  BY DEF HandleReply, BeginDmaSend, Wait, Suspend, KeepOwed
<1>2. /\ call'[IpTask] = "wait" /\ bit'[IpTask] = "eth_send"
      /\ \A t \in Task \ {IpTask} : call'[t] = call[t] /\ bit'[t] = bit[t]
  BY <1>1, TaskTable DEF IInv, TypeOK
<1>3. ProgramsOK' /\ GateOK' /\ at' \in [Task -> Node]
  BY <1>1, <1>2, IpProgram
<1>4. at'[IpTask] = "handle" /\ \A t \in Task \ {IpTask} : at'[t] = at[t]
  BY <1>1, TaskTable DEF NetInv, NetTypeOK
<1>5. NetTypeOK'
  BY <1>1, <1>3 DEF NetInv, NetTypeOK, Buffer
<1>6. ("udp_buff" \in tx => \E t \in Task : Sending(t) /\ current # t)'
  BY <1>1, <1>2, <1>4, IpRunning, TaskTable DEF Sending
<1>7. at[IpTask] = "arm"
  BY DEF HandleReply
<1>8. BuffersOK'
  BY <1>1, <1>2, <1>4, <1>6, <1>7, IpRunning, TaskTable DEF NetInv, BuffersOK, BuffersOwned
<1>9. RetryOK'
  BY <1>1, IpRunning, TaskTable DEF RetryOK
<1> QED
  BY <1>3, <1>5, <1>8, <1>9 DEF NetInv

LEMMA HandleUdpNetInv ==
  ASSUME IInv, IInv', NetInv, [Next]_vars, NEW d \in Dgrams, HandleUdp(d)
  PROVE  NetInv'
<1>1. /\ Running(IpTask) /\ at[IpTask] = "arm" /\ at' = [at EXCEPT ![IpTask] = "handle"]
      /\ \/ current' = current /\ call' = call
         \/ current' = Idle /\ call' = [call EXCEPT ![IpTask] = "dispatch"]
      /\ owed' = IF current' = Idle /\ tx = {} THEN Waiters("eth_send") ELSE {}
      /\ UNCHANGED <<rx, tx, ip_ready, has_ipv4, wait, bit, pos>>
  BY DEF HandleUdp, Dispatch, Suspend, idleVars
<1>2. /\ call'[IpTask] \in {"run", "dispatch"}
      /\ current' = Idle => call'[IpTask] = "dispatch"
      /\ \A t \in Task \ {IpTask} : call'[t] = call[t] /\ bit'[t] = bit[t]
  BY <1>1, IpRunning, TaskTable DEF IInv, TypeOK
<1>3. ProgramsOK' /\ GateOK' /\ at' \in [Task -> Node]
  BY <1>1, <1>2, IpProgram
<1>4. at'[IpTask] = "handle" /\ \A t \in Task \ {IpTask} : at'[t] = at[t]
  BY <1>1, TaskTable DEF NetInv, NetTypeOK
<1>5. NetTypeOK'
  BY <1>1, <1>3 DEF NetInv, NetTypeOK, Waiters
<1>6. ("udp_buff" \in tx => \E t \in Task : Sending(t) /\ current # t)'
  BY <1>1, <1>2, <1>4, IpRunning, TaskTable DEF Sending
<1>7. BuffersOK'
  BY <1>1, <1>2, <1>4, <1>6, IpRunning, TaskTable DEF NetInv, BuffersOK, BuffersOwned
<1>8. RetryOK'
  <2>1. pos' = 4
    BY <1>1, IpRunning DEF NetInv, RetryOK
  <2> QED
    BY <1>1, <1>2, <1>4, <2>1 DEF RetryOK, Waiters
<1> QED
  BY <1>3, <1>5, <1>7, <1>8 DEF NetInv

LEMMA HandleDropNetInv ==
  ASSUME IInv, IInv', NetInv, [Next]_vars, HandleDrop
  PROVE  NetInv'
<1>1. /\ Running(IpTask) /\ at[IpTask] = "arm" /\ at' = [at EXCEPT ![IpTask] = "handle"]
      /\ owed' = owed \ {current'}
      /\ UNCHANGED <<rx, tx, ip_ready, has_ipv4, vars>>
  BY DEF HandleDrop, KeepOwed
<1>2. UNCHANGED <<current, call, bit, wait, pos>>
  BY <1>1 DEF vars
<1>3. ProgramsOK' /\ GateOK' /\ at' \in [Task -> Node]
  BY <1>1, <1>2, IpProgram, IpRunning
<1>4. at'[IpTask] = "handle" /\ \A t \in Task \ {IpTask} : at'[t] = at[t]
  BY <1>1, TaskTable DEF NetInv, NetTypeOK
<1>5. NetTypeOK'
  BY <1>1, <1>3 DEF NetInv, NetTypeOK
<1>6. ("udp_buff" \in tx => \E t \in Task : Sending(t) /\ current # t)'
  BY <1>1, <1>2, <1>4, IpRunning, TaskTable DEF Sending
<1>7. BuffersOK'
  BY <1>1, <1>2, <1>4, <1>6, IpRunning, TaskTable DEF NetInv, BuffersOK, BuffersOwned
<1>8. RetryOK'
  BY <1>1, <1>4, IpRunning DEF RetryOK
<1> QED
  BY <1>3, <1>5, <1>7, <1>8 DEF NetInv

-----------------------------------------------------------------------------
(* The clients.                                                              *)

LEMMA ClientNetInv ==
  ASSUME IInv, IInv', NetInv, [Next]_vars, NEW t \in {DhcpTask, JudgeTask}, ClientStep(t)
  PROVE  NetInv'
<1>1. PICK n \in NextNodes(t) :
        /\ \/ n \in SendNode /\ SendUdp(t)
           \/ n \in RecvNode /\ RecvUdp(t, FilterAt[n]) /\ tx' = tx
           \/ n = "gate" /\ SchedYield(t) /\ tx' = tx
           \/ n = "done" /\ Wait(t, "exit") /\ tx' = tx
        /\ at' = [at EXCEPT ![t] = n]
        /\ IF t = DhcpTask THEN Lease(n) ELSE UNCHANGED <<ip_ready, has_ipv4>>
  BY DEF ClientStep
<1>2. /\ t \in Task /\ t # Idle /\ t # IpTask /\ current = t /\ call[t] = "run"
      /\ rx' = rx /\ owed' = owed \ {current'}
  BY TaskTable DEF ClientStep, Running, KeepOwed
<1>3. current' = Idle
  BY <1>1 DEF SendUdp, Wait, RecvUdp, SchedYield, Suspend
<1>4. \/ n \in SendNode /\ call'[t] = "wait" /\ bit'[t] = "eth_send"
      \/ n \in RecvNode /\ call'[t] = "recv" /\ tx' = tx
      \/ n = "gate" /\ call'[t] = "yield" /\ tx' = tx
      \/ n = "done" /\ call'[t] = "wait" /\ bit'[t] = "exit" /\ tx' = tx
  BY <1>1, <1>2 DEF SendUdp, Wait, RecvUdp, SchedYield, Suspend, IInv, TypeOK
<1>5. tx' \in {tx, tx \cup {"udp_buff"}, {"udp_buff"}} /\ (tx' # tx => n \in SendNode)
  BY <1>1 DEF SendUdp, BeginDmaSend
<1>6. \A u \in Task \ {t} : call'[u] = call[u] /\ bit'[u] = bit[u]
  BY <1>1, <1>2 DEF SendUdp, Wait, RecvUdp, SchedYield, Suspend, IInv, TypeOK
<1>7. n \in Node /\ at'[t] = n /\ \A u \in Task \ {t} : at'[u] = at[u]
  <2>1. n \in Node
    BY <1>4 DEF Node
  <2> QED
    BY <1>1, <1>2, <2>1 DEF NetInv, NetTypeOK
<1>8. NetTypeOK'
  <2>1. at' \in [Task -> Node]
    BY <1>1, <1>2, <1>7 DEF NetInv, NetTypeOK
  <2>2. ip_ready' \in BOOLEAN /\ has_ipv4' \in BOOLEAN
    BY <1>1 DEF Lease, NetInv, NetTypeOK
  <2> QED
    BY <1>2, <1>5, <2>1, <2>2 DEF NetInv, NetTypeOK, Buffer
<1>9. at[t] # "done"
  BY <1>2 DEF NetInv, ProgramsOK
\* Where the step leads.
<1>10. ASSUME t = DhcpTask
       PROVE  /\ at'[DhcpTask] \in DhcpNode /\ at'[JudgeTask] \in JudgeNode
              /\ ip_ready => ip_ready'
              /\ ip_ready' <=> at'[DhcpTask] = "done"
              /\ at'[JudgeTask] \notin {"new", "gate"} => ip_ready' /\ has_ipv4'
  <2>1. at[t] \in DhcpNode /\ at[t] # "done" /\ ~ ip_ready
    BY <1>9, <1>10 DEF NetInv, ProgramsOK, GateOK
  <2>2. /\ n \in {"discover", "offer", "request", "lease", "done"}
        /\ n = "done" => at[t] = "lease"
    <3>1. CASE at[t] = "new"
      BY <1>10, <2>1, <3>1, TaskTable DEF NextNodes
    <3>2. CASE at[t] # "new"
      <4>1. n \in Followers(at[t], Outcome(t))
        BY <1>10, <3>2, TaskTable DEF NextNodes
      <4> QED
        BY <2>1, <4>1, DhcpFollows
    <3> QED
      BY <3>1, <3>2
  <2>3. at'[JudgeTask] = at[JudgeTask] /\ at[JudgeTask] \in {"new", "gate"}
    BY <1>7, <1>10, <2>1, TaskTable DEF NetInv, GateOK, StartupOrder, AddressSettled
  <2>4. ip_ready' <=> n = "done"
    BY <1>1, <1>10, <2>1, <2>2 DEF Lease
  <2> QED
    BY <1>7, <1>10, <2>1, <2>2, <2>3, <2>4, TaskTable DEF DhcpNode, NetInv, ProgramsOK
<1>11. ASSUME t = JudgeTask
       PROVE  /\ at'[DhcpTask] \in DhcpNode /\ at'[JudgeTask] \in JudgeNode
              /\ ip_ready => ip_ready'
              /\ ip_ready' <=> at'[DhcpTask] = "done"
              /\ at'[JudgeTask] \notin {"new", "gate"} => ip_ready' /\ has_ipv4'
  <2>1. UNCHANGED <<ip_ready, has_ipv4>> /\ at[t] \in JudgeNode
    BY <1>1, <1>11, TaskTable DEF NetInv, ProgramsOK
  <2>2. CASE at[t] \in {"new", "gate"}
    BY <1>7, <1>11, <2>1, <2>2, TaskTable DEF NextNodes, JudgeGate, JudgeNode, NetInv, ProgramsOK, GateOK
  <2>3. CASE at[t] \notin {"new", "gate"}
    <3>1. n \in Followers(at[t], Outcome(t))
      BY <1>11, <2>3, TaskTable DEF NextNodes
    <3>2. n \in JudgeNode
      BY <2>1, <3>1, JudgeFollows
    <3> QED
      BY <1>7, <1>11, <2>1, <2>3, <3>2, TaskTable
      DEF NetInv, ProgramsOK, GateOK, StartupOrder, AddressSettled
  <2> QED
    BY <2>2, <2>3
<1>12. /\ at'[DhcpTask] \in DhcpNode /\ at'[JudgeTask] \in JudgeNode
       /\ ip_ready => ip_ready'
       /\ ip_ready' <=> at'[DhcpTask] = "done"
       /\ at'[JudgeTask] \notin {"new", "gate"} => ip_ready' /\ has_ipv4'
  BY <1>10, <1>11
<1>13. ProgramsOK'
  <2>1. ASSUME NEW u \in Task \ {t}
        PROVE  (/\ call[u] = "recv" => at[u] \in RecvNode
                /\ call[u] = "dispatch" => at[u] = "handle"
                /\ call[u] = "wait" =>
                     /\ at[u] \in SendNode \cup {"arm", "handle", "done"}
                     /\ bit[u] = CASE at[u] = "arm" -> "eth_recv" [] at[u] = "done" -> "exit"
                                   [] OTHER -> "eth_send"
                /\ at[u] = "arm" => call[u] \in {"wait", "run"}
                /\ at[u] = "done" => call[u] = "wait")'
    BY <1>6, <1>7 DEF NetInv, ProgramsOK
  <2>2. n \in SendNode => n \notin {"arm", "done"}
    BY DEF SendNode
  <2>3. n \in RecvNode => n \notin {"arm", "done"}
    BY ReceivingNodes
  <2>4. (/\ call[t] = "recv" => at[t] \in RecvNode
         /\ call[t] = "dispatch" => at[t] = "handle"
         /\ call[t] = "wait" =>
              /\ at[t] \in SendNode \cup {"arm", "handle", "done"}
              /\ bit[t] = CASE at[t] = "arm" -> "eth_recv" [] at[t] = "done" -> "exit"
                            [] OTHER -> "eth_send"
         /\ at[t] = "arm" => call[t] \in {"wait", "run"}
         /\ at[t] = "done" => call[t] = "wait")'
    BY <1>4, <1>7, <2>2, <2>3
  <2>5. at'[Idle] = "new" /\ at'[IpTask] \in {"new", "arm", "handle"}
    BY <1>2, <1>7, TaskTable DEF NetInv, ProgramsOK
  <2> QED
    BY <1>12, <2>1, <2>4, <2>5 DEF ProgramsOK
<1>14. GateOK'
  BY <1>12, <1>13, GateSettled
<1>15. BuffersOK'
  <2>1. /\ at'[IpTask] = at[IpTask] /\ call'[IpTask] = call[IpTask] /\ bit'[IpTask] = bit[IpTask]
        /\ "dma_buff" \in tx' => "dma_buff" \in tx
    BY <1>2, <1>5, <1>6, <1>7, TaskTable
  <2>2. ("udp_buff" \in tx => \E u \in Task : Sending(u) /\ current # u)'
    <3>1. CASE n \in SendNode
      BY <1>2, <1>3, <1>4, <1>7, <3>1, ReceivingNodes DEF Sending, SendNode
    <3>2. CASE n \notin SendNode /\ "udp_buff" \in tx
      <4>1. PICK u \in Task : Sending(u) /\ current # u
        BY <3>2 DEF NetInv, BuffersOK, BuffersOwned
      <4>2. u # t /\ u # Idle
        BY <1>2, <4>1, TaskTable DEF NetInv, ProgramsOK, Sending, SendNode
      <4> QED
        BY <1>3, <1>6, <1>7, <4>1, <4>2 DEF Sending
    <3> QED
      BY <1>5, <3>1, <3>2
  <2> QED
    BY <1>2, <1>3, <2>1, <2>2, TaskTable DEF NetInv, BuffersOK, BuffersOwned
<1>16. RetryOK'
  BY <1>2, <1>3, TaskTable DEF NetInv, RetryOK
<1> QED
  BY <1>8, <1>13, <1>14, <1>15, <1>16 DEF NetInv

-----------------------------------------------------------------------------
(* The theorems.                                                             *)

LEMMA InitNetInv == NetInit => NetInv
<1>. SUFFICES ASSUME NetInit
              PROVE  NetInv
  OBVIOUS
<1>1. \A t \in Task : at[t] = "new" /\ call[t] \in {"run", "new"} /\ out[t] = NoData /\ ~ wp[t].is_waiting
  BY DEF NetInit, Init
<1>2. /\ at \in [Task -> Node] /\ rx = "off" /\ tx = {} /\ ~ ip_ready /\ ~ has_ipv4 /\ owed = {}
      /\ current = Idle /\ ip_ready \in BOOLEAN /\ has_ipv4 \in BOOLEAN
  BY DEF NetInit, Init, Node
<1>3. NetTypeOK
  BY <1>2 DEF NetTypeOK
<1>4. ProgramsOK
  BY <1>1, TaskTable DEF ProgramsOK, DhcpNode, JudgeNode
<1>5. GateOK
  BY <1>1, <1>2, TaskTable DEF GateOK, StartupOrder, OnlyDhcpBeforeReady, AddressSettled
<1>6. BuffersOK /\ RetryOK
  BY <1>1, <1>2, TaskTable DEF BuffersOK, BuffersOwned, RetryOK
<1> QED
  BY <1>3, <1>4, <1>5, <1>6 DEF NetInv

LEMMA StutterNetInv ==
  ASSUME NetInv, UNCHANGED kernelVars
  PROVE  NetInv'
<1>1. UNCHANGED <<current, call, bit, wait, pos, wp, out, at, rx, tx, ip_ready, has_ipv4, owed>>
  BY DEF kernelVars, netVars, vars
<1> QED
  BY <1>1 DEF NetInv, NetTypeOK, ProgramsOK, GateOK, StartupOrder, OnlyDhcpBeforeReady,
              AddressSettled, BuffersOK, BuffersOwned, RetryOK, Sending, Waiters

LEMMA NextNetInv ==
  ASSUME IInv, NetInv, [NetNext]_kernelVars
  PROVE  NetInv'
<1>1. [Next]_vars /\ IInv'
  BY StepIsSchedStep, NextIInv
<1>2. CASE NetIdle
  BY <1>1, <1>2, PollNetInv, ScanNetInv
<1>3. ASSUME NEW t \in Task, NetReturn(t) \/ NetElapse(t)
      PROVE  NetInv'
  BY <1>1, <1>3, ReturnNetInv, ElapseNetInv
<1>4. CASE IpStep
  BY <1>1, <1>4, IpArmNetInv, HandleReplyNetInv, HandleUdpNetInv, HandleDropNetInv DEF IpStep
<1>5. ASSUME NEW t \in {DhcpTask, JudgeTask}, ClientStep(t)
      PROVE  NetInv'
  BY <1>1, <1>5, ClientNetInv
<1>6. CASE DeviceStep
  BY <1>1, <1>6, DeviceNetInv
<1>7. CASE UNCHANGED kernelVars
  BY <1>7, StutterNetInv
<1> QED
  BY <1>2, <1>3, <1>4, <1>5, <1>6, <1>7 DEF NetNext, NetTaskStep

\* NetInv is an invariant of the kernel, and the scheduler's invariant with it.
THEOREM NetInvariance == NetSpec => [](IInv /\ NetInv)
<1>1. Spec => []IInv
  BY Invariance
<1>2. IInv /\ NetInv /\ [NetNext]_kernelVars => NetInv'
  BY NextNetInv
<1> QED
  BY <1>1, <1>2, Implements, InitNetInv, PTL DEF NetSpec

\* send_udp and its buffer are never in use by two tasks, although there is no
\* lock.
THEOREM OneTaskSends == NetSpec => []UdpBuffExclusive
<1>1. NetInv => UdpBuffExclusive
  BY Exclusive
<1> QED
  BY <1>1, NetInvariance, PTL

\* No task writes a frame the engine reads, nor reads one it still writes.
THEOREM BuffersHaveOwners == NetSpec => []BuffersOwned
<1>1. NetInv => BuffersOwned
  BY DEF NetInv, BuffersOK
<1> QED
  BY <1>1, NetInvariance, PTL

\* Only the DHCP client is served before the address is there, and afterwards
\* it never runs again.
THEOREM StartsInOrder == NetSpec => []StartupOrder
<1>1. NetInv => StartupOrder
  BY DEF NetInv, GateOK
<1> QED
  BY <1>1, NetInvariance, PTL

\* Before the second lookup of task_dispatch_udp every sender whose frame was
\* out has had the processor.
THEOREM RetriesInTime == NetSpec => []RetryAfterSenders
<1>1. NetInv => RetryAfterSenders
  BY TaskTable DEF NetInv, RetryOK, RetryAfterSenders
<1> QED
  BY <1>1, NetInvariance, PTL
=============================================================================
