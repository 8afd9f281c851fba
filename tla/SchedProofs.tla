---------------------------- MODULE SchedProofs ----------------------------
(***************************************************************************)
(* Theorems about Sched, for every number of tasks, every set of datagrams *)
(* and every set of filters.  The inductive invariant is Sched!IInv; one   *)
(* lemma per action shows that the action keeps it.                        *)
(***************************************************************************)
EXTENDS Sched, TLAPS, FiniteSetTheorems, NaturalsInduction

\* The lowest-numbered task of a non-empty set of tasks is in that set.
LEMMA MinInSet ==
  ASSUME NEW S \in SUBSET Task, S # {}
  PROVE  Min(S) \in S /\ Min(S) \in Task
<1>. DEFINE R == {p \in Nat \X Nat : p[1] < p[2]}
<1>1. S \subseteq Nat
  BY DEF Task
<1>2. IsWellFoundedOn(R, Nat)
  BY NatLessThanWellFounded DEF OpToRel
<1>3. PICK m \in S : \A k \in S : ~ (<<k, m>> \in R)
  BY <1>1, <1>2, WFMin
<1>4. \A k \in S : m =< k
  <2>1. SUFFICES ASSUME NEW k \in S PROVE m =< k
    OBVIOUS
  <2>2. k \in Nat /\ m \in Nat /\ <<k, m>> \notin R
    BY <1>1, <1>3
  <2> QED
    BY <2>2 DEF R
<1> QED
  BY <1>4 DEF Min

\* The idle task is a task.
LEMMA IdleIsTask == Idle \in Task
  BY NumTasksAssumption DEF Idle, Task

\* The set of tasks NumWaitingExact counts is finite.
LEMMA WaitingIsFinite == \A S : S \subseteq Task => IsFiniteSet(S)
<1>1. IsFiniteSet(Task)
  BY NumTasksAssumption, FS_Interval DEF Task
<1> QED
  BY <1>1, FS_Subset

\* Clearing is_waiting of one wait_packet leaves the rest of the array alone.
LEMMA ClearWaiting ==
  ASSUME NEW t \in Task, wp \in [Task -> WaitPacket],
         wp' = [wp EXCEPT ![t].is_waiting = FALSE]
  PROVE  /\ wp' \in [Task -> WaitPacket]
         /\ \A u \in Task :
              /\ wp'[u].due = wp[u].due
              /\ wp'[u].filter = wp[u].filter
              /\ wp'[u].is_waiting = IF u = t THEN FALSE ELSE wp[u].is_waiting
<1>1. wp[t] \in WaitPacket
  OBVIOUS
<1>2. wp' = [wp EXCEPT ![t] = [wp[t] EXCEPT !.is_waiting = FALSE]]
  OBVIOUS
<1>3. [wp[t] EXCEPT !.is_waiting = FALSE] \in WaitPacket
  BY <1>1 DEF WaitPacket
<1>4. wp'[t] = [wp[t] EXCEPT !.is_waiting = FALSE]
  BY <1>2
<1>5. wp'[t].is_waiting = FALSE /\ wp'[t].due = wp[t].due /\ wp'[t].filter = wp[t].filter
  BY <1>1, <1>4 DEF WaitPacket
<1>6. \A u \in Task : u # t => wp'[u] = wp[u]
  BY <1>2
<1> QED
  BY <1>2, <1>3, <1>5, <1>6

-----------------------------------------------------------------------------
(* The invariant holds initially and every step keeps it. *)

LEMMA InitIInv == Init => IInv
<1>. SUFFICES ASSUME Init PROVE IInv
  OBVIOUS
<1>2. TypeOK
  BY IdleIsTask, NumTasksAssumption
  DEF Init, TypeOK, TimerState, Call, WaitPacket, ScanPos, Task, Idle
<1>3. SuspendedOK /\ ReceiveOK /\ RecvBuffersLive /\ ExitedNeverRuns
  BY IdleIsTask DEF Init, SuspendedOK, ReceiveOK, RecvBuffersLive, ExitedNeverRuns
<1>4. NumWaitingExact
  <2>1. {t \in Task : wait[t] # {}} = {}
    BY DEF Init
  <2> QED
    BY <2>1, FS_EmptySet DEF Init, NumWaitingExact
<1> QED
  BY <1>2, <1>3, <1>4 DEF IInv

\* Steps that leave every wait word alone leave the counter exact.
LEMMA CounterKept ==
  ASSUME NumWaitingExact, wait' = wait, num_waiting_task' = num_waiting_task
  PROVE  NumWaitingExact'
  BY DEF NumWaitingExact

LEMMA PollIInv ==
  ASSUME IInv, NEW ready \in BOOLEAN, Poll(ready)
  PROVE  IInv'
<1>. DEFINE w == Waiters(PollOrder[pos])
<1>. USE DEF IInv
<1>1. PollOrder[pos] \in Event
  BY DEF Poll, TypeOK, PollOrder, Event, ScanPos
<1>2. current' = Idle \/ (current' \in Task /\ PollOrder[pos] \in wait[current'])
  <2>1. CASE ready /\ w # {}
    <3>1. w \subseteq Task
      BY DEF Waiters
    <3>2. Min(w) \in w /\ Min(w) \in Task
      BY <2>1, <3>1, MinInSet
    <3> QED
      BY <2>1, <3>2 DEF Poll, Waiters
  <2>2. CASE ~ (ready /\ w # {})
    BY <2>2 DEF Poll
  <2> QED
    BY <2>1, <2>2
<1>3. current' = Idle \/ (current' \in Task /\ call[current'] = "wait" /\ bit[current'] # "exit")
  BY <1>1, <1>2 DEF SuspendedOK, Event
<1>4. TypeOK'
  BY <1>2, IdleIsTask DEF TypeOK, Poll, ScanPos
<1>5. SuspendedOK'
  BY <1>3 DEF Poll, SuspendedOK
<1>6. ReceiveOK'
  BY DEF Poll, ReceiveOK, Match, MatchField
<1>7. RecvBuffersLive'
  BY <1>3 DEF Poll, RecvBuffersLive, SuspendedOK
<1>8. ExitedNeverRuns'
  BY <1>3, IdleIsTask DEF Poll, ExitedNeverRuns, SuspendedOK
<1>9. NumWaitingExact'
  BY CounterKept DEF Poll
<1> QED
  BY <1>4, <1>5, <1>6, <1>7, <1>8, <1>9

LEMMA ScanIInv ==
  ASSUME IInv, Scan
  PROVE  IInv'
<1>. USE DEF IInv
<1>. DEFINE t == rr
<1>0. t \in Task
  BY DEF TypeOK
<1>1. current' = Idle \/ (current' = t /\ t # Idle /\ wait[t] = {} /\ PacketDone(t))
  BY DEF Scan, CanRun
<1>2. wp' = wp \/ (wp' = [wp EXCEPT ![t].is_waiting = FALSE] /\ PacketDone(t))
  BY DEF Scan
<1>a. /\ wp' \in [Task -> WaitPacket]
      /\ \A u \in Task : wp'[u].filter = wp[u].filter /\ wp'[u].due = wp[u].due
      /\ \A u \in Task : \/ wp'[u].is_waiting = wp[u].is_waiting
                         \/ wp'[u].is_waiting = FALSE /\ PacketDone(u)
  <2>1. CASE wp' = wp
    BY <2>1 DEF TypeOK
  <2>2. CASE wp' = [wp EXCEPT ![t].is_waiting = FALSE] /\ PacketDone(t)
    <3>1. wp \in [Task -> WaitPacket]
      BY DEF TypeOK
    <3> QED
      BY <1>0, <2>2, <3>1, ClearWaiting
  <2> QED
    BY <1>2, <2>1, <2>2
<1>3. TypeOK'
  <2>1. rr' \in Task
    BY NumTasksAssumption DEF Scan, TypeOK, NextEntry, Task
  <2>2. wp' \in [Task -> WaitPacket]
    BY <1>a
  <2>3. timer' \in [Task -> TimerState]
    BY <1>0 DEF Scan, TypeOK, TimerState
  <2>4. pos' \in 1 .. ScanPos /\ i' \in 0 .. NumTasks
    BY NumTasksAssumption DEF Scan, TypeOK, ScanPos
  <2> QED
    BY <1>0, <1>1, <2>1, <2>2, <2>3, <2>4, IdleIsTask DEF Scan, TypeOK
<1>4. SuspendedOK'
  <2>1. current = Idle /\ UNCHANGED <<wait, call, bit, held>>
    BY DEF Scan
  <2> QED
    BY <2>1 DEF SuspendedOK
<1>5. ReceiveOK'
  <2>1. UNCHANGED <<out, call>>
    BY DEF Scan
  <2> QED
    BY <1>a, <2>1 DEF TypeOK, ReceiveOK, PacketDone, Match
<1>6. RecvBuffersLive'
  <2>1. SUFFICES ASSUME NEW u \in Task, wp'[u].is_waiting
                 PROVE  call'[u] = "recv" /\ current' # u
    BY DEF RecvBuffersLive
  <2>2. wp[u].is_waiting
    BY <1>a, <2>1
  <2>3. call[u] = "recv"
    BY <2>2 DEF RecvBuffersLive
  <2>4. CASE current' = Idle
    BY <2>3, <2>4 DEF Scan, SuspendedOK
  <2>5. CASE current' # Idle
    <3>1. CanRun(t) /\ current' = t
      BY <2>5 DEF Scan
    <3>2. wp' = [wp EXCEPT ![t].is_waiting = FALSE]
      BY <3>1 DEF Scan, CanRun
    <3>3. u # t
      BY <1>0, <2>1, <3>2, ClearWaiting DEF TypeOK
    <3> QED
      BY <2>3, <3>1, <3>3 DEF Scan
  <2> QED
    BY <2>4, <2>5
<1>7. ExitedNeverRuns'
  BY <1>1, IdleIsTask DEF Scan, ExitedNeverRuns, SuspendedOK
<1>8. NumWaitingExact'
  BY CounterKept DEF Scan
<1> QED
  BY <1>3, <1>4, <1>5, <1>6, <1>7, <1>8

LEMMA ScanEndIInv ==
  ASSUME IInv, ScanEnd
  PROVE  IInv'
<1>. USE DEF IInv
<1>1. TypeOK'
  BY NumTasksAssumption DEF ScanEnd, TypeOK, ScanPos
<1>2. SuspendedOK' /\ ReceiveOK' /\ RecvBuffersLive' /\ ExitedNeverRuns'
  BY DEF ScanEnd, SuspendedOK, ReceiveOK, RecvBuffersLive, ExitedNeverRuns, Match, MatchField
<1>3. NumWaitingExact'
  BY CounterKept DEF ScanEnd
<1> QED
  BY <1>1, <1>2, <1>3

\* The steps of the running task that enter wait() and leave it again keep the
\* counter exact: the task is not counted before, and no longer after.
LEMMA WaitIInv ==
  ASSUME IInv, NEW t \in Task, NEW w \in WaitBit, Wait(t, w)
  PROVE  IInv'
<1>. USE DEF IInv
<1>. DEFINE W == {u \in Task : wait[u] # {}}
<1>0. t # Idle /\ current = t /\ call[t] = "run" /\ wait[t] = {}
  BY DEF Wait, Running, SuspendedOK
<1>1. wait' = [wait EXCEPT ![t] = {w}]
  BY <1>0 DEF Wait
<1>2. TypeOK'
  BY <1>1, IdleIsTask DEF Wait, Suspend, idleVars, TypeOK, Call
<1>3. SuspendedOK'
  BY <1>0, <1>1, IdleIsTask DEF Wait, Suspend, SuspendedOK, TypeOK
<1>4. ReceiveOK'
  BY <1>0 DEF Wait, Suspend, ReceiveOK, TypeOK, Match, MatchField
<1>5. RecvBuffersLive'
  BY <1>0, IdleIsTask DEF Wait, Suspend, RecvBuffersLive, TypeOK, SuspendedOK
<1>6. ExitedNeverRuns'
  BY <1>0, <1>1, IdleIsTask DEF Wait, Suspend, ExitedNeverRuns, TypeOK, SuspendedOK
<1>7. NumWaitingExact'
  <2>1. {u \in Task : wait'[u] # {}} = W \cup {t} /\ t \notin W
    BY <1>0, <1>1 DEF TypeOK
  <2>2. IsFiniteSet(W) /\ Cardinality(W) = num_waiting_task
    BY WaitingIsFinite DEF NumWaitingExact
  <2>3. Cardinality(W \cup {t}) = Cardinality(W) + 1
    BY <2>1, <2>2, FS_AddElement
  <2> QED
    BY <2>1, <2>2, <2>3 DEF Wait, NumWaitingExact
<1> QED
  BY <1>2, <1>3, <1>4, <1>5, <1>6, <1>7

LEMMA WaitReturnIInv ==
  ASSUME IInv, NEW t \in Task, WaitReturn(t)
  PROVE  IInv'
<1>. USE DEF IInv
<1>. DEFINE W == {u \in Task : wait[u] # {}}
<1>0. t # Idle /\ current = t /\ call[t] = "wait" /\ wait[t] = {bit[t]}
  BY DEF WaitReturn, SuspendedOK
<1>1. wait' = [wait EXCEPT ![t] = {}]
  BY <1>0 DEF WaitReturn
<1>2. NumWaitingExact' /\ num_waiting_task' \in Nat
  <2>1. {u \in Task : wait'[u] # {}} = W \ {t} /\ t \in W
    BY <1>0, <1>1 DEF TypeOK
  <2>2. IsFiniteSet(W) /\ Cardinality(W) = num_waiting_task
    BY WaitingIsFinite DEF NumWaitingExact
  <2>3. Cardinality(W \ {t}) = Cardinality(W) - 1 /\ IsFiniteSet(W \ {t})
    BY <2>1, <2>2, FS_RemoveElement
  <2>4. Cardinality(W \ {t}) \in Nat
    BY <2>3, FS_CardinalityType
  <2> QED
    BY <2>1, <2>2, <2>3, <2>4 DEF WaitReturn, NumWaitingExact
<1>3. TypeOK'
  BY <1>1, <1>2 DEF WaitReturn, idleVars, TypeOK, Call
<1>4. SuspendedOK'
  BY <1>0, <1>1, IdleIsTask DEF WaitReturn, SuspendedOK, TypeOK
<1>5. ReceiveOK'
  BY <1>0 DEF WaitReturn, ReceiveOK, TypeOK, Match, MatchField
<1>6. RecvBuffersLive'
  BY <1>0 DEF WaitReturn, RecvBuffersLive, TypeOK
<1>7. ExitedNeverRuns'
  BY <1>0, <1>1 DEF WaitReturn, ExitedNeverRuns, TypeOK
<1> QED
  BY <1>2, <1>3, <1>4, <1>5, <1>6, <1>7

LEMMA YieldIInv ==
  ASSUME IInv, NEW t \in Task, SchedYield(t) \/ Sleep(t)
  PROVE  IInv'
<1>. USE DEF IInv
<1>. DEFINE c == call'[t]
<1>0. t # Idle /\ current = t /\ call[t] = "run"
  BY DEF SchedYield, Sleep, Running
<1>1. /\ current' = Idle
      /\ call' = [call EXCEPT ![t] = "yield"] \/ call' = [call EXCEPT ![t] = "sleep"]
      /\ timer' \in [Task -> TimerState]
      /\ UNCHANGED <<wait, num_waiting_task, wp, out, bit, held, pos, rr, i>>
  BY DEF SchedYield, Sleep, Suspend, TypeOK, TimerState, idleVars
<1>2. TypeOK'
  BY <1>1, IdleIsTask DEF TypeOK, Call
<1>3. SuspendedOK'
  BY <1>0, <1>1, IdleIsTask DEF SuspendedOK, TypeOK
<1>4. ReceiveOK'
  BY <1>0, <1>1 DEF ReceiveOK, TypeOK, Match, MatchField
<1>5. RecvBuffersLive'
  BY <1>0, <1>1, IdleIsTask DEF RecvBuffersLive, TypeOK, SuspendedOK
<1>6. ExitedNeverRuns'
  BY <1>0, <1>1, IdleIsTask DEF ExitedNeverRuns, TypeOK, SuspendedOK
<1>7. NumWaitingExact'
  BY <1>1, CounterKept
<1> QED
  BY <1>2, <1>3, <1>4, <1>5, <1>6, <1>7

LEMMA RecvUdpIInv ==
  ASSUME IInv, NEW t \in Task, NEW f \in Filters, RecvUdp(t, f)
  PROVE  IInv'
<1>. USE DEF IInv
<1>0. t # Idle /\ current = t /\ call[t] = "run"
  BY DEF RecvUdp, Running
<1>1. /\ current' = Idle
      /\ call' = [call EXCEPT ![t] = "recv"]
      /\ wp' = [wp EXCEPT ![t] = [is_waiting |-> TRUE, filter |-> f, due |-> FALSE]]
      /\ out' = [out EXCEPT ![t] = NoData]
      /\ UNCHANGED <<wait, num_waiting_task, timer, bit, held, pos, rr, i>>
  BY DEF RecvUdp, Suspend, idleVars
<1>2. TypeOK'
  BY <1>1, IdleIsTask DEF TypeOK, Call, WaitPacket
<1>3. SuspendedOK'
  BY <1>0, <1>1, IdleIsTask DEF SuspendedOK, TypeOK
<1>4. ReceiveOK'
  <2>1. wp'[t].is_waiting /\ out'[t] = NoData
    BY <1>1 DEF TypeOK
  <2>2. \A u \in Task : u # t => wp'[u] = wp[u] /\ out'[u] = out[u] /\ call'[u] = call[u]
    BY <1>1 DEF TypeOK
  <2> QED
    BY <2>1, <2>2 DEF ReceiveOK, Match, MatchField
<1>5. RecvBuffersLive'
  <2>1. \A u \in Task : u # t => wp'[u] = wp[u] /\ call'[u] = call[u]
    BY <1>1 DEF TypeOK
  <2>2. call'[t] = "recv" /\ current' # t
    BY <1>0, <1>1 DEF TypeOK
  <2>3. \A u \in Task : wp[u].is_waiting => u # Idle
    BY DEF RecvBuffersLive, SuspendedOK
  <2> QED
    BY <1>1, <2>1, <2>2, <2>3 DEF RecvBuffersLive
<1>6. ExitedNeverRuns'
  BY <1>0, <1>1, IdleIsTask DEF ExitedNeverRuns, TypeOK, SuspendedOK
<1>7. NumWaitingExact'
  BY <1>1, CounterKept
<1> QED
  BY <1>2, <1>3, <1>4, <1>5, <1>6, <1>7

LEMMA ReturnIInv ==
  ASSUME IInv, NEW t \in Task, Return(t)
  PROVE  IInv'
<1>. USE DEF IInv
<1>0. t # Idle /\ current = t /\ call[t] \in {"new", "yield", "sleep", "recv"}
  BY DEF Return
<1>1. /\ call' = [call EXCEPT ![t] = "run"]
      /\ UNCHANGED <<current, wait, num_waiting_task, timer, wp, out, bit, held, pos, rr, i>>
  BY DEF Return, idleVars
<1>2. TypeOK'
  BY <1>1 DEF TypeOK, Call
<1>3. SuspendedOK'
  BY <1>0, <1>1 DEF SuspendedOK, TypeOK
<1>4. ReceiveOK' /\ RecvBuffersLive' /\ ExitedNeverRuns'
  BY <1>0, <1>1 DEF ReceiveOK, RecvBuffersLive, ExitedNeverRuns, TypeOK, Match, MatchField
<1>5. NumWaitingExact'
  BY <1>1, CounterKept
<1> QED
  BY <1>2, <1>3, <1>4, <1>5

\* A delivery goes to a task that waits for it, and ends that wait.
LEMMA DeliverEffect ==
  ASSUME IInv, NEW d \in Dgrams, Receivers(d) # {}, Deliver(d)
  PROVE  \E r \in Task :
           /\ wp[r].is_waiting /\ Match(wp[r].filter, d)
           /\ out' = [out EXCEPT ![r] = d]
           /\ wp' \in [Task -> WaitPacket]
           /\ \A u \in Task :
                /\ wp'[u].due = wp[u].due
                /\ wp'[u].filter = wp[u].filter
                /\ wp'[u].is_waiting = IF u = r THEN FALSE ELSE wp[u].is_waiting
<1>. DEFINE r == Min(Receivers(d))
<1>1. Receivers(d) \subseteq Task
  BY DEF Receivers
<1>2. r \in Receivers(d) /\ r \in Task
  BY <1>1, MinInSet
<1>3. wp[r].is_waiting /\ Match(wp[r].filter, d)
  BY <1>2 DEF Receivers
<1>4. wp' = [wp EXCEPT ![r].is_waiting = FALSE] /\ out' = [out EXCEPT ![r] = d]
  BY DEF Deliver
<1>5. wp \in [Task -> WaitPacket]
  BY DEF IInv, TypeOK
<1>. HIDE DEF r
<1>6. /\ wp' \in [Task -> WaitPacket]
      /\ \A u \in Task :
           /\ wp'[u].due = wp[u].due
           /\ wp'[u].filter = wp[u].filter
           /\ wp'[u].is_waiting = IF u = r THEN FALSE ELSE wp[u].is_waiting
  BY <1>2, <1>4, <1>5, ClearWaiting
<1> QED
  BY <1>2, <1>3, <1>4, <1>6

\* ... so it keeps what the invariant says of receivers, as long as the step
\* makes nobody enter or, while waiting, leave recv_udp.
LEMMA DeliverIInv ==
  ASSUME IInv, NEW d \in Dgrams, Receivers(d) # {}, Deliver(d), current' = current,
         \A u \in Task : call'[u] = "recv" <=> call[u] = "recv"
  PROVE  /\ wp' \in [Task -> WaitPacket]
         /\ out' \in [Task -> Dgrams \cup {NoData}]
         /\ ReceiveOK' /\ RecvBuffersLive'
<1>. USE DEF IInv
<1>1. PICK r \in Task :
           /\ wp[r].is_waiting /\ Match(wp[r].filter, d)
           /\ out' = [out EXCEPT ![r] = d]
           /\ wp' \in [Task -> WaitPacket]
           /\ \A u \in Task :
                /\ wp'[u].due = wp[u].due
                /\ wp'[u].filter = wp[u].filter
                /\ wp'[u].is_waiting = IF u = r THEN FALSE ELSE wp[u].is_waiting
  BY DeliverEffect
<1>2. out' \in [Task -> Dgrams \cup {NoData}]
  BY <1>1 DEF TypeOK
<1>3. d # NoData
  BY NoDataAssumption
<1>4. ReceiveOK'
  <2>1. SUFFICES ASSUME NEW u \in Task, call'[u] = "recv"
                 PROVE  IF wp'[u].is_waiting THEN out'[u] = NoData
                        ELSE IF out'[u] = NoData THEN wp'[u].due
                             ELSE Match(wp'[u].filter, out'[u])
    BY DEF ReceiveOK, Match, MatchField
  <2>2. CASE u = r
    BY <1>1, <1>3, <2>2 DEF TypeOK, Match
  <2>3. CASE u # r
    BY <1>1, <2>1, <2>3 DEF TypeOK, ReceiveOK, Match
  <2> QED
    BY <2>2, <2>3
<1>5. RecvBuffersLive'
  <2>1. SUFFICES ASSUME NEW u \in Task, wp'[u].is_waiting
                 PROVE  call'[u] = "recv" /\ current' # u
    BY DEF RecvBuffersLive
  <2>2. wp[u].is_waiting
    BY <1>1, <2>1
  <2> QED
    BY <2>2 DEF RecvBuffersLive
<1> QED
  BY <1>1, <1>2, <1>4, <1>5

LEMMA DispatchIInv ==
  ASSUME IInv, NEW t \in Task, NEW d \in Dgrams, Dispatch(t, d)
  PROVE  IInv'
<1>. USE DEF IInv
<1>0. t # Idle /\ current = t /\ call[t] = "run"
  BY DEF Dispatch, Running
<1>1. CASE Receivers(d) # {}
  <2>1. Deliver(d) /\ UNCHANGED <<current, call, held, wait, num_waiting_task, timer, bit, pos, rr, i>>
    BY <1>1 DEF Dispatch, idleVars
  <2>2. /\ wp' \in [Task -> WaitPacket]
        /\ out' \in [Task -> Dgrams \cup {NoData}]
        /\ ReceiveOK' /\ RecvBuffersLive'
    BY <1>1, <2>1, DeliverIInv
  <2>3. TypeOK' /\ SuspendedOK' /\ ExitedNeverRuns'
    BY <2>1, <2>2 DEF TypeOK, SuspendedOK, ExitedNeverRuns
  <2>4. NumWaitingExact'
    BY <2>1, CounterKept
  <2> QED
    BY <2>2, <2>3, <2>4
<1>2. CASE Receivers(d) = {}
  <2>1. /\ current' = Idle
        /\ call' = [call EXCEPT ![t] = "dispatch"]
        /\ held' = [held EXCEPT ![t] = d]
        /\ UNCHANGED <<wp, out, wait, num_waiting_task, timer, bit, pos, rr, i>>
    BY <1>2 DEF Dispatch, Suspend, idleVars
  <2>2. TypeOK'
    BY <2>1, IdleIsTask DEF TypeOK, Call
  <2>3. SuspendedOK'
    BY <1>0, <2>1, IdleIsTask DEF SuspendedOK, TypeOK
  <2>4. ReceiveOK'
    BY <1>0, <2>1 DEF ReceiveOK, TypeOK, Match, MatchField
  <2>5. RecvBuffersLive' /\ ExitedNeverRuns'
    BY <1>0, <2>1, IdleIsTask DEF RecvBuffersLive, ExitedNeverRuns, SuspendedOK, TypeOK
  <2>6. NumWaitingExact'
    BY <2>1, CounterKept
  <2> QED
    BY <2>2, <2>3, <2>4, <2>5, <2>6
<1> QED
  BY <1>1, <1>2

LEMMA DispatchReturnIInv ==
  ASSUME IInv, NEW t \in Task, DispatchReturn(t)
  PROVE  IInv'
<1>. USE DEF IInv
<1>0. t # Idle /\ current = t /\ call[t] = "dispatch" /\ held[t] \in Dgrams
  BY DEF DispatchReturn, SuspendedOK
<1>1. /\ call' = [call EXCEPT ![t] = "run"]
      /\ held' = [held EXCEPT ![t] = NoData]
      /\ UNCHANGED <<current, wait, num_waiting_task, timer, bit, pos, rr, i>>
  BY DEF DispatchReturn, idleVars
<1>2. /\ wp' \in [Task -> WaitPacket]
      /\ out' \in [Task -> Dgrams \cup {NoData}]
      /\ ReceiveOK' /\ RecvBuffersLive'
  <2>1. \A u \in Task : call'[u] = "recv" <=> call[u] = "recv"
    BY <1>0, <1>1 DEF TypeOK
  <2>2. CASE Receivers(held[t]) # {}
    BY <1>0, <1>1, <2>1, <2>2, DeliverIInv DEF DispatchReturn
  <2>3. CASE Receivers(held[t]) = {}
    <3>1. UNCHANGED <<wp, out>>
      BY <2>3 DEF DispatchReturn
    <3> QED
      BY <1>1, <2>1, <3>1 DEF TypeOK, ReceiveOK, RecvBuffersLive, Match, MatchField
  <2> QED
    BY <2>2, <2>3
<1>3. TypeOK'
  BY <1>1, <1>2 DEF TypeOK, Call
<1>4. SuspendedOK' /\ ExitedNeverRuns'
  BY <1>0, <1>1 DEF SuspendedOK, ExitedNeverRuns, TypeOK
<1>5. NumWaitingExact'
  BY <1>1, CounterKept
<1> QED
  BY <1>2, <1>3, <1>4, <1>5

LEMMA ElapseIInv ==
  ASSUME IInv, NEW t \in Task, Elapse(t)
  PROVE  IInv'
<1>. USE DEF IInv
<1>1. CASE ElapseTimer(t)
  BY <1>1, CounterKept
  DEF ElapseTimer, idleVars, TypeOK, TimerState, SuspendedOK, ReceiveOK, RecvBuffersLive,
      ExitedNeverRuns, Match, MatchField
<1>2. CASE ElapseUdp(t)
  <2>1. /\ wp' = [wp EXCEPT ![t].due = TRUE]
        /\ UNCHANGED <<current, wait, num_waiting_task, timer, out, call, bit, held, pos, rr, i>>
    BY <1>2 DEF ElapseUdp, idleVars
  <2>2. /\ wp' \in [Task -> WaitPacket]
        /\ \A u \in Task : /\ wp'[u].is_waiting = wp[u].is_waiting
                           /\ wp'[u].filter = wp[u].filter
                           /\ wp[u].due => wp'[u].due
    BY <2>1, ZenonT(40) DEF TypeOK, WaitPacket
  <2>3. TypeOK' /\ SuspendedOK' /\ RecvBuffersLive' /\ ExitedNeverRuns'
    BY <2>1, <2>2 DEF TypeOK, SuspendedOK, RecvBuffersLive, ExitedNeverRuns
  <2>4. ReceiveOK'
    BY <2>1, <2>2 DEF ReceiveOK, Match
  <2>5. NumWaitingExact'
    BY <2>1, CounterKept
  <2> QED
    BY <2>3, <2>4, <2>5
<1> QED
  BY <1>1, <1>2 DEF Elapse

LEMMA StutterIInv ==
  ASSUME IInv, UNCHANGED vars
  PROVE  IInv'
  BY CounterKept
  DEF IInv, vars, TypeOK, SuspendedOK, ReceiveOK, RecvBuffersLive, ExitedNeverRuns, Match, MatchField

LEMMA NextIInv ==
  ASSUME IInv, [Next]_vars
  PROVE  IInv'
<1>1. CASE IdleStep
  BY <1>1, PollIInv, ScanIInv, ScanEndIInv DEF IdleStep
<1>2. ASSUME NEW t \in Task, TaskStep(t)
      PROVE  IInv'
  BY <1>2, WaitIInv, WaitReturnIInv, YieldIInv, RecvUdpIInv, ReturnIInv, DispatchIInv,
     DispatchReturnIInv DEF TaskStep
<1>3. ASSUME NEW t \in Task, Elapse(t)
      PROVE  IInv'
  BY <1>3, ElapseIInv
<1>4. CASE UNCHANGED vars
  BY <1>4, StutterIInv
<1> QED
  BY <1>1, <1>2, <1>3, <1>4 DEF Next

\* IInv is an invariant of the scheduler, whatever the tasks do.
THEOREM Invariance == Spec => []IInv
<1>1. Init => IInv
  BY InitIInv
<1>2. IInv /\ [Next]_vars => IInv'
  BY NextIInv
<1> QED
  BY <1>1, <1>2, PTL DEF Spec

-----------------------------------------------------------------------------
(* The properties the runs check on small instances. *)

\* Every variable keeps its type.
THEOREM TypeCorrect == Spec => []TypeOK
<1>1. IInv => TypeOK
  BY DEF IInv
<1> QED
  BY <1>1, Invariance, PTL

\* num_waiting_task is always the number of tasks with a non-empty wait word.
THEOREM CounterExact == Spec => []NumWaitingExact
<1>1. IInv => NumWaitingExact
  BY DEF IInv
<1> QED
  BY <1>1, Invariance, PTL

\* task_dispatch_udp never writes through the pointers of a frame that is gone.
THEOREM ReceiveBuffersLive == Spec => []RecvBuffersLive
<1>1. IInv => RecvBuffersLive
  BY DEF IInv
<1> QED
  BY <1>1, Invariance, PTL

\* A task that has called exit() never gets control again.
THEOREM ExitIsFinal == Spec => []ExitedNeverRuns
<1>1. IInv => ExitedNeverRuns
  BY DEF IInv
<1> QED
  BY <1>1, Invariance, PTL

\* recv_udp reports a datagram that its filter admits, or nothing after the
\* deadline.
THEOREM ReceiveReportsRight == Spec => []RecvOutcome
<1>1. IInv => RecvOutcome
  BY DEF IInv, ReceiveOK, RecvBuffersLive, RecvOutcome
<1> QED
  BY <1>1, Invariance, PTL

\* A task inside wait(w) gets control from the poll of w and from nothing else.
THEOREM WokenByOwnEvent == Spec => WokenOnlyByOwnEvent
<1>. DEFINE A == \A t \in Task : call[t] = "wait" /\ current # t /\ current' = t
                   => pos < ScanPos /\ PollOrder[pos] = bit[t]
<1>1. IInv /\ [Next]_vars => [A]_vars
  <2>. SUFFICES ASSUME IInv, Next, NEW t \in Task,
                       call[t] = "wait", current # t, current' = t
                PROVE  pos < ScanPos /\ PollOrder[pos] = bit[t]
    OBVIOUS
  <2>1. wait[t] = {bit[t]} /\ t # Idle
    BY DEF IInv, SuspendedOK
  <2>2. ASSUME NEW ready \in BOOLEAN, Poll(ready)
        PROVE  pos < ScanPos /\ PollOrder[pos] = bit[t]
    <3>. DEFINE w == Waiters(PollOrder[pos])
    <3>1. ready /\ w # {} /\ t = Min(w)
      BY <2>1, <2>2 DEF Poll
    <3>2. w \subseteq Task
      BY DEF Waiters
    <3>3. t \in w
      BY <3>1, <3>2, MinInSet
    <3>4. PollOrder[pos] \in wait[t]
      BY <3>3 DEF Waiters
    <3> QED
      BY <2>1, <2>2, <3>4 DEF Poll
  <2>3. ~ Scan
    BY <2>1 DEF Scan, CanRun
  <2>4. ~ ScanEnd
    BY DEF ScanEnd
  <2>5. ASSUME NEW u \in Task, TaskStep(u)
        PROVE  FALSE
    <3>1. current' = Idle \/ current' = current
      BY <2>5 DEF TaskStep, Wait, WaitReturn, SchedYield, Sleep, RecvUdp, Return, Dispatch,
                  DispatchReturn, Suspend
    <3> QED
      BY <2>1, <3>1
  <2>6. ASSUME NEW u \in Task, Elapse(u)
        PROVE  FALSE
    BY <2>6 DEF Elapse, ElapseTimer, ElapseUdp
  <2> QED
    BY <2>2, <2>3, <2>4, <2>5, <2>6 DEF Next, IdleStep
<1>2. [][A]_vars <=> WokenOnlyByOwnEvent
  BY PTL DEF WokenOnlyByOwnEvent
<1> QED
  BY <1>1, <1>2, Invariance, PTL DEF Spec

\* A datagram that recv_udp has not reported yet is not overwritten.
THEOREM DeliveredAtMostOnce == Spec => DeliveredOnce
<1>. DEFINE A == \A t \in Task : out[t] # NoData /\ out'[t] # out[t] => current = t
<1>1. IInv /\ [Next]_vars => [A]_vars
  <2>. SUFFICES ASSUME IInv, Next, NEW t \in Task,
                       out[t] # NoData, out'[t] # out[t], current # t
                PROVE  FALSE
    OBVIOUS
  <2>1. ASSUME NEW d \in Dgrams, Receivers(d) # {}, Deliver(d)
        PROVE  FALSE
    <3>1. PICK r \in Task : wp[r].is_waiting /\ out' = [out EXCEPT ![r] = d]
      BY <2>1, DeliverEffect
    <3>2. r = t
      BY <3>1 DEF IInv, TypeOK
    <3>3. call[t] = "recv" /\ wp[t].is_waiting
      BY <3>1, <3>2 DEF IInv, RecvBuffersLive
    <3> QED
      BY <3>3 DEF IInv, ReceiveOK
  <2>2. ASSUME NEW u \in Task, TaskStep(u)
        PROVE  FALSE
    <3>1. CASE \E f \in Filters : RecvUdp(u, f)
      BY <3>1 DEF RecvUdp, Running, IInv, TypeOK
    <3>2. ASSUME NEW d \in Dgrams, Dispatch(u, d)
          PROVE  FALSE
      BY <2>1, <3>2 DEF Dispatch
    <3>3. CASE DispatchReturn(u)
      <4>1. held[u] \in Dgrams
        BY <3>3 DEF DispatchReturn, IInv, SuspendedOK
      <4> QED
        BY <2>1, <3>3, <4>1 DEF DispatchReturn
    <3> QED
      BY <2>2, <3>1, <3>2, <3>3
      DEF TaskStep, Wait, WaitReturn, SchedYield, Sleep, Return
  <2>3. ASSUME NEW u \in Task, Elapse(u)
        PROVE  FALSE
    BY <2>3 DEF Elapse, ElapseTimer, ElapseUdp
  <2>4. CASE IdleStep
    BY <2>4 DEF IdleStep, Poll, Scan, ScanEnd
  <2> QED
    BY <2>2, <2>3, <2>4 DEF Next
<1>2. [][A]_vars <=> DeliveredOnce
  BY PTL DEF DeliveredOnce
<1> QED
  BY <1>1, <1>2, Invariance, PTL DEF Spec
=============================================================================
