------------------------------- MODULE Sched -------------------------------
(***************************************************************************)
(* The cooperative scheduler of the kernel (src/task.c): the idle loop,    *)
(* which polls the devices and then scans the task table round robin, and  *)
(* the kernel calls a task makes: wait, sched_yield, sleep, exit, recv_udp *)
(* and task_dispatch_udp.  Control moves only by switch_to, so a step of   *)
(* this module is what one context does between two calls.  The programs   *)
(* of the tasks are left open here: a running task may make any call.      *)
(*                                                                         *)
(* Some definitions are preceded by a faulty variant (named Bad...), the   *)
(* form a plausible mistake in the code would give it; no action uses them *)
(* and they only serve to show that a property can fail.                   *)
(*                                                                         *)
(* The module starts where main.c has created every task and calls         *)
(* idle_entry; the task table does not change after that.                  *)
(***************************************************************************)
EXTENDS Integers, Sequences, FiniteSets, FiniteSetsExt

CONSTANTS
  NumTasks,  \* num_task: how many tasks main.c created, the idle task included
  Dgrams,    \* UDP datagrams, records [dport, saddr, sport, empty]
  Filters,   \* what recv_udp may ask for, records [dport, saddr, sport]
  Any,       \* the wildcard of a filter: port 0, address ::
  NoData     \* what recv_udp reports when no datagram came

ASSUME NumTasksAssumption == NumTasks \in Nat \ {0}
ASSUME NoDataAssumption == NoData \notin Dgrams

VARIABLES
  current,           \* the task whose registers are live
  wait,              \* wait[t]: the event bits in the task's wait word
  num_waiting_task,  \* the counter beside the task table
  timer,             \* timer[t]: the sleep timer, see TimerState
  wp,                \* wp[t]: the wait_packet of the task
  out,               \* out[t]: what the last recv_udp of t has got so far
  call,              \* call[t]: the kernel call t is inside, "run" if none
  bit,               \* bit[t]: the event a suspended wait(w) will clear
  held,              \* held[t]: the datagram a suspended dispatch holds
  pos,               \* how far the idle loop is: 1..4 a poll, 5 the scan
  rr,                \* the next entry of the round robin
  i                  \* how many entries this scan has looked at

vars == <<current, wait, num_waiting_task, timer, wp, out, call, bit, held, pos, rr, i>>
taskVars == <<current, wait, num_waiting_task, timer, wp, out, call, bit, held>>
idleVars == <<pos, rr, i>>

Task == 0 .. NumTasks - 1
Idle == 0

\* The events idle_entry polls for, in the order it polls them.
BadPollOrder == <<"tty_recv", "tty_send", "eth_send", "eth_recv">>
PollOrder == <<"tty_recv", "tty_send", "eth_recv", "eth_send">>
Event == {"tty_recv", "tty_send", "eth_recv", "eth_send"}
WaitBit == Event \cup {"exit"}
ScanPos == 5

\* timer_t: "timeout" is timeout = 1, "due" a delta that has passed unnoticed.
TimerState == {"timeout", "armed", "due"}
Call == {"new", "run", "wait", "yield", "sleep", "recv", "dispatch"}
NoEvent == "none"
AnyDgram == [dport |-> Any, saddr |-> Any, sport |-> Any]
WaitPacket == [is_waiting : BOOLEAN, filter : Filters \cup {AnyDgram}, due : BOOLEAN]

TypeOK ==
  /\ current \in Task
  /\ wait \in [Task -> SUBSET WaitBit]
  /\ num_waiting_task \in Nat
  /\ timer \in [Task -> TimerState]
  /\ wp \in [Task -> WaitPacket]
  /\ out \in [Task -> Dgrams \cup {NoData}]
  /\ call \in [Task -> Call]
  /\ bit \in [Task -> WaitBit \cup {NoEvent}]
  /\ held \in [Task -> Dgrams \cup {NoData}]
  /\ pos \in 1 .. ScanPos
  /\ rr \in Task
  /\ i \in 0 .. NumTasks

\* create_task for every task, then idle_entry.  The rest is zeroed memory, and
\* a zeroed filter is all wildcards.
Init ==
  /\ current = Idle
  /\ wait = [t \in Task |-> {}]
  /\ num_waiting_task = 0
  /\ timer = [t \in Task |-> "timeout"]
  /\ wp = [t \in Task |-> [is_waiting |-> FALSE, filter |-> AnyDgram, due |-> FALSE]]
  /\ out = [t \in Task |-> NoData]
  /\ call = [t \in Task |-> IF t = Idle THEN "run" ELSE "new"]
  /\ bit = [t \in Task |-> NoEvent]
  /\ held = [t \in Task |-> NoData]
  /\ pos = 1
  /\ rr = 0
  /\ i = 0

-----------------------------------------------------------------------------
(* The idle loop. *)

BadWaiters(e) == {t \in Task : wait[t] # {}}
Waiters(e) == {t \in Task : e \in wait[t]}

\* One of the four polls: the first task in the table that waits for a ready
\* event gets control, and the loop goes on with the next poll afterwards.
Poll(ready) ==
  /\ current = Idle /\ pos < ScanPos
  /\ pos' = pos + 1
  /\ LET w == Waiters(PollOrder[pos])
     IN  current' = IF ready /\ w # {} THEN Min(w) ELSE Idle
  /\ UNCHANGED <<wait, num_waiting_task, timer, wp, out, call, bit, held, rr, i>>

\* poll_timer, task_poll_udp: has the task nothing left to wait for?
TimerDone(t) == timer[t] # "armed"
BadPacketDoneInverted(t) == ~ wp[t].is_waiting \/ ~ wp[t].due
BadPacketDoneNoDeadline(t) == ~ wp[t].is_waiting
PacketDone(t) == wp[t].is_waiting => wp[t].due

BadCanRunNoPacket(t) == t # Idle /\ wait[t] = {} /\ TimerDone(t)
CanRun(t) == t # Idle /\ wait[t] = {} /\ TimerDone(t) /\ PacketDone(t)

BadNextEntryRestart(u) == IF CanRun(u) THEN 0 ELSE (u + 1) % NumTasks
NextEntry(u) == (u + 1) % NumTasks

\* The scan looks at one entry; it ends at the first task it can run.  Polling
\* the timer of a task that is due marks it "timeout", and polling its packet
\* deadline clears is_waiting, whether or not the other poll holds it back.
Scan ==
  /\ current = Idle /\ pos = ScanPos
  /\ num_waiting_task < NumTasks /\ i < NumTasks
  /\ LET t == rr
         polled == t # Idle /\ wait[t] = {}
     IN  /\ rr' = NextEntry(rr)
         /\ timer' = IF polled /\ timer[t] = "due"
                     THEN [timer EXCEPT ![t] = "timeout"] ELSE timer
         /\ wp' = IF polled /\ TimerDone(t) /\ PacketDone(t)
                  THEN [wp EXCEPT ![t].is_waiting = FALSE] ELSE wp
         /\ IF CanRun(t)
            THEN current' = t /\ pos' = 1 /\ i' = 0
            ELSE current' = Idle /\ pos' = ScanPos /\ i' = i + 1
  /\ UNCHANGED <<wait, num_waiting_task, out, call, bit, held>>

\* Nobody could run, or the counter says that everybody waits.
ScanEnd ==
  /\ current = Idle /\ pos = ScanPos
  /\ num_waiting_task >= NumTasks \/ i = NumTasks
  /\ pos' = 1 /\ i' = 0
  /\ UNCHANGED <<current, wait, num_waiting_task, timer, wp, out, call, bit, held, rr>>

-----------------------------------------------------------------------------
(* Kernel calls of the running task. *)

Running(t) == t # Idle /\ current = t /\ call[t] = "run"

\* sched_yield: every call below that gives up the processor ends in it.
Suspend(t, c) ==
  /\ current' = Idle
  /\ call' = [call EXCEPT ![t] = c]

BadWait(t, w) ==
  /\ Running(t)
  /\ wait' = [wait EXCEPT ![t] = @ \cup {w}]
  /\ num_waiting_task' = IF w = "exit" THEN num_waiting_task ELSE num_waiting_task + 1
  /\ bit' = [bit EXCEPT ![t] = w]
  /\ Suspend(t, "wait")
  /\ UNCHANGED <<timer, wp, out, held, idleVars>>
\* wait(w), and exit() for w = "exit".
Wait(t, w) ==
  /\ Running(t)
  /\ wait' = [wait EXCEPT ![t] = @ \cup {w}]
  /\ num_waiting_task' = num_waiting_task + 1
  /\ bit' = [bit EXCEPT ![t] = w]
  /\ Suspend(t, "wait")
  /\ UNCHANGED <<timer, wp, out, held, idleVars>>

WaitReturn(t) ==
  /\ t # Idle /\ current = t /\ call[t] = "wait"
  /\ num_waiting_task' = num_waiting_task - 1
  /\ wait' = [wait EXCEPT ![t] = @ \ {bit[t]}]
  /\ call' = [call EXCEPT ![t] = "run"]
  /\ bit' = [bit EXCEPT ![t] = NoEvent]
  /\ UNCHANGED <<current, timer, wp, out, held, idleVars>>

SchedYield(t) ==
  /\ Running(t)
  /\ Suspend(t, "yield")
  /\ UNCHANGED <<wait, num_waiting_task, timer, wp, out, bit, held, idleVars>>

Sleep(t) ==
  /\ Running(t)
  /\ timer' = [timer EXCEPT ![t] = "armed"]
  /\ Suspend(t, "sleep")
  /\ UNCHANGED <<wait, num_waiting_task, wp, out, bit, held, idleVars>>

\* recv_udp: announce the filter and the deadline, then give up the processor.
RecvUdp(t, f) ==
  /\ Running(t)
  /\ wp' = [wp EXCEPT ![t] = [is_waiting |-> TRUE, filter |-> f, due |-> FALSE]]
  /\ out' = [out EXCEPT ![t] = NoData]
  /\ Suspend(t, "recv")
  /\ UNCHANGED <<wait, num_waiting_task, timer, bit, held, idleVars>>

\* What recv_udp returns is the length of what it got: for an empty datagram as
\* for none it is 0.
ReturnsZero(t) == out[t] = NoData \/ out[t].empty

\* The entry of a new task, and the return of every call whose return does
\* nothing more: sched_yield, sleep, recv_udp.
Return(t) ==
  /\ t # Idle /\ current = t /\ call[t] \in {"new", "yield", "sleep", "recv"}
  /\ call' = [call EXCEPT ![t] = "run"]
  /\ UNCHANGED <<current, wait, num_waiting_task, timer, wp, out, bit, held, idleVars>>

-----------------------------------------------------------------------------
(* Delivery of a UDP datagram to the task that waits for it. *)

\* task_match_udp and task_find_udp
MatchField(want, got) == want = Any \/ want = got
Match(f, d) ==
  /\ MatchField(f.dport, d.dport)
  /\ MatchField(f.saddr, d.saddr)
  /\ MatchField(f.sport, d.sport)
Receivers(d) == {t \in Task : wp[t].is_waiting /\ Match(wp[t].filter, d)}

BadDeliver(d) ==
  LET r == Min(Receivers(d))
  IN  /\ wp' = wp
      /\ out' = [out EXCEPT ![r] = d]

\* The end of task_dispatch_udp: is_waiting is cleared and the datagram is
\* written through the pointers of the wait_packet, into the receiver's frame.
Deliver(d) ==
  LET r == Min(Receivers(d))
  IN  /\ wp' = [wp EXCEPT ![r].is_waiting = FALSE]
      /\ out' = [out EXCEPT ![r] = d]

\* task_dispatch_udp up to the first lookup: deliver, or let the others run.
Dispatch(t, d) ==
  /\ Running(t)
  /\ IF Receivers(d) # {}
     THEN Deliver(d) /\ UNCHANGED <<current, call, held>>
     ELSE /\ held' = [held EXCEPT ![t] = d]
          /\ Suspend(t, "dispatch")
          /\ UNCHANGED <<wp, out>>
  /\ UNCHANGED <<wait, num_waiting_task, timer, bit, idleVars>>

\* ... and its second lookup, after which the datagram is dropped.
DispatchReturn(t) ==
  /\ t # Idle /\ current = t /\ call[t] = "dispatch"
  /\ IF Receivers(held[t]) # {} THEN Deliver(held[t]) ELSE UNCHANGED <<wp, out>>
  /\ call' = [call EXCEPT ![t] = "run"]
  /\ held' = [held EXCEPT ![t] = NoData]
  /\ UNCHANGED <<current, wait, num_waiting_task, timer, bit, idleVars>>

-----------------------------------------------------------------------------
(* rdcycle passes a deadline. *)

ElapseTimer(t) ==
  /\ timer[t] = "armed"
  /\ timer' = [timer EXCEPT ![t] = "due"]
  /\ UNCHANGED <<current, wait, num_waiting_task, wp, out, call, bit, held, idleVars>>

ElapseUdp(t) ==
  /\ wp[t].is_waiting /\ ~ wp[t].due
  /\ wp' = [wp EXCEPT ![t].due = TRUE]
  /\ UNCHANGED <<current, wait, num_waiting_task, timer, out, call, bit, held, idleVars>>

-----------------------------------------------------------------------------

IdleStep == (\E ready \in BOOLEAN : Poll(ready)) \/ Scan \/ ScanEnd

TaskStep(t) ==
  \/ \E w \in WaitBit : Wait(t, w)
  \/ WaitReturn(t)
  \/ SchedYield(t)
  \/ Sleep(t)
  \/ \E f \in Filters : RecvUdp(t, f)
  \/ Return(t)
  \/ \E d \in Dgrams : Dispatch(t, d)
  \/ DispatchReturn(t)

Elapse(t) == ElapseTimer(t) \/ ElapseUdp(t)

Next == IdleStep \/ \E t \in Task : TaskStep(t) \/ Elapse(t)

Spec == Init /\ [][Next]_vars

\* The processor never stops, a task keeps making calls, and time passes.
Fairness ==
  /\ WF_vars(IdleStep)
  /\ \A t \in Task : WF_vars(TaskStep(t)) /\ WF_vars(ElapseTimer(t)) /\ WF_vars(ElapseUdp(t))

FairSpec == Spec /\ Fairness

-----------------------------------------------------------------------------
(* Properties. *)

\* The counter wait() keeps beside the table is the number of tasks whose wait
\* word is not empty, so the test of it in the idle loop (task.c:76) means what
\* it says even though increment and decrement are a context switch apart.
NumWaitingExact == num_waiting_task = Cardinality({t \in Task : wait[t] # {}})

\* The wait_packet points into the frame of recv_udp.  A task announced as
\* waiting is therefore suspended inside recv_udp, so the pointers are live
\* whenever task_dispatch_udp writes through them.
RecvBuffersLive ==
  \A t \in Task : wp[t].is_waiting => call[t] = "recv" /\ current # t

\* What recv_udp is about to report: a datagram its filter admits, or nothing,
\* and nothing only when its deadline has passed - a delivery that races the
\* timeout is reported.
RecvOutcome ==
  \A t \in Task : call[t] = "recv" /\ current = t =>
    IF out[t] = NoData THEN wp[t].due ELSE Match(wp[t].filter, out[t])

\* The callers take a return of 0 for a deadline that has passed ("Timed out!",
\* tftp.c:136).  An empty datagram makes it come early.
ZeroOnlyAtDeadline ==
  \A t \in Task : call[t] = "recv" /\ current = t /\ ReturnsZero(t) => wp[t].due

\* A task that called exit() waits for an event nothing polls and never runs.
ExitedNeverRuns == \A t \in Task : "exit" \in wait[t] => current # t

\* Control reaches a task inside wait(w) only by the poll of w itself: the scan
\* does not take it for runnable, nor does the poll of another event.
WokenOnlyByOwnEvent ==
  [][\A t \in Task : call[t] = "wait" /\ current # t /\ current' = t
       => pos < ScanPos /\ PollOrder[pos] = bit[t]]_vars

\* A datagram handed to a task stays there until that task has run: a second
\* one that arrives before it resumes goes to somebody else or nowhere.
DeliveredOnce ==
  [][\A t \in Task : out[t] # NoData /\ out'[t] # out[t] => current = t]_vars

\* The invariant behind the ones above.  It ties the place where a task is
\* suspended to its wait word, its wait_packet and what was delivered to it;
\* without these ties the others are not inductive.
SuspendedOK ==
  /\ call[Idle] = "run"
  /\ \A t \in Task :
       /\ call[t] = "run" => t = Idle \/ t = current
       /\ wait[t] = IF call[t] = "wait" THEN {bit[t]} ELSE {}
       /\ call[t] = "wait" => bit[t] \in WaitBit
       /\ call[t] = "dispatch" => held[t] \in Dgrams
ReceiveOK ==
  \A t \in Task : call[t] = "recv" =>
    IF wp[t].is_waiting THEN out[t] = NoData
    ELSE IF out[t] = NoData THEN wp[t].due ELSE Match(wp[t].filter, out[t])
IInv ==
  /\ TypeOK
  /\ SuspendedOK
  /\ ReceiveOK
  /\ RecvBuffersLive
  /\ ExitedNeverRuns
  /\ NumWaitingExact

\* No starvation: the round robin reaches every task that can run.
Runnable(t) == call[t] # "run" /\ CanRun(t)
RunnableRuns == \A t \in Task : Runnable(t) ~> current = t

\* recv_udp comes back: with a datagram or at its deadline.
RecvReturns == \A t \in Task : wp[t].is_waiting ~> (current = t /\ call[t] = "run")
=============================================================================
