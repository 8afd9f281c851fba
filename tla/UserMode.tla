------------------------------ MODULE UserMode ------------------------------
(***************************************************************************)
(* Entering and leaving user mode: arch_call_user and                      *)
(* arch_return_from_user (src/arch/riscv/task.c), the entry code (user.S), *)
(* the trap entry and return (trap.S), the trap handler (trap_handler.c),  *)
(* the timer (src/driver/clint.c) and the lines of do_judge around the     *)
(* call (src/judge.c).  Control enters user mode with a switch between     *)
(* tasks and leaves it with another one, out of the middle of a trap; what *)
(* holds the two together is the scratch register, which is zero while the *)
(* kernel runs.  Whether a page fault can be answered is for module        *)
(* PageTable to say, and left open here.                                   *)
(*                                                                         *)
(* SAVE_ALL and RESTORE_ALL are one step each: a trap within their         *)
(* instructions, which move registers, read the cycle counter and use the  *)
(* trap stack, is not looked at.  One clock stands for CLINT_TIME, which   *)
(* the timer looks at, and the cycle counter, by which the program's time  *)
(* is measured.                                                            *)
(***************************************************************************)
EXTENDS Integers

CONSTANTS
  Modulus,    \* of uintptr_t
  IntModulus, \* of int32_t
  Grace,      \* what do_judge adds to a time limit (2000000)
  Limits,     \* the time limits of requests
  Values,     \* what a register of the program may hold
  KernelTop,  \* the judge task's stack pointer when it calls arch_call_user
  TrapTop,    \* the end of trap_stack
  Frame,      \* the size of a trap frame
  MaxTime,    \* bound on the time the machine is looked at
  MaxEpc      \* bound on the program counter

ASSUME UserModeAssumption ==
  /\ Modulus \in Nat \ {0} /\ IntModulus \in Nat \ {0} /\ Grace \in Nat /\ MaxTime \in Nat /\ MaxEpc \in Nat
  /\ Limits \subseteq 0 .. Modulus - 1
  /\ Values \subseteq Nat
  /\ KernelTop \in Nat /\ TrapTop \in Nat \ {0} /\ Frame \in Nat \ {0}

VARIABLES
  mode,      \* "kernel" before a session, "entering" user mode, "user", "handler",
             \* "returned" to do_judge, "reported" the outcome, "halted"
  now,       \* the timer, and the cycle counter
  timecmp,   \* when the timer interrupts
  current,   \* the thread pointer: the judge task, or none
  sp,        \* the stack pointer
  mscratch,  \* the scratch register
  saved,     \* the stack pointer in the judge task's saved context
  frame,     \* the trap frame the handler works on
  user,      \* the program's counter and one of its registers
  task,      \* user_task: exit code and error of the program
  times,     \* user_start_time and user_end_time
  resp,      \* what do_judge reports: exit code and time
  armed,     \* history: time limit of the session, and when the timer was set
  entered,   \* history: when user mode was entered
  trap       \* history: the last trap of the program

clock == <<timecmp, armed, entered>>
vars == <<mode, now, timecmp, current, sp, mscratch, saved, frame, user, task, times, resp,
          armed, entered, trap>>

Judge == "judge"
NoTask == "none"
NoResp == [exitcode |-> 0, time |-> 0]
Result(exitcode, error) == [exitcode |-> exitcode, error |-> error]
NoFrame == [base |-> 0, sp |-> 0, mpp |-> "M", cause |-> "none", cycle |-> 0,
            user |-> [epc |-> 0, x |-> 0]]
NoTrap == [cause |-> "none", at |-> 0, sp |-> 0, user |-> [epc |-> 0, x |-> 0]]

Init ==
  /\ mode = "kernel"
  /\ now = 0 /\ timecmp = 0
  /\ current = Judge /\ sp = KernelTop /\ mscratch = 0
  /\ saved = 0 /\ frame = NoFrame
  /\ user = [epc |-> 0, x |-> 0]
  /\ task = Result(0, "ok")
  /\ times = [start |-> 0, end |-> 0]
  /\ resp = NoResp
  /\ armed = [limit |-> 0, at |-> 0] /\ entered = 0 /\ trap = NoTrap

Tick ==
  /\ now < MaxTime
  /\ now' = now + 1
  /\ UNCHANGED <<mode, current, sp, mscratch, saved, frame, user, task, times, resp, clock, trap>>

-----------------------------------------------------------------------------
(* Into user mode. *)

\* the time limit, plus a tenth, plus the grace
Stretched(t) == (t + t \div 10 + Grace) % Modulus
BadSetOneshot(t) == timecmp' = t
\* set_oneshot
SetOneshot(t) == timecmp' = (now + t) % Modulus

\* do_judge sets the timer and calls arch_call_user, which switches to the entry
\* code with the program's stack pointer.  (Only sessions that end in time for
\* the bound are looked at.)
CallUser ==
  /\ mode = "kernel"
  /\ \E t \in Limits :
       /\ SetOneshot(Stretched(t)) /\ timecmp' <= MaxTime
       /\ armed' = [limit |-> t, at |-> now]
  /\ saved' = sp /\ sp' \in Values
  /\ current' = NoTask
  /\ mscratch' = TrapTop
  /\ user' = [epc |-> 0, x |-> 0]
  /\ mode' = "entering"
  /\ UNCHANGED <<now, frame, task, times, resp, entered, trap>>

\* riscv_enter_user, up to its mret
EnterUser ==
  /\ mode = "entering"
  /\ times' = [times EXCEPT !.start = now]
  /\ entered' = now
  /\ mode' = "user"
  /\ UNCHANGED <<now, timecmp, current, sp, mscratch, saved, frame, user, task, resp, armed, trap>>

-----------------------------------------------------------------------------
(* Traps. *)

BadSaveAll(mpp, cause) ==
  LET top == IF mscratch # 0 THEN mscratch ELSE sp
  IN  /\ frame' = [base |-> top - Frame, sp |-> sp, mpp |-> mpp, cause |-> cause,
                   cycle |-> now, user |-> user]
      /\ sp' = top - Frame
      /\ UNCHANGED mscratch
\* SAVE_ALL swaps the stack pointer with the scratch register; a zero there means
\* that the kernel was running, which goes on with its own stack.
SaveAll(mpp, cause) ==
  LET top == IF mscratch # 0 THEN mscratch ELSE sp
  IN  /\ frame' = [base |-> top - Frame, sp |-> sp, mpp |-> mpp, cause |-> cause,
                   cycle |-> now, user |-> user]
      /\ sp' = top - Frame
      /\ mscratch' = 0

TimerPending == now >= timecmp
Causes == {"page fault", "rdcycle", "ecall", "exception"}

UserTrap(cause) ==
  /\ mode = "user"
  /\ SaveAll("U", cause)
  /\ trap' = [cause |-> cause, at |-> now, sp |-> sp, user |-> user]
  /\ mode' = "handler"
  /\ UNCHANGED <<now, current, saved, user, task, times, resp, clock>>

\* The program runs until the timer is due; no instruction comes between the
\* time it is due and the interrupt.
UserStep ==
  /\ mode = "user" /\ ~ TimerPending
  /\ user' \in [epc : 0 .. MaxEpc, x : Values] /\ sp' \in Values
  /\ UNCHANGED <<mode, now, current, mscratch, saved, frame, task, times, resp, clock, trap>>
UserException == ~ TimerPending /\ \E cause \in Causes : UserTrap(cause)
TimerInterrupt == TimerPending /\ UserTrap("timer")

\* An exception in the kernel, in the entry code or in the handler, at any of their
\* instructions but those of SAVE_ALL and RESTORE_ALL.  (Only the first one is
\* looked at.)
KernelTrap ==
  /\ mode \in {"kernel", "entering", "handler", "returned", "reported"}
  /\ mode = "handler" => frame.mpp = "U"
  /\ SaveAll("M", "exception")
  /\ mode' = "handler"
  /\ UNCHANGED <<now, current, saved, user, task, times, resp, clock, trap>>

-----------------------------------------------------------------------------
(* trap_handler *)

\* RESTORE_ALL, back to the program: the trap stack is empty again.  (Traps of
\* the kernel are never returned from.)
RestoreAll(registers, stack) ==
  /\ mscratch' = sp + Frame
  /\ sp' = stack /\ user' = registers
  /\ mode' = "user"
  /\ UNCHANGED <<now, current, saved, frame, task, times, resp, clock, trap>>

BadLeave(exitcode, error) ==
  /\ task' = Result(exitcode, error)
  /\ sp' = saved /\ current' = Judge
  /\ mode' = "returned"
  /\ UNCHANGED <<now, mscratch, saved, frame, user, times, resp, clock, trap>>
\* The end of the program: arch_return_from_user drops the trap stack and goes
\* on where do_judge called.
Leave(exitcode, error) ==
  /\ task' = Result(exitcode, error)
  /\ times' = [times EXCEPT !.end = frame.cycle]
  /\ sp' = saved /\ current' = Judge
  /\ mode' = "returned"
  /\ UNCHANGED <<now, mscratch, saved, frame, user, resp, clock, trap>>

Handling(cause) == mode = "handler" /\ frame.cause = cause

AnswerFault == Handling("page fault") /\ RestoreAll(frame.user, frame.sp)
KillFault == Handling("page fault") /\ Leave(-11, "EPAGEFAULT")

\* The next instruction; the counter is taken modulo its bound.
After(registers) == [registers EXCEPT !.epc = (@ + 1) % (MaxEpc + 1)]

BadEmulate ==
  /\ Handling("rdcycle")
  /\ RestoreAll([frame.user EXCEPT !.x = now], frame.sp)
\* rdcycle and rdtime: the register they name gets the cycle counter; writing
\* to register zero of the frame has no effect.
Emulate ==
  /\ Handling("rdcycle")
  /\ \/ RestoreAll([After(frame.user) EXCEPT !.x = now], frame.sp)
     \/ RestoreAll(After(frame.user), now)
     \/ RestoreAll(After(frame.user), frame.sp)

\* The cast to int32_t: the lower half of the register, signed.
Int32(x) ==
  LET w == x % IntModulus IN IF 2 * w < IntModulus THEN w ELSE w - IntModulus

BadExit == Handling("ecall") /\ Leave(frame.user.x, "ok")
Exit == Handling("ecall") /\ Leave(Int32(frame.user.x), "ok")
BadWrong == Handling("exception") /\ Leave(-1, "EUSER")
Wrong == Handling("exception") /\ frame.mpp = "U" /\ Leave(-1, "EUSER")
BadTimedOut == Handling("timer") /\ RestoreAll(frame.user, frame.sp)
TimedOut == Handling("timer") /\ Leave(-1, "ETIMEOUT")

KernelException ==
  /\ Handling("exception") /\ frame.mpp = "M"
  /\ times' = [times EXCEPT !.end = frame.cycle]
  /\ mode' = "halted"
  /\ UNCHANGED <<now, current, sp, mscratch, saved, frame, user, task, resp, clock, trap>>

-----------------------------------------------------------------------------
(* do_judge after the call. *)

\* The exit code and the time are all that is reported of the program; the error
\* in user_task is never read.
Report ==
  /\ mode = "returned" /\ mode' = "reported"
  /\ resp' = [exitcode |-> task.exitcode, time |-> times.end - times.start]
  /\ UNCHANGED <<now, current, sp, mscratch, saved, frame, user, task, times, clock, trap>>

\* The answer is sent, and the next request comes.
EndSession ==
  /\ mode = "reported" /\ mode' = "kernel"
  /\ resp' = NoResp
  /\ UNCHANGED <<now, current, sp, mscratch, saved, frame, user, task, times, clock, trap>>

Handler ==
  \/ AnswerFault \/ KillFault \/ Emulate \/ Exit \/ Wrong \/ TimedOut \/ KernelException

Next ==
  \/ Tick \/ CallUser \/ EnterUser \/ UserStep \/ UserException \/ TimerInterrupt
  \/ KernelTrap \/ Handler \/ Report \/ EndSession

Spec == Init /\ [][Next]_vars

\* Time passes, the processor goes on, and a handler comes to its end.
Fairness ==
  WF_vars(Tick) /\ WF_vars(EnterUser) /\ WF_vars(TimerInterrupt) /\ WF_vars(Handler)
FairSpec == Spec /\ Fairness

-----------------------------------------------------------------------------
(* Properties. *)

Registers == [epc : 0 .. MaxEpc, x : Nat]
TrapCauses == Causes \cup {"timer", "none"}
Frames == [base : Int, sp : Int, mpp : {"U", "M"}, cause : TrapCauses, cycle : Nat, user : Registers]
Results == [exitcode : Int, error : {"ok", "EPAGEFAULT", "EUSER", "ETIMEOUT"}]
Times == [start : Nat, end : Nat]

\* Every variable keeps its type.
TypeOK ==
  /\ mode \in {"kernel", "entering", "user", "handler", "returned", "reported", "halted"}
  /\ now \in Nat /\ timecmp \in 0 .. Modulus - 1
  /\ current \in {Judge, NoTask}
  /\ sp \in Int /\ mscratch \in {0, TrapTop} /\ saved \in {0, KernelTop}
  /\ frame \in Frames /\ user \in Registers
  /\ task \in Results /\ times \in Times
  /\ resp \in [exitcode : Int, time : Int]

\* The scratch register tells the two worlds apart: it holds the end of the trap
\* stack, all of it free, whenever the program runs, and zero whenever the kernel
\* does; and the judge task gets back the stack and the thread pointer it had.
ScratchRule ==
  /\ mode \in {"kernel", "returned", "reported"} =>
       mscratch = 0 /\ sp = KernelTop /\ current = Judge
  /\ mode \in {"entering", "user"} => mscratch = TrapTop /\ saved = KernelTop /\ current = NoTask
  /\ mode \in {"handler", "halted"} => mscratch = 0 /\ sp = frame.base
  /\ (mode = "handler" /\ frame.mpp = "U") =>
       frame.base = TrapTop - Frame /\ saved = KernelTop /\ current = NoTask

\* A trap within the handler does not overwrite the frame the handler works on.
FramesDisjoint ==
  [][ (mode = "handler" /\ frame' # frame) => frame'.base + Frame <= frame.base ]_vars

\* A program that is resumed finds its registers as they were at the trap; after
\* an emulated instruction it is past it, with at most one register changed.
ContextRestored ==
  [][ (mode = "handler" /\ mode' = "user") =>
        \/ trap.cause = "page fault" /\ user' = trap.user /\ sp' = trap.sp
        \/ /\ trap.cause = "rdcycle" /\ user'.epc = After(trap.user).epc
           /\ (user'.x = trap.user.x \/ sp' = trap.sp) ]_vars

\* No trap costs the program its context: the frame that holds it is left alone,
\* and what is resumed is what was interrupted.
ContextKept == FramesDisjoint /\ ContextRestored

\* What a trap that ends the program makes of it.
Outcome(t) ==
  CASE t.cause = "ecall" -> Int32(t.user.x)
    [] t.cause = "page fault" -> -11
    [] OTHER -> -1

\* A program that is timed out has had its limit and a tenth more since it was
\* entered, if entering took no longer than what do_judge adds for it.
GrantedInFull ==
  trap.cause = "timer" /\ entered - armed.at <= Grace =>
    resp.time >= armed.limit + armed.limit \div 10

\* The sums of do_judge and set_oneshot do not wrap.  Where they do, nothing in the
\* code keeps the program from being timed out at once.
LimitFits == armed.at + armed.limit + armed.limit \div 10 + Grace < Modulus

\* What do_judge reports is the outcome of this session's program: its last trap
\* decides the exit code, the time is the time from entering user mode to that
\* trap, and a limit whose sum does not wrap is granted in full.
OutcomeOfLastTrap ==
  mode = "reported" =>
    /\ resp.time = trap.at - entered /\ resp.time >= 0
    /\ resp.exitcode = Outcome(trap)
    /\ LimitFits => GrantedInFull

\* User mode is always left, whatever the program does: the timer ends it.
UserModeLeft == mode = "user" ~> mode \in {"returned", "halted"}
=============================================================================
