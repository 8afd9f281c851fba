---------------------------- MODULE UserModeProofs ----------------------------
(***************************************************************************)
(* Proofs about UserMode: for any stack addresses, frame size, register    *)
(* values and number of sessions, the scratch register tells the program   *)
(* from the kernel, no trap overwrites the frame of another, a resumed     *)
(* program finds its registers, and do_judge reports the last trap.        *)
(* The argument ties the frame the handler works on to the trap that made  *)
(* it: a frame of the program lies at the end of the trap stack, and a     *)
(* frame of the kernel is one the handler never returns from.              *)
(***************************************************************************)
EXTENDS UserMode, TLAPS

\* What the handler knows of the trap it works on.
FrameOfTrap ==
  mode = "handler" =>
    /\ frame.mpp = "M" => frame.cause = "exception"
    /\ frame.mpp = "U" =>
         trap = [cause |-> frame.cause, at |-> frame.cycle, sp |-> frame.sp, user |-> frame.user]

\* The times of the session.
TimesOrdered ==
  /\ entered <= now /\ trap.at <= now
  /\ mode = "user" => times.start = entered
  /\ (mode = "handler" /\ frame.mpp = "U") =>
       times.start = entered /\ entered <= frame.cycle /\ frame.cycle <= now

\* The timer is that of the session, and was due when it interrupted.
TimerOfSession ==
  /\ mode \in {"entering", "user"} \/ (mode = "handler" /\ frame.mpp = "U") =>
       timecmp = (armed.at + Stretched(armed.limit)) % Modulus
  /\ mode = "handler" /\ frame.cause = "timer" => frame.cycle >= timecmp

\* What the handler leaves to do_judge.
OutcomeKept ==
  mode \in {"returned", "reported"} =>
    /\ times.start = entered /\ times.end = trap.at /\ entered <= trap.at
    /\ task.exitcode = Outcome(trap)
    /\ trap.cause = "timer" =>
         trap.at >= timecmp /\ timecmp = (armed.at + Stretched(armed.limit)) % Modulus

Traps == [cause : TrapCauses, at : Nat, sp : Int, user : Registers]
HistoryOK ==
  /\ entered \in Nat /\ armed.limit \in Nat /\ armed.at \in Nat
  /\ trap \in Traps
  /\ mode = "handler" => frame.cause # "none"

IInv ==
  /\ TypeOK /\ HistoryOK
  /\ ScratchRule /\ FrameOfTrap /\ TimesOrdered /\ TimerOfSession
  /\ OutcomeKept /\ OutcomeOfLastTrap

-----------------------------------------------------------------------------
(* The steps that several actions share. *)

LEMMA FieldTypes ==
  /\ \A f \in Frames : /\ f.base \in Int /\ f.sp \in Int /\ f.cycle \in Nat
                        /\ f.user \in Registers /\ f.cause \in TrapCauses /\ f.mpp \in {"U", "M"}
  /\ \A t \in Traps : t.cause \in TrapCauses /\ t.at \in Nat /\ t.sp \in Int /\ t.user \in Registers
  /\ \A r \in Registers : r.x \in Nat
  /\ \A d \in Times : d.start \in Nat /\ d.end \in Nat
BY DEF Frames, Traps, Registers, Times

LEMMA InitHolds == Init => IInv
BY UserModeAssumption DEF Init, IInv, TypeOK, HistoryOK, ScratchRule, FrameOfTrap, TimesOrdered,
  TimerOfSession, OutcomeKept, OutcomeOfLastTrap, Judge, NoTask, NoResp, Result, NoFrame, NoTrap, TrapCauses, Frames,
  Registers, Results, Times, Traps

\* The frame that a trap makes.
LEMMA NewFrame ==
  ASSUME TypeOK, NEW mpp \in {"U", "M"}, NEW cause \in TrapCauses, SaveAll(mpp, cause)
  PROVE  /\ frame' \in Frames /\ sp' \in Int /\ sp' = frame'.base /\ mscratch' = 0
         /\ mscratch # 0 => frame'.base = mscratch - Frame
         /\ mscratch = 0 => frame'.base = sp - Frame
         /\ frame'.sp = sp /\ frame'.mpp = mpp /\ frame'.cause = cause
         /\ frame'.cycle = now /\ frame'.user = user
<1> DEFINE top == IF mscratch # 0 THEN mscratch ELSE sp
<1>1. top - Frame \in Int
  BY UserModeAssumption DEF TypeOK
<1>2. frame' = [base |-> top - Frame, sp |-> sp, mpp |-> mpp, cause |-> cause, cycle |-> now, user |-> user]
      /\ sp' = top - Frame /\ mscratch' = 0
  BY DEF SaveAll
<1>3. sp \in Int /\ now \in Nat /\ user \in Registers
  BY DEF TypeOK
<1>4. frame' \in Frames
  BY <1>1, <1>2, <1>3 DEF Frames
<1> QED BY <1>1, <1>2, <1>4

\* A trap of the program.
LEMMA UserTrapHolds ==
  ASSUME IInv, NEW cause \in TrapCauses \ {"none"}, UserTrap(cause),
         cause = "timer" => TimerPending
  PROVE  IInv'
<1> USE DEF IInv
<1>1. /\ mode = "user" /\ mode' = "handler" /\ SaveAll("U", cause)
      /\ trap' = [cause |-> cause, at |-> now, sp |-> sp, user |-> user]
      /\ UNCHANGED <<now, current, saved, user, task, times, resp, timecmp, armed, entered>>
  BY DEF UserTrap, clock
<1>2. /\ frame' \in Frames /\ sp' \in Int /\ sp' = frame'.base /\ mscratch' = 0
      /\ mscratch # 0 => frame'.base = mscratch - Frame
      /\ frame'.sp = sp /\ frame'.mpp = "U" /\ frame'.cause = cause
      /\ frame'.cycle = now /\ frame'.user = user
  BY <1>1, NewFrame
<1>3. trap' \in Traps
  BY <1>1 DEF Traps, TypeOK
<1>4. TypeOK'
  BY <1>1, <1>2 DEF TypeOK
<1>5. HistoryOK'
  BY <1>1, <1>2, <1>3 DEF HistoryOK
<1>6. ScratchRule'
  BY <1>1, <1>2, UserModeAssumption DEF ScratchRule
<1>7. FrameOfTrap'
  BY <1>1, <1>2 DEF FrameOfTrap
<1>8. TimesOrdered'
  BY <1>1, <1>2, UserModeAssumption DEF TimesOrdered, TypeOK
<1>9. OutcomeKept' /\ OutcomeOfLastTrap'
  BY <1>1 DEF OutcomeKept, OutcomeOfLastTrap
<1>10. TimerOfSession'
  BY <1>1, <1>2 DEF TimerOfSession, TimerPending
<1> QED BY <1>4, <1>5, <1>6, <1>7, <1>8, <1>9, <1>10

\* Back to the program.
LEMMA RestoreHolds ==
  ASSUME IInv, mode = "handler", frame.mpp = "U", NEW r \in Registers, NEW stack \in Int,
         RestoreAll(r, stack)
  PROVE  IInv'
<1> USE DEF IInv
<1>1. /\ mscratch' = sp + Frame /\ sp' = stack /\ user' = r /\ mode' = "user"
      /\ UNCHANGED <<now, current, saved, frame, task, times, resp, timecmp, armed, entered, trap>>
  BY DEF RestoreAll, clock
<1>2. sp + Frame = TrapTop
  BY FieldTypes, UserModeAssumption DEF ScratchRule, TypeOK
<1>3. TypeOK'
  BY <1>1, <1>2 DEF TypeOK
<1>4. HistoryOK'
  BY <1>1 DEF HistoryOK
<1>5. ScratchRule'
  BY <1>1, <1>2 DEF ScratchRule
<1>6. FrameOfTrap' /\ OutcomeKept' /\ OutcomeOfLastTrap'
  BY <1>1 DEF FrameOfTrap, OutcomeKept, OutcomeOfLastTrap
<1>7. TimesOrdered' /\ TimerOfSession'
  BY <1>1 DEF TimesOrdered, TimerOfSession
<1> QED BY <1>3, <1>4, <1>5, <1>6, <1>7

\* The sum of set_oneshot when it does not wrap.
LEMMA StretchedFits ==
  ASSUME NEW at \in Nat, NEW limit \in Nat, at + limit + limit \div 10 + Grace < Modulus
  PROVE  (at + Stretched(limit)) % Modulus >= at + limit + limit \div 10 + Grace
<1> DEFINE tenth == limit \div 10
<1>1. tenth \in Nat /\ Grace \in Nat /\ Modulus \in Nat \ {0}
  BY UserModeAssumption
<1>2. limit + tenth + Grace \in Nat /\ limit + tenth + Grace < Modulus
      /\ at + (limit + tenth + Grace) < Modulus
  BY <1>1
<1>3. \A n \in Nat : n < Modulus => n % Modulus = n
  BY <1>1
<1>4. Stretched(limit) = limit + tenth + Grace
  BY <1>2, <1>3 DEF Stretched
<1> HIDE DEF tenth
<1>5. (at + Stretched(limit)) % Modulus = at + (limit + tenth + Grace)
  BY <1>1, <1>2, <1>3, <1>4
<1> QED BY <1>1, <1>5 DEF tenth

Errors == {"ok", "EPAGEFAULT", "EUSER", "ETIMEOUT"}

LEMMA Int32Type == \A x \in Nat : Int32(x) \in Int
<1> SUFFICES ASSUME NEW x \in Nat PROVE Int32(x) \in Int
  OBVIOUS
<1> DEFINE w == x % IntModulus
<1>1. w \in Int /\ IntModulus \in Int
  BY UserModeAssumption
<1>2. Int32(x) = IF 2 * w < IntModulus THEN w ELSE w - IntModulus
  BY DEF Int32
<1> HIDE DEF w
<1> QED BY <1>1, <1>2

\* The end of the program.
LEMMA LeaveHolds ==
  ASSUME IInv, mode = "handler", frame.mpp = "U",
         NEW exitcode \in Int, NEW error \in Errors, Leave(exitcode, error),
         exitcode = Outcome(frame)
  PROVE  IInv'
<1> USE DEF IInv
<1>1. /\ task' = Result(exitcode, error) /\ times' = [times EXCEPT !.end = frame.cycle]
      /\ sp' = saved /\ current' = Judge /\ mode' = "returned"
      /\ UNCHANGED <<now, mscratch, saved, frame, user, resp, timecmp, armed, entered, trap>>
  BY DEF Leave, clock
<1>2. /\ trap.cause = frame.cause /\ trap.at = frame.cycle /\ trap.user = frame.user
      /\ times.start = entered /\ entered <= frame.cycle
      /\ saved = KernelTop /\ mscratch = 0
  BY DEF FrameOfTrap, TimesOrdered, ScratchRule
<1>3. frame.cycle \in Nat
  BY FieldTypes DEF TypeOK
<1>4. /\ task' \in Results /\ task'.exitcode = exitcode
      /\ times' \in Times /\ times'.start = times.start /\ times'.end = frame.cycle
  BY <1>1, <1>3 DEF Results, Result, Times, TypeOK, Errors
<1>5. TypeOK'
  BY <1>1, <1>2, <1>4, UserModeAssumption DEF TypeOK
<1>6. HistoryOK'
  BY <1>1 DEF HistoryOK
<1>7. ScratchRule'
  BY <1>1, <1>2 DEF ScratchRule
<1>8. FrameOfTrap' /\ TimesOrdered' /\ TimerOfSession' /\ OutcomeOfLastTrap'
  BY <1>1 DEF FrameOfTrap, TimesOrdered, TimerOfSession, OutcomeOfLastTrap
<1>9. OutcomeKept'
  <2>1. Outcome(trap') = exitcode
    BY <1>1, <1>2 DEF Outcome
  <2>2. trap'.cause = "timer" =>
          trap'.at >= timecmp' /\ timecmp' = (armed'.at + Stretched(armed'.limit)) % Modulus
    BY <1>1, <1>2 DEF TimerOfSession
  <2> QED BY <1>1, <1>2, <1>4, <2>1, <2>2 DEF OutcomeKept
<1> QED BY <1>5, <1>6, <1>7, <1>8, <1>9

\* do_judge passes on what the handler left.
LEMMA ReportHolds == ASSUME IInv, Report PROVE IInv'
<1> USE DEF IInv
<1>1. /\ mode = "returned" /\ mode' = "reported"
      /\ resp' = [exitcode |-> task.exitcode, time |-> times.end - times.start]
      /\ UNCHANGED <<now, current, sp, mscratch, saved, frame, user, task, times, timecmp, armed,
                     entered, trap>>
  BY DEF Report, clock
<1>2. /\ times.start = entered /\ times.end = trap.at /\ entered <= trap.at
      /\ task.exitcode = Outcome(trap)
      /\ trap.cause = "timer" =>
           trap.at >= timecmp /\ timecmp = (armed.at + Stretched(armed.limit)) % Modulus
  BY <1>1 DEF OutcomeKept
<1>3. entered \in Nat /\ trap.at \in Nat /\ armed.at \in Nat /\ armed.limit \in Nat /\ task.exitcode \in Int
  BY FieldTypes DEF HistoryOK, TypeOK, Results
<1>4. resp'.time = trap.at - entered /\ resp'.time >= 0 /\ resp'.exitcode = Outcome(trap)
      /\ resp' \in [exitcode : Int, time : Int]
  BY <1>1, <1>2, <1>3
<1>5. TypeOK' /\ HistoryOK'
  BY <1>1, <1>4 DEF TypeOK, HistoryOK
<1>6. ScratchRule' /\ FrameOfTrap' /\ TimesOrdered' /\ TimerOfSession' /\ OutcomeKept'
  BY <1>1 DEF ScratchRule, FrameOfTrap, TimesOrdered, TimerOfSession, OutcomeKept, Outcome
<1>7. ASSUME LimitFits, trap.cause = "timer", entered - armed.at <= Grace
      PROVE  resp'.time >= armed.limit + armed.limit \div 10
  <2>1. armed.at + armed.limit + armed.limit \div 10 + Grace < Modulus
    BY <1>7 DEF LimitFits
  <2>2. timecmp >= armed.at + armed.limit + armed.limit \div 10 + Grace
    BY <1>2, <1>3, <1>7, <2>1, StretchedFits
  <2> DEFINE tenth == armed.limit \div 10
  <2>3. tenth \in Nat /\ timecmp \in Nat /\ Grace \in Nat
    BY <1>3, UserModeAssumption DEF TypeOK
  <2>4. timecmp >= armed.at + armed.limit + tenth + Grace
    BY <2>2
  <2> HIDE DEF tenth
  <2>5. resp'.time >= armed.limit + tenth
    BY <1>2, <1>3, <1>4, <1>7, <2>3, <2>4
  <2> QED BY <2>5 DEF tenth
<1>8. OutcomeOfLastTrap'
  <2>1. LimitFits' => GrantedInFull'
    BY <1>1, <1>7 DEF LimitFits, GrantedInFull
  <2> QED BY <1>1, <1>4, <2>1 DEF OutcomeOfLastTrap, Outcome
<1> QED BY <1>5, <1>6, <1>8

LEMMA StepHolds == IInv /\ [Next]_vars => IInv'
<1> SUFFICES ASSUME IInv, [Next]_vars PROVE IInv'
  OBVIOUS
<1>i. TypeOK /\ HistoryOK /\ ScratchRule /\ FrameOfTrap /\ TimesOrdered
      /\ TimerOfSession /\ OutcomeKept /\ OutcomeOfLastTrap
  BY DEF IInv
<1>f. frame.user \in Registers /\ frame.sp \in Int /\ frame.mpp \in {"U", "M"}
      /\ frame.user.x \in Nat
  BY <1>i, FieldTypes DEF TypeOK
<1>k. mode = "handler" /\ frame.cause # "exception" => frame.mpp = "U"
  BY <1>i, <1>f DEF FrameOfTrap
<1>1. CASE Tick
  <2>1. now' = now + 1 /\ UNCHANGED <<mode, timecmp, current, sp, mscratch, saved, frame, user, task,
                                     times, resp, armed, entered, trap>>
    BY <1>1 DEF Tick, clock
  <2>2. TypeOK' /\ HistoryOK'
    BY <1>i, <2>1 DEF TypeOK, HistoryOK
  <2>3. ScratchRule' /\ FrameOfTrap' /\ OutcomeKept' /\ OutcomeOfLastTrap'
    BY <1>i, <2>1 DEF ScratchRule, FrameOfTrap, OutcomeKept, OutcomeOfLastTrap, GrantedInFull, LimitFits
  <2>4. TimesOrdered' /\ TimerOfSession'
    BY <1>i, <2>1, FieldTypes DEF TimesOrdered, TimerOfSession, TypeOK, HistoryOK
  <2> QED BY <2>2, <2>3, <2>4 DEF IInv
<1>2. CASE CallUser
  <2>1. /\ mode = "kernel" /\ mode' = "entering"
        /\ saved' = sp /\ sp' \in Values /\ current' = NoTask /\ mscratch' = TrapTop
        /\ user' = [epc |-> 0, x |-> 0]
        /\ UNCHANGED <<now, frame, task, times, resp, entered, trap>>
    BY <1>2 DEF CallUser
  <2>2. PICK t \in Limits : SetOneshot(Stretched(t)) /\ armed' = [limit |-> t, at |-> now]
    BY <1>2 DEF CallUser
  <2>3. t \in Nat /\ now \in Nat /\ Modulus \in Nat \ {0} /\ Grace \in Nat
    BY <1>i, UserModeAssumption DEF TypeOK
  <2>4. timecmp' \in 0 .. Modulus - 1
    <3>1. Stretched(t) \in Nat
      BY <2>3 DEF Stretched
    <3> QED BY <2>2, <2>3, <3>1 DEF SetOneshot
  <2>5. TypeOK'
    BY <1>i, <2>1, <2>4, UserModeAssumption DEF TypeOK, ScratchRule, Registers
  <2>6. HistoryOK' /\ FrameOfTrap' /\ TimesOrdered' /\ OutcomeKept' /\ OutcomeOfLastTrap'
    BY <1>i, <2>1, <2>2, <2>3 DEF HistoryOK, FrameOfTrap, TimesOrdered, OutcomeKept, OutcomeOfLastTrap
  <2>7. TimerOfSession'
    BY <1>i, <2>1, <2>2 DEF TimerOfSession, SetOneshot
  <2>8. ScratchRule'
    BY <1>i, <2>1 DEF ScratchRule
  <2> QED BY <2>5, <2>6, <2>8, <2>7 DEF IInv
<1>3. CASE EnterUser
  <2>1. /\ mode = "entering" /\ mode' = "user"
        /\ times' = [times EXCEPT !.start = now] /\ entered' = now
        /\ UNCHANGED <<now, timecmp, current, sp, mscratch, saved, frame, user, task, resp,
                      armed, trap>>
    BY <1>3 DEF EnterUser
  <2>2. times' \in Times /\ times'.start = now /\ now \in Nat
    BY <1>i, <2>1 DEF TypeOK, Times
  <2>3. TypeOK' /\ HistoryOK'
    BY <1>i, <2>1, <2>2 DEF TypeOK, HistoryOK
  <2>4. ScratchRule' /\ FrameOfTrap' /\ OutcomeKept' /\ OutcomeOfLastTrap'
    BY <1>i, <2>1 DEF ScratchRule, FrameOfTrap, OutcomeKept, OutcomeOfLastTrap, GrantedInFull, LimitFits
  <2>5. TimesOrdered' /\ TimerOfSession'
    BY <1>i, <2>1, <2>2 DEF TimesOrdered, TimerOfSession
  <2> QED BY <2>3, <2>4, <2>5 DEF IInv
<1>4. CASE UserStep
  <2>1. /\ mode = "user" /\ user' \in [epc : 0 .. MaxEpc, x : Values] /\ sp' \in Values
        /\ UNCHANGED <<mode, now, timecmp, current, mscratch, saved, frame, task, times, resp, entered,
                      armed, trap>>
    BY <1>4 DEF UserStep, clock
  <2>2. user' \in Registers /\ sp' \in Int
    <3>1. PICK p \in 0 .. MaxEpc, x \in Values : user' = [epc |-> p, x |-> x]
      BY <2>1
    <3>2. \A v \in Values : v \in Nat /\ v \in Int
      BY UserModeAssumption
    <3> QED BY <2>1, <3>1, <3>2 DEF Registers
  <2>3. TypeOK' /\ HistoryOK'
    BY <1>i, <2>1, <2>2 DEF TypeOK, HistoryOK
  <2>4. ScratchRule' /\ FrameOfTrap' /\ OutcomeKept' /\ OutcomeOfLastTrap' /\ TimesOrdered'
        /\ TimerOfSession'
    BY <1>i, <2>1 DEF ScratchRule, FrameOfTrap, OutcomeKept, OutcomeOfLastTrap, GrantedInFull, LimitFits, TimesOrdered,
      TimerOfSession
  <2> QED BY <2>3, <2>4 DEF IInv
<1>5. CASE UserException
  BY <1>5, UserTrapHolds DEF UserException, Causes, TrapCauses
<1>6. CASE TimerInterrupt
  BY <1>6, UserTrapHolds DEF TimerInterrupt, TrapCauses, TimerPending
<1>7. CASE KernelTrap
  <2>1. /\ SaveAll("M", "exception") /\ mode' = "handler" /\ "exception" \in TrapCauses
        /\ UNCHANGED <<now, timecmp, current, saved, user, task, times, resp, armed, entered, trap>>
    BY <1>7 DEF KernelTrap, clock, TrapCauses, Causes
  <2>2. /\ frame' \in Frames /\ sp' \in Int /\ sp' = frame'.base /\ mscratch' = 0
        /\ frame'.mpp = "M" /\ frame'.cause = "exception"
    BY <1>i, <2>1, NewFrame
  <2>3. TypeOK' /\ HistoryOK'
    BY <1>i, <2>1, <2>2 DEF TypeOK, HistoryOK
  <2>4. ScratchRule' /\ FrameOfTrap' /\ OutcomeKept' /\ OutcomeOfLastTrap' /\ TimesOrdered'
        /\ TimerOfSession'
    BY <1>i, <2>1, <2>2 DEF ScratchRule, FrameOfTrap, OutcomeKept, OutcomeOfLastTrap, GrantedInFull, LimitFits, TimesOrdered,
      TimerOfSession
  <2> QED BY <2>3, <2>4 DEF IInv
<1>8. CASE AnswerFault
  BY <1>8, <1>f, <1>k, RestoreHolds DEF AnswerFault, Handling
<1>9. CASE KillFault
  <2>1. mode = "handler" /\ frame.mpp = "U" /\ frame.cause = "page fault"
    BY <1>9, <1>k DEF KillFault, Handling
  <2>2. Leave(-11, "EPAGEFAULT")
    BY <1>9 DEF KillFault
  <2>3. "EPAGEFAULT" \in Errors /\ -11 \in Int
    BY DEF Errors
  <2>4. frame.cause # "ecall"
    BY <2>1
  <2>5. Outcome(frame) = -11
    BY <2>1, <2>4 DEF Outcome
  <2>6. -11 = Outcome(frame)
    BY <2>5
  <2> QED BY <2>1, <2>2, <2>3, <2>6, LeaveHolds
<1>10. CASE Emulate
  <2>1. mode = "handler" /\ frame.mpp = "U"
    BY <1>10, <1>k DEF Emulate, Handling
  <2>2. now \in Nat
    BY <1>i DEF TypeOK
  <2>3. After(frame.user) \in Registers /\ [After(frame.user) EXCEPT !.x = now] \in Registers
    <3>1. frame.user.epc \in 0 .. MaxEpc /\ frame.user.x \in Nat
      BY <1>f DEF Registers
    <3>2. (frame.user.epc + 1) % (MaxEpc + 1) \in 0 .. MaxEpc
      BY <3>1, UserModeAssumption
    <3>4. \A r \in Registers : \A p \in 0 .. MaxEpc : [r EXCEPT !.epc = p] \in Registers
      BY DEF Registers
    <3>5. \A r \in Registers : \A n \in Nat : [r EXCEPT !.x = n] \in Registers
      BY DEF Registers
    <3>6. After(frame.user) \in Registers
      BY <1>f, <3>2, <3>4 DEF After
    <3> QED BY <2>2, <3>5, <3>6
  <2> QED BY <1>10, <1>f, <2>1, <2>2, <2>3, RestoreHolds DEF Emulate
<1>11. CASE Exit
  <2>1. mode = "handler" /\ frame.mpp = "U" /\ frame.cause = "ecall"
    BY <1>11, <1>k DEF Exit, Handling
  <2>2. Leave(Int32(frame.user.x), "ok")
    BY <1>11 DEF Exit
  <2>3. "ok" \in Errors /\ Int32(frame.user.x) \in Int /\ Int32(frame.user.x) = Outcome(frame)
    BY <1>f, <2>1, Int32Type DEF Errors, Outcome
  <2> QED BY <2>1, <2>2, <2>3, LeaveHolds
<1>12. CASE Wrong
  <2>1. mode = "handler" /\ frame.mpp = "U" /\ frame.cause = "exception"
    BY <1>12 DEF Wrong, Handling
  <2>2. "EUSER" \in Errors /\ -1 \in Int /\ -1 = Outcome(frame)
    BY <2>1 DEF Errors, Outcome
  <2> QED BY <1>12, <2>1, <2>2, LeaveHolds DEF Wrong
<1>13. CASE TimedOut
  <2>1. mode = "handler" /\ frame.mpp = "U" /\ frame.cause = "timer"
    BY <1>13, <1>k DEF TimedOut, Handling
  <2>2. "ETIMEOUT" \in Errors /\ -1 \in Int /\ -1 = Outcome(frame)
    BY <2>1 DEF Errors, Outcome
  <2> QED BY <1>13, <2>1, <2>2, LeaveHolds DEF TimedOut
<1>14. CASE KernelException
  <2>1. /\ mode = "handler" /\ mode' = "halted" /\ times' = [times EXCEPT !.end = frame.cycle]
        /\ UNCHANGED <<now, timecmp, current, sp, mscratch, saved, frame, user, task, resp, armed,
                      entered, trap>>
    BY <1>14 DEF KernelException, Handling, clock
  <2>2. times' \in Times
    BY <1>i, <2>1, FieldTypes DEF TypeOK, Times
  <2>3. TypeOK' /\ HistoryOK'
    BY <1>i, <2>1, <2>2 DEF TypeOK, HistoryOK
  <2>4. ScratchRule' /\ FrameOfTrap' /\ OutcomeKept' /\ OutcomeOfLastTrap' /\ TimesOrdered'
        /\ TimerOfSession'
    BY <1>i, <2>1 DEF ScratchRule, FrameOfTrap, OutcomeKept, OutcomeOfLastTrap, GrantedInFull, LimitFits, TimesOrdered,
      TimerOfSession
  <2> QED BY <2>3, <2>4 DEF IInv
<1>15. CASE EndSession
  <2>1. /\ mode = "reported" /\ mode' = "kernel" /\ resp' = NoResp
        /\ UNCHANGED <<now, timecmp, current, sp, mscratch, saved, frame, user, task, times, armed,
                      entered, trap>>
    BY <1>15 DEF EndSession, clock
  <2>2. TypeOK' /\ HistoryOK'
    BY <1>i, <2>1 DEF TypeOK, HistoryOK, NoResp
  <2>3. ScratchRule' /\ FrameOfTrap' /\ OutcomeKept' /\ OutcomeOfLastTrap' /\ TimesOrdered'
        /\ TimerOfSession'
    BY <1>i, <2>1 DEF ScratchRule, FrameOfTrap, OutcomeKept, OutcomeOfLastTrap, TimesOrdered,
      TimerOfSession
  <2> QED BY <2>2, <2>3 DEF IInv
<1>17. CASE Report
  BY <1>17, ReportHolds
<1>16. CASE UNCHANGED vars
  BY <1>16, <1>i DEF vars, clock, IInv, TypeOK, HistoryOK, ScratchRule, FrameOfTrap, TimesOrdered,
    TimerOfSession, OutcomeKept, OutcomeOfLastTrap, GrantedInFull, LimitFits
<1> QED
  BY <1>1, <1>2, <1>3, <1>4, <1>5, <1>6, <1>7, <1>8, <1>9, <1>10, <1>11, <1>12, <1>13, <1>14,
     <1>15, <1>16, <1>17 DEF Next, Handler

-----------------------------------------------------------------------------
(* The theorems. *)

\* The inductive invariant, for all values of the constants.
THEOREM Invariance == Spec => []IInv
  BY InitHolds, StepHolds, PTL DEF Spec

\* Every variable keeps its type.
THEOREM TypeCorrect == Spec => []TypeOK
<1>1. IInv => TypeOK
  BY DEF IInv
<1> QED BY <1>1, Invariance, PTL

\* The scratch register is zero exactly while the kernel runs, and the trap stack
\* is empty whenever the program does.
THEOREM ScratchTells == Spec => []ScratchRule
<1>1. IInv => ScratchRule
  BY DEF IInv
<1> QED BY <1>1, Invariance, PTL

\* The exit code and the time that do_judge reports are those of this session's last
\* trap, and a program that was timed out had its limit and a tenth more since it was
\* entered, as long as the sums do not wrap and entering took no longer than the grace.
THEOREM OutcomeIsLast == Spec => []OutcomeOfLastTrap
<1>1. IInv => OutcomeOfLastTrap
  BY DEF IInv
<1> QED BY <1>1, Invariance, PTL

\* A trap within the handler leaves the handler's frame alone.
THEOREM FramesApart == Spec => FramesDisjoint
<1>1. IInv /\ [Next]_vars =>
        [(mode = "handler" /\ frame' # frame) => frame'.base + Frame <= frame.base]_vars
  <2> SUFFICES ASSUME IInv, Next, mode = "handler", frame' # frame
               PROVE  frame'.base + Frame <= frame.base
    OBVIOUS
  <2>1. KernelTrap
    BY DEF Next, Handler, Tick, CallUser, EnterUser, UserStep, UserException, TimerInterrupt,
      UserTrap, AnswerFault, KillFault, Emulate, Exit, Wrong, TimedOut, KernelException,
      Report, EndSession, RestoreAll, Leave
  <2>2. SaveAll("M", "exception") /\ "exception" \in TrapCauses
    BY <2>1 DEF KernelTrap, TrapCauses, Causes
  <2>3. TypeOK /\ mscratch = 0 /\ sp = frame.base
    BY DEF IInv, ScratchRule
  <2>4. frame'.base = sp - Frame
    BY <2>2, <2>3, NewFrame
  <2>5. frame.base \in Int
    BY <2>3, FieldTypes DEF TypeOK
  <2> QED BY <2>3, <2>4, <2>5, UserModeAssumption
<1> QED BY <1>1, Invariance, PTL DEF Spec, FramesDisjoint

\* A program that is resumed finds its registers as they were, or after an
\* emulated instruction the next one with at most one register changed.
THEOREM ResumesRight == Spec => ContextRestored
<1> DEFINE Resumed ==
      (mode = "handler" /\ mode' = "user") =>
        \/ trap.cause = "page fault" /\ user' = trap.user /\ sp' = trap.sp
        \/ /\ trap.cause = "rdcycle" /\ user'.epc = After(trap.user).epc
           /\ (user'.x = trap.user.x \/ sp' = trap.sp)
<1>1. IInv /\ [Next]_vars => [Resumed]_vars
  <2> SUFFICES ASSUME IInv, Next, mode = "handler", mode' = "user"
               PROVE  \/ trap.cause = "page fault" /\ user' = trap.user /\ sp' = trap.sp
                      \/ /\ trap.cause = "rdcycle" /\ user'.epc = After(trap.user).epc
                         /\ (user'.x = trap.user.x \/ sp' = trap.sp)
    OBVIOUS
  <2>1. AnswerFault \/ Emulate
    BY DEF Next, Handler, Tick, CallUser, EnterUser, UserStep, UserException, TimerInterrupt,
      UserTrap, KernelTrap, KillFault, Exit, Wrong, TimedOut, KernelException, Report, EndSession, Leave
  <2>2. frame.cause # "exception"
    BY <2>1 DEF AnswerFault, Emulate, Handling
  <2>3. frame.mpp = "U"
    BY <2>2, FieldTypes DEF IInv, FrameOfTrap, TypeOK
  <2>4. trap.cause = frame.cause /\ trap.sp = frame.sp /\ trap.user = frame.user
    BY <2>3 DEF IInv, FrameOfTrap
  <2>5. CASE AnswerFault
    BY <2>4, <2>5 DEF AnswerFault, Handling, RestoreAll
  <2>6. CASE Emulate
    <3>1. frame.user \in Registers
      BY FieldTypes DEF IInv, TypeOK
    <3>2. /\ After(frame.user).x = frame.user.x
          /\ [After(frame.user) EXCEPT !.x = now].epc = After(frame.user).epc
      BY <3>1 DEF After, Registers
    <3> QED BY <2>4, <2>6, <3>2 DEF Emulate, Handling, RestoreAll
  <2> QED BY <2>1, <2>5, <2>6
<1> QED BY <1>1, Invariance, PTL DEF Spec, ContextRestored

\* Both: no trap costs the program its context.
THEOREM ContextIsKept == Spec => ContextKept
BY FramesApart, ResumesRight DEF ContextKept
=============================================================================
