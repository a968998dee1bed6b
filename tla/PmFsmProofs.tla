---------------------------- MODULE PmFsmProofs ----------------------------
(***************************************************************************)
(* Proofs about the assistive state machine, for every configuration set,  *)
(* request set, timer length and Hall fault limit.                         *)
(*                                                                         *)
(* The argument: a handler of a stopped machine ends in HALT and a handler *)
(* of a running machine leaves the bridge alone (BenchStep, WatchStep), so *)
(* who owns the machine (ProcedureOwnsMachine) decides who may touch the   *)
(* bridge, and only startup, shutdown and HALT change the owner.           *)
(***************************************************************************)
EXTENDS PmFsmProps, TLAPS

-----------------------------------------------------------------------------
(* Types *)

Typed == TypeOK /\ SubiInRange

\* What every handler but a few leaves typed, fsm_subi included.
HandlerTyped ==
  /\ fsm_state' \in States /\ fsm_phase' \in 0 .. 7 /\ fsm_subi' \in 0 .. 6
  /\ fsm_errno' \in Errno /\ tm_value' \in Nat /\ tm_end' \in Nat
  /\ pwm_DC' \in {"zero", "duty"} /\ pwm_Z' \in Impedance
  /\ SubiInRange'

\* A phase lasts a natural number of PWM cycles.
LEMMA TimersAreNat == \A t \in Timers : TM[t] \in Nat
BY TMAssumption

\* Each probe keeps the phase among the labels, the timer a natural number and
\* the index of its tables in range.
LEMMA ProbeTyped == ASSUME Typed, Probe PROVE HandlerTyped
<1> USE TimersAreNat DEF Typed, TypeOK, SubiInRange, HandlerTyped, Timers, States,
      StoppedReq, RunningReq, Errno, Impedance, Bridge, KeepBridge, Load, KeepTimer,
      Counted, Elapsed, Goto, Enter, KeepErrno, Verdict, Counting, Then, ThenLoad
<1>1. CASE ZeroDrift BY <1>1 DEF ZeroDrift
<1>2. CASE SelfTestBootstrap BY <1>2 DEF SelfTestBootstrap, NeedsTVM
<1>3. CASE SelfTestPowerStage
  BY <1>3 DEF SelfTestPowerStage, NeedsTVM, StageZ, StageDC, LastStage
<1>4. CASE SelfTestClearance BY <1>4 DEF SelfTestClearance
<1>5. CASE AdjustOnPcbVoltage BY <1>5 DEF AdjustOnPcbVoltage, NeedsTVM
<1>6. CASE AdjustOnPcbCurrent BY <1>6 DEF AdjustOnPcbCurrent
<1>7. CASE AdjustDcuVoltage
  BY <1>7 DEF AdjustDcuVoltage, OpenLoopStart, HoldCurrent, HoldTimer, CurrentLoop
<1>8. CASE ProbeConstResistance
  BY <1>8 DEF ProbeConstResistance, OpenLoopStart, HoldCurrent, HoldTimer, CurrentLoop
<1>9. CASE ProbeConstInductance
  BY <1>9 DEF ProbeConstInductance, OpenLoopStart, CurrentLoop
<1>10. CASE ProbeConstFluxLinkage BY <1>10 DEF ProbeConstFluxLinkage, ProbeRunning
<1>11. CASE ProbeConstInertia
  BY <1>11 DEF ProbeConstInertia, ProbeRunning, ProbeEndsIdle
<1>12. CASE ProbeThresholdTol
  BY <1>12 DEF ProbeThresholdTol, ProbeRunning, ProbeEndsIdle
<1>13. CASE AdjustSensorEabi BY <1>13 DEF AdjustSensorEabi, SensorVerdict
<1>14. CASE AdjustSensorSincos
  BY <1>14 DEF AdjustSensorSincos, ProbeRunning, SensorVerdict
<1> QED
  BY <1>1, <1>2, <1>3, <1>4, <1>5, <1>6, <1>7, <1>8, <1>9, <1>10, <1>11, <1>12,
     <1>13, <1>14 DEF Probe

\* The handler of the current state.
LEMMA HandlerKeepsTyped == ASSUME Typed, Handler PROVE Typed'
<1> USE TimersAreNat DEF Typed, TypeOK, SubiInRange, Timers, States,
      StoppedReq, RunningReq, Errno, Impedance, Modes, RunModes, Sensored, Bridge, KeepBridge,
      Load, KeepTimer, Counted, Elapsed, Goto, Enter, KeepErrno, Counting, Then, Handler
<1>1. CASE Idle /\ UNCHANGED <<lu_MODE, hall_ERN>> BY <1>1 DEF Idle
<1>2. CASE Probe /\ UNCHANGED <<lu_MODE, hall_ERN>>
  BY <1>2, ProbeTyped DEF HandlerTyped
<1>3. CASE AdjustSensorHall /\ UNCHANGED lu_MODE
  BY <1>3, HallAssumption DEF AdjustSensorHall, Bump, SensorVerdict
<1>4. CASE LuStartup BY <1>4, HallAssumption DEF LuStartup, BlindMode
<1>5. CASE LuShutdown /\ UNCHANGED hall_ERN BY <1>5 DEF LuShutdown, SwitchOff
<1>6. CASE Halt /\ UNCHANGED hall_ERN BY <1>6 DEF Halt, SwitchOff
<1> QED BY <1>1, <1>2, <1>3, <1>4, <1>5, <1>6

\* pm_lu_FSM keeps a running machine running and a stopped one stopped.
LEMMA LuFsmKeepsRunning ==
  ASSUME TypeOK, LuFsm
  PROVE  /\ lu_MODE' \in Modes /\ pwm_Z' \in Impedance
         /\ (lu_MODE = "DISABLED") <=> (lu_MODE' = "DISABLED")
<1>1. CASE UNCHANGED <<lu_MODE, pwm_Z>> BY <1>1 DEF TypeOK
<1>2. CASE lu_MODE # "DISABLED" /\ \E mode \in RunModes : Move(mode)
  BY <1>2 DEF Move, AfterMove, TypeOK, Modes, RunModes, Sensored, Impedance
<1> QED BY <1>1, <1>2 DEF LuFsm

\* The sampling step and the dispatch.
LEMMA FeedbackKeepsTyped == ASSUME Typed, Feedback PROVE Typed'
<1>1. lu_MODE' \in Modes /\ pwm_Z' \in Impedance
  BY LuFsmKeepsRunning DEF Feedback, Typed
<1>2. fb_HS' \in BOOLEAN /\ hall_ERN' \in 0 .. HallErrors
  <2>1. fb_HS' \in BOOLEAN BY Zenon DEF Feedback, SampleHall
  <2>2. hall_ERN' \in {0, Bump(hall_ERN), hall_ERN} BY DEF Feedback, SampleHall
  <2>3. Bump(hall_ERN) \in 0 .. HallErrors
    BY HallAssumption DEF Bump, Typed, TypeOK
  <2> QED BY <2>1, <2>2, <2>3, HallAssumption DEF Typed, TypeOK
<1>3. PICK e1 \in RequestFaults \cup {"OK"}, e2 \in TripFaults(lu_MODE') \cup {"OK"} :
        /\ fsm_req' = IF e1 # "OK" \/ HallFault THEN "HALT" ELSE fsm_req
        /\ fsm_state' = IF e2 # "OK" THEN "HALT" ELSE fsm_state
        /\ fsm_errno' = IF e2 # "OK" THEN e2 ELSE IF HallFault THEN "SENSOR"
                        ELSE IF e1 # "OK" THEN e1 ELSE fsm_errno
  BY DEF Feedback
<1>4. e1 \in Errno /\ e2 \in Errno BY <1>3 DEF RequestFaults, TripFaults, Errno
<1>5. fsm_req' \in States /\ fsm_state' \in States /\ fsm_errno' \in Errno
  BY <1>3, <1>4 DEF Typed, TypeOK, States, Errno
<1>6. UNCHANGED <<fsm_phase, fsm_subi, tm_value, tm_end, cfg>> /\ irq' = "fsm"
  BY DEF Feedback
<1>7. fsm_state' \in {fsm_state, "HALT"} BY <1>3
<1>8. pwm_DC' \in {"zero", "duty"} BY DEF Feedback, LoopDuty, Typed, TypeOK
<1> QED
  BY <1>1, <1>2, <1>5, <1>6, <1>7, <1>8 DEF Typed, TypeOK, SubiInRange

\* The mailbox is consumed without touching anything but state and phase.
LEMMA DispatchKeepsTyped == ASSUME Typed, Dispatch PROVE Typed'
BY DEF Typed, TypeOK, SubiInRange, Dispatch, Enter, States

\* The tasks write only requests, errors and configurations of their sets.
LEMMA TaskKeepsTyped == ASSUME Typed, Task PROVE Typed'
<1> USE DEF Typed, TypeOK, SubiInRange
<1>1. CASE Request BY <1>1, RequestsAssumption DEF Request
<1>2. CASE TaskHalt \/ SignalLost
  BY <1>2 DEF TaskHalt, SignalLost, States, RunningReq, Errno
<1>3. CASE WaitTimeout BY <1>3 DEF WaitTimeout, Errno
<1>4. CASE RegWrite BY <1>4 DEF RegWrite
<1> QED BY <1>1, <1>2, <1>3, <1>4 DEF Task

\* Every variable keeps its type and the three procedures indexed by fsm_subi
\* stay inside their tables, for any timers, requests and faults.
THEOREM TypeCorrect == Spec => [](TypeOK /\ SubiInRange)
<1>1. Init => Typed
  BY HallAssumption DEF Init, Typed, TypeOK, SubiInRange, States, StoppedReq,
     RunningReq, Errno, Modes, Impedance
<1>2. Typed /\ [Next]_vars => Typed'
  <2> SUFFICES ASSUME Typed, [Next]_vars PROVE Typed' OBVIOUS
  <2>1. CASE UNCHANGED vars BY <2>1 DEF Typed, TypeOK, SubiInRange, vars
  <2> QED
    BY <2>1, HandlerKeepsTyped, FeedbackKeepsTyped, DispatchKeepsTyped,
       TaskKeepsTyped DEF Next, Irq
<1> QED BY <1>1, <1>2, PTL DEF Spec, Typed

-----------------------------------------------------------------------------
(* Who owns the machine and who drives the bridge *)

\* A probe of a stopped machine ends in HALT at its first phase; a probe of a
\* running machine leaves the bridge alone.
BenchStep ==
  /\ fsm_state \in StoppedReq
  /\ \/ fsm_state' = fsm_state
     \/ fsm_state' = "HALT" /\ fsm_phase' = 0
WatchStep ==
  /\ fsm_state \in RunningReq /\ KeepBridge
  /\ \/ fsm_state' \in {fsm_state, "IDLE"}
     \/ fsm_state' = "HALT" /\ fsm_phase' = 0

\* The only two shapes a step of a probe can have.
LEMMA ProbeStep == ASSUME Probe PROVE BenchStep \/ WatchStep
<1> USE DEF BenchStep, WatchStep, StoppedReq, RunningReq, KeepBridge, Goto, Enter,
      Counting, Then, ThenLoad
<1>1. CASE ZeroDrift BY <1>1 DEF ZeroDrift
<1>2. CASE SelfTestBootstrap BY <1>2 DEF SelfTestBootstrap, NeedsTVM
<1>3. CASE SelfTestPowerStage BY <1>3 DEF SelfTestPowerStage, NeedsTVM
<1>4. CASE SelfTestClearance BY <1>4 DEF SelfTestClearance
<1>5. CASE AdjustOnPcbVoltage BY <1>5 DEF AdjustOnPcbVoltage, NeedsTVM
<1>6. CASE AdjustOnPcbCurrent BY <1>6 DEF AdjustOnPcbCurrent
<1>7. CASE AdjustDcuVoltage
  BY <1>7 DEF AdjustDcuVoltage, OpenLoopStart, HoldCurrent, CurrentLoop
<1>8. CASE ProbeConstResistance
  BY <1>8 DEF ProbeConstResistance, OpenLoopStart, HoldCurrent, CurrentLoop
<1>9. CASE ProbeConstInductance
  BY <1>9 DEF ProbeConstInductance, OpenLoopStart, CurrentLoop
<1>10. CASE ProbeConstFluxLinkage BY <1>10 DEF ProbeConstFluxLinkage, ProbeRunning
<1>11. CASE ProbeConstInertia
  BY <1>11 DEF ProbeConstInertia, ProbeRunning, ProbeEndsIdle
<1>12. CASE ProbeThresholdTol
  BY <1>12 DEF ProbeThresholdTol, ProbeRunning, ProbeEndsIdle
<1>13. CASE AdjustSensorEabi BY <1>13 DEF AdjustSensorEabi, SensorVerdict
<1>14. CASE AdjustSensorSincos
  BY <1>14 DEF AdjustSensorSincos, ProbeRunning, SensorVerdict
<1> QED
  BY <1>1, <1>2, <1>3, <1>4, <1>5, <1>6, <1>7, <1>8, <1>9, <1>10, <1>11, <1>12,
     <1>13, <1>14 DEF Probe

\* The Hall adjustment, which also counts forbidden codes, has the second shape.
LEMMA AdjustSensorHallStep == ASSUME AdjustSensorHall PROVE WatchStep
BY DEF AdjustSensorHall, SensorVerdict, WatchStep, RunningReq, Counting, Then, Goto,
   Enter, KeepBridge

\* A halting machine past its first phase that is no longer running is off:
\* what makes the exit from HALT safe even if it was entered by a trip.
HaltedIsOff ==
  fsm_state = "HALT" /\ fsm_phase >= 1 /\ lu_MODE = "DISABLED" => Off

Owned == ProcedureOwnsMachine /\ BridgeFollowsMode

\* No task touches the state, the mode or the bridge directly.
LEMMA TaskKeepsOwned ==
  ASSUME Task
  PROVE  UNCHANGED <<fsm_state, fsm_phase, lu_MODE, pwm_DC, pwm_Z>>
BY DEF Task, Request, TaskHalt, SignalLost, WaitTimeout, RegWrite

\* A fault may only force HALT, which any owner tolerates, and a move of the
\* observer FSM changes the bridge together with the mode.
LEMMA FeedbackKeepsOwned ==
  ASSUME Typed, Feedback, Owned
  PROVE  Owned' /\ (lu_MODE = "DISABLED" => UNCHANGED <<lu_MODE, pwm_DC, pwm_Z>>)
<1>1. (lu_MODE = "DISABLED") <=> (lu_MODE' = "DISABLED")
  BY LuFsmKeepsRunning DEF Feedback, Typed
<1>2. fsm_state' \in {fsm_state, "HALT"} BY DEF Feedback
<1>3. ProcedureOwnsMachine'
  BY <1>1, <1>2 DEF Owned, ProcedureOwnsMachine, StoppedReq, RunningReq
<1>4. BridgeFollowsMode'
  <2>1. CASE UNCHANGED <<lu_MODE, pwm_Z>> BY <2>1 DEF Owned, BridgeFollowsMode
  <2>2. CASE lu_MODE # "DISABLED" /\ \E mode \in RunModes : Move(mode)
    BY <2>2 DEF Owned, BridgeFollowsMode, Move, AfterMove
  <2> QED BY <2>1, <2>2 DEF Feedback, LuFsm
<1>5. lu_MODE = "DISABLED" => UNCHANGED <<lu_MODE, pwm_DC, pwm_Z>>
  BY DEF Feedback, LuFsm, LoopDuty
<1> QED BY <1>3, <1>4, <1>5 DEF Owned

\* A request is accepted only in a mode that suits its procedure.
LEMMA DispatchKeepsOwned == ASSUME Typed, Dispatch, Owned PROVE Owned'
BY DEF Typed, TypeOK, Dispatch, Enter, Accepted, AcceptsHalt, Owned,
   ProcedureOwnsMachine, BridgeFollowsMode, StoppedReq, RunningReq

\* Only startup, shutdown and HALT change the owner, each with the bridge.
LEMMA HandlerKeepsOwned == ASSUME Typed, Handler, Owned PROVE Owned'
<1> USE DEF Owned, ProcedureOwnsMachine, BridgeFollowsMode, StoppedReq, RunningReq, Handler
<1>1. CASE Idle /\ UNCHANGED lu_MODE BY <1>1 DEF Idle, KeepBridge
<1>2. CASE (Probe \/ AdjustSensorHall) /\ UNCHANGED lu_MODE
  BY <1>2, ProbeStep, AdjustSensorHallStep DEF BenchStep, WatchStep, KeepBridge
<1>3. CASE LuStartup BY <1>3 DEF LuStartup, Enter, Bridge, KeepBridge, BlindMode
<1>4. CASE LuShutdown BY <1>4 DEF LuShutdown, SwitchOff, Bridge, KeepBridge, Enter, Goto
<1>5. CASE Halt BY <1>5 DEF Halt, SwitchOff, Bridge, KeepBridge, Enter, Goto
<1> QED BY <1>1, <1>2, <1>3, <1>4, <1>5

\* The machine is stopped while a self test or a bench probe is in progress and
\* running while it is probed; and while it runs the bridge is driven exactly in
\* the modes other than DETACHED.
THEOREM MachineIsOwned == Spec => [](ProcedureOwnsMachine /\ BridgeFollowsMode)
<1>1. Init => Owned
  BY DEF Init, Owned, ProcedureOwnsMachine, BridgeFollowsMode, StoppedReq, RunningReq
<1>2. Typed /\ Owned /\ [Next]_vars => Owned'
  <2> SUFFICES ASSUME Typed, Owned, [Next]_vars PROVE Owned' OBVIOUS
  <2>1. CASE Task \/ UNCHANGED vars
    BY <2>1, TaskKeepsOwned DEF Owned, ProcedureOwnsMachine, BridgeFollowsMode, vars
  <2> QED
    BY <2>1, FeedbackKeepsOwned, DispatchKeepsOwned, HandlerKeepsOwned DEF Next, Irq
<1> QED BY <1>1, <1>2, TypeCorrect, PTL DEF Spec, Typed, Owned

-----------------------------------------------------------------------------
(* Steps *)

\* No procedure is cut by another: it is left for IDLE or HALT only.
THEOREM ProceduresAreExclusive == Spec => OneProcedureAtATime
<1> DEFINE Exclusive ==
      fsm_state' # fsm_state =>
        CASE fsm_state = "IDLE" -> TRUE
          [] fsm_state = "HALT" -> fsm_state' = "IDLE"
          [] OTHER -> fsm_state' \in {"IDLE", "HALT"}
<1>1. [Next]_vars => [Exclusive]_vars
  <2> SUFFICES ASSUME Next, fsm_state' # fsm_state PROVE Exclusive OBVIOUS
  <2>1. ~ Task BY TaskKeepsOwned
  <2>2. CASE Feedback BY <2>2 DEF Feedback
  <2>3. CASE Dispatch
    BY <2>3 DEF Dispatch, Enter, Accepted, AcceptsHalt
  <2>4. CASE Handler
    <3>1. CASE Idle BY <3>1 DEF Idle
    <3>2. CASE Probe \/ AdjustSensorHall
      BY <3>2, ProbeStep, AdjustSensorHallStep
         DEF BenchStep, WatchStep, StoppedReq, RunningReq
    <3>3. CASE LuStartup BY <3>3 DEF LuStartup, Enter
    <3>4. CASE LuShutdown BY <3>4 DEF LuShutdown, Enter, Goto
    <3>5. CASE Halt BY <3>5 DEF Halt, Enter, Goto
    <3> QED BY <2>4, <3>1, <3>2, <3>3, <3>4, <3>5 DEF Handler
  <2> QED BY <2>1, <2>2, <2>3, <2>4 DEF Next, Irq
<1> QED BY <1>1, PTL DEF Spec, OneProcedureAtATime

-----------------------------------------------------------------------------
(* An idle machine is off *)

EverySelectable == \A c \in Configs : Selectable(c)

OffInv == IdleIsOff /\ HaltedIsOff

\* A startup in a selectable configuration leaves a running machine or halts.
LEMMA StartupSelects ==
  ASSUME Typed, EverySelectable, LuStartup
  PROVE  \/ lu_MODE' # "DISABLED"
         \/ fsm_state' = "HALT" /\ fsm_phase' = 0
<1>1. Selectable(cfg) BY DEF Typed, TypeOK, EverySelectable
<1>2. CASE Enter("HALT") BY <1>2 DEF Enter
<1>3. CASE cfg.TVM /\ lu_MODE' = "DETACHED" BY <1>3
<1>4. CASE ~ cfg.TVM /\ \E adjusted \in BOOLEAN : lu_MODE' = BlindMode(adjusted)
  BY <1>1, <1>4 DEF Selectable, BlindMode
<1> QED BY <1>2, <1>3, <1>4 DEF LuStartup

\* A handler reaches IDLE on a stopped machine through HALT or shutdown only.
LEMMA HandlerKeepsOff ==
  ASSUME Typed, Owned, EverySelectable, OffInv, Handler PROVE OffInv'
<1> USE DEF OffInv, IdleIsOff, HaltedIsOff, Off, Handler
<1>1. CASE Idle /\ UNCHANGED lu_MODE BY <1>1 DEF Idle, KeepBridge
<1>2. CASE (Probe \/ AdjustSensorHall) /\ UNCHANGED lu_MODE
  BY <1>2, ProbeStep, AdjustSensorHallStep
     DEF BenchStep, WatchStep, KeepBridge, Owned, ProcedureOwnsMachine, StoppedReq,
         RunningReq
<1>3. CASE LuStartup
  BY <1>3, StartupSelects
<1>4. CASE LuShutdown BY <1>4 DEF LuShutdown, SwitchOff, Bridge, KeepBridge, Enter, Goto
<1>5. CASE Halt
  BY <1>5 DEF Halt, SwitchOff, Bridge, KeepBridge, Enter, Goto, Typed, TypeOK
<1> QED BY <1>1, <1>2, <1>3, <1>4, <1>5

\* An idle stopped machine is off, and so is one that waits out a HALT.
LEMMA AlwaysOff == EverySelectable => (Spec => []OffInv)
<1> SUFFICES ASSUME EverySelectable PROVE Spec => []OffInv OBVIOUS
<1>1. Init => OffInv BY DEF Init, OffInv, IdleIsOff, HaltedIsOff, Off
<1>2. Typed /\ Owned /\ OffInv /\ [Next]_vars => OffInv'
  <2> SUFFICES ASSUME Typed, Owned, OffInv, [Next]_vars PROVE OffInv' OBVIOUS
  <2>1. CASE Task \/ UNCHANGED vars
    BY <2>1, TaskKeepsOwned DEF OffInv, IdleIsOff, HaltedIsOff, Off, vars
  <2>2. CASE Feedback
    <3>1. (lu_MODE = "DISABLED") <=> (lu_MODE' = "DISABLED")
      BY <2>2, LuFsmKeepsRunning DEF Feedback, Typed
    <3>2. lu_MODE = "DISABLED" => UNCHANGED <<lu_MODE, pwm_DC, pwm_Z, fsm_state>>
      BY <2>2, FeedbackKeepsOwned DEF Feedback, TripFaults
    <3>3. UNCHANGED fsm_phase BY <2>2 DEF Feedback
    <3> QED BY <3>1, <3>2, <3>3 DEF OffInv, IdleIsOff, HaltedIsOff, Off
  <2>3. CASE Dispatch
    BY <2>3 DEF Dispatch, Enter, Accepted, AcceptsHalt, StoppedReq, RunningReq,
       OffInv, IdleIsOff, HaltedIsOff, Off
  <2> QED BY <2>1, <2>2, <2>3, HandlerKeepsOff DEF Next, Irq
<1> QED BY <1>1, <1>2, TypeCorrect, MachineIsOwned, PTL DEF Spec, Typed, Owned

\* Whatever stopped it, a machine that is idle has released the bridge, when the
\* configuration lets every startup select a mode.
THEOREM IdleMachineIsOff == EverySelectable => (Spec => []IdleIsOff)
<1> SUFFICES ASSUME EverySelectable PROVE Spec => []IdleIsOff OBVIOUS
<1> QED BY AlwaysOff, PTL DEF OffInv

-----------------------------------------------------------------------------
(* Refinement *)

\* Every step of the state machine is a step of module PowerStage or none.
THEOREM PowerStageIsKept == EverySelectable => (Spec => KeepsPowerStage)
<1> SUFFICES ASSUME EverySelectable PROVE Spec => KeepsPowerStage OBVIOUS
<1> USE DEF Stage!stage
<1>1. Init => Stage!Init BY DEF Init, Stage!Init
<1>2. Typed /\ Owned /\ OffInv /\ OffInv' /\ [Next]_vars => [Stage!Next]_(Stage!stage)
  <2> SUFFICES ASSUME Typed, Owned, OffInv, OffInv', [Next]_vars
               PROVE  [Stage!Next]_(Stage!stage)
    OBVIOUS
  <2> USE DEF Stage!Next, Stage!Take, Stage!Drive, Stage!Run, Stage!Leave, Stage!Stop
  <2>1. CASE Task \/ UNCHANGED vars BY <2>1, TaskKeepsOwned DEF vars
  <2>2. CASE Feedback
    <3>1. (lu_MODE = "DISABLED") <=> (lu_MODE' = "DISABLED")
      BY <2>2, LuFsmKeepsRunning DEF Feedback, Typed
    <3>2. lu_MODE = "DISABLED" => UNCHANGED <<lu_MODE, pwm_Z, fsm_state>>
      BY <2>2, FeedbackKeepsOwned DEF Feedback, TripFaults
    <3> QED BY <3>1, <3>2
  <2>3. CASE Dispatch
    BY <2>3 DEF Dispatch, Enter, Accepted, AcceptsHalt, StoppedReq, RunningReq, OffInv,
       IdleIsOff, Off
  <2>4. CASE Handler
    <3>1. CASE Idle /\ UNCHANGED lu_MODE BY <3>1 DEF Idle, KeepBridge
    <3>2. CASE (Probe \/ AdjustSensorHall) /\ UNCHANGED lu_MODE
      BY <3>2, ProbeStep, AdjustSensorHallStep
         DEF BenchStep, WatchStep, KeepBridge, Owned, ProcedureOwnsMachine, StoppedReq,
             RunningReq
    <3>3. CASE LuStartup
      BY <3>3, StartupSelects DEF LuStartup, Owned, ProcedureOwnsMachine, StoppedReq
    <3>4. CASE LuShutdown
      BY <3>4 DEF LuShutdown, SwitchOff, Bridge, KeepBridge, Enter, Goto, Owned,
         ProcedureOwnsMachine, RunningReq
    <3>5. CASE Halt
      BY <3>5 DEF Halt, SwitchOff, Bridge, KeepBridge, Enter, Goto, Typed, TypeOK, OffInv,
         HaltedIsOff, Off
    <3> QED BY <2>4, <3>1, <3>2, <3>3, <3>4, <3>5 DEF Handler
  <2> QED BY <2>1, <2>2, <2>3, <2>4 DEF Next, Irq
<1>3. Spec => []OffInv BY AlwaysOff
<1> QED BY <1>1, <1>2, <1>3, TypeCorrect, MachineIsOwned, PTL
  DEF Spec, KeepsPowerStage, Typed, Owned

-----------------------------------------------------------------------------
(* Phases *)

PhaseInv == PhaseIsHandled /\ HaltIsOff

\* A handler moves to a label of its own switch, or enters IDLE or HALT.
LEMMA HandlerKeepsPhase ==
  ASSUME Typed, PhaseInv, Handler PROVE PhaseIsHandled'
<1> USE DEF PhaseInv, PhaseIsHandled, Last, Typed, TypeOK, States, StoppedReq, RunningReq,
      Goto, Enter, Counting, Then, ThenLoad
<1>1. CASE Idle BY <1>1 DEF Idle
<1>2. CASE Probe
  <2>1. CASE ZeroDrift BY <2>1 DEF ZeroDrift
  <2>2. CASE SelfTestBootstrap BY <2>2 DEF SelfTestBootstrap, NeedsTVM
  <2>3. CASE SelfTestPowerStage BY <2>3 DEF SelfTestPowerStage, NeedsTVM
  <2>4. CASE SelfTestClearance BY <2>4 DEF SelfTestClearance
  <2>5. CASE AdjustOnPcbVoltage BY <2>5 DEF AdjustOnPcbVoltage, NeedsTVM
  <2>6. CASE AdjustOnPcbCurrent BY <2>6 DEF AdjustOnPcbCurrent
  <2>7. CASE AdjustDcuVoltage
    BY <2>7 DEF AdjustDcuVoltage, OpenLoopStart, HoldCurrent, CurrentLoop
  <2>8. CASE ProbeConstResistance
    BY <2>8 DEF ProbeConstResistance, OpenLoopStart, HoldCurrent, CurrentLoop
  <2>9. CASE ProbeConstInductance
    BY <2>9 DEF ProbeConstInductance, OpenLoopStart, CurrentLoop
  <2>10. CASE ProbeConstFluxLinkage BY <2>10 DEF ProbeConstFluxLinkage, ProbeRunning
  <2>11. CASE ProbeConstInertia
    BY <2>11 DEF ProbeConstInertia, ProbeRunning, ProbeEndsIdle
  <2>12. CASE ProbeThresholdTol
    BY <2>12 DEF ProbeThresholdTol, ProbeRunning, ProbeEndsIdle
  <2>13. CASE AdjustSensorEabi BY <2>13 DEF AdjustSensorEabi, SensorVerdict
  <2>14. CASE AdjustSensorSincos
    BY <2>14 DEF AdjustSensorSincos, ProbeRunning, SensorVerdict
  <2> QED
    BY <1>2, <2>1, <2>2, <2>3, <2>4, <2>5, <2>6, <2>7, <2>8, <2>9, <2>10, <2>11,
       <2>12, <2>13, <2>14 DEF Probe
<1>3. CASE AdjustSensorHall BY <1>3 DEF AdjustSensorHall, SensorVerdict
<1>4. CASE LuStartup BY <1>4 DEF LuStartup
<1>5. CASE LuShutdown BY <1>5 DEF LuShutdown
<1>6. CASE Halt BY <1>6 DEF Halt
<1> QED BY <1>1, <1>2, <1>3, <1>4, <1>5, <1>6 DEF Handler

\* As long as pm_voltage and pm_wattage do not force HALT themselves, every phase
\* a handler is entered at is one of its labels, and HALT waits with the machine
\* off. With those trips both are false (run fsm_trip_in_procedure).
THEOREM PhasesAreHandled == ~ DirectFaults => (Spec => [](PhaseIsHandled /\ HaltIsOff))
<1> SUFFICES ASSUME ~ DirectFaults
             PROVE  Spec => [](PhaseIsHandled /\ HaltIsOff)
    OBVIOUS
<1>1. Init => PhaseInv
  BY DEF Init, PhaseInv, PhaseIsHandled, HaltIsOff, Last, States
<1>2. Typed /\ Typed' /\ Owned /\ PhaseInv /\ [Next]_vars => PhaseInv'
  <2> SUFFICES ASSUME Typed, Typed', Owned, PhaseInv, [Next]_vars PROVE PhaseInv' OBVIOUS
  <2>1. CASE Task \/ UNCHANGED vars
    BY <2>1, TaskKeepsOwned DEF PhaseInv, PhaseIsHandled, HaltIsOff, Off, vars
  <2>2. CASE Feedback
    <3>1. UNCHANGED <<fsm_state, fsm_phase>> BY <2>2 DEF Feedback, TripFaults
    <3>2. lu_MODE = "DISABLED" => UNCHANGED <<lu_MODE, pwm_DC, pwm_Z>>
      BY <2>2, FeedbackKeepsOwned
    <3> QED BY <3>1, <3>2 DEF PhaseInv, PhaseIsHandled, HaltIsOff, Off
  <2>3. CASE Dispatch
    BY <2>3 DEF Dispatch, Enter, PhaseInv, PhaseIsHandled, HaltIsOff, Off, Last, Typed,
       TypeOK, States, StoppedReq, RunningReq
  <2>4. CASE Handler
    <3>1. PhaseIsHandled' BY <2>4, HandlerKeepsPhase
    <3>2. HaltIsOff'
      <4> USE DEF PhaseInv, HaltIsOff, Off, Handler
      <4>1. CASE Idle BY <4>1 DEF Idle
      <4>2. CASE Probe \/ AdjustSensorHall
        BY <4>2, ProbeStep, AdjustSensorHallStep
           DEF BenchStep, WatchStep, StoppedReq, RunningReq
      <4>3. CASE LuStartup BY <4>3 DEF LuStartup, Enter
      <4>4. CASE LuShutdown BY <4>4 DEF LuShutdown, Enter, Goto
      <4>5. CASE Halt
        BY <4>5 DEF Halt, SwitchOff, Bridge, KeepBridge, Enter, Goto
      <4> QED BY <2>4, <4>1, <4>2, <4>3, <4>4, <4>5
    <3> QED BY <3>1, <3>2 DEF PhaseInv
  <2> QED BY <2>1, <2>2, <2>3, <2>4 DEF Next, Irq
<1> QED BY <1>1, <1>2, TypeCorrect, MachineIsOwned, PTL DEF Spec, Typed, Owned, PhaseInv
=============================================================================
