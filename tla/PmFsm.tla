------------------------------- MODULE PmFsm -------------------------------
(***************************************************************************)
(* The assistive state machine of the motor controller (phobia/pm_fsm.c)   *)
(* inside the ADC interrupt that runs it (ADC_IRQ of main.c and            *)
(* pm_feedback of phobia/pm.c).                                            *)
(*                                                                         *)
(* Tasks and lower-priority interrupts leave a request in the one-cell     *)
(* mailbox fsm_req.  Each PWM cycle the interrupt                          *)
(*   1. samples the inputs, trips faults and steps the observer FSM,       *)
(*   2. consumes the mailbox (it accepts or silently drops the request),   *)
(*   3. runs one step of the handler of the current fsm_state.             *)
(* The interrupt has a higher priority than every other writer of this     *)
(* state, so the three steps exclude the tasks: irq is its program counter *)
(* and tasks act only when irq = "task".                                   *)
(*                                                                         *)
(* Abstracted: currents, voltages and estimates (a comparison of floats is *)
(* a nondeterministic choice), the duty cycle (zero or not), and fsm_errno *)
(* up to the classes of Errno.  The observer FSM pm_lu_FSM appears here    *)
(* through LuMoves, what it may do to lu_MODE and the bridge; module       *)
(* LuModes gives its transitions in full and implements LuMoves.           *)
(***************************************************************************)
EXTENDS Integers, LuMoves

CONSTANTS
  TM,           \* length of each timed phase in PWM cycles, PM_TSMS(pm, tm_...)
  Configs,      \* the configurations the registers may hold
  Requests,     \* the values that tasks write to fsm_req
  DirectFaults, \* whether pm_voltage and pm_wattage may trip
  WaitTimeouts, \* whether pm_wait_... may give up and write fsm_errno
  HallErrors    \* forbidden Hall codes in a row that make a fault (10)

VARIABLES
  fsm_req, fsm_state, fsm_phase, fsm_subi, fsm_errno,
  tm_value, tm_end,       \* the counter of a timed phase and its end
  lu_MODE,                \* the mode of the observer FSM
  fb_HS,                  \* whether the Hall code of this cycle is a valid one
  hall_ERN,               \* forbidden Hall codes in a row, up to HallErrors
  pwm_DC, pwm_Z,          \* duty cycle; phases held in high impedance
  cfg,                    \* the configuration registers the FSM reads
  irq                     \* where the ADC interrupt is

vars == <<fsm_req, fsm_state, fsm_phase, fsm_subi, fsm_errno, tm_value,
          tm_end, lu_MODE, fb_HS, hall_ERN, pwm_DC, pwm_Z, cfg, irq>>

Timers == {"transient_slow", "transient_fast", "voltage_hold", "current_hold",
           "current_ramp", "instant_probe", "average_probe", "average_drift",
           "average_inertia", "average_outside", "pause_halt"}

\* Requests that need the machine stopped, and those that need it running.
StoppedReq == {"ZERO_DRIFT", "SELF_TEST_BOOTSTRAP", "SELF_TEST_POWER_STAGE",
               "SELF_TEST_CLEARANCE", "ADJUST_ON_PCB_VOLTAGE",
               "ADJUST_ON_PCB_CURRENT", "ADJUST_DCU_VOLTAGE",
               "PROBE_CONST_RESISTANCE", "PROBE_CONST_INDUCTANCE",
               "LU_DETACHED", "LU_STARTUP"}
RunningReq == {"LU_SHUTDOWN", "PROBE_CONST_FLUX_LINKAGE",
               "PROBE_CONST_INERTIA", "PROBE_THRESHOLD_TOL",
               "ADJUST_SENSOR_HALL", "ADJUST_SENSOR_EABI",
               "ADJUST_SENSOR_SINCOS"}
States == StoppedReq \cup RunningReq \cup {"IDLE", "HALT"}

\* PROBE stands for the verdicts of the probes (ZERO_DRIFT_FAULT,
\* NO_MOTOR_CONNECTED, POWER_STAGE_BROKEN, LOW_..._ACCURACY,
\* UNCERTAIN_RESULT), SENSOR for SENSOR_..._FAULT, INSTANT for
\* INSTANT_OVERCURRENT and DC_LINK_OVERVOLTAGE, HW for the faults main.c and
\* the applications raise, SIGNAL for KNOB_SIGNAL_FAULT.
Errno == {"OK", "PROBE", "NAN", "BOOTSTRAP", "CURRENT_LOOP", "SENSOR",
          "INSTANT", "HW", "SIGNAL", "TIMEOUT"}

Impedance == {"NONE", "A", "B", "C", "AB", "AC", "BC", "ABC"}

ConfigType == [TVM : BOOLEAN, DCU : BOOLEAN, ESTIMATE : BOOLEAN,
               SENSOR : {"NONE", "HALL", "EABI", "SINCOS"},
               FORCED : BOOLEAN, SINCOS_ANALOG : BOOLEAN]

ASSUME TMAssumption      == TM \in [Timers -> Nat]
ASSUME ConfigsAssumption == Configs \subseteq ConfigType /\ Configs # {}
ASSUME RequestsAssumption == Requests \subseteq States
ASSUME FlagsAssumption   == DirectFaults \in BOOLEAN /\ WaitTimeouts \in BOOLEAN
ASSUME HallAssumption    == HallErrors \in Nat \ {0}

\* The last phase of each handler, the labels of its switch being 0 .. Last.
Last == [s \in States |->
  CASE s \in {"IDLE", "LU_STARTUP", "LU_DETACHED"} -> 0
    [] s \in {"LU_SHUTDOWN", "HALT"} -> 1
    [] s \in {"PROBE_CONST_FLUX_LINKAGE", "PROBE_CONST_INERTIA",
              "PROBE_THRESHOLD_TOL", "ADJUST_SENSOR_HALL",
              "ADJUST_SENSOR_SINCOS"} -> 2
    [] s \in {"ZERO_DRIFT", "ADJUST_SENSOR_EABI"} -> 3
    [] s \in {"SELF_TEST_CLEARANCE", "ADJUST_ON_PCB_VOLTAGE",
              "PROBE_CONST_INDUCTANCE"} -> 4
    [] s = "SELF_TEST_POWER_STAGE" -> 5
    [] OTHER -> 7]

TypeOK ==
  /\ fsm_req \in States /\ fsm_state \in States
  /\ fsm_phase \in 0 .. 7 /\ fsm_subi \in 0 .. 6
  /\ fsm_errno \in Errno
  /\ tm_value \in Nat /\ tm_end \in Nat
  /\ lu_MODE \in Modes /\ fb_HS \in BOOLEAN
  /\ hall_ERN \in 0 .. HallErrors
  /\ pwm_DC \in {"zero", "duty"} /\ pwm_Z \in Impedance
  /\ cfg \in Configs
  /\ irq \in {"task", "fsm", "handler"}

\* Power-up: pm is zeroed, PWM_startup leaves the bridge channels disabled and
\* task_INIT asks for a zero drift probe before interrupts are unlocked.
Init ==
  /\ fsm_req = "ZERO_DRIFT" /\ fsm_state = "IDLE"
  /\ fsm_phase = 0 /\ fsm_subi = 0 /\ fsm_errno = "OK"
  /\ tm_value = 0 /\ tm_end = 0
  /\ lu_MODE = "DISABLED" /\ fb_HS = TRUE /\ hall_ERN = 0
  /\ pwm_DC = "zero" /\ pwm_Z = "ABC"
  /\ cfg \in Configs
  /\ irq = "task"

-----------------------------------------------------------------------------
(* Tasks and lower-priority interrupts *)

\* Any writer of the mailbox: commands, applications, CAN pipes, the shell.
Request ==
  /\ irq = "task"
  /\ fsm_req' \in Requests
  /\ UNCHANGED <<fsm_state, fsm_phase, fsm_subi, fsm_errno, tm_value, tm_end,
                 lu_MODE, fb_HS, hall_ERN, pwm_DC, pwm_Z, cfg, irq>>

\* In the next two a task tests lu_MODE and then writes fsm_errno and fsm_req.
\* One step stands for the three: no other task that could start a procedure
\* has a higher priority, and an interrupt in between at worst stops the
\* machine first, which Dispatch then sees as a request to a stopped machine.

\* task_TEMP on overheat, AS5047 on a run of SPI errors: halt a running machine.
TaskHalt ==
  /\ irq = "task" /\ lu_MODE # "DISABLED"
  /\ fsm_errno' = "HW" /\ fsm_req' = "HALT"
  /\ UNCHANGED <<fsm_state, fsm_phase, fsm_subi, tm_value, tm_end, lu_MODE,
                 fb_HS, hall_ERN, pwm_DC, pwm_Z, cfg, irq>>

\* Ten lost samples of the knob or of the pulse: shut a running machine down.
SignalLost ==
  /\ irq = "task" /\ lu_MODE # "DISABLED"
  /\ fsm_errno' = "SIGNAL" /\ fsm_req' = "LU_SHUTDOWN"
  /\ UNCHANGED <<fsm_state, fsm_phase, fsm_subi, tm_value, tm_end, lu_MODE,
                 fb_HS, hall_ERN, pwm_DC, pwm_Z, cfg, irq>>

\* A command that waited 10 s for a procedure or for the machine gives up.
WaitTimeout ==
  /\ WaitTimeouts
  /\ irq = "task" /\ (fsm_state # "IDLE" \/ lu_MODE # "DISABLED")
  /\ fsm_errno' = "TIMEOUT"
  /\ UNCHANGED <<fsm_req, fsm_state, fsm_phase, fsm_subi, tm_value, tm_end,
                 lu_MODE, fb_HS, hall_ERN, pwm_DC, pwm_Z, cfg, irq>>

\* The shell may write a configuration register at any time.
RegWrite ==
  /\ irq = "task"
  /\ cfg' \in Configs
  /\ UNCHANGED <<fsm_req, fsm_state, fsm_phase, fsm_subi, fsm_errno, tm_value,
                 tm_end, lu_MODE, fb_HS, hall_ERN, pwm_DC, pwm_Z, irq>>

-----------------------------------------------------------------------------
(* Step 1 of the interrupt: ADC_IRQ and pm_feedback up to pm_FSM *)

\* Faults that leave a HALT request: overcurrent and overvoltage at any time,
\* the hardware checks of ADC_IRQ while running.
RequestFaults == {"INSTANT"} \cup (IF lu_MODE # "DISABLED" THEN {"HW"} ELSE {})

\* pm_sensor_hall counts forbidden codes in a row and faults at the limit. The
\* code sampled in a cycle is the one every reader of that cycle sees.
Bump(n) == IF n < HallErrors THEN n + 1 ELSE n
HallRead == lu_MODE = "SENSOR_HALL" \/ fsm_state = "ADJUST_SENSOR_HALL"
SampleHall ==
  /\ fb_HS' \in IF HallRead THEN BOOLEAN ELSE {TRUE}
  /\ hall_ERN' = IF lu_MODE = "SENSOR_HALL"
                   THEN IF fb_HS' THEN 0 ELSE Bump(hall_ERN)
                 ELSE IF lu_MODE' = "SENSOR_HALL" THEN 0 ELSE hall_ERN
HallFault ==
  lu_MODE = "SENSOR_HALL" /\ ~ fb_HS' /\ hall_ERN' = HallErrors

\* pm_voltage and pm_wattage write fsm_state = HALT themselves, from the
\* mode the observer FSM has just selected.
TripFaults(mode) ==
  IF ~ DirectFaults THEN {}
  ELSE (IF mode # "DISABLED" THEN {"BOOTSTRAP"} ELSE {})
       \cup (IF mode \notin {"DISABLED", "DETACHED"} THEN {"NAN"} ELSE {})

\* pm_lu_FSM may select another mode, with the bridge that goes with it.
Move(mode) == lu_MODE' = mode /\ pwm_Z' = AfterMove(pwm_Z, lu_MODE, mode)

LuFsm ==
  \/ UNCHANGED <<lu_MODE, pwm_Z>>
  \/ /\ lu_MODE # "DISABLED"
     /\ \E mode \in RunModes : MayMove(cfg, lu_MODE, mode) /\ Move(mode)

\* While a mode is on, pm_voltage or pm_loop_current outputs a duty cycle.
LoopDuty == pwm_DC' = IF lu_MODE # "DISABLED" THEN "duty" ELSE pwm_DC

Feedback ==
  /\ irq = "task" /\ irq' = "fsm"
  /\ LuFsm /\ SampleHall /\ LoopDuty
  /\ \E e1 \in RequestFaults \cup {"OK"}, e2 \in TripFaults(lu_MODE') \cup {"OK"} :
       /\ fsm_req' = IF e1 # "OK" \/ HallFault THEN "HALT" ELSE fsm_req
       /\ fsm_state' = IF e2 # "OK" THEN "HALT" ELSE fsm_state
       /\ fsm_errno' = IF e2 # "OK" THEN e2 ELSE IF HallFault THEN "SENSOR"
                       ELSE IF e1 # "OK" THEN e1 ELSE fsm_errno
  /\ UNCHANGED <<fsm_phase, fsm_subi, tm_value, tm_end, cfg>>

-----------------------------------------------------------------------------
(* Step 2: pm_FSM consumes the mailbox. Definitions whose comment starts with *)
(* "Mutant" are wrong on purpose: runs that use them must find a violation.   *)

AcceptsHalt ==
  /\ fsm_req = "HALT" /\ fsm_state # "HALT"
  /\ fsm_state # "IDLE" \/ lu_MODE # "DISABLED"

\* Mutant: a probe of a stopped machine is taken while the machine runs.
AcceptedInAnyMode ==
  \/ fsm_req \in StoppedReq \cup RunningReq /\ fsm_state = "IDLE"
  \/ AcceptsHalt

\* Mutant: a request of a running machine is taken in the middle of another.
AcceptedInAnyState ==
  \/ fsm_req \in StoppedReq /\ fsm_state = "IDLE" /\ lu_MODE = "DISABLED"
  \/ fsm_req \in RunningReq /\ lu_MODE # "DISABLED"
  \/ AcceptsHalt

\* Mutant: HALT is taken like any other request, only when nothing is in progress.
AcceptedWhenIdle ==
  /\ fsm_state = "IDLE"
  /\ fsm_req \in IF lu_MODE = "DISABLED" THEN StoppedReq ELSE RunningReq \cup {"HALT"}

Accepted ==
  \/ fsm_req \in StoppedReq /\ fsm_state = "IDLE" /\ lu_MODE = "DISABLED"
  \/ fsm_req \in RunningReq /\ fsm_state = "IDLE" /\ lu_MODE # "DISABLED"
  \/ AcceptsHalt

\* Mutant: the phase of the procedure that was cut is kept.
EnterKeepsPhase(s) == fsm_state' = s /\ UNCHANGED fsm_phase

Enter(s) == fsm_state' = s /\ fsm_phase' = 0

Dispatch ==
  /\ irq = "fsm" /\ irq' = "handler"
  /\ fsm_req' = "IDLE"
  /\ IF Accepted THEN Enter(fsm_req) ELSE UNCHANGED <<fsm_state, fsm_phase>>
  /\ UNCHANGED <<fsm_subi, fsm_errno, tm_value, tm_end, lu_MODE, fb_HS, hall_ERN,
                 pwm_DC, pwm_Z, cfg>>

-----------------------------------------------------------------------------
(* Step 3: the handlers. Each disjunct is one label of the handler's switch *)
(* or one branch under it.                                                  *)

Bridge(dc, z) == pwm_DC' = dc /\ pwm_Z' = z
KeepBridge    == UNCHANGED <<pwm_DC, pwm_Z>>
Load(t)       == tm_value' = 0 /\ tm_end' = TM[t]
KeepTimer     == UNCHANGED <<tm_value, tm_end>>
\* Mutant: the counter of a timed phase is never advanced.
CountedNever  == KeepTimer
Counted       == tm_value' = tm_value + 1 /\ UNCHANGED tm_end
Elapsed       == tm_value + 1 >= tm_end
Goto(p)       == fsm_phase' = p /\ UNCHANGED fsm_state
KeepErrno     == UNCHANGED fsm_errno
Verdict       == fsm_errno' \in {fsm_errno, "PROBE"}

\* Mutant: a stop that leaves the bridge behind.
SwitchOffKeepsBridge == lu_MODE' = "DISABLED" /\ KeepBridge

\* What stops a running machine.
SwitchOff == Bridge("zero", "ABC") /\ lu_MODE' = "DISABLED"

\* One more cycle of a timed phase that has not reached tm_end.
Counting ==
  /\ ~ Elapsed /\ Counted
  /\ UNCHANGED <<fsm_state, fsm_phase, fsm_errno>>

\* The end of a timed phase: the next phase, and the timer it loads if any.
Then(p)        == Elapsed /\ Counted /\ Goto(p) /\ KeepErrno
ThenLoad(p, t) == Elapsed /\ Load(t) /\ Goto(p) /\ KeepErrno

ZeroDrift ==
  /\ fsm_state = "ZERO_DRIFT" /\ UNCHANGED fsm_subi
  /\ \/ /\ fsm_phase = 0
        /\ Bridge("zero", "ABC") /\ Load("average_drift")
        /\ fsm_errno' = "OK" /\ Goto(1)
     \/ fsm_phase = 1 /\ (Counting \/ Then(2)) /\ KeepBridge
     \/ fsm_phase = 2 /\ Goto(3) /\ Verdict /\ KeepTimer /\ KeepBridge
     \/ fsm_phase = 3 /\ Enter("HALT") /\ Verdict /\ KeepTimer /\ KeepBridge

\* The entry of the three tests that need terminal voltage measurement.
NeedsTVM ==
  /\ fsm_phase = 0 /\ KeepTimer /\ KeepBridge
  /\ IF cfg.TVM THEN Goto(1) /\ fsm_errno' = "OK"
                ELSE Enter("HALT") /\ KeepErrno

\* Phases 2/3, 4/5 and 6/7 discharge and charge one leg after the other.
SelfTestBootstrap ==
  /\ fsm_state = "SELF_TEST_BOOTSTRAP" /\ UNCHANGED fsm_subi
  /\ \/ NeedsTVM
     \/ /\ fsm_phase = 1 /\ Bridge("zero", "BC") /\ Load("transient_fast")
        /\ Goto(2) /\ KeepErrno
     \/ /\ fsm_phase \in {2, 4, 6}
        /\ \/ Counting /\ KeepBridge
           \/ /\ ThenLoad(fsm_phase + 1, "average_probe")
              /\ pwm_DC' = "duty" /\ UNCHANGED pwm_Z
     \/ fsm_phase \in {3, 5, 7} /\ Counting /\ KeepBridge
     \/ /\ fsm_phase \in {3, 5}  \* held for long enough or discharged early
        /\ Load("transient_fast") /\ Goto(fsm_phase + 1) /\ KeepErrno
        /\ Bridge("zero", IF fsm_phase = 3 THEN "AC" ELSE "AB")
     \/ /\ fsm_phase = 7 /\ Enter("HALT")
        /\ fsm_errno' \in {fsm_errno, "BOOTSTRAP"} /\ Counted /\ KeepBridge

\* The bridge outputs of the seven power stage checks.
StageZ  == [i \in 0 .. 6 |-> IF i = 0 THEN "ABC" ELSE
                             IF i \in {1, 2} THEN "BC" ELSE
                             IF i \in {3, 4} THEN "AC" ELSE "AB"]
StageDC == [i \in 0 .. 6 |-> IF i \in {1, 3, 5} THEN "duty" ELSE "zero"]

\* Mutant: one check too many.
LastStageOff == 7
LastStage    == 6

SelfTestPowerStage ==
  /\ fsm_state = "SELF_TEST_POWER_STAGE"
  /\ \/ NeedsTVM /\ fsm_subi' = IF cfg.TVM THEN 0 ELSE fsm_subi
     \/ /\ fsm_phase = 1 /\ Bridge(StageDC[fsm_subi], StageZ[fsm_subi])
        /\ Load("transient_fast") /\ Goto(2) /\ KeepErrno /\ UNCHANGED fsm_subi
     \/ /\ fsm_phase = 2 /\ (Counting \/ ThenLoad(3, "instant_probe"))
        /\ KeepBridge /\ UNCHANGED fsm_subi
     \/ /\ fsm_phase = 3 /\ (Counting \/ Then(4))
        /\ KeepBridge /\ UNCHANGED fsm_subi
     \/ /\ fsm_phase = 4 /\ KeepBridge /\ KeepTimer /\ KeepErrno
        /\ IF fsm_subi < LastStage THEN Goto(1) /\ fsm_subi' = fsm_subi + 1
                           ELSE Goto(5) /\ UNCHANGED fsm_subi
     \/ /\ fsm_phase = 5 /\ Enter("HALT") /\ fsm_errno' \in {"OK", "PROBE"}
        /\ KeepTimer /\ KeepBridge /\ UNCHANGED fsm_subi

SelfTestClearance ==
  /\ fsm_state = "SELF_TEST_CLEARANCE" /\ UNCHANGED fsm_subi /\ KeepBridge
  /\ \/ fsm_phase = 0 /\ Load("transient_slow") /\ fsm_errno' = "OK" /\ Goto(1)
     \/ fsm_phase = 1 /\ (Counting \/ ThenLoad(2, "average_probe"))
     \/ fsm_phase = 2 /\ (Counting \/ Then(3))
     \/ fsm_phase = 3 /\ Goto(4) /\ KeepErrno /\ KeepTimer
     \/ fsm_phase = 4 /\ Enter("HALT") /\ Verdict /\ KeepTimer

AdjustOnPcbVoltage ==
  /\ fsm_state = "ADJUST_ON_PCB_VOLTAGE"
  /\ \/ NeedsTVM /\ fsm_subi' = IF cfg.TVM THEN 0 ELSE fsm_subi
     \/ /\ fsm_phase = 1
        /\ Bridge(IF fsm_subi = 0 THEN "zero" ELSE "duty", "NONE")
        /\ Load("transient_fast") /\ Goto(2) /\ KeepErrno /\ UNCHANGED fsm_subi
     \/ fsm_phase = 2 /\ Counting /\ KeepBridge /\ UNCHANGED fsm_subi
     \/ /\ fsm_phase = 2  \* the bootstrap capacitor bounds the hold time
        /\ \E t \in {"voltage_hold", "instant_probe"} : ThenLoad(3, t)
        /\ KeepBridge /\ UNCHANGED fsm_subi
     \/ fsm_phase = 3 /\ Counting /\ KeepBridge /\ UNCHANGED fsm_subi
     \/ /\ fsm_phase = 3 /\ Then(IF fsm_subi = 0 THEN 1 ELSE 4)
        /\ fsm_subi' = 1 /\ KeepBridge
     \/ /\ fsm_phase = 4 /\ Enter("HALT") /\ Verdict
        /\ KeepTimer /\ KeepBridge /\ UNCHANGED fsm_subi

\* Phase 1 takes the next pair of clean current sensors, skipping the pairs
\* that are not measured; phases 2 to 4 ramp, hold and average a current loop.
AdjustOnPcbCurrent ==
  /\ fsm_state = "ADJUST_ON_PCB_CURRENT"
  /\ \/ /\ fsm_phase = 0 /\ Bridge("zero", "ABC") /\ KeepTimer
        /\ fsm_subi' = 0 /\ fsm_errno' = "OK" /\ Goto(1)
     \/ /\ fsm_phase = 1
        /\ \E i \in {j \in 0 .. 2 : j >= fsm_subi} :
             /\ fsm_subi' = i
             /\ pwm_Z' = <<"C", "B", "A">>[i + 1] /\ UNCHANGED pwm_DC
        /\ Load("current_ramp") /\ Goto(2) /\ KeepErrno
     \/ /\ fsm_phase = 1 /\ fsm_subi' = 3 /\ KeepBridge
        /\ Load("transient_fast") /\ Goto(6) /\ KeepErrno
     \/ /\ fsm_phase \in {2, 3, 4}
        /\ \/ Enter("HALT") /\ fsm_errno' = "CURRENT_LOOP" /\ KeepTimer /\ KeepBridge
           \/ /\ pwm_DC' = "duty" /\ UNCHANGED pwm_Z
              /\ \/ Counting
                 \/ ThenLoad(fsm_phase + 1, IF fsm_phase < 3 THEN "current_hold"
                                                             ELSE "average_probe")
        /\ UNCHANGED fsm_subi
     \/ /\ fsm_phase = 5 /\ fsm_subi' = fsm_subi + 1 /\ Goto(1)
        /\ KeepErrno /\ KeepTimer /\ KeepBridge
     \/ fsm_phase = 6 /\ (Counting \/ Then(7)) /\ KeepBridge /\ UNCHANGED fsm_subi
     \/ /\ fsm_phase = 7 /\ Enter("HALT") /\ Verdict
        /\ KeepTimer /\ KeepBridge /\ UNCHANGED fsm_subi

\* pm_fsm_probe_loop_current and the check of fsm_errno after it: the loop
\* fails, or it drives a current and the phase counts only if no error stands.
CurrentLoop(onTime) ==
  \/ Enter("HALT") /\ fsm_errno' = "CURRENT_LOOP" /\ KeepTimer /\ KeepBridge
  \/ /\ pwm_DC' = "duty" /\ UNCHANGED pwm_Z
     /\ \/ fsm_errno # "OK" /\ UNCHANGED <<fsm_state, fsm_phase, fsm_errno,
                                           tm_value, tm_end>>
        \/ fsm_errno = "OK" /\ (Counting \/ onTime)

\* Phases 1 to 7 common to the DCU and the resistance probes.
HoldTimer == <<"current_hold", "average_probe", "transient_slow",
               "average_probe", "transient_fast">>
HoldCurrent ==
  \/ /\ fsm_phase \in 1 .. 5
     /\ CurrentLoop(ThenLoad(fsm_phase + 1, HoldTimer[fsm_phase]))
  \/ fsm_phase = 6 /\ (Counting \/ Then(7)) /\ KeepBridge
  \/ fsm_phase = 7 /\ Enter("HALT") /\ Verdict /\ KeepTimer /\ KeepBridge

OpenLoopStart(t) ==
  /\ Bridge("zero", "NONE") /\ Load(t) /\ fsm_errno' = "OK" /\ Goto(1)

AdjustDcuVoltage ==
  /\ fsm_state = "ADJUST_DCU_VOLTAGE" /\ UNCHANGED fsm_subi
  /\ \/ fsm_phase = 0 /\ cfg.DCU /\ OpenLoopStart("current_ramp")
     \/ fsm_phase = 0 /\ ~ cfg.DCU /\ Enter("HALT") /\ KeepErrno /\ KeepTimer /\ KeepBridge
     \/ HoldCurrent

ProbeConstResistance ==
  /\ fsm_state = "PROBE_CONST_RESISTANCE" /\ UNCHANGED fsm_subi
  /\ \/ fsm_phase = 0 /\ OpenLoopStart("current_ramp")
     \/ HoldCurrent

ProbeConstInductance ==
  /\ fsm_state = "PROBE_CONST_INDUCTANCE" /\ UNCHANGED fsm_subi
  /\ \/ fsm_phase = 0 /\ OpenLoopStart("current_hold")
     \/ fsm_phase = 1 /\ CurrentLoop(ThenLoad(2, "average_probe"))
     \/ fsm_phase = 2 /\ CurrentLoop(ThenLoad(3, "transient_fast"))
     \/ fsm_phase = 3 /\ (Counting \/ Then(4)) /\ KeepBridge
     \/ fsm_phase = 4 /\ Enter("HALT") /\ Verdict /\ KeepTimer /\ KeepBridge

\* The mode a startup selects when terminal voltages are not measured.
BlindMode(adjusted) ==
  IF cfg.ESTIMATE THEN "ESTIMATE"
  ELSE IF cfg.SENSOR = "HALL" THEN "SENSOR_HALL"
  ELSE IF cfg.SENSOR = "EABI" /\ adjusted THEN "SENSOR_EABI"
  ELSE IF cfg.FORCED THEN "FORCED" ELSE "DISABLED"

\* LU_STARTUP and LU_DETACHED. When no mode can be selected the code sets
\* NAN_OPERATION and HALT and then falls through to the common exit.
LuStartup ==
  /\ fsm_state \in {"LU_STARTUP", "LU_DETACHED"}
  /\ fsm_phase = 0 /\ KeepTimer /\ UNCHANGED fsm_subi
  /\ \/ /\ Enter("HALT") /\ fsm_errno' = "NAN" /\ KeepBridge
        /\ UNCHANGED <<lu_MODE, hall_ERN>>
     \/ /\ Enter("IDLE") /\ fsm_errno' = "OK" /\ hall_ERN' = 0
        /\ IF cfg.TVM
             THEN lu_MODE' = "DETACHED" /\ Bridge("zero", "ABC")
             ELSE /\ \E adjusted \in BOOLEAN : lu_MODE' = BlindMode(adjusted)
                  /\ Bridge("zero", "NONE")

\* Phase 0 falls into phase 1, so the first cycle already counts one.
LuShutdown ==
  /\ fsm_state = "LU_SHUTDOWN" /\ KeepErrno /\ UNCHANGED fsm_subi
  /\ LET value == (IF fsm_phase = 0 THEN 0 ELSE tm_value) + 1
         end == IF fsm_phase = 0 THEN TM["transient_slow"] ELSE tm_end
     IN /\ tm_value' = value /\ tm_end' = end
        /\ \/ value < end /\ Goto(1) /\ KeepBridge /\ UNCHANGED lu_MODE
           \/ value >= end /\ Enter("IDLE") /\ SwitchOff

\* The probes of a running machine watch it and end in IDLE; the sensor
\* adjustments end in HALT when the sensor makes no sense.
ProbeRunning(s, t) ==
  /\ fsm_state = s /\ UNCHANGED fsm_subi /\ KeepBridge
  /\ \/ fsm_phase = 0 /\ Load(t) /\ fsm_errno' = "OK" /\ Goto(1)
     \/ fsm_phase = 1 /\ (Counting \/ Then(2))

ProbeConstFluxLinkage ==
  LET s == "PROBE_CONST_FLUX_LINKAGE"
  IN \/ ProbeRunning(s, IF lu_MODE = "DETACHED" THEN "average_drift"
                                                ELSE "average_probe")
     \/ /\ fsm_state = s /\ fsm_phase = 2 /\ Enter("IDLE") /\ KeepTimer /\ KeepBridge
        /\ fsm_errno' \in {fsm_errno, "PROBE", "NAN"} /\ UNCHANGED fsm_subi

ProbeEndsIdle(s) ==
  /\ fsm_state = s /\ fsm_phase = 2 /\ Enter("IDLE") /\ Verdict
  /\ KeepTimer /\ KeepBridge /\ UNCHANGED fsm_subi

ProbeConstInertia ==
  \/ ProbeRunning("PROBE_CONST_INERTIA", "average_inertia")
  \/ ProbeEndsIdle("PROBE_CONST_INERTIA")

ProbeThresholdTol ==
  \/ ProbeRunning("PROBE_THRESHOLD_TOL", "average_drift")
  \/ ProbeEndsIdle("PROBE_THRESHOLD_TOL")

SensorVerdict ==
  /\ \/ Enter("IDLE") /\ KeepErrno
     \/ Enter("HALT") /\ fsm_errno' = "SENSOR"
  /\ KeepTimer /\ KeepBridge /\ UNCHANGED fsm_subi

\* A forbidden Hall code does not count as a sample, the tenth in a row faults.
AdjustSensorHall ==
  /\ fsm_state = "ADJUST_SENSOR_HALL"
  /\ \/ /\ fsm_phase = 0 /\ Load("average_probe") /\ fsm_errno' = "OK" /\ Goto(1)
        /\ hall_ERN' = 0 /\ KeepBridge /\ UNCHANGED fsm_subi
     \/ /\ fsm_phase = 1 /\ fb_HS /\ (Counting \/ Then(2))
        /\ hall_ERN' = 0 /\ KeepBridge /\ UNCHANGED fsm_subi
     \/ /\ fsm_phase = 1 /\ ~ fb_HS /\ hall_ERN' = Bump(hall_ERN)
        /\ IF hall_ERN + 1 >= HallErrors
             THEN Enter("HALT") /\ fsm_errno' = "SENSOR"
             ELSE UNCHANGED <<fsm_state, fsm_phase, fsm_errno>>
        /\ KeepTimer /\ KeepBridge /\ UNCHANGED fsm_subi
     \/ fsm_phase = 2 /\ SensorVerdict /\ UNCHANGED hall_ERN

AdjustSensorEabi ==
  /\ fsm_state = "ADJUST_SENSOR_EABI"
  /\ \/ /\ fsm_phase = 0 /\ Load("average_outside") /\ fsm_errno' = "OK"
        /\ Goto(1) /\ KeepBridge /\ UNCHANGED fsm_subi
     \/ /\ fsm_phase = 1 /\ KeepBridge /\ UNCHANGED fsm_subi
        /\ \/ Counting
           \/ ThenLoad(2, "average_outside")
           \/ Elapsed /\ Counted /\ Enter("HALT") /\ fsm_errno' = "SENSOR"
     \/ fsm_phase = 2 /\ (Counting \/ Then(3)) /\ KeepBridge /\ UNCHANGED fsm_subi
     \/ fsm_phase = 3 /\ SensorVerdict

AdjustSensorSincos ==
  LET s == "ADJUST_SENSOR_SINCOS"
  IN \/ cfg.SINCOS_ANALOG /\ fsm_phase = 0 /\ ProbeRunning(s, "average_outside")
     \/ /\ fsm_state = s /\ fsm_phase = 0 /\ ~ cfg.SINCOS_ANALOG /\ Enter("IDLE")
        /\ KeepErrno /\ KeepTimer /\ KeepBridge /\ UNCHANGED fsm_subi
     \/ fsm_phase = 1 /\ ProbeRunning(s, "average_outside")
     \/ fsm_state = s /\ fsm_phase = 2 /\ SensorVerdict

\* Phase 0 stops the machine and falls into phase 1; any phase above 1, which
\* another handler may have left, matches no label and nothing happens.
Halt ==
  /\ fsm_state = "HALT" /\ KeepErrno /\ UNCHANGED fsm_subi
  /\ \/ /\ fsm_phase = 0 /\ SwitchOff
        /\ LET end == IF lu_MODE # "DISABLED" THEN TM["pause_halt"]
                                              ELSE TM["transient_slow"]
           IN /\ tm_value' = 1 /\ tm_end' = end
              /\ IF 1 >= end THEN Enter("IDLE") ELSE Goto(1)
     \/ /\ fsm_phase = 1 /\ Counted /\ KeepBridge /\ UNCHANGED lu_MODE
        /\ IF Elapsed THEN Enter("IDLE") ELSE Goto(1)
     \/ /\ fsm_phase > 1
        /\ KeepTimer /\ KeepBridge /\ UNCHANGED <<lu_MODE, fsm_state, fsm_phase>>

Idle ==
  /\ fsm_state = "IDLE" /\ KeepErrno /\ KeepTimer /\ KeepBridge
  /\ UNCHANGED <<fsm_state, fsm_phase, fsm_subi>>

Probe ==
  \/ ZeroDrift \/ SelfTestBootstrap \/ SelfTestPowerStage \/ SelfTestClearance
  \/ AdjustOnPcbVoltage \/ AdjustOnPcbCurrent \/ AdjustDcuVoltage
  \/ ProbeConstResistance \/ ProbeConstInductance
  \/ ProbeConstFluxLinkage \/ ProbeConstInertia \/ ProbeThresholdTol
  \/ AdjustSensorEabi \/ AdjustSensorSincos

Handler ==
  /\ irq = "handler" /\ irq' = "task"
  /\ \/ (Idle \/ Probe) /\ UNCHANGED <<lu_MODE, hall_ERN>>
     \/ AdjustSensorHall /\ UNCHANGED lu_MODE
     \/ LuStartup
     \/ (LuShutdown \/ Halt) /\ UNCHANGED hall_ERN
  /\ UNCHANGED <<fsm_req, fb_HS, cfg>>

Irq  == Feedback \/ Dispatch \/ Handler
Task == Request \/ TaskHalt \/ SignalLost \/ WaitTimeout \/ RegWrite
Next == Irq \/ Task

Spec == Init /\ [][Next]_vars

\* A timer triggers the interrupt every PWM cycle whatever the tasks do.
FairSpec == Spec /\ WF_vars(Irq)
=============================================================================
