----------------------------- MODULE PmFsmProps -----------------------------
(***************************************************************************)
(* What the assistive state machine must guarantee: who may energise the   *)
(* bridge, that every procedure comes to an end and that a fault stops the *)
(* machine.                                                                *)
(***************************************************************************)
EXTENDS PmFsm

\* A configuration in which LU_STARTUP can always select a mode.
Selectable(c) == c.TVM \/ c.ESTIMATE \/ c.SENSOR = "HALL" \/ c.FORCED

Off == lu_MODE = "DISABLED" /\ pwm_Z = "ABC" /\ pwm_DC = "zero"

\* An idle machine never has an energised bridge: whatever procedure ran
\* before (a probe that failed at any phase, a shutdown, a HALT that cut it
\* short), it has released all three phases and cleared the duty cycle before
\* IDLE was announced.
IdleIsOff == fsm_state = "IDLE" /\ lu_MODE = "DISABLED" => Off

\* Whenever the controller waits out a HALT, the machine is already off: the
\* pause before IDLE is spent with a released bridge.
HaltIsOff == fsm_state = "HALT" /\ fsm_phase = 1 => Off

\* A self test or a bench probe runs only with the observer FSM disabled, and
\* a probe of a running machine only with it enabled, although the request and
\* the mode are written by different contexts at different times.
ProcedureOwnsMachine ==
  /\ fsm_state \in StoppedReq => lu_MODE = "DISABLED"
  /\ fsm_state \in RunningReq => lu_MODE # "DISABLED"

\* While the machine runs, the bridge is driven exactly in the modes other
\* than DETACHED, through all probes and through the ramp of a shutdown.
BridgeFollowsMode ==
  lu_MODE # "DISABLED" => pwm_Z = IF lu_MODE = "DETACHED" THEN "ABC" ELSE "NONE"

\* No handler is ever entered at a phase its switch has no label for: such a
\* machine would sit in that state for ever and drop every later request.
PhaseIsHandled == fsm_phase \in 0 .. Last[fsm_state]

\* The three pm_fsm procedures indexed by fsm_subi stay within their tables.
SubiInRange ==
  /\ fsm_state = "ADJUST_ON_PCB_VOLTAGE" /\ fsm_phase > 0 => fsm_subi \in 0 .. 1
  /\ fsm_state = "ADJUST_ON_PCB_CURRENT" /\ fsm_phase > 0 => fsm_subi \in 0 .. 3
  /\ fsm_state = "ADJUST_ON_PCB_CURRENT" /\ fsm_phase \in 2 .. 5 => fsm_subi < 3

\* A procedure is never cut by another one: from a procedure the machine goes
\* to IDLE or to HALT, and from HALT to IDLE only.
OneProcedureAtATime ==
  [][fsm_state' # fsm_state =>
       CASE fsm_state = "IDLE" -> TRUE
         [] fsm_state = "HALT" -> fsm_state' = "IDLE"
         [] OTHER -> fsm_state' \in {"IDLE", "HALT"}]_vars

\* Every procedure, HALT included, ends however requests, faults and register
\* writes interleave with it.
ProcedureEnds == fsm_state # "IDLE" ~> fsm_state = "IDLE"

\* A HALT that reaches the state machine, from whatever state, is followed by
\* a machine that is off.
HaltStops == irq = "fsm" /\ fsm_req = "HALT" ~> Off

\* A trip of pm_voltage or pm_wattage, which writes fsm_state = HALT itself,
\* stops the machine whatever procedure it finds in progress.
TripStops == fsm_state = "HALT" /\ lu_MODE # "DISABLED" ~> lu_MODE = "DISABLED"

-----------------------------------------------------------------------------
(* The power stage as a resource: the machine uses it while the observer FSM *)
(* is enabled, a procedure while fsm_state is not IDLE.                      *)
Stage == INSTANCE PowerStage WITH
  user   <- IF lu_MODE # "DISABLED" THEN "machine"
            ELSE IF fsm_state # "IDLE" THEN "procedure" ELSE "nobody",
  bridge <- IF pwm_Z = "ABC" THEN "open" ELSE "driven"

\* Requests, faults and register writes interleaved in any way, the state
\* machine keeps the contract of module PowerStage, its liveness included.
ImplementsPowerStage == Stage!Spec

\* The safety part of that contract.
KeepsPowerStage == Stage!Init /\ [][Stage!Next]_(Stage!stage)
=============================================================================
