------------------------------ MODULE LuModes ------------------------------
(***************************************************************************)
(* The observer FSM of the control loop (pm_lu_FSM of phobia/pm.c): which  *)
(* estimate of the rotor drives the commutation in each PWM cycle, and the *)
(* speed zone, the estimator, the timers and the encoder adjustment that   *)
(* decide it.                                                              *)
(*                                                                         *)
(* One cycle of the interrupt is one step.  Speeds, currents and voltages  *)
(* are left out: a comparison that needs one is a nondeterministic choice. *)
(***************************************************************************)
EXTENDS Integers, LuMoves

CONSTANTS
  Configs,      \* the configurations the registers may hold
  Reconfigured, \* the registers that change while the machine runs
  Fast, Slow, Startup, Forced, \* PM_TSMS of tm_transient_fast, tm_transient_slow,
                               \* tm_pause_startup and tm_pause_forced
  MinDetach     \* cycles of a visible back EMF that make a direction (10)

VARIABLES
  lu_MODE,
  flux_ZONE, flux_TYPE,  \* the zone of speed; the estimator that is initialised
  flux_LINKAGE,          \* whether the flux linkage is known
  flux_DETACH,           \* whether the entry of DETACHED was done
  base_TIM, hold_TIM,    \* cycles in DETACHED or ESTIMATE; in FORCED or ON_HFI
  detach_TIM,            \* cycles of visible back EMF, up to VisibleMax
  eabi_RECENT,           \* whether the encoder is being tracked
  eabi_ADJUST,           \* whether its offset to the rotor is known
  pwm_Z,                 \* "ABC" when all phases are in high impedance
  cfg,
  coasting               \* history: cycles since the bridge was last driven

vars == <<lu_MODE, flux_ZONE, flux_TYPE, flux_LINKAGE, flux_DETACH, base_TIM,
          hold_TIM, detach_TIM, eabi_RECENT, eabi_ADJUST, pwm_Z, cfg, coasting>>

ConfigType == [TVM : BOOLEAN, ESTIMATE : {"NONE", "ORTEGA", "KALMAN"},
               SENSOR : {"NONE", "HALL", "EABI", "SINCOS"}, HFI : BOOLEAN,
               FORCED : BOOLEAN, FREEWHEEL : BOOLEAN,
               INCREMENTAL : BOOLEAN, LOCATION_EABI : BOOLEAN]

ASSUME ConfigsAssumption == Configs \subseteq ConfigType
ASSUME TimersAssumption ==
  /\ Fast \in Nat \ {0} /\ Slow \in Nat /\ Startup \in Nat /\ Forced \in Nat
  /\ MinDetach \in Nat

Larger(a, b) == IF a > b THEN a ELSE b
VisibleMax == Larger(Slow + 1, MinDetach)
HoldMax    == Larger(Startup, Forced)
CoastMax   == Fast + Startup + 1

Zones == {"NONE", "UNCERTAIN", "HIGH", "LOCKED_IN_DETACH"}

TypeOK ==
  /\ lu_MODE \in Modes
  /\ flux_ZONE \in Zones /\ flux_TYPE \in {"NONE", "ORTEGA", "KALMAN"}
  /\ flux_LINKAGE \in BOOLEAN /\ flux_DETACH \in BOOLEAN
  /\ base_TIM \in - Fast .. Startup /\ hold_TIM \in 0 .. HoldMax
  /\ detach_TIM \in 0 .. VisibleMax
  /\ eabi_RECENT \in BOOLEAN /\ eabi_ADJUST \in BOOLEAN
  /\ pwm_Z \in {"NONE", "ABC"}
  /\ cfg \in Configs /\ coasting \in 0 .. CoastMax

\* Power-up: the machine is stopped; the offset of an absolute encoder may have
\* been loaded with the configuration.
Init ==
  /\ lu_MODE = "DISABLED" /\ pwm_Z = "ABC"
  /\ flux_ZONE = "NONE" /\ flux_TYPE = "NONE"
  /\ flux_LINKAGE = TRUE /\ flux_DETACH = FALSE
  /\ base_TIM = 0 /\ hold_TIM = 0 /\ detach_TIM = 0
  /\ eabi_RECENT = FALSE /\ eabi_ADJUST \in BOOLEAN
  /\ cfg \in Configs /\ coasting = 0

-----------------------------------------------------------------------------
(* Startup and stop, which the assistive state machine commands *)

BlindMode ==
  IF cfg.ESTIMATE # "NONE" THEN "ESTIMATE"
  ELSE IF cfg.SENSOR = "HALL" THEN "SENSOR_HALL"
  ELSE IF cfg.SENSOR = "EABI" /\ eabi_ADJUST' THEN "SENSOR_EABI"
  ELSE IF cfg.FORCED THEN "FORCED" ELSE "DISABLED"

\* pm_fsm_state_lu_startup. LU_STARTUP clears the zone, LU_DETACHED locks it.
\* The offset of an incremental encoder is lost.
StartupIn(zone) ==
  /\ lu_MODE = "DISABLED"
  /\ flux_ZONE' = zone /\ flux_TYPE' = "NONE" /\ flux_DETACH' = FALSE
  /\ flux_LINKAGE' \in {TRUE} \cup IF cfg.ESTIMATE = "NONE" THEN {} ELSE {FALSE}
  /\ base_TIM' = 0 /\ hold_TIM' = 0 /\ detach_TIM' = 0
  /\ eabi_RECENT' = FALSE /\ eabi_ADJUST' = (eabi_ADJUST /\ ~ cfg.INCREMENTAL)
  /\ IF cfg.TVM THEN lu_MODE' = "DETACHED" /\ pwm_Z' = "ABC"
                ELSE lu_MODE' = BlindMode /\ pwm_Z' = "NONE"
  /\ coasting' = 0 /\ UNCHANGED cfg

Start == StartupIn("NONE") \/ StartupIn("LOCKED_IN_DETACH")

\* LU_SHUTDOWN and HALT.
Stop ==
  /\ lu_MODE # "DISABLED"
  /\ lu_MODE' = "DISABLED" /\ pwm_Z' = "ABC" /\ coasting' = 0
  /\ UNCHANGED <<flux_ZONE, flux_TYPE, flux_LINKAGE, flux_DETACH, base_TIM,
                 hold_TIM, detach_TIM, eabi_RECENT, eabi_ADJUST, cfg>>

\* The probe of the flux linkage of a running machine, when it makes sense.
LinkageProbed ==
  /\ lu_MODE # "DISABLED" /\ ~ flux_LINKAGE /\ flux_LINKAGE' = TRUE
  /\ UNCHANGED <<lu_MODE, flux_ZONE, flux_TYPE, flux_DETACH, base_TIM, hold_TIM,
                 detach_TIM, eabi_RECENT, eabi_ADJUST, pwm_Z, cfg, coasting>>

\* ADJUST_SENSOR_EABI knows the offset of an absolute encoder.
EabiAdjusted ==
  /\ lu_MODE # "DISABLED" /\ ~ cfg.INCREMENTAL /\ eabi_ADJUST' = TRUE
  /\ UNCHANGED <<lu_MODE, flux_ZONE, flux_TYPE, flux_LINKAGE, flux_DETACH,
                 base_TIM, hold_TIM, detach_TIM, eabi_RECENT, pwm_Z, cfg, coasting>>

RegWrite ==
  /\ cfg' \in Configs
  /\ \A r \in DOMAIN cfg \ Reconfigured : cfg'[r] = cfg[r]
  /\ UNCHANGED <<lu_MODE, flux_ZONE, flux_TYPE, flux_LINKAGE, flux_DETACH,
                 base_TIM, hold_TIM, detach_TIM, eabi_RECENT, eabi_ADJUST, pwm_Z,
                 coasting>>

-----------------------------------------------------------------------------
(* pm_flux_zone and pm_estimate *)

\* The zone a driven machine may be found in, from the zone of the last cycle.
ZoneDriven(zone) ==
  CASE zone \in {"NONE", "UNCERTAIN"} -> {zone, "HIGH"}
    [] zone = "HIGH"                  -> {"HIGH", "UNCERTAIN"}
    [] OTHER                          -> {zone}

\* The same for a detached one, after that many cycles of visible back EMF.
ZoneDetached(zone, visible) ==
  CASE zone \in {"NONE", "UNCERTAIN"} -> {zone} \cup IF visible > Slow THEN {"HIGH"} ELSE {}
    [] zone = "HIGH"                  -> {"UNCERTAIN"} \cup
                                         IF visible >= MinDetach THEN {"HIGH"} ELSE {}
    [] OTHER                          -> {zone}

\* The estimator of the configuration is initialised and steps the zone. The
\* Kalman filter may restart itself at a low speed. Without an estimator, the
\* zone is cleared only if there was one in the cycle before.
Estimate(type, zone) ==
  IF cfg.ESTIMATE # "NONE"
    THEN /\ zone \in ZoneDriven(flux_ZONE)
         /\ \/ type = cfg.ESTIMATE
            \/ cfg.ESTIMATE = "KALMAN" /\ flux_ZONE \in {"NONE", "UNCERTAIN"} /\ type = "NONE"
    ELSE /\ type = "NONE"
         /\ zone = IF flux_TYPE # "NONE" THEN "NONE" ELSE flux_ZONE

-----------------------------------------------------------------------------
(* pm_lu_FSM: the mode of this cycle runs and selects the mode of the next.  *)
(* Definitions marked "Mutant" are wrong on purpose, see the README.         *)

SensorlessLow == cfg.ESTIMATE = "KALMAN" /\ cfg.HFI

\* Mutant: without a setpoint a machine coasts, whatever FREEWHEEL says.
FromDetachedCoasts(zone, idle) ==
  IF cfg.ESTIMATE # "NONE" /\ zone = "HIGH" THEN "ESTIMATE"
  ELSE IF cfg.SENSOR = "HALL" THEN "SENSOR_HALL"
  ELSE IF cfg.FORCED /\ ~ idle THEN "FORCED" ELSE "DETACHED"

\* The chain of branches at the end of each mode; zone is the updated zone, idle
\* that the setpoint (DETACHED) or the forced current (the others) is zero.
FromDetached(zone, idle) ==
  IF cfg.ESTIMATE # "NONE" /\ zone = "HIGH" THEN "ESTIMATE"
  ELSE IF cfg.SENSOR = "HALL" THEN "SENSOR_HALL"
  ELSE IF cfg.SENSOR = "EABI" /\ (eabi_ADJUST \/ zone = "HIGH") THEN "SENSOR_EABI"
  ELSE IF cfg.SENSOR = "SINCOS" THEN "SENSOR_SINCOS"
  ELSE IF cfg.FORCED THEN IF cfg.FREEWHEEL /\ idle THEN "DETACHED" ELSE "FORCED"
  ELSE IF SensorlessLow THEN "ON_HFI" ELSE "DETACHED"

FromForced(zone, idle) ==
  IF zone = "HIGH" THEN "ESTIMATE"
  ELSE IF hold_TIM < Forced THEN "FORCED"
  ELSE IF cfg.SENSOR = "EABI" THEN "SENSOR_EABI"
  ELSE IF SensorlessLow THEN "ON_HFI"
  ELSE IF cfg.TVM /\ cfg.FREEWHEEL /\ idle THEN "DETACHED" ELSE "FORCED"

FromEstimate(zone, idle) ==
  IF zone \notin {"NONE", "UNCERTAIN"} THEN "ESTIMATE"
  ELSE IF cfg.SENSOR = "HALL" THEN "SENSOR_HALL"
  ELSE IF cfg.SENSOR = "EABI" /\ (eabi_ADJUST \/ zone = "UNCERTAIN") THEN "SENSOR_EABI"
  ELSE IF cfg.SENSOR = "SINCOS" THEN "SENSOR_SINCOS"
  ELSE IF SensorlessLow THEN "ON_HFI"
  ELSE IF cfg.FORCED /\ ~ (cfg.FREEWHEEL /\ idle) THEN "FORCED"
  ELSE IF cfg.TVM THEN "DETACHED" ELSE "ESTIMATE"

FromHfi(zone) ==
  IF zone = "HIGH" \/ ~ cfg.HFI THEN "ESTIMATE"
  ELSE IF hold_TIM >= Startup /\ cfg.SENSOR = "EABI" THEN "SENSOR_EABI" ELSE "ON_HFI"

\* Mutants: a return to DETACHED that does not ask for its entry to be done again,
\* and one that leaves the bridge driven.
SwitchKeepsDetach(to, type) ==
  /\ lu_MODE' = to /\ pwm_Z' = AfterMove(pwm_Z, lu_MODE, to)
  /\ UNCHANGED flux_DETACH /\ flux_TYPE' = type
SwitchKeepsBridge(to, type) ==
  /\ lu_MODE' = to /\ UNCHANGED pwm_Z
  /\ flux_DETACH' = (flux_DETACH /\ to # "DETACHED") /\ flux_TYPE' = type

\* A driven mode hands over to the next one.
Switch(to, type) ==
  /\ lu_MODE' = to /\ pwm_Z' = AfterMove(pwm_Z, lu_MODE, to)
  /\ flux_DETACH' = (flux_DETACH /\ to # "DETACHED")
  /\ flux_TYPE' = IF to = "DETACHED" THEN "NONE" ELSE type

\* Mutant: the lock is not looked at.
LockedNever(zone) == FALSE

\* LU_DETACHED locks the machine in DETACHED until it is stopped.
Locked(zone) == zone = "LOCKED_IN_DETACH"

\* A timer counts the cycles up to its limit.
Count(tim, limit) == IF tim < limit THEN tim + 1 ELSE tim

\* The first cycle clears the timers and lets the windings discharge for Fast
\* cycles before the back EMF is looked at. The timer stands while locked.
Detached ==
  LET base    == IF flux_DETACH THEN base_TIM ELSE - Fast
      visible == IF flux_DETACH THEN detach_TIM ELSE 0
  IN /\ lu_MODE = "DETACHED" /\ flux_DETACH' = TRUE
     /\ IF base >= 0
          THEN /\ detach_TIM' \in {0, Count(visible, VisibleMax)}
               /\ flux_ZONE' \in ZoneDetached(flux_ZONE, detach_TIM')
          ELSE detach_TIM' = visible /\ UNCHANGED flux_ZONE
     /\ \/ /\ Locked(flux_ZONE')
           /\ base_TIM' = base /\ UNCHANGED <<lu_MODE, pwm_Z, hold_TIM>>
        \/ /\ ~ Locked(flux_ZONE') /\ base < Startup
           /\ base_TIM' = base + 1 /\ UNCHANGED <<lu_MODE, pwm_Z, hold_TIM>>
        \/ /\ ~ Locked(flux_ZONE') /\ base >= Startup /\ base_TIM' = base
           /\ \E idle \in BOOLEAN : lu_MODE' = FromDetached(flux_ZONE', idle)
           /\ pwm_Z' = IF lu_MODE' = "DETACHED" THEN pwm_Z ELSE "NONE"
           /\ hold_TIM' = IF lu_MODE' \in {"FORCED", "ON_HFI"} THEN 0 ELSE hold_TIM
     /\ UNCHANGED flux_TYPE

\* FORCED holds until the flux linkage is estimated. On the way to ON_HFI its
\* timer is not cleared.
ForcedMode ==
  /\ lu_MODE = "FORCED"
  /\ \E type \in {"NONE", cfg.ESTIMATE}, idle \in BOOLEAN :
       /\ Estimate(type, flux_ZONE')
       /\ IF type # "NONE" /\ ~ flux_LINKAGE
            THEN Switch("FORCED", type) /\ UNCHANGED hold_TIM
            ELSE /\ Switch(FromForced(flux_ZONE', idle), type)
                 /\ hold_TIM' = IF flux_ZONE' = "HIGH" THEN hold_TIM ELSE Count(hold_TIM, Forced)
  /\ UNCHANGED <<base_TIM, detach_TIM>>

EstimateMode ==
  /\ lu_MODE = "ESTIMATE"
  /\ \E type \in {"NONE", cfg.ESTIMATE}, idle \in BOOLEAN :
       /\ Estimate(type, flux_ZONE')
       /\ IF base_TIM < Startup
            THEN Switch("ESTIMATE", type) /\ base_TIM' = base_TIM + 1
            ELSE Switch(FromEstimate(flux_ZONE', idle), type) /\ UNCHANGED base_TIM
  /\ hold_TIM' = IF lu_MODE' \in {"FORCED", "ON_HFI"} THEN 0 ELSE hold_TIM
  /\ UNCHANGED detach_TIM

OnHfi ==
  /\ lu_MODE = "ON_HFI"
  /\ \E type \in {"NONE", cfg.ESTIMATE} :
       /\ Estimate(type, flux_ZONE') /\ Switch(FromHfi(flux_ZONE'), type)
  /\ hold_TIM' = IF flux_ZONE' = "HIGH" \/ ~ cfg.HFI THEN hold_TIM ELSE Count(hold_TIM, Startup)
  /\ UNCHANGED <<base_TIM, detach_TIM>>

SensorMode ==
  /\ lu_MODE \in Sensored
  /\ \E type \in {"NONE", cfg.ESTIMATE} :
       /\ Estimate(type, flux_ZONE')
       /\ Switch(IF flux_ZONE' = "HIGH" THEN "ESTIMATE" ELSE lu_MODE, type)
  /\ UNCHANGED <<base_TIM, hold_TIM, detach_TIM>>

\* Mutant: the offset is kept when an incremental encoder loses its track.
TrackKeepsAdjust ==
  LET tracked == lu_MODE = "SENSOR_EABI" \/ cfg.LOCATION_EABI
  IN /\ eabi_RECENT' = tracked
     /\ eabi_ADJUST' = (eabi_ADJUST \/ (tracked /\ cfg.SENSOR = "EABI"))

\* pm_sensor_eabi runs in its mode or for the location; its first cycle takes the
\* offset. An incremental encoder that is not tracked any more loses it.
Track ==
  LET tracked == lu_MODE = "SENSOR_EABI" \/ cfg.LOCATION_EABI
  IN /\ eabi_RECENT' = tracked
     /\ eabi_ADJUST' = IF tracked THEN eabi_ADJUST \/ cfg.SENSOR = "EABI"
                       ELSE eabi_ADJUST /\ ~ (eabi_RECENT /\ cfg.INCREMENTAL)

Cycle ==
  /\ Detached \/ ForcedMode \/ EstimateMode \/ OnHfi \/ SensorMode
  /\ Track
  /\ coasting' = IF lu_MODE # "DETACHED" THEN 0
                 ELSE Count(coasting, CoastMax)
  /\ UNCHANGED <<flux_LINKAGE, cfg>>

Next == Start \/ Stop \/ LinkageProbed \/ EabiAdjusted \/ RegWrite \/ Cycle

Spec == Init /\ [][Next]_vars

\* The PWM timer runs the observer in every cycle of a machine that is on.
FairSpec == Spec /\ WF_vars(Cycle)

-----------------------------------------------------------------------------
Running == lu_MODE # "DISABLED"

\* What LuMoves looks at in a configuration.
Abstract(c) == [TVM |-> c.TVM, ESTIMATE |-> c.ESTIMATE # "NONE",
                SENSOR |-> c.SENSOR, FORCED |-> c.FORCED]

\* Every cycle of pm_lu_FSM is a move that PmFsm reckons with, or keeps the mode
\* and the bridge, whatever the zone, the estimator and the timers were.
ImplementsLuMoves ==
  [][Running /\ lu_MODE' # "DISABLED" =>
       \/ UNCHANGED <<lu_MODE, pwm_Z>>
       \/ /\ MayMove(Abstract(cfg), lu_MODE, lu_MODE')
          /\ pwm_Z' = AfterMove(pwm_Z, lu_MODE, lu_MODE')]_vars

\* A running machine drives the bridge in every mode but DETACHED.
BridgeFollowsMode == Running => pwm_Z = IF lu_MODE = "DETACHED" THEN "ABC" ELSE "NONE"

\* A machine that was detached, at startup or by freewheeling, is not driven
\* again before its windings had Fast cycles to discharge and the speed was
\* watched for Startup cycles.
DetachedIsWatched ==
  [][lu_MODE = "DETACHED" /\ lu_MODE' \notin {"DETACHED", "DISABLED"}
       => coasting >= Fast + Startup]_vars

\* The angle of an incremental encoder is used for commutation only as long as
\* its offset was taken since the encoder is tracked: the offset is forgotten
\* with the first cycle that skips the encoder, in whichever mode.
OffsetIsTracked == Running /\ cfg.INCREMENTAL /\ eabi_ADJUST => eabi_RECENT

\* A machine that has the terminal voltages and was started by LU_DETACHED is
\* never driven before it is stopped, and nothing but a stop unlocks its zone.
LockedStaysDetached ==
  [][Running /\ cfg.TVM /\ flux_ZONE = "LOCKED_IN_DETACH"
       => lu_MODE' \in {"DETACHED", "DISABLED"} /\ UNCHANGED flux_ZONE]_vars

\* A machine that may be forced and does not freewheel does not coast for ever
\* after a startup, whichever estimator and sensor it has.
Driveable == cfg.FORCED /\ ~ cfg.FREEWHEEL
LeavesDetached ==
  lu_MODE = "DETACHED" /\ flux_ZONE # "LOCKED_IN_DETACH" /\ Driveable
    ~> lu_MODE # "DETACHED" \/ ~ Driveable
=============================================================================
