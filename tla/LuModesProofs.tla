--------------------------- MODULE LuModesProofs ---------------------------
(***************************************************************************)
(* Proofs about the observer FSM, for every set of configurations and      *)
(* every length of its timers.                                             *)
(*                                                                         *)
(* Every mode hands over through Switch or through the last branch of      *)
(* Detached, so a cycle either keeps the mode and the bridge or takes a    *)
(* move of LuMoves (CycleMoves); the other theorems rest on that fact.     *)
(***************************************************************************)
EXTENDS LuModes, TLAPS

\* What a cycle does to the mode and the bridge.
Moves ==
  \/ UNCHANGED <<lu_MODE, pwm_Z>>
  \/ /\ MayMove(Abstract(cfg), lu_MODE, lu_MODE')
     /\ pwm_Z' = AfterMove(pwm_Z, lu_MODE, lu_MODE')

\* A driven mode that stays keeps the bridge.
LEMMA SwitchMoves ==
  ASSUME lu_MODE # "DETACHED", NEW to, NEW type, Switch(to, type),
         to = lu_MODE \/ MayMove(Abstract(cfg), lu_MODE, to)
  PROVE  Moves
BY DEF Switch, Moves, AfterMove

\* Every branch of every mode selects a mode LuMoves reckons with.
LEMMA CycleMoves == ASSUME Cycle PROVE Moves
<1> USE DEF MayMove, Abstract, Sensored, RunModes
<1>1. CASE Detached
  <2>1. ASSUME NEW idle \in BOOLEAN, lu_MODE' = FromDetached(flux_ZONE', idle)
        PROVE  lu_MODE' = lu_MODE \/ MayMove(Abstract(cfg), lu_MODE, lu_MODE')
    BY <1>1, <2>1 DEF Detached, FromDetached, SensorlessLow
  <2>2. CASE UNCHANGED <<lu_MODE, pwm_Z>> BY <2>2 DEF Moves
  <2>3. CASE /\ \E idle \in BOOLEAN : lu_MODE' = FromDetached(flux_ZONE', idle)
             /\ pwm_Z' = IF lu_MODE' = "DETACHED" THEN pwm_Z ELSE "NONE"
    BY <1>1, <2>1, <2>3 DEF Detached, Moves, AfterMove
  <2> QED BY <1>1, <2>2, <2>3 DEF Detached
<1>2. CASE ForcedMode
  <2> PICK type \in {"NONE", cfg.ESTIMATE}, idle \in BOOLEAN :
        Switch("FORCED", type) \/ Switch(FromForced(flux_ZONE', idle), type)
    BY <1>2 DEF ForcedMode
  <2>1. FromForced(flux_ZONE', idle) = lu_MODE
        \/ MayMove(Abstract(cfg), lu_MODE, FromForced(flux_ZONE', idle))
    BY <1>2 DEF ForcedMode, FromForced, SensorlessLow
  <2> QED BY <1>2, <2>1, SwitchMoves DEF ForcedMode
<1>3. CASE EstimateMode
  <2> PICK type \in {"NONE", cfg.ESTIMATE}, idle \in BOOLEAN :
        Switch("ESTIMATE", type) \/ Switch(FromEstimate(flux_ZONE', idle), type)
    BY <1>3 DEF EstimateMode
  <2>1. FromEstimate(flux_ZONE', idle) = lu_MODE
        \/ MayMove(Abstract(cfg), lu_MODE, FromEstimate(flux_ZONE', idle))
    BY <1>3 DEF EstimateMode, FromEstimate, SensorlessLow
  <2> QED BY <1>3, <2>1, SwitchMoves DEF EstimateMode
<1>4. CASE OnHfi
  <2> PICK type \in {"NONE", cfg.ESTIMATE} : Switch(FromHfi(flux_ZONE'), type)
    BY <1>4 DEF OnHfi
  <2>1. FromHfi(flux_ZONE') = lu_MODE
        \/ MayMove(Abstract(cfg), lu_MODE, FromHfi(flux_ZONE'))
    BY <1>4 DEF OnHfi, FromHfi
  <2> QED BY <1>4, <2>1, SwitchMoves DEF OnHfi
<1>5. CASE SensorMode
  <2> PICK type \in {"NONE", cfg.ESTIMATE} :
        Switch(IF flux_ZONE' = "HIGH" THEN "ESTIMATE" ELSE lu_MODE, type)
    BY <1>5 DEF SensorMode
  <2>1. MayMove(Abstract(cfg), lu_MODE, "ESTIMATE") BY <1>5 DEF SensorMode
  <2> QED BY <1>5, <2>1, SwitchMoves DEF SensorMode
<1> QED BY <1>1, <1>2, <1>3, <1>4, <1>5 DEF Cycle

\* The cycles of the observer FSM implement the moves that the model of the
\* assistive state machine allows it, in every configuration and even if the
\* configuration changes under it.
THEOREM MovesImplemented == Spec => ImplementsLuMoves
<1>1. ASSUME [Next]_vars, Running, lu_MODE' # "DISABLED" PROVE Moves
  <2>1. CASE Cycle BY <2>1, CycleMoves
  <2>2. CASE UNCHANGED vars BY <2>2 DEF Moves, vars
  <2>3. CASE Start BY <1>1, <2>3 DEF Start, StartupIn, Running
  <2>4. CASE Stop BY <1>1, <2>4 DEF Stop
  <2>5. CASE LinkageProbed \/ EabiAdjusted \/ RegWrite
    BY <2>5 DEF LinkageProbed, EabiAdjusted, RegWrite, Moves
  <2> QED BY <1>1, <2>1, <2>2, <2>3, <2>4, <2>5 DEF Next
<1>2. [Next]_vars => [Running /\ lu_MODE' # "DISABLED" => Moves]_vars BY <1>1
<1> QED BY <1>2, PTL DEF Spec, ImplementsLuMoves, Moves

-----------------------------------------------------------------------------
(* Type correctness *)

LEMMA BoundsAreNat ==
  /\ VisibleMax \in Nat \ {0} /\ HoldMax \in Nat /\ CoastMax \in Nat
  /\ Startup <= HoldMax /\ Forced <= HoldMax
BY TimersAssumption DEF VisibleMax, HoldMax, CoastMax, Larger

\* The chains of branches select modes that run.
LEMMA ChainsSelectModes ==
  ASSUME NEW zone, NEW idle
  PROVE  /\ FromDetached(zone, idle) \in RunModes /\ FromForced(zone, idle) \in RunModes
         /\ FromEstimate(zone, idle) \in RunModes /\ FromHfi(zone) \in RunModes
BY DEF FromDetached, FromForced, FromEstimate, FromHfi, RunModes, Sensored

LEMMA EstimateTyped ==
  ASSUME TypeOK, NEW type \in {"NONE", cfg.ESTIMATE}, NEW zone, Estimate(type, zone)
  PROVE  zone \in Zones /\ type \in {"NONE", "ORTEGA", "KALMAN"}
BY ConfigsAssumption DEF TypeOK, Estimate, ZoneDriven, Zones, ConfigType

\* What a hand-over to a mode that runs leaves behind.
LEMMA SwitchTyped ==
  ASSUME TypeOK, NEW to \in RunModes, NEW type \in {"NONE", "ORTEGA", "KALMAN"},
         Switch(to, type)
  PROVE  /\ lu_MODE' \in Modes /\ pwm_Z' \in {"NONE", "ABC"}
         /\ flux_DETACH' \in BOOLEAN /\ flux_TYPE' \in {"NONE", "ORTEGA", "KALMAN"}
BY DEF TypeOK, Switch, AfterMove, Modes

\* The variables that a driven mode leaves to Track and to the history.
ModeTyped ==
  /\ lu_MODE' \in Modes /\ pwm_Z' \in {"NONE", "ABC"}
  /\ flux_ZONE' \in Zones /\ flux_TYPE' \in {"NONE", "ORTEGA", "KALMAN"}
  /\ flux_DETACH' \in BOOLEAN /\ base_TIM' \in - Fast .. Startup
  /\ hold_TIM' \in 0 .. HoldMax /\ detach_TIM' \in 0 .. VisibleMax

LEMMA DetachedTyped == ASSUME TypeOK, Detached PROVE ModeTyped
<1> DEFINE base    == IF flux_DETACH THEN base_TIM ELSE - Fast
           visible == IF flux_DETACH THEN detach_TIM ELSE 0
<1>1. base \in - Fast .. Startup /\ visible \in 0 .. VisibleMax
  BY TimersAssumption, BoundsAreNat DEF TypeOK
<1>2. IF base >= 0
        THEN /\ detach_TIM' \in {0, Count(visible, VisibleMax)}
             /\ flux_ZONE' \in ZoneDetached(flux_ZONE, detach_TIM')
        ELSE detach_TIM' = visible /\ UNCHANGED flux_ZONE
  BY DEF Detached
<1>3. /\ base_TIM' = base \/ (base < Startup /\ base_TIM' = base + 1)
      /\ lu_MODE' = lu_MODE \/ \E idle \in BOOLEAN : lu_MODE' = FromDetached(flux_ZONE', idle)
      /\ pwm_Z' = pwm_Z \/ pwm_Z' = "NONE"
      /\ hold_TIM' = 0 \/ hold_TIM' = hold_TIM
  <2> HIDE DEF base, visible
  <2>1. /\ \/ base_TIM' = base /\ UNCHANGED <<lu_MODE, pwm_Z, hold_TIM>>
           \/ base < Startup /\ base_TIM' = base + 1 /\ UNCHANGED <<lu_MODE, pwm_Z, hold_TIM>>
           \/ /\ base_TIM' = base
              /\ \E idle \in BOOLEAN : lu_MODE' = FromDetached(flux_ZONE', idle)
              /\ pwm_Z' = IF lu_MODE' = "DETACHED" THEN pwm_Z ELSE "NONE"
              /\ hold_TIM' = IF lu_MODE' \in {"FORCED", "ON_HFI"} THEN 0 ELSE hold_TIM
    BY DEF Detached, base
  <2> QED BY <2>1
<1> HIDE DEF base, visible
<1>4. flux_ZONE' \in Zones /\ detach_TIM' \in 0 .. VisibleMax
  BY <1>1, <1>2, BoundsAreNat DEF TypeOK, ZoneDetached, Zones, Count
<1>5. base_TIM' \in - Fast .. Startup BY <1>1, <1>3, TimersAssumption
<1>6. lu_MODE' \in Modes BY <1>3, ChainsSelectModes DEF TypeOK, Modes
<1>7. flux_DETACH' = TRUE /\ UNCHANGED flux_TYPE BY DEF Detached
<1> QED BY <1>3, <1>4, <1>5, <1>6, <1>7, BoundsAreNat DEF TypeOK, ModeTyped

LEMMA ForcedTyped == ASSUME TypeOK, ForcedMode PROVE ModeTyped
<1>1. PICK type \in {"NONE", cfg.ESTIMATE}, idle \in BOOLEAN :
        /\ Estimate(type, flux_ZONE')
        /\ \/ Switch("FORCED", type) /\ UNCHANGED hold_TIM
           \/ /\ Switch(FromForced(flux_ZONE', idle), type)
              /\ hold_TIM' = IF flux_ZONE' = "HIGH" THEN hold_TIM ELSE Count(hold_TIM, Forced)
  BY ZenonT(20) DEF ForcedMode
<1>2. flux_ZONE' \in Zones /\ type \in {"NONE", "ORTEGA", "KALMAN"} BY <1>1, EstimateTyped
<1>3. "FORCED" \in RunModes BY DEF RunModes
<1>4. /\ lu_MODE' \in Modes /\ pwm_Z' \in {"NONE", "ABC"}
      /\ flux_DETACH' \in BOOLEAN /\ flux_TYPE' \in {"NONE", "ORTEGA", "KALMAN"}
  BY <1>1, <1>2, <1>3, ChainsSelectModes, SwitchTyped
<1>5. hold_TIM' \in 0 .. HoldMax BY <1>1, BoundsAreNat, TimersAssumption DEF TypeOK, Count
<1> QED BY <1>2, <1>4, <1>5 DEF TypeOK, ForcedMode, ModeTyped

LEMMA EstimateModeTyped == ASSUME TypeOK, EstimateMode PROVE ModeTyped
<1>1. PICK type \in {"NONE", cfg.ESTIMATE}, idle \in BOOLEAN :
        /\ Estimate(type, flux_ZONE')
        /\ \/ base_TIM < Startup /\ Switch("ESTIMATE", type) /\ base_TIM' = base_TIM + 1
           \/ Switch(FromEstimate(flux_ZONE', idle), type) /\ UNCHANGED base_TIM
  BY ZenonT(20) DEF EstimateMode
<1>2. flux_ZONE' \in Zones /\ type \in {"NONE", "ORTEGA", "KALMAN"} BY <1>1, EstimateTyped
<1>3. "ESTIMATE" \in RunModes BY DEF RunModes
<1>4. /\ lu_MODE' \in Modes /\ pwm_Z' \in {"NONE", "ABC"}
      /\ flux_DETACH' \in BOOLEAN /\ flux_TYPE' \in {"NONE", "ORTEGA", "KALMAN"}
  BY <1>1, <1>2, <1>3, ChainsSelectModes, SwitchTyped
<1>5. base_TIM' \in - Fast .. Startup BY <1>1, TimersAssumption DEF TypeOK
<1>6. hold_TIM' \in 0 .. HoldMax BY BoundsAreNat DEF EstimateMode, TypeOK
<1> QED BY <1>2, <1>4, <1>5, <1>6 DEF TypeOK, EstimateMode, ModeTyped

LEMMA OnHfiTyped == ASSUME TypeOK, OnHfi PROVE ModeTyped
<1>1. PICK type \in {"NONE", cfg.ESTIMATE} :
        Estimate(type, flux_ZONE') /\ Switch(FromHfi(flux_ZONE'), type)
  BY DEF OnHfi
<1>2. flux_ZONE' \in Zones /\ type \in {"NONE", "ORTEGA", "KALMAN"} BY <1>1, EstimateTyped
<1>3. /\ lu_MODE' \in Modes /\ pwm_Z' \in {"NONE", "ABC"}
      /\ flux_DETACH' \in BOOLEAN /\ flux_TYPE' \in {"NONE", "ORTEGA", "KALMAN"}
  BY <1>1, <1>2, ChainsSelectModes, SwitchTyped
<1>4. hold_TIM' \in 0 .. HoldMax BY BoundsAreNat, TimersAssumption DEF OnHfi, TypeOK, Count
<1> QED BY <1>2, <1>3, <1>4 DEF TypeOK, OnHfi, ModeTyped

LEMMA SensorModeTyped == ASSUME TypeOK, SensorMode PROVE ModeTyped
<1>1. PICK type \in {"NONE", cfg.ESTIMATE} :
        /\ Estimate(type, flux_ZONE')
        /\ Switch(IF flux_ZONE' = "HIGH" THEN "ESTIMATE" ELSE lu_MODE, type)
  BY DEF SensorMode
<1>2. flux_ZONE' \in Zones /\ type \in {"NONE", "ORTEGA", "KALMAN"} BY <1>1, EstimateTyped
<1>3. (IF flux_ZONE' = "HIGH" THEN "ESTIMATE" ELSE lu_MODE) \in RunModes
  BY DEF SensorMode, RunModes
<1>4. /\ lu_MODE' \in Modes /\ pwm_Z' \in {"NONE", "ABC"}
      /\ flux_DETACH' \in BOOLEAN /\ flux_TYPE' \in {"NONE", "ORTEGA", "KALMAN"}
  BY <1>1, <1>2, <1>3, SwitchTyped
<1> QED BY <1>2, <1>4 DEF TypeOK, SensorMode, ModeTyped

LEMMA StartupTyped ==
  ASSUME TypeOK, NEW zone \in {"NONE", "LOCKED_IN_DETACH"}, StartupIn(zone) PROVE TypeOK'
<1>1. BlindMode \in Modes BY DEF BlindMode, Modes, RunModes, Sensored
<1>2. "DETACHED" \in Modes BY DEF Modes, RunModes
<1>3. lu_MODE' \in Modes /\ pwm_Z' \in {"NONE", "ABC"} BY <1>1, <1>2 DEF StartupIn
<1>4. 0 \in - Fast .. Startup BY TimersAssumption
<1>5. (eabi_ADJUST /\ ~ cfg.INCREMENTAL) \in BOOLEAN OBVIOUS
<1>6. /\ 0 \in - Fast .. Startup /\ 0 \in 0 .. HoldMax /\ 0 \in 0 .. VisibleMax
      /\ 0 \in 0 .. CoastMax
  BY <1>4, BoundsAreNat
<1>7. flux_LINKAGE' \in BOOLEAN BY DEF StartupIn
<1> QED BY <1>3, <1>5, <1>6, <1>7 DEF TypeOK, StartupIn, Zones

LEMMA TypeStep == ASSUME TypeOK, [Next]_vars PROVE TypeOK'
<1>1. CASE Start BY <1>1, StartupTyped DEF Start
<1>2. CASE Stop
  <2>1. "DISABLED" \in Modes BY DEF Modes
  <2> QED BY <1>2, <2>1, BoundsAreNat DEF Stop, TypeOK
<1>3. CASE LinkageProbed BY <1>3 DEF LinkageProbed, TypeOK
<1>4. CASE EabiAdjusted BY <1>4 DEF EabiAdjusted, TypeOK
<1>5. CASE RegWrite BY <1>5 DEF RegWrite, TypeOK
<1>6. CASE Cycle
  <2>1. ModeTyped
    BY <1>6, DetachedTyped, ForcedTyped, EstimateModeTyped, OnHfiTyped, SensorModeTyped
    DEF Cycle
  <2>2. eabi_RECENT' \in BOOLEAN /\ eabi_ADJUST' \in BOOLEAN
    BY <1>6, ConfigsAssumption DEF Cycle, Track, TypeOK, ConfigType
  <2>3. coasting' \in 0 .. CoastMax BY <1>6, BoundsAreNat DEF Cycle, TypeOK, Count
  <2>4. UNCHANGED <<flux_LINKAGE, cfg>> BY <1>6 DEF Cycle
  <2> QED BY <2>1, <2>2, <2>3, <2>4 DEF TypeOK, ModeTyped
<1>7. CASE UNCHANGED vars BY <1>7 DEF vars, TypeOK
<1> QED BY <1>1, <1>2, <1>3, <1>4, <1>5, <1>6, <1>7 DEF Next

\* Every variable keeps its type: the modes stay those of the code, and no timer
\* leaves its bounds.
THEOREM TypeCorrect == Spec => []TypeOK
<1>1. Init => TypeOK
  <2>1. /\ 0 \in - Fast .. Startup /\ 0 \in 0 .. HoldMax /\ 0 \in 0 .. VisibleMax
        /\ 0 \in 0 .. CoastMax
    BY TimersAssumption, BoundsAreNat
  <2> QED BY <2>1 DEF Init, TypeOK, Modes, Zones
<1>2. TypeOK /\ [Next]_vars => TypeOK' BY TypeStep
<1> QED BY <1>1, <1>2, PTL DEF Spec

-----------------------------------------------------------------------------
(* Safety *)

\* A running machine drives the bridge in every mode but DETACHED, whatever the
\* configuration becomes while it runs. The invariant is inductive: a move sets
\* the bridge only where it must change.
THEOREM BridgeCorrect == Spec => []BridgeFollowsMode
<1>1. Init => BridgeFollowsMode BY DEF Init, BridgeFollowsMode, Running
<1>2. BridgeFollowsMode /\ [Next]_vars => BridgeFollowsMode'
  <2> SUFFICES ASSUME BridgeFollowsMode, [Next]_vars PROVE BridgeFollowsMode'
    OBVIOUS
  <2> USE DEF BridgeFollowsMode, Running
  <2>1. CASE Start
    <3>1. BlindMode # "DETACHED" BY DEF BlindMode
    <3> QED BY <2>1, <3>1 DEF Start, StartupIn
  <2>2. CASE Stop BY <2>2 DEF Stop
  <2>3. CASE LinkageProbed \/ EabiAdjusted \/ RegWrite
    BY <2>3 DEF LinkageProbed, EabiAdjusted, RegWrite
  <2>4. CASE Cycle
    <3>1. lu_MODE # "DISABLED"
      BY <2>4 DEF Cycle, Detached, ForcedMode, EstimateMode, OnHfi, SensorMode, Sensored
    <3> QED BY <2>4, <3>1, CycleMoves DEF Moves, AfterMove, MayMove
  <2>5. CASE UNCHANGED vars BY <2>5 DEF vars
  <2> QED BY <2>1, <2>2, <2>3, <2>4, <2>5 DEF Next
<1> QED BY <1>1, <1>2, PTL DEF Spec

\* A register that is not reconfigured keeps its value.
LEMMA WiringKept ==
  ASSUME TypeOK, RegWrite
  PROVE  /\ "INCREMENTAL" \notin Reconfigured => cfg'.INCREMENTAL = cfg.INCREMENTAL
         /\ "TVM" \notin Reconfigured => cfg'.TVM = cfg.TVM
BY ConfigsAssumption DEF TypeOK, RegWrite, ConfigType

\* With its frontend left alone, the adjustment of an incremental encoder never
\* outlives its tracking: the first cycle without the encoder forgets it, and
\* startup does not take it over from the last run.
THEOREM OffsetCorrect ==
  ASSUME "INCREMENTAL" \notin Reconfigured PROVE Spec => []OffsetIsTracked
<1>1. Init => OffsetIsTracked BY DEF Init, OffsetIsTracked, Running
<1>2. TypeOK /\ OffsetIsTracked /\ [Next]_vars => OffsetIsTracked'
  <2> SUFFICES ASSUME TypeOK, OffsetIsTracked, [Next]_vars PROVE OffsetIsTracked'
    OBVIOUS
  <2> USE DEF OffsetIsTracked, Running
  <2>1. CASE Start BY <2>1 DEF Start, StartupIn
  <2>2. CASE Stop BY <2>2 DEF Stop
  <2>3. CASE LinkageProbed \/ EabiAdjusted BY <2>3 DEF LinkageProbed, EabiAdjusted
  <2>4. CASE RegWrite
    <3>1. cfg'.INCREMENTAL = cfg.INCREMENTAL BY <2>4, WiringKept
    <3> QED BY <2>4, <3>1 DEF RegWrite
  <2>5. CASE Cycle
    <3>1. lu_MODE # "DISABLED" /\ UNCHANGED cfg
      BY <2>5 DEF Cycle, Detached, ForcedMode, EstimateMode, OnHfi, SensorMode, Sensored
    <3>2. CASE lu_MODE = "SENSOR_EABI" \/ cfg.LOCATION_EABI
      BY <2>5, <3>2 DEF Cycle, Track
    <3>3. CASE ~ (lu_MODE = "SENSOR_EABI" \/ cfg.LOCATION_EABI)
      <4>1. eabi_ADJUST' = (eabi_ADJUST /\ ~ (eabi_RECENT /\ cfg.INCREMENTAL))
        BY <2>5, <3>3 DEF Cycle, Track
      <4> QED BY <3>1, <4>1
    <3> QED BY <3>2, <3>3
  <2>6. CASE UNCHANGED vars BY <2>6 DEF vars
  <2> QED BY <2>1, <2>2, <2>3, <2>4, <2>5, <2>6 DEF Next
<1> QED BY <1>1, <1>2, TypeCorrect, PTL DEF Spec

\* Only DETACHED has the zone locked.
LockedIsDetached == Running /\ cfg.TVM /\ flux_ZONE = "LOCKED_IN_DETACH" => lu_MODE = "DETACHED"

LEMMA LockedStep ==
  ASSUME "TVM" \notin Reconfigured, TypeOK, LockedIsDetached, [Next]_vars
  PROVE  LockedIsDetached'
<1> USE DEF LockedIsDetached, Running
<1>1. CASE Start BY <1>1 DEF Start, StartupIn
<1>2. CASE Stop BY <1>2 DEF Stop
<1>3. CASE LinkageProbed \/ EabiAdjusted BY <1>3 DEF LinkageProbed, EabiAdjusted
<1>4. CASE RegWrite
  <2>1. cfg'.TVM = cfg.TVM BY <1>4, WiringKept
  <2> QED BY <1>4, <2>1 DEF RegWrite
<1>5. CASE Cycle /\ Detached BY <1>5 DEF Cycle, Detached, Locked
<1>6. CASE Cycle /\ (ForcedMode \/ EstimateMode \/ OnHfi \/ SensorMode)
  <2>1. lu_MODE \notin {"DETACHED", "DISABLED"}
    BY <1>6 DEF ForcedMode, EstimateMode, OnHfi, SensorMode, Sensored
  <2>2. PICK type \in {"NONE", cfg.ESTIMATE} : Estimate(type, flux_ZONE')
    BY <1>6 DEF ForcedMode, EstimateMode, OnHfi, SensorMode
  <2>3. UNCHANGED cfg BY <1>6 DEF Cycle
  <2>4. cfg.TVM => flux_ZONE # "LOCKED_IN_DETACH" BY <2>1
  <2> QED BY <2>2, <2>3, <2>4 DEF Estimate, ZoneDriven
<1>7. CASE UNCHANGED vars BY <1>7 DEF vars
<1> QED BY <1>1, <1>2, <1>3, <1>4, <1>5, <1>6, <1>7 DEF Next, Cycle

\* A machine that has the terminal voltages and was started by LU_DETACHED stays
\* detached and locked until it is stopped, whatever else is reconfigured.
THEOREM LockCorrect ==
  ASSUME "TVM" \notin Reconfigured
  PROVE  Spec => LockedStaysDetached
<1>1. Init => LockedIsDetached BY DEF Init, LockedIsDetached, Running
<1>2. TypeOK /\ LockedIsDetached /\ [Next]_vars => LockedIsDetached' BY LockedStep
<1>3. LockedIsDetached /\ [Next]_vars
        => [Running /\ cfg.TVM /\ flux_ZONE = "LOCKED_IN_DETACH"
              => lu_MODE' \in {"DETACHED", "DISABLED"} /\ UNCHANGED flux_ZONE]_vars
  <2> SUFFICES ASSUME [Next]_vars, lu_MODE = "DETACHED", flux_ZONE = "LOCKED_IN_DETACH"
               PROVE  lu_MODE' \in {"DETACHED", "DISABLED"} /\ UNCHANGED flux_ZONE
    BY DEF LockedIsDetached
  <2>1. CASE Cycle
    <3>1. Detached BY <2>1 DEF Cycle, ForcedMode, EstimateMode, OnHfi, SensorMode, Sensored
    <3>2. flux_ZONE' = "LOCKED_IN_DETACH" BY <3>1 DEF Detached, ZoneDetached
    <3> QED BY <3>1, <3>2 DEF Detached, Locked
  <2>2. CASE Start \/ Stop \/ LinkageProbed \/ EabiAdjusted \/ RegWrite \/ UNCHANGED vars
    BY <2>2 DEF Start, StartupIn, Stop, LinkageProbed, EabiAdjusted, RegWrite, vars
  <2> QED BY <2>1, <2>2 DEF Next
<1> QED BY <1>1, <1>2, <1>3, TypeCorrect, PTL DEF Spec, LockedStaysDetached

\* What makes DetachedIsWatched inductive: once the entry of DETACHED was done,
\* the machine coasted for at least the cycles that base_TIM counted.
Watched == lu_MODE = "DETACHED" /\ flux_DETACH => coasting >= base_TIM + Fast

LEMMA WatchedStep == ASSUME TypeOK, Watched, [Next]_vars PROVE Watched'
<1> USE DEF Watched
<1>1. CASE Start BY <1>1 DEF Start, StartupIn
<1>2. CASE Stop BY <1>2 DEF Stop
<1>3. CASE LinkageProbed \/ EabiAdjusted \/ RegWrite
  BY <1>3 DEF LinkageProbed, EabiAdjusted, RegWrite
<1>4. CASE Cycle /\ lu_MODE = "DETACHED"
  <2> DEFINE base == IF flux_DETACH THEN base_TIM ELSE - Fast
  <2>1. Detached BY <1>4 DEF Cycle, ForcedMode, EstimateMode, OnHfi, SensorMode, Sensored
  <2>2. coasting \in 0 .. CoastMax /\ base \in - Fast .. Startup /\ coasting >= base + Fast
    BY <1>4, TimersAssumption, BoundsAreNat DEF TypeOK
  <2>3. coasting' = IF coasting < CoastMax THEN coasting + 1 ELSE coasting
    BY <1>4 DEF Cycle, Count
  <2>4. base_TIM' = base \/ (base < Startup /\ base_TIM' = base + 1)
    <3>1. \/ base_TIM' = base
          \/ base < Startup /\ base_TIM' = base + 1
          \/ base_TIM' = base
      BY <2>1 DEF Detached
    <3> QED BY <3>1
  <2> HIDE DEF base
  <2> QED BY <2>2, <2>3, <2>4, TimersAssumption DEF CoastMax
<1>5. CASE Cycle /\ lu_MODE # "DETACHED"
  <2>1. ForcedMode \/ EstimateMode \/ OnHfi \/ SensorMode
    BY <1>5 DEF Cycle, Detached
  <2>2. CASE ForcedMode \/ EstimateMode
    <3> PICK type, to : Switch(to, type)
      BY <2>2 DEF ForcedMode, EstimateMode
    <3> QED BY DEF Switch
  <2>3. CASE OnHfi
    <3> PICK type : Switch(FromHfi(flux_ZONE'), type) BY <2>3 DEF OnHfi
    <3> QED BY DEF Switch
  <2>4. CASE SensorMode
    <3> PICK type : Switch(IF flux_ZONE' = "HIGH" THEN "ESTIMATE" ELSE lu_MODE, type)
      BY <2>4 DEF SensorMode
    <3> QED BY DEF Switch
  <2> QED BY <2>1, <2>2, <2>3, <2>4
<1>6. CASE UNCHANGED vars BY <1>6 DEF vars
<1> QED BY <1>1, <1>2, <1>3, <1>4, <1>5, <1>6 DEF Next

\* Every drive out of DETACHED, at startup or back from freewheeling, comes after
\* the discharge of the windings and the watch over the speed.
THEOREM WatchCorrect == Spec => DetachedIsWatched
<1>1. Init => Watched BY DEF Init, Watched
<1>2. TypeOK /\ Watched /\ [Next]_vars => Watched' BY WatchedStep
<1>3. TypeOK /\ Watched /\ [Next]_vars
        => [lu_MODE = "DETACHED" /\ lu_MODE' \notin {"DETACHED", "DISABLED"}
              => coasting >= Fast + Startup]_vars
  <2> SUFFICES ASSUME TypeOK, Watched, [Next]_vars, lu_MODE = "DETACHED",
                      lu_MODE' \notin {"DETACHED", "DISABLED"}
               PROVE  coasting >= Fast + Startup
    OBVIOUS
  <2>1. Cycle
    BY DEF Next, Start, StartupIn, Stop, LinkageProbed, EabiAdjusted, RegWrite, vars
  <2>2. Detached BY <2>1 DEF Cycle, ForcedMode, EstimateMode, OnHfi, SensorMode, Sensored
  <2>3. (IF flux_DETACH THEN base_TIM ELSE - Fast) >= Startup BY <2>2 DEF Detached
  <2>4. flux_DETACH /\ base_TIM >= Startup BY <2>3, TimersAssumption DEF TypeOK
  <2> QED BY <2>4, TimersAssumption, BoundsAreNat DEF Watched, TypeOK
<1> QED BY <1>1, <1>2, <1>3, TypeCorrect, PTL DEF Spec, DetachedIsWatched
=============================================================================
