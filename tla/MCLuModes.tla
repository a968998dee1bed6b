----------------------------- MODULE MCLuModes -----------------------------
(***************************************************************************)
(* Instances of the observer FSM for TLC.                                  *)
(***************************************************************************)
EXTENDS LuModes

Config(tvm, estimate, sensor, hfi, forced, freewheel, inc, loc) ==
  [TVM |-> tvm, ESTIMATE |-> estimate, SENSOR |-> sensor, HFI |-> hfi,
   FORCED |-> forced, FREEWHEEL |-> freewheel, INCREMENTAL |-> inc,
   LOCATION_EABI |-> loc]

\* With terminal voltages: each sensor over each estimator, HFI, freewheeling
\* and forced control, and a machine without terminal voltages.
MixedConfigs ==
  {Config(TRUE, est, sensor, est = "KALMAN", TRUE, wheel, inc, FALSE) :
     est \in {"NONE", "ORTEGA", "KALMAN"}, sensor \in {"NONE", "HALL", "EABI", "SINCOS"},
     wheel \in BOOLEAN, inc \in BOOLEAN}
  \cup {Config(TRUE, "KALMAN", "EABI", FALSE, FALSE, FALSE, TRUE, loc) : loc \in BOOLEAN}
  \cup {Config(FALSE, "NONE", "EABI", FALSE, FALSE, FALSE, TRUE, FALSE)}
\* What a user changes while the machine runs.
TunedRegisters == {"SENSOR", "HFI", "FORCED", "FREEWHEEL"}
=============================================================================
