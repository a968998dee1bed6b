------------------------------ MODULE LuMoves ------------------------------
(***************************************************************************)
(* The modes of the observer FSM (pm_lu_FSM) and the moves between them:   *)
(* the abstract view that PmFsm takes of LuModes.                          *)
(***************************************************************************)

Sensored == {"SENSOR_HALL", "SENSOR_EABI", "SENSOR_SINCOS"}
RunModes == {"DETACHED", "FORCED", "ESTIMATE", "ON_HFI"} \cup Sensored
Modes    == RunModes \cup {"DISABLED"}

\* One move of the observer FSM in the configuration c. ESTIMATE follows the
\* speed zone, which may outlive the estimator: only the way out of DETACHED asks
\* for one.
MayMove(c, from, to) ==
  \/ to = "ESTIMATE" /\ from \in RunModes \ {"ESTIMATE"} /\ (from = "DETACHED" => c.ESTIMATE)
  \/ to = "DETACHED" /\ from \in {"FORCED", "ESTIMATE"} /\ c.TVM
  \/ to = "FORCED" /\ from \in {"DETACHED", "ESTIMATE"} /\ c.FORCED
  \/ to = "ON_HFI" /\ from \in {"DETACHED", "FORCED", "ESTIMATE"} /\ c.ESTIMATE
  \/ to = "SENSOR_HALL" /\ from \in {"DETACHED", "ESTIMATE"} /\ c.SENSOR = "HALL"
  \/ to = "SENSOR_EABI" /\ from \in RunModes \ Sensored /\ c.SENSOR = "EABI"
  \/ to = "SENSOR_SINCOS" /\ from \in {"DETACHED", "ESTIMATE"} /\ c.SENSOR = "SINCOS"

\* The phases the bridge holds in high impedance after a move: DETACHED releases
\* all of them, and leaving it enables all.
AfterMove(z, from, to) ==
  IF to = "DETACHED" THEN "ABC" ELSE IF from = "DETACHED" THEN "NONE" ELSE z
=============================================================================
