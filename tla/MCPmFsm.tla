------------------------------ MODULE MCPmFsm ------------------------------
(***************************************************************************)
(* Instances of the assistive state machine for TLC.                       *)
(***************************************************************************)
EXTENDS PmFsmProps

\* Every timed phase lasts two cycles, so that a phase can be interrupted in
\* its middle; a stopped machine waits one cycle longer.
TwoCycles == [t \in Timers |-> IF t = "pause_halt" THEN 3 ELSE 2]

Config(tvm, dcu, est, sensor, forced, analog) ==
  [TVM |-> tvm, DCU |-> dcu, ESTIMATE |-> est, SENSOR |-> sensor,
   FORCED |-> forced, SINCOS_ANALOG |-> analog]

\* With terminal voltages and everything else, and with Hall sensors only.
FullHardware == Config(TRUE, TRUE, TRUE, "SINCOS", TRUE, TRUE)
Hall         == Config(FALSE, FALSE, FALSE, "HALL", FALSE, FALSE)

TwoConfigs  == {FullHardware, Hall}
OneConfig   == {FullHardware}

AllRequests == StoppedReq \cup RunningReq \cup {"HALT"}
OrderlyRequests == AllRequests \ {"LU_DETACHED"}
EabiAdjust  == {"LU_STARTUP", "ADJUST_SENSOR_EABI"}
=============================================================================
