SPECIFICATION Spec
CONSTANTS
  TM <- TwoCycles
  Configs <- TwoConfigs
  Requests <- AllRequests
  DirectFaults = FALSE
  WaitTimeouts = TRUE
  HallErrors = 2
INVARIANTS
  TypeOK
  IdleIsOff
  ProcedureOwnsMachine
  PhaseIsHandled
PROPERTIES
  OneProcedureAtATime
  KeepsPowerStage
