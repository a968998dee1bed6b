SPECIFICATION FairSpec
CONSTANTS
  TM <- TwoCycles
  Configs <- OneConfig
  Requests <- OrderlyRequests
  DirectFaults = FALSE
  WaitTimeouts = FALSE
  HallErrors = 2
PROPERTIES
  ProcedureEnds
  HaltStops
  ImplementsPowerStage
