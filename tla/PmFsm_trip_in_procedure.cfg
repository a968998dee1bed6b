SPECIFICATION FairSpec
CONSTANTS
  TM <- TwoCycles
  Configs <- OneConfig
  Requests <- EabiAdjust
  DirectFaults = TRUE
  WaitTimeouts = FALSE
  HallErrors = 2
PROPERTIES
  TripStops
