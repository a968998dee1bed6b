SPECIFICATION FairSpec
CONSTANTS
  LastReg = 1
  Values = {0, 1}
  Setups <- SixSetups
  BusyMax = 1
  QueueTimeout = 0
  Quiet = 0
  KeepIdle = 1
  CloseAfter = 2
  LockOpen = 1
  LockCommand = 1
  RxMax = 2
INVARIANTS
  QuietIsTrue
PROPERTIES
  DoneIsDone
  CommandReported
  EditSettles
