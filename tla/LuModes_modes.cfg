SPECIFICATION FairSpec
CONSTANTS
  Configs <- MixedConfigs
  Reconfigured <- TunedRegisters
  Fast = 2
  Slow = 3
  Startup = 4
  Forced = 3
  MinDetach = 2
INVARIANTS
  OffsetIsTracked
PROPERTIES
  ImplementsLuMoves
  DetachedIsWatched
  LockedStaysDetached
  LeavesDetached
