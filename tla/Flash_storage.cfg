SPECIFICATION Spec
CONSTANTS
  Sectors = 2
  PerSector = 2
  Values = {v0, v1}
  Default = v0
  MaxNumber = 7
  MaxCrashes = 1
INVARIANTS
  SavedIsLoaded
  NumbersAreDistinct
PROPERTIES
  ProgramsCleanBlocks
