SPECIFICATION FairSpec
CONSTANTS
  DataMax = 5
  Layouts = {0, 1, 2}
  Rates = {1, 2}
  Old = 6
  Relayout = FALSE
INVARIANTS
  InMemory
  FlushInOrder
  StreamInOrder
  WatchKeepsError
PROPERTIES
  FlushEnds
