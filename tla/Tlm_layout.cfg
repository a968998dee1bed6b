SPECIFICATION Spec
CONSTANTS
  DataMax = 5
  Layouts = {0, 1, 2}
  Rates = {1, 2}
  Old = 6
  Relayout = TRUE
INVARIANT
  InMemory
