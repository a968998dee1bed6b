SPECIFICATION Spec
CONSTANTS
  Nodes = {1, 2, 3}
  MaxID = 4
  Regs = {1}
  Values = {0, 1}
  Setups <- AllSetups
INVARIANTS
  NumbersDistinct
  TablesTrue
  Renumbered
  WrittenAsTyped
  ReadIsFresh
