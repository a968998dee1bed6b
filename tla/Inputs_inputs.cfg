SPECIFICATION Spec
CONSTANTS
  Starters = {"knob", "ppm"}
  Idle = 1
  Gap = 1
  Late = 1
  Faults = 2
INVARIANTS
  NoFalseAlarm
PROPERTIES
  FreshStarts
  IdleMeansStill
