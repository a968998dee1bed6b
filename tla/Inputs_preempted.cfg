SPECIFICATION Spec
CONSTANTS
  Starters = {"knob", "ppm"}
  Idle = 2
  Gap = 1
  Late = 1
  Faults = 2
PROPERTIES
  IdleAlways
