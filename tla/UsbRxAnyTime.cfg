SPECIFICATION Spec
CONSTANTS
  Size = 4
  CounterMod = 8
  Mps = 2
  MaxBytes = 6
  MaxConfigs = 2
  QuietPcs <- NeverQuiet
INVARIANTS TypeOK BusyMeansArmed
CHECK_DEADLOCK FALSE
