SPECIFICATION Spec
CONSTANTS
  Size = 4
  CounterMod = 8
  Mps = 2
  MaxBytes = 6
  MaxConfigs = 1
  QuietPcs <- NeverQuiet
PROPERTIES FifoSafety
CHECK_DEADLOCK FALSE
