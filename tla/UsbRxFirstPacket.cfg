SPECIFICATION FairSpec
CONSTANTS
  Size = 4
  CounterMod = 8
  Mps = 2
  MaxBytes = 6
  MaxConfigs = 1
  QuietPcs <- RestartQuiet
PROPERTIES Delivered
CHECK_DEADLOCK FALSE
