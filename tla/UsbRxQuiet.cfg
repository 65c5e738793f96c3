SPECIFICATION FairSpec
CONSTANTS
  Size = 4
  CounterMod = 8
  Mps = 2
  MaxBytes = 8
  MaxConfigs = 1
  QuietPcs <- RestartQuiet
INVARIANTS RegionFree BytesAccounted BusyIffArmed StallLeavesWork
PROPERTIES FifoSafety DeliveredOnceStarted StallEnds
CHECK_DEADLOCK FALSE
