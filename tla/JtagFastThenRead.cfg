SPECIFICATION Spec
CONSTANTS
  IrLen = 5
  Answer <- MCAnswer
  Sessions <- FastThenRead
  MaxJobs = 2
  BufDwords = 4
  JtagBits = 2048
INVARIANT NeverHalts
CHECK_DEADLOCK FALSE
