SPECIFICATION Spec
CONSTANTS
  IrLen = 5
  Answer <- MCAnswer
  Sessions <- BadEnds
  MaxJobs = 2
  BufDwords = 4
  JtagBits = 2048
INVARIANT EndsAsDocumented
CHECK_DEADLOCK FALSE
