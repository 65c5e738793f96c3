SPECIFICATION Spec
CONSTANTS
  IrLen = 5
  Answer <- MCAnswer
  Sessions <- PartialRead
  MaxJobs = 2
  BufDwords = 4
  JtagBits = 2048
INVARIANT FilledFromLsb
CHECK_DEADLOCK FALSE
