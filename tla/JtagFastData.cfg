SPECIFICATION Spec
CONSTANTS
  IrLen = 5
  Answer <- MCAnswer
  Sessions <- Gs232
  MaxJobs = 2
  BufDwords = 4
  JtagBits = 2048
INVARIANT DataInPlace
CHECK_DEADLOCK FALSE
