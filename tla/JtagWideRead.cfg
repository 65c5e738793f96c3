SPECIFICATION Spec
CONSTANTS
  IrLen = 5
  Answer <- MCAnswer
  Sessions <- WideRead
  MaxJobs = 2
  BufDwords = 4
  JtagBits = 2048
INVARIANT ReadAsAsked
CHECK_DEADLOCK FALSE
