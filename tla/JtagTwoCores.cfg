SPECIFICATION Spec
CONSTANTS
  IrLen = 5
  Answer <- MCAnswer
  Sessions <- TwoCores
  MaxJobs = 2
  BufDwords = 4
  JtagBits = 2048
INVARIANT ScansAsAsked
CHECK_DEADLOCK FALSE
