SPECIFICATION FairSpec
CONSTANTS
  IrLen = 5
  Answer <- MCAnswer
  Sessions <- OneWrite
  MaxJobs = 1
  BufDwords = 4
  JtagBits = 64
PROPERTY CommandsEnd
CHECK_DEADLOCK FALSE
