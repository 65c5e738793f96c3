SPECIFICATION FairSpec
CONSTANTS
  IrLen = 5
  Answer <- MCAnswer
  Sessions <- Good
  MaxJobs = 3
  BufDwords = 4
  JtagBits = 2048
INVARIANTS TypeOK ScansAsAsked TapStaysUsable ReadAsAsked SpillBounded NeverHalts
PROPERTIES CommandsEnd
CHECK_DEADLOCK FALSE
