SPECIFICATION FairSpec
CONSTANTS
  Size = 4
  CounterMod = 8
  Mps = 2
  MaxCall = 2
  MaxUnits = 4
  MaxHost = 9
  MaxResets = 0
  QuietPcs <- WriteQuiet
PROPERTIES Delivered
CHECK_DEADLOCK FALSE
