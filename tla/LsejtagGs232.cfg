SPECIFICATION Spec
CONSTANTS
  Commands <- Slow
  BufSize = 12
  TdoSize = 3
  TxSize = 2
  JtagXfers = 2
  WordMod = 64
  ReadWindow = 3
  MaxCmds = 2
INVARIANTS NeverHalts
CHECK_DEADLOCK FALSE
