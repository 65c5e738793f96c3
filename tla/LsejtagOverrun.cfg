SPECIFICATION Spec
CONSTANTS
  Commands <- ReadOnly
  BufSize = 12
  TdoSize = 3
  TxSize = 2
  JtagXfers = 2
  WordMod = 64
  ReadWindow = 4
  MaxCmds = 4
INVARIANTS TdoFits
CHECK_DEADLOCK FALSE
