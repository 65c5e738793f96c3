SPECIFICATION Spec
CONSTANTS
  Commands <- AnySplit
  BufSize = 12
  TdoSize = 4
  TxSize = 1
  JtagXfers = 2
  WordMod = 64
  ReadWindow = 4
  MaxCmds = 2
INVARIANTS AnySplitFramed
CHECK_DEADLOCK FALSE
