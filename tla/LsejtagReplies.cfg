SPECIFICATION Spec
CONSTANTS
  Commands <- AnyCommands
  BufSize = 12
  TdoSize = 3
  TxSize = 2
  JtagXfers = 2
  WordMod = 64
  ReadWindow = 3
  MaxCmds = 4
INVARIANTS TypeOK TdoFits NeverSpins DataReachable RunExactlyOnce
PROPERTIES Serves
CHECK_DEADLOCK FALSE
