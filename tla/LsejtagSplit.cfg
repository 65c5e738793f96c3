SPECIFICATION FairSpec
CONSTANTS
  Commands <- SplitCommands
  BufSize = 12
  TdoSize = 4
  TxSize = 1
  JtagXfers = 2
  WordMod = 64
  ReadWindow = 4
  MaxCmds = 2
INVARIANTS FramingIntact
PROPERTIES CommandsFinish ImmediateSent
CHECK_DEADLOCK FALSE
