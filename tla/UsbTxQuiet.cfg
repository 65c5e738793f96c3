SPECIFICATION FairSpec
CONSTANTS
  Size = 4
  CounterMod = 8
  Mps = 2
  MaxCall = 3
  MaxUnits = 9
  MaxHost = 9
  MaxResets = 0
  QuietPcs <- BothQuiet
INVARIANTS HostInOrder BusyIffInFlight RingAccounts
PROPERTIES Delivered
CHECK_DEADLOCK FALSE
