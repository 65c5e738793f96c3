SPECIFICATION Spec
CONSTANTS
  Size = 4
  CounterMod = 8
  Mps = 2
  MaxCall = 2
  MaxUnits = 4
  MaxHost = 6
  MaxResets = 1
  QuietPcs <- NeverQuiet
INVARIANTS TypeOK IdleIsTerminated
PROPERTIES NoOverwriteInFlight
CHECK_DEADLOCK FALSE
