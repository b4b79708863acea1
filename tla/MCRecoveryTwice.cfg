\* The smallest instance: one key and no deadlines.
CONSTANTS
  Keys = {a}
  Vals = {x}
  Fields = {}
  MaxKeys = 1
  TicksPerSecond = 1
  Ttls = {}
  MaxTime = 0
  MaxArgs = 1
  MaxItems = 2
  MaxLog = 2

SPECIFICATION RecoverySpec

PROPERTIES
  RecoversExactState

\* The bounds on the clock and the log stop the model, not the program.
CHECK_DEADLOCK FALSE
