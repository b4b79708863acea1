\* Two keys for one place: every command on every kind of value, with log lines,
\* saves, rewrites, restarts and one tick in every order.
CONSTANTS
  Keys = {a, b}
  Vals = {x, y}
  Fields = {f, g}
  MaxKeys = 1
  TicksPerSecond = 1
  Ttls = {1}
  MaxTime = 1
  MaxArgs = 1
  MaxItems = 2
  MaxLog = 2

SYMMETRY Symmetry
SPECIFICATION RecoverySpec

INVARIANTS
  LogReproduces
  RangeContract

PROPERTIES
  OtherMutationsLogged

\* The bounds on the clock and the log stop the model, not the program.
CHECK_DEADLOCK FALSE
