\* Two connections, two channels, a password and a disabled command; transactions of two commands.
CONSTANTS
  Conns = {c1, c2}
  Channels = {x, y}
  RequirePass = TRUE
  Disabled = {"OTHER"}
  LogFails = TRUE
  MaxQueue = 2
SPECIFICATION Spec
\* All connections may be closed: an id is never used again.
CHECK_DEADLOCK FALSE
INVARIANTS
  MapsMirrored
  NeverStuckInTransaction
  CountExceedsByBroken
  OnlyPermittedRuns
