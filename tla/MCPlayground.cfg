\* A limit of one per two ticks; enough commands to exceed two windows' worth.
CONSTANTS
  Limit = 1
  Window = 1
  MaxTime = 3
  MaxCommands = 3
  MaxPushes = 1
  MaxBreaks = 2
SPECIFICATION Spec
INVARIANTS
  RateBound
  OwnReply
PROPERTIES
  Reconnects
\* An unmounted page with the clock at its bound may have nothing left to do.
CHECK_DEADLOCK FALSE
