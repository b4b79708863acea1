\* One life, two commands; the calls of the log do not fail, one save may.
CONSTANTS
  FsyncPolicies = {"no"}
  Faults = {}
  MaxCommands = 2
  MaxFailures = 1
  MaxRewrites = 1
SPECIFICATION ServerSpec
INVARIANTS
  CleanMeansSaved
  ExitCovers
PROPERTIES
  DumpOnlyAdvances
  SavedInTheEnd
  SignalEnds
\* The process exits.
CHECK_DEADLOCK FALSE
