\* Every policy; every call can fail; four commands, any number of lives.
CONSTANTS
  FsyncPolicies = {"always", "everysec", "no"}
  Faults = {"write", "sync", "writeFile", "appendFile", "rename", "open"}
  MaxCommands = 4
SPECIFICATION Spec
INVARIANTS
  InOrderOnce
  LossOnlyWhenExposed
  SyncedUnlessRewritten
  CleanCoversWrites
