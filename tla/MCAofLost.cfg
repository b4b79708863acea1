\* No call fails: is every acknowledged command in the file?
CONSTANTS
  FsyncPolicies = {"everysec"}
  Faults = {}
  MaxCommands = 3
SPECIFICATION Spec
INVARIANTS
  AcknowledgedAreLogged
