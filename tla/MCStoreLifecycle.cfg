\* Three keys compete for two places; time passes the deadlines.
CONSTANTS
  Keys = {k1, k2, k3}
  Vals = {a}
  Fields = {f}
  MaxKeys = 2
  TicksPerSecond = 2
  Ttls = {1}
  Indices <- FewIndices
  MaxArgs = 1
  SampleSize = 1
  MaxTime = 4
  MaxEvictions = 1
  MaxItems = 2
SYMMETRY Symmetry
SPECIFICATION Spec
INVARIANTS
  FormsReproduce
  Consistent
  Capacity
  ExpiredIsAbsent
  
PROPERTIES
  LiveKeysLeaveTwoWays
  OtherMutationsCounted
  ImplementsContract
