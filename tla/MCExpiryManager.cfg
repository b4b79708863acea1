\* Four keys, a sweep that sees two of them, the others renewed for ever.
CONSTANTS
  Keys = {k1, k2, k3, k4}
  Ttls = {1, 2}
  SampleSize = 2
  MaxTime = 2
SPECIFICATION Spec
INVARIANTS
  Mirrored
PROPERTIES
  SweepContract
  DueKeysGo
