\* Three keys, two instants, every moment at which a key can fall due.
CONSTANTS
  Keys = {k1, k2, k3}
  Undefined = Undefined
  MaxTime = 2
SPECIFICATION SSpec
INVARIANTS
  WellKept
  ListedInOrder
PROPERTIES
  ImplementsRecency
  UndisturbedWalkIsComplete
