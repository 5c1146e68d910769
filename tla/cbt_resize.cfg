SPECIFICATION Spec
CONSTANTS
  MaxNumber = 3
  Capacities = {1, 2}
  Uuid = {g1, g2, g3}
  NULL = NULL
SYMMETRY UuidSymmetry
INVARIANTS NoChangeMissed GenerationFixesSize
PROPERTY NumbersGrow
\* The machine stops when a table is used that is not there.
CHECK_DEADLOCK FALSE
