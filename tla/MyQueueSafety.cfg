\* Two producers and two consumers as in main.c; a queue of two places fills
\* and empties; thread creation may fail at any point.
CONSTANTS
  Producers = {p1, p2}
  Consumers = {c1, c2}
  Msgs = {m1, m2}
  Capacity = 2
  CreateMayFail = TRUE
SPECIFICATION Spec
SYMMETRY ThreadSymmetry
INVARIANTS
  TypeOK
  TokenAccounting
  CapacityBound
  GetFindsMessage
  ExitOnlyWhenDropped
  
\* A failed creation may leave threads blocked for good: see the README.
CHECK_DEADLOCK FALSE
