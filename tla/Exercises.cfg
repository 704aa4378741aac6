\* Everybody goes round the ring of four threads; two different lines to sort; more
\* threads than terms, and a remainder; three node addresses are used again, four
\* strings allow four puts; the creation of the sleepers may take as long as half of
\* the difference between a short line and a long one.
CONSTANTS
  LINES = 4
  THREADS = 4
  VALUES = {1, 2}
  INPUTS = 3
  MAX_THREADS = 4
  STEPS = {2, 7}
  N = 3
  SUPPLEMENT = 2
  RUN = 2
  SLEEPERS = 3
  LENGTHS = {1, 3}
  SLOW = 1
  STOCK = 1
  ORDER = 1
  Addrs = {"n1", "n2", "n3"}
  Strings = {"s1", "s2", "s3", "s4"}
SPECIFICATION Spec
INVARIANTS
  WellDefined
  InTurn
  NothingLost
  StartAndStopTogether
PROPERTIES
  NeverBackwards
  
  EventuallySorted
\* The programs end; some of them block after a failed pthread_create.
CHECK_DEADLOCK FALSE
