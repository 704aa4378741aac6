\* Four philosophers, so that two who are not neighbours can eat together, and
\* enough food for all of them to be hungry at once.
CONSTANTS
  PHILO = 4
  FOOD = 5
SPECIFICATION FairSpec
INVARIANTS
  SeatsCounted
  DishesDistinct
  HungryHasReason
PROPERTIES
  NeighboursExcluded
  DinnerEnds
\* The program ends; DinnerEnds says that it ends nowhere else.
CHECK_DEADLOCK FALSE
