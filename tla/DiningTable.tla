---------------------------- MODULE DiningTable ----------------------------
(***************************************************************************)
(* What the dining philosophers of exercise 10 promise: PHILO philosophers *)
(* around a table, a fork between any two neighbours, and nobody eats      *)
(* while a neighbour does.                                                 *)
(***************************************************************************)
EXTENDS Integers

CONSTANT PHILO

Phils == 0..(PHILO - 1)

\* The neighbour on the left; its right neighbour is p.
Succ(p) == IF p + 1 = PHILO THEN 0 ELSE p + 1
Neighbours(p, q) == q = Succ(p) \/ p = Succ(q)

VARIABLE eating   \* the philosophers with two forks in their hands

Init == eating = {}

TakeForks(p) ==
  /\ p \notin eating
  /\ \A q \in eating : ~Neighbours(p, q)
  /\ eating' = eating \cup {p}

PutForks(p) == p \in eating /\ eating' = eating \ {p}

Next == \E p \in Phils : TakeForks(p) \/ PutForks(p)

Spec == Init /\ [][Next]_eating
=============================================================================
