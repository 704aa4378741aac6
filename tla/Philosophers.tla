---------------------------- MODULE Philosophers ----------------------------
(***************************************************************************)
(* The three solutions of exercise 10.  They share the dinner (the food    *)
(* counter, the loop of philosopher(), main) and differ in how a           *)
(* philosopher gets his forks:                                             *)
(*   "waiter"   arkhipov/10/main.c: a semaphore lets PHILO - 1 of them to  *)
(*              the table, who lock the left and then the right fork;      *)
(*   "gate"     tamplon/lab10/slow.c: one mutex is held while the right    *)
(*              and then the left fork are locked;                         *)
(*   "monitor"  tamplon/lab10/fast.c: no forks; under a binary semaphore a *)
(*              philosopher and later his neighbours test() whether he may *)
(*              eat, and he sleeps on a semaphore of his own.              *)
(* `solution' says which program is running; it never changes.             *)
(***************************************************************************)
EXTENDS Integers, FiniteSets

CONSTANTS PHILO, FOOD

ASSUME TableAssumption == PHILO \in Nat /\ PHILO >= 2 /\ FOOD \in Nat

Solutions == {"waiter", "gate", "monitor"}
Phils == 0..(PHILO - 1)
Nobody == PHILO   \* the holder of a free fork or gate

\* left_fork and right_fork of philosopher(): also the numbers of the
\* neighbours that test() looks at.
Left(p) == IF p + 1 = PHILO THEN 0 ELSE p + 1
Right(p) == p
Before(p) == IF p = 0 THEN PHILO - 1 ELSE p - 1

VARIABLES
  solution,
  pc,       \* where each philosopher is
  forks,    \* the holder of each fork mutex
  waiter,   \* value of the waiter semaphore
  gate,     \* the holder of taking_forks, or of sem
  state,    \* the state array of the monitor
  S,        \* the semaphores of the monitor
  food,     \* the static variable of food_on_table
  dish,     \* f, the dish a philosopher has been given
  mpc       \* where main is

vars == <<solution, pc, forks, waiter, gate, state, S, food, dish, mpc>>

PCs == {"new", "food", "wait", "first", "second", "ungate", "eat", "down",
        "post", "test", "leave", "sleep", "testNext", "testBefore", "leavePut",
        "done"}

Init ==
  /\ solution \in Solutions
  /\ pc = [p \in Phils |-> "new"]
  /\ forks = [f \in Phils |-> Nobody]
  /\ waiter = PHILO - 1
  /\ gate = Nobody
  /\ state = [p \in Phils |-> "THINKING"]
  /\ S = [p \in Phils |-> 0]
  /\ food = FOOD
  /\ dish = [p \in Phils |-> 0]
  /\ mpc = "create"

Goto(p, l) == pc' = [pc EXCEPT ![p] = l]

\* Mutant: food_on_table returns the dish and forgets to take it away.
FoodOnTableKeeps(p) ==
  /\ pc[p] = "food"
  /\ dish' = [dish EXCEPT ![p] = food]
  /\ Goto(p, IF food = 0 THEN "done" ELSE "wait")
  /\ UNCHANGED <<solution, forks, waiter, gate, state, S, food, mpc>>

\* food_on_table, under foodlock, and the test of the loop.  The value is read
\* after the decrement, so the last dish ends the dinner instead of being eaten.
FoodOnTable(p) ==
  /\ pc[p] = "food"
  /\ food' = IF food > 0 THEN food - 1 ELSE food
  /\ dish' = [dish EXCEPT ![p] = food']
  /\ Goto(p, IF food' = 0 THEN "done" ELSE "wait")
  /\ UNCHANGED <<solution, forks, waiter, gate, state, S, mpc>>

-----------------------------------------------------------------------------
(***************************************************************************)
(* The solutions with fork mutexes.                                        *)
(***************************************************************************)
First(p) == IF solution = "waiter" THEN Left(p) ELSE Right(p)
Second(p) == IF solution = "waiter" THEN Right(p) ELSE Left(p)

\* Mutant: the waiter lets everybody in.
AskWaiterInVain(p) ==
  /\ solution = "waiter"
  /\ pc[p] = "wait"
  /\ Goto(p, "first")
  /\ UNCHANGED <<solution, forks, waiter, gate, state, S, food, dish, mpc>>

\* sem_wait(&waiter)
AskWaiter(p) ==
  /\ solution = "waiter"
  /\ pc[p] = "wait"
  /\ waiter > 0
  /\ waiter' = waiter - 1
  /\ Goto(p, "first")
  /\ UNCHANGED <<solution, forks, gate, state, S, food, dish, mpc>>

\* pthread_mutex_lock(&taking_forks)
LockGate(p) ==
  /\ solution = "gate"
  /\ pc[p] = "wait"
  /\ gate = Nobody
  /\ gate' = p
  /\ Goto(p, "first")
  /\ UNCHANGED <<solution, forks, waiter, state, S, food, dish, mpc>>

\* get_fork, twice.
GetFirst(p) ==
  /\ pc[p] = "first"
  /\ forks[First(p)] = Nobody
  /\ forks' = [forks EXCEPT ![First(p)] = p]
  /\ Goto(p, "second")
  /\ UNCHANGED <<solution, waiter, gate, state, S, food, dish, mpc>>

\* Mutant: the fork is taken although it is in use (a failed trylock).
GetSecondTry(p) ==
  /\ pc[p] = "second"
  /\ forks' = [forks EXCEPT ![Second(p)] = p]
  /\ Goto(p, IF solution = "gate" THEN "ungate" ELSE "eat")
  /\ UNCHANGED <<solution, waiter, gate, state, S, food, dish, mpc>>

GetSecond(p) ==
  /\ pc[p] = "second"
  /\ forks[Second(p)] = Nobody
  /\ forks' = [forks EXCEPT ![Second(p)] = p]
  /\ Goto(p, IF solution = "gate" THEN "ungate" ELSE "eat")
  /\ UNCHANGED <<solution, waiter, gate, state, S, food, dish, mpc>>

UnlockGate(p) ==
  /\ pc[p] = "ungate"
  /\ gate' = Nobody
  /\ Goto(p, "eat")
  /\ UNCHANGED <<solution, forks, waiter, state, S, food, dish, mpc>>

\* down_forks, after the meal: left, then right, and in the waiter's solution
\* sem_post(&waiter).
DownLeft(p) ==
  /\ solution # "monitor"
  /\ pc[p] = "eat"
  /\ forks' = [forks EXCEPT ![Left(p)] = Nobody]
  /\ Goto(p, "down")
  /\ UNCHANGED <<solution, waiter, gate, state, S, food, dish, mpc>>

DownRight(p) ==
  /\ pc[p] = "down"
  /\ forks' = [forks EXCEPT ![Right(p)] = Nobody]
  /\ Goto(p, IF solution = "waiter" THEN "post" ELSE "food")
  /\ UNCHANGED <<solution, waiter, gate, state, S, food, dish, mpc>>

PostWaiter(p) ==
  /\ pc[p] = "post"
  /\ waiter' = waiter + 1
  /\ Goto(p, "food")
  /\ UNCHANGED <<solution, forks, gate, state, S, food, dish, mpc>>

-----------------------------------------------------------------------------
(***************************************************************************)
(* The monitor: test, get_forks and put_forks.                             *)
(***************************************************************************)
MayEat(q) ==
  /\ state[q] = "HUNGRY"
  /\ state[Left(q)] # "EATING" /\ state[Before(q)] # "EATING"

Test(q) ==
  /\ state' = IF MayEat(q) THEN [state EXCEPT ![q] = "EATING"] ELSE state
  /\ S' = IF MayEat(q) THEN [S EXCEPT ![q] = @ + 1] ELSE S

EnterHungry(p) ==
  /\ solution = "monitor"
  /\ pc[p] = "wait"
  /\ gate = Nobody
  /\ gate' = p
  /\ state' = [state EXCEPT ![p] = "HUNGRY"]
  /\ Goto(p, "test")
  /\ UNCHANGED <<solution, forks, waiter, S, food, dish, mpc>>

TestSelf(p) ==
  /\ pc[p] = "test"
  /\ Test(p)
  /\ Goto(p, "leave")
  /\ UNCHANGED <<solution, forks, waiter, gate, food, dish, mpc>>

\* The sem_post of get_forks, and that of put_forks.
Leave(p) ==
  /\ pc[p] \in {"leave", "leavePut"}
  /\ gate' = Nobody
  /\ Goto(p, IF pc[p] = "leave" THEN "sleep" ELSE "food")
  /\ UNCHANGED <<solution, forks, waiter, state, S, food, dish, mpc>>

\* sem_wait(&S[id])
Sleep(p) ==
  /\ pc[p] = "sleep"
  /\ S[p] > 0
  /\ S' = [S EXCEPT ![p] = @ - 1]
  /\ Goto(p, "eat")
  /\ UNCHANGED <<solution, forks, waiter, gate, state, food, dish, mpc>>

EnterThinking(p) ==
  /\ solution = "monitor"
  /\ pc[p] = "eat"
  /\ gate = Nobody
  /\ gate' = p
  /\ state' = [state EXCEPT ![p] = "THINKING"]
  /\ Goto(p, "testNext")
  /\ UNCHANGED <<solution, forks, waiter, S, food, dish, mpc>>

TestNext(p) ==
  /\ pc[p] = "testNext"
  /\ Test(Left(p))
  /\ Goto(p, "testBefore")
  /\ UNCHANGED <<solution, forks, waiter, gate, food, dish, mpc>>

\* Mutant: put_forks looks at one neighbour only.
TestBeforeSkipped(p) ==
  /\ pc[p] = "testBefore"
  /\ Goto(p, "leavePut")
  /\ UNCHANGED <<solution, forks, waiter, gate, state, S, food, dish, mpc>>

TestBefore(p) ==
  /\ pc[p] = "testBefore"
  /\ Test(Before(p))
  /\ Goto(p, "leavePut")
  /\ UNCHANGED <<solution, forks, waiter, gate, food, dish, mpc>>

-----------------------------------------------------------------------------
\* main starts the philosophers in order, joins them and destroys the locks.
Create(p) ==
  /\ mpc = "create"
  /\ pc[p] = "new"
  /\ \A q \in Phils : q < p => pc[q] # "new"
  /\ Goto(p, "food")
  /\ mpc' = IF p = PHILO - 1 THEN "join" ELSE mpc
  /\ UNCHANGED <<solution, forks, waiter, gate, state, S, food, dish>>

Join ==
  /\ mpc = "join"
  /\ \A p \in Phils : pc[p] = "done"
  /\ mpc' = "exit"
  /\ UNCHANGED <<solution, pc, forks, waiter, gate, state, S, food, dish>>

Philosopher(p) ==
  \/ FoodOnTable(p)
  \/ AskWaiter(p) \/ LockGate(p) \/ GetFirst(p) \/ GetSecond(p) \/ UnlockGate(p)
  \/ DownLeft(p) \/ DownRight(p) \/ PostWaiter(p)
  \/ EnterHungry(p) \/ TestSelf(p) \/ Leave(p) \/ Sleep(p)
  \/ EnterThinking(p) \/ TestNext(p) \/ TestBefore(p)

Main == (\E p \in Phils : Create(p)) \/ Join

Next == (\E p \in Phils : Philosopher(p)) \/ Main

\* Every thread that can continue does so; which of several waiting threads
\* gets a mutex or a semaphore is left open.
Fairness == WF_vars(Main) /\ \A p \in Phils : WF_vars(Philosopher(p))

Spec == Init /\ [][Next]_vars
FairSpec == Spec /\ Fairness

-----------------------------------------------------------------------------
TypeOK ==
  /\ solution \in Solutions
  /\ pc \in [Phils -> PCs]
  /\ forks \in [Phils -> Phils \cup {Nobody}]
  /\ waiter \in Nat
  /\ gate \in Phils \cup {Nobody}
  /\ state \in [Phils -> {"THINKING", "HUNGRY", "EATING"}]
  /\ S \in [Phils -> Nat]
  /\ food \in Nat
  /\ dish \in [Phils -> Nat]
  /\ mpc \in {"create", "join", "exit"}

\* The waiter counts: the semaphore and the philosophers at the table always
\* make PHILO - 1, so one seat stays empty and the circle of philosophers that
\* each hold a left fork cannot close.
AtTable ==
  {p \in Phils : pc[p] \in {"first", "second", "eat", "down", "post"}}
SeatsCounted ==
  solution = "waiter" => waiter + Cardinality(AtTable) = PHILO - 1

\* Philosophers who have been given a dish and have not come back for another.
Served(p) == pc[p] \notin {"new", "food", "done"}

\* food_on_table gives no dish to two philosophers, and none twice.
DishesDistinct ==
  /\ \A p \in Phils : Served(p) => dish[p] > 0 /\ dish[p] >= food
  /\ \A p, q \in Phils :
       p # q /\ Served(p) /\ Served(q) => dish[p] # dish[q]

\* Somebody inside the monitor is still going to test philosopher q.
TestComing(q) ==
  \E h \in Phils :
    \/ pc[h] = "test" /\ q = h
    \/ pc[h] = "testNext" /\ q \in {Left(h), Before(h)}
    \/ pc[h] = "testBefore" /\ q = Before(h)

\* No lost wake-up in the monitor: who is HUNGRY has a neighbour that eats and
\* will test him, or is being tested.
HungryHasReason ==
  \A q \in Phils :
    state[q] = "HUNGRY" =>
      \/ state[Left(q)] = "EATING" \/ state[Before(q)] = "EATING"
      \/ TestComing(q)

(***************************************************************************)
(* What makes these invariants and the refinement below inductive: which   *)
(* solution uses which steps, who holds the forks and the gate, and how    *)
(* the monitor's arrays follow the philosophers' steps.                    *)
(***************************************************************************)
StepsOfSolution ==
  \A p \in Phils :
    /\ pc[p] \in {"first", "second", "down"} => solution # "monitor"
    /\ pc[p] = "ungate" => solution = "gate"
    /\ pc[p] = "post" => solution = "waiter"
    /\ pc[p] \in {"test", "leave", "sleep", "testNext", "testBefore", "leavePut"}
         => solution = "monitor"

HasLeft(p) ==
  \/ pc[p] = "ungate"
  \/ pc[p] = "eat" /\ solution # "monitor"
  \/ pc[p] = "second" /\ solution = "waiter"
HasRight(p) ==
  \/ pc[p] \in {"ungate", "down"}
  \/ pc[p] = "eat" /\ solution # "monitor"
  \/ pc[p] = "second" /\ solution = "gate"
ForksHeld ==
  \A p \in Phils :
    /\ HasLeft(p) => forks[Left(p)] = p
    /\ HasRight(p) => forks[Right(p)] = p

Inside(p) ==
  \/ pc[p] \in {"test", "leave", "testNext", "testBefore", "leavePut", "ungate"}
  \/ pc[p] \in {"first", "second"} /\ solution = "gate"
GateHeld == \A p \in Phils : Inside(p) => gate = p

MonitorState ==
  \A p \in Phils :
    /\ solution # "monitor" => state[p] = "THINKING"
    /\ state[p] = "HUNGRY" => pc[p] \in {"test", "leave", "sleep"}
    /\ state[p] = "EATING" => pc[p] \in {"leave", "sleep", "eat"}
    /\ pc[p] = "eat" /\ solution = "monitor" => state[p] = "EATING"
    /\ S[p] > 0 => state[p] = "EATING" /\ pc[p] # "eat" /\ S[p] = 1

MonitorExcludes ==
  \A p \in Phils : state[p] = "EATING" => state[Left(p)] # "EATING"

IInv ==
  /\ TypeOK /\ StepsOfSolution /\ ForksHeld /\ GateHeld /\ SeatsCounted
  /\ DishesDistinct /\ MonitorState /\ MonitorExcludes /\ HungryHasReason

\* Who holds two forks, or has been allowed to eat by the monitor.
Eating ==
  {p \in Phils : IF solution = "monitor" THEN state[p] = "EATING"
                 ELSE pc[p] \in {"ungate", "eat"}}

Table == INSTANCE DiningTable WITH eating <- Eating

\* get_fork and down_forks, get_forks and put_forks implement the table: no two
\* neighbours ever eat at the same time.
NeighboursExcluded == Table!Spec

\* The dinner ends: the philosophers cannot block each other for good, and main
\* gets through its joins.
DinnerEnds == <>(mpc = "exit")
=============================================================================
