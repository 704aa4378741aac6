------------------------- MODULE PhilosophersProofs -------------------------
(***************************************************************************)
(* Proofs about the three solutions of exercise 10 for every number of     *)
(* philosophers and every amount of food: neighbours never eat together,   *)
(* no dish is given twice, the waiter keeps a seat empty, and the monitor  *)
(* loses no wake-up.                                                       *)
(***************************************************************************)
EXTENDS Philosophers, FiniteSetTheorems, TLAPS

(* The numbers of forks and neighbours: Left and Before walk around the    *)
(* table in opposite directions, and nobody is his own neighbour.          *)
LEMMA Ring ==
  \A p \in Phils :
    /\ Left(p) \in Phils /\ Right(p) \in Phils /\ Before(p) \in Phils
    /\ Left(p) # p /\ Before(p) # p
    /\ Left(Before(p)) = p /\ Before(Left(p)) = p
BY TableAssumption DEF Phils, Left, Right, Before

(* A philosopher is not Nobody.                                            *)
LEMMA SomebodyIsNotNobody == \A p \in Phils : p # Nobody
BY TableAssumption DEF Phils, Nobody

(* Adding or removing one philosopher changes the number at the table by   *)
(* one.                                                                    *)
LEMMA TableSize ==
  /\ IsFiniteSet(Phils) /\ Cardinality(Phils) = PHILO
  /\ \A T \in SUBSET Phils : IsFiniteSet(T) /\ Cardinality(T) \in Nat
<1>1. IsFiniteSet(Phils) /\ Cardinality(Phils) = PHILO
  BY FS_Interval, TableAssumption DEF Phils
<1> QED  BY <1>1, FS_Subset, FS_CardinalityType

(* The programs start in a state that satisfies the inductive invariant.   *)
LEMMA InitIInv == Init => IInv
<1> SUFFICES ASSUME Init PROVE IInv
  OBVIOUS
<1> USE DEF Init
<1>1. TypeOK
  BY TableAssumption DEF TypeOK, PCs, Solutions, Phils, Nobody
<1>2. StepsOfSolution /\ ForksHeld /\ GateHeld
  BY DEF StepsOfSolution, ForksHeld, GateHeld, HasLeft, HasRight, Inside
<1>3. SeatsCounted
  <2>1. AtTable = {}  BY DEF AtTable
  <2> QED  BY <2>1, FS_EmptySet, TableAssumption DEF SeatsCounted
<1>4. DishesDistinct  BY DEF DishesDistinct, Served
<1>5. MonitorState /\ MonitorExcludes /\ HungryHasReason
  BY Ring DEF MonitorState, MonitorExcludes, HungryHasReason
<1> QED  BY <1>1, <1>2, <1>3, <1>4, <1>5 DEF IInv

-----------------------------------------------------------------------------
(* Every step keeps the types.                                             *)
LEMMA NextTypeOK == IInv /\ [Next]_vars => TypeOK'
<1> SUFFICES ASSUME IInv, [Next]_vars PROVE TypeOK'
  OBVIOUS
<1> USE Ring DEF IInv, TypeOK, PCs, Goto
<1>1. ASSUME NEW p \in Phils, Philosopher(p) PROVE TypeOK'
  <2>1. CASE FoodOnTable(p)  BY <2>1 DEF FoodOnTable
  <2>2. CASE AskWaiter(p)
    BY <2>2 DEF AskWaiter
  <2>3. CASE LockGate(p)  BY <2>3 DEF LockGate
  <2>4. CASE GetFirst(p)
    BY <2>4 DEF GetFirst, First
  <2>5. CASE GetSecond(p)
    BY <2>5 DEF GetSecond, Second
  <2>6. CASE UnlockGate(p)  BY <2>6 DEF UnlockGate
  <2>7. CASE DownLeft(p)  BY <2>7 DEF DownLeft
  <2>8. CASE DownRight(p)  BY <2>8 DEF DownRight
  <2>9. CASE PostWaiter(p)  BY <2>9 DEF PostWaiter
  <2>10. CASE EnterHungry(p)  BY <2>10 DEF EnterHungry
  <2>11. CASE TestSelf(p)  BY <2>11 DEF TestSelf, Test, MayEat
  <2>12. CASE Leave(p)  BY <2>12 DEF Leave
  <2>13. CASE Sleep(p)  BY <2>13 DEF Sleep
  <2>14. CASE EnterThinking(p)  BY <2>14 DEF EnterThinking
  <2>15. CASE TestNext(p)  BY <2>15 DEF TestNext, Test, MayEat
  <2>16. CASE TestBefore(p)  BY <2>16 DEF TestBefore, Test, MayEat
  <2> QED
      BY <1>1, <2>1, <2>2, <2>3, <2>4, <2>5, <2>6, <2>7, <2>8, <2>9, <2>10,
         <2>11, <2>12, <2>13, <2>14, <2>15, <2>16 DEF Philosopher
<1>2. ASSUME NEW p \in Phils, Create(p) PROVE TypeOK'
  BY <1>2 DEF Create
<1>3. CASE Join  BY <1>3 DEF Join
<1>4. CASE UNCHANGED vars  BY <1>4 DEF vars
<1> QED  BY <1>1, <1>2, <1>3, <1>4 DEF Next, Main

(* Every step belongs to the solution that is running.                     *)
LEMMA NextStepsOfSolution == IInv /\ [Next]_vars => StepsOfSolution'
<1> SUFFICES ASSUME IInv, [Next]_vars PROVE StepsOfSolution'
  OBVIOUS
<1> USE DEF IInv, TypeOK, StepsOfSolution, Goto
<1>1. ASSUME NEW p \in Phils, Philosopher(p) PROVE StepsOfSolution'
  <2>1. CASE FoodOnTable(p)  BY <2>1 DEF FoodOnTable
  <2>2. CASE AskWaiter(p)  BY <2>2 DEF AskWaiter
  <2>3. CASE LockGate(p)  BY <2>3 DEF LockGate
  <2>4. CASE GetFirst(p)  BY <2>4 DEF GetFirst
  <2>5. CASE GetSecond(p)  BY <2>5 DEF GetSecond
  <2>6. CASE UnlockGate(p)  BY <2>6 DEF UnlockGate
  <2>7. CASE DownLeft(p)  BY <2>7 DEF DownLeft
  <2>8. CASE DownRight(p)  BY <2>8 DEF DownRight
  <2>9. CASE PostWaiter(p)  BY <2>9 DEF PostWaiter
  <2>10. CASE EnterHungry(p)  BY <2>10 DEF EnterHungry
  <2>11. CASE TestSelf(p)  BY <2>11 DEF TestSelf, Test, MayEat
  <2>12. CASE Leave(p)  BY <2>12 DEF Leave
  <2>13. CASE Sleep(p)  BY <2>13 DEF Sleep
  <2>14. CASE EnterThinking(p)  BY <2>14 DEF EnterThinking
  <2>15. CASE TestNext(p)  BY <2>15 DEF TestNext, Test, MayEat
  <2>16. CASE TestBefore(p)  BY <2>16 DEF TestBefore, Test, MayEat
  <2> QED
      BY <1>1, <2>1, <2>2, <2>3, <2>4, <2>5, <2>6, <2>7, <2>8, <2>9, <2>10,
         <2>11, <2>12, <2>13, <2>14, <2>15, <2>16 DEF Philosopher
<1>2. ASSUME NEW p \in Phils, Create(p) PROVE StepsOfSolution'
  BY <1>2 DEF Create
<1>3. CASE Join  BY <1>3 DEF Join
<1>4. CASE UNCHANGED vars  BY <1>4 DEF vars
<1> QED  BY <1>1, <1>2, <1>3, <1>4 DEF Next, Main

(* A fork stays with its holder until the holder puts it down.             *)
LEMMA NextForksHeld == IInv /\ [Next]_vars => ForksHeld'
<1> SUFFICES ASSUME IInv, [Next]_vars PROVE ForksHeld'
  OBVIOUS
<1> USE Ring, SomebodyIsNotNobody
    DEF IInv, TypeOK, StepsOfSolution, ForksHeld, HasLeft, HasRight, Goto
<1>1. ASSUME NEW p \in Phils, Philosopher(p) PROVE ForksHeld'
  <2>1. CASE FoodOnTable(p)  BY <2>1 DEF FoodOnTable
  <2>2. CASE AskWaiter(p)  BY <2>2 DEF AskWaiter
  <2>3. CASE LockGate(p)  BY <2>3 DEF LockGate
  <2>4. CASE GetFirst(p)
    BY <2>4 DEF GetFirst, First
  <2>5. CASE GetSecond(p)
    <3>1. CASE solution = "waiter"
      <4>1. /\ forks[Right(p)] = Nobody
            /\ forks' = [forks EXCEPT ![Right(p)] = p]
            /\ pc' = [pc EXCEPT ![p] = "eat"] /\ solution' = solution
        BY <2>5, <3>1 DEF GetSecond, Second
      <4> QED  BY <4>1, <2>5, <3>1 DEF GetSecond, Right
    <3>2. CASE solution = "gate"
      <4>1. /\ forks[Left(p)] = Nobody
            /\ forks' = [forks EXCEPT ![Left(p)] = p]
            /\ pc' = [pc EXCEPT ![p] = "ungate"] /\ solution' = solution
        BY <2>5, <3>2 DEF GetSecond, Second
      <4> QED  BY <4>1, <2>5, <3>2 DEF GetSecond, Right
    <3>3. solution \in {"waiter", "gate"}
      BY <2>5 DEF GetSecond, Solutions
    <3> QED  BY <3>1, <3>2, <3>3
  <2>6. CASE UnlockGate(p)  BY <2>6 DEF UnlockGate
  <2>7. CASE DownLeft(p)
    BY <2>7 DEF DownLeft, Right
  <2>8. CASE DownRight(p)  BY <2>8 DEF DownRight
  <2>9. CASE PostWaiter(p)  BY <2>9 DEF PostWaiter
  <2>10. CASE EnterHungry(p)  BY <2>10 DEF EnterHungry
  <2>11. CASE TestSelf(p)  BY <2>11 DEF TestSelf, Test, MayEat
  <2>12. CASE Leave(p)  BY <2>12 DEF Leave
  <2>13. CASE Sleep(p)  BY <2>13 DEF Sleep
  <2>14. CASE EnterThinking(p)  BY <2>14 DEF EnterThinking
  <2>15. CASE TestNext(p)  BY <2>15 DEF TestNext, Test, MayEat
  <2>16. CASE TestBefore(p)  BY <2>16 DEF TestBefore, Test, MayEat
  <2> QED
      BY <1>1, <2>1, <2>2, <2>3, <2>4, <2>5, <2>6, <2>7, <2>8, <2>9, <2>10,
         <2>11, <2>12, <2>13, <2>14, <2>15, <2>16 DEF Philosopher
<1>2. ASSUME NEW p \in Phils, Create(p) PROVE ForksHeld'
  BY <1>2 DEF Create
<1>3. CASE Join  BY <1>3 DEF Join
<1>4. CASE UNCHANGED vars  BY <1>4 DEF vars
<1> QED  BY <1>1, <1>2, <1>3, <1>4 DEF Next, Main

(* The gate, or the monitor, has one philosopher inside.                   *)
LEMMA NextGateHeld == IInv /\ [Next]_vars => GateHeld'
<1> SUFFICES ASSUME IInv, [Next]_vars PROVE GateHeld'
  OBVIOUS
<1> USE SomebodyIsNotNobody
    DEF IInv, TypeOK, StepsOfSolution, GateHeld, Inside, Goto
<1>1. ASSUME NEW p \in Phils, Philosopher(p) PROVE GateHeld'
  <2>1. CASE FoodOnTable(p)  BY <2>1 DEF FoodOnTable
  <2>2. CASE AskWaiter(p)  BY <2>2 DEF AskWaiter
  <2>3. CASE LockGate(p)  BY <2>3 DEF LockGate
  <2>4. CASE GetFirst(p)  BY <2>4 DEF GetFirst
  <2>5. CASE GetSecond(p)  BY <2>5 DEF GetSecond
  <2>6. CASE UnlockGate(p)  BY <2>6 DEF UnlockGate
  <2>7. CASE DownLeft(p)  BY <2>7 DEF DownLeft
  <2>8. CASE DownRight(p)  BY <2>8 DEF DownRight
  <2>9. CASE PostWaiter(p)  BY <2>9 DEF PostWaiter
  <2>10. CASE EnterHungry(p)  BY <2>10 DEF EnterHungry
  <2>11. CASE TestSelf(p)  BY <2>11 DEF TestSelf, Test, MayEat
  <2>12. CASE Leave(p)  BY <2>12 DEF Leave
  <2>13. CASE Sleep(p)  BY <2>13 DEF Sleep
  <2>14. CASE EnterThinking(p)  BY <2>14 DEF EnterThinking
  <2>15. CASE TestNext(p)  BY <2>15 DEF TestNext, Test, MayEat
  <2>16. CASE TestBefore(p)  BY <2>16 DEF TestBefore, Test, MayEat
  <2> QED
      BY <1>1, <2>1, <2>2, <2>3, <2>4, <2>5, <2>6, <2>7, <2>8, <2>9, <2>10,
         <2>11, <2>12, <2>13, <2>14, <2>15, <2>16 DEF Philosopher
<1>2. ASSUME NEW p \in Phils, Create(p) PROVE GateHeld'
  BY <1>2 DEF Create
<1>3. CASE Join  BY <1>3 DEF Join
<1>4. CASE UNCHANGED vars  BY <1>4 DEF vars
<1> QED  BY <1>1, <1>2, <1>3, <1>4 DEF Next, Main

(* The waiter's semaphore counts the free seats.                           *)
LEMMA NextSeatsCounted == IInv /\ [Next]_vars => SeatsCounted'
<1> SUFFICES ASSUME IInv, [Next]_vars, solution = "waiter"
             PROVE  waiter' + Cardinality(AtTable') = PHILO - 1
  BY DEF SeatsCounted, Next, Main, Philosopher, FoodOnTable, AskWaiter, LockGate,
         GetFirst, GetSecond, UnlockGate, DownLeft, DownRight, PostWaiter,
         EnterHungry, TestSelf, Leave, Sleep, EnterThinking, TestNext,
         TestBefore, Create, Join, vars
<1>0. /\ waiter \in Nat /\ waiter + Cardinality(AtTable) = PHILO - 1
      /\ IsFiniteSet(AtTable) /\ Cardinality(AtTable) \in Nat
      /\ pc \in [Phils -> PCs]
  BY TableSize DEF IInv, TypeOK, SeatsCounted, AtTable
<1>s. ASSUME waiter' = waiter, AtTable' = AtTable
      PROVE  waiter' + Cardinality(AtTable') = PHILO - 1
  BY <1>s, <1>0
<1> USE DEF IInv, TypeOK, StepsOfSolution, Goto
<1>1. ASSUME NEW p \in Phils, Philosopher(p)
      PROVE  waiter' + Cardinality(AtTable') = PHILO - 1
  <2>1. CASE AskWaiter(p)
    <3>1. AtTable' = AtTable \cup {p} /\ p \notin AtTable
      BY <2>1, <1>0 DEF AskWaiter, AtTable
    <3>2. Cardinality(AtTable') = Cardinality(AtTable) + 1
      BY <3>1, <1>0, FS_AddElement, Zenon
    <3>3. waiter' = waiter - 1  BY <2>1 DEF AskWaiter
    <3> QED  BY <3>2, <3>3, <1>0, TableAssumption
  <2>2. CASE PostWaiter(p)
    <3>1. AtTable' = AtTable \ {p} /\ p \in AtTable
      BY <2>2, <1>0 DEF PostWaiter, AtTable
    <3>2. Cardinality(AtTable') = Cardinality(AtTable) - 1
      BY <3>1, <1>0, FS_RemoveElement, Zenon
    <3>3. waiter' = waiter + 1  BY <2>2 DEF PostWaiter
    <3> QED  BY <3>2, <3>3, <1>0, TableAssumption
  <2>3. CASE FoodOnTable(p)
    <3>1. waiter' = waiter /\ pc[p] = "food"
          /\ (pc' = [pc EXCEPT ![p] = "done"] \/ pc' = [pc EXCEPT ![p] = "wait"])
      BY <2>3 DEF FoodOnTable
    <3>2. AtTable' = AtTable  BY <3>1, <1>0 DEF AtTable
    <3> QED  BY <3>1, <3>2, <1>s
  <2>4. CASE GetFirst(p) \/ GetSecond(p) \/ DownLeft(p) \/ DownRight(p)
    <3>1. waiter' = waiter
      BY <2>4 DEF GetFirst, GetSecond, DownLeft, DownRight
    <3>2. AtTable' = AtTable
      BY <2>4, <1>0 DEF AtTable, GetFirst, GetSecond, DownLeft, DownRight
    <3> QED  BY <3>1, <3>2, <1>s
  <2>5. ~(LockGate(p) \/ UnlockGate(p) \/ EnterHungry(p) \/ TestSelf(p)
          \/ Leave(p) \/ Sleep(p) \/ EnterThinking(p) \/ TestNext(p)
          \/ TestBefore(p))
    BY DEF LockGate, UnlockGate, EnterHungry, TestSelf, Leave, Sleep,
           EnterThinking, TestNext, TestBefore
  <2> QED  BY <1>1, <2>1, <2>2, <2>3, <2>4, <2>5 DEF Philosopher
<1>2. ASSUME NEW p \in Phils, Create(p)
      PROVE  waiter' + Cardinality(AtTable') = PHILO - 1
  <2>1. waiter' = waiter /\ AtTable' = AtTable
    BY <1>2, <1>0 DEF Create, AtTable
  <2> QED  BY <2>1, <1>s
<1>3. CASE Join \/ UNCHANGED vars
  <2>1. waiter' = waiter /\ AtTable' = AtTable
    BY <1>3 DEF Join, vars, AtTable
  <2> QED  BY <2>1, <1>s
<1> QED  BY <1>1, <1>2, <1>3 DEF Next, Main

(* A dish is given once.                                                   *)
LEMMA NextDishesDistinct == IInv /\ [Next]_vars => DishesDistinct'
<1> SUFFICES ASSUME IInv, [Next]_vars PROVE DishesDistinct'
  OBVIOUS
<1> USE DEF IInv, TypeOK, DishesDistinct, Served, Goto
<1>1. ASSUME NEW p \in Phils, Philosopher(p) PROVE DishesDistinct'
  <2>1. CASE FoodOnTable(p)
    <3>1. CASE food > 1
      <4>1. food' = food - 1 /\ food' # 0  BY <2>1, <3>1 DEF FoodOnTable
      <4>a. pc' = [pc EXCEPT ![p] = IF food' = 0 THEN "done" ELSE "wait"]
        BY <2>1 DEF FoodOnTable
      <4>2. pc' = [pc EXCEPT ![p] = "wait"]  BY <4>1, <4>a
      <4>3. dish' = [dish EXCEPT ![p] = food']  BY <2>1 DEF FoodOnTable
      <4> QED  BY <4>1, <4>2, <4>3, <3>1
    <3>2. CASE food <= 1
      <4>1. food' = 0  BY <2>1, <3>2 DEF FoodOnTable
      <4>a. pc' = [pc EXCEPT ![p] = IF food' = 0 THEN "done" ELSE "wait"]
        BY <2>1 DEF FoodOnTable
      <4>2. pc' = [pc EXCEPT ![p] = "done"]  BY <4>1, <4>a
      <4>3. dish' = [dish EXCEPT ![p] = food']  BY <2>1 DEF FoodOnTable
      <4> QED  BY <4>1, <4>2, <4>3, <3>2
    <3> QED  BY <3>1, <3>2
  <2>2. CASE AskWaiter(p)  BY <2>2 DEF AskWaiter
  <2>3. CASE LockGate(p)  BY <2>3 DEF LockGate
  <2>4. CASE GetFirst(p)  BY <2>4 DEF GetFirst
  <2>5. CASE GetSecond(p)  BY <2>5 DEF GetSecond
  <2>6. CASE UnlockGate(p)  BY <2>6 DEF UnlockGate
  <2>7. CASE DownLeft(p)  BY <2>7 DEF DownLeft
  <2>8. CASE DownRight(p)  BY <2>8 DEF DownRight
  <2>9. CASE PostWaiter(p)  BY <2>9 DEF PostWaiter
  <2>10. CASE EnterHungry(p)  BY <2>10 DEF EnterHungry
  <2>11. CASE TestSelf(p)  BY <2>11 DEF TestSelf, Test, MayEat
  <2>12. CASE Leave(p)  BY <2>12 DEF Leave
  <2>13. CASE Sleep(p)  BY <2>13 DEF Sleep
  <2>14. CASE EnterThinking(p)  BY <2>14 DEF EnterThinking
  <2>15. CASE TestNext(p)  BY <2>15 DEF TestNext, Test, MayEat
  <2>16. CASE TestBefore(p)  BY <2>16 DEF TestBefore, Test, MayEat
  <2> QED
      BY <1>1, <2>1, <2>2, <2>3, <2>4, <2>5, <2>6, <2>7, <2>8, <2>9, <2>10,
         <2>11, <2>12, <2>13, <2>14, <2>15, <2>16 DEF Philosopher
<1>2. ASSUME NEW p \in Phils, Create(p) PROVE DishesDistinct'
  BY <1>2 DEF Create
<1>3. CASE Join  BY <1>3 DEF Join
<1>4. CASE UNCHANGED vars  BY <1>4 DEF vars
<1> QED  BY <1>1, <1>2, <1>3, <1>4 DEF Next, Main

(* The arrays of the monitor follow the steps of the philosophers.         *)
LEMMA NextMonitorState == IInv /\ [Next]_vars => MonitorState'
<1> SUFFICES ASSUME IInv, [Next]_vars PROVE MonitorState'
  OBVIOUS
<1> USE Ring
    DEF IInv, TypeOK, StepsOfSolution, GateHeld, Inside, MonitorState, Goto
<1>1. ASSUME NEW p \in Phils, Philosopher(p) PROVE MonitorState'
  <2>1. CASE FoodOnTable(p)  BY <2>1 DEF FoodOnTable
  <2>2. CASE AskWaiter(p)  BY <2>2 DEF AskWaiter
  <2>3. CASE LockGate(p)  BY <2>3 DEF LockGate
  <2>4. CASE GetFirst(p)  BY <2>4 DEF GetFirst
  <2>5. CASE GetSecond(p)  BY <2>5 DEF GetSecond
  <2>6. CASE UnlockGate(p)  BY <2>6 DEF UnlockGate
  <2>7. CASE DownLeft(p)  BY <2>7 DEF DownLeft
  <2>8. CASE DownRight(p)  BY <2>8 DEF DownRight
  <2>9. CASE PostWaiter(p)  BY <2>9 DEF PostWaiter
  <2>10. CASE EnterHungry(p)  BY <2>10 DEF EnterHungry
  <2>11. CASE TestSelf(p)  BY <2>11 DEF TestSelf, Test, MayEat
  <2>12. CASE Leave(p)  BY <2>12 DEF Leave
  <2>13. CASE Sleep(p)  BY <2>13 DEF Sleep
  <2>14. CASE EnterThinking(p)  BY <2>14 DEF EnterThinking
  <2>15. CASE TestNext(p)  BY <2>15 DEF TestNext, Test, MayEat
  <2>16. CASE TestBefore(p)  BY <2>16 DEF TestBefore, Test, MayEat
  <2> QED
      BY <1>1, <2>1, <2>2, <2>3, <2>4, <2>5, <2>6, <2>7, <2>8, <2>9, <2>10,
         <2>11, <2>12, <2>13, <2>14, <2>15, <2>16 DEF Philosopher
<1>2. ASSUME NEW p \in Phils, Create(p) PROVE MonitorState'
  BY <1>2 DEF Create
<1>3. CASE Join  BY <1>3 DEF Join
<1>4. CASE UNCHANGED vars  BY <1>4 DEF vars
<1> QED  BY <1>1, <1>2, <1>3, <1>4 DEF Next, Main

(* The monitor lets nobody eat beside a neighbour.                         *)
LEMMA NextMonitorExcludes == IInv /\ [Next]_vars => MonitorExcludes'
<1> SUFFICES ASSUME IInv, [Next]_vars PROVE MonitorExcludes'
  OBVIOUS
<1> USE Ring DEF IInv, TypeOK, MonitorExcludes, Goto
<1>1. ASSUME NEW p \in Phils, Philosopher(p) PROVE MonitorExcludes'
  <2>1. CASE FoodOnTable(p)  BY <2>1 DEF FoodOnTable
  <2>2. CASE AskWaiter(p)  BY <2>2 DEF AskWaiter
  <2>3. CASE LockGate(p)  BY <2>3 DEF LockGate
  <2>4. CASE GetFirst(p)  BY <2>4 DEF GetFirst
  <2>5. CASE GetSecond(p)  BY <2>5 DEF GetSecond
  <2>6. CASE UnlockGate(p)  BY <2>6 DEF UnlockGate
  <2>7. CASE DownLeft(p)  BY <2>7 DEF DownLeft
  <2>8. CASE DownRight(p)  BY <2>8 DEF DownRight
  <2>9. CASE PostWaiter(p)  BY <2>9 DEF PostWaiter
  <2>10. CASE EnterHungry(p)  BY <2>10 DEF EnterHungry
  <2>11. CASE TestSelf(p)  BY <2>11 DEF TestSelf, Test, MayEat
  <2>12. CASE Leave(p)  BY <2>12 DEF Leave
  <2>13. CASE Sleep(p)  BY <2>13 DEF Sleep
  <2>14. CASE EnterThinking(p)  BY <2>14 DEF EnterThinking
  <2>15. CASE TestNext(p)  BY <2>15 DEF TestNext, Test, MayEat
  <2>16. CASE TestBefore(p)  BY <2>16 DEF TestBefore, Test, MayEat
  <2> QED
      BY <1>1, <2>1, <2>2, <2>3, <2>4, <2>5, <2>6, <2>7, <2>8, <2>9, <2>10,
         <2>11, <2>12, <2>13, <2>14, <2>15, <2>16 DEF Philosopher
<1>2. ASSUME NEW p \in Phils, Create(p) PROVE MonitorExcludes'
  BY <1>2 DEF Create
<1>3. CASE Join  BY <1>3 DEF Join
<1>4. CASE UNCHANGED vars  BY <1>4 DEF vars
<1> QED  BY <1>1, <1>2, <1>3, <1>4 DEF Next, Main

(* Who is hungry keeps a reason to wait.                                   *)
LEMMA NextHungryHasReason == IInv /\ [Next]_vars => HungryHasReason'
<1> SUFFICES ASSUME IInv, [Next]_vars PROVE HungryHasReason'
  OBVIOUS
<1> USE Ring DEF IInv, TypeOK, MonitorState, HungryHasReason, TestComing, Goto
<1>1. ASSUME NEW p \in Phils, Philosopher(p) PROVE HungryHasReason'
  <2>1. CASE FoodOnTable(p)  BY <2>1 DEF FoodOnTable
  <2>2. CASE AskWaiter(p)  BY <2>2 DEF AskWaiter
  <2>3. CASE LockGate(p)  BY <2>3 DEF LockGate
  <2>4. CASE GetFirst(p)  BY <2>4 DEF GetFirst
  <2>5. CASE GetSecond(p)  BY <2>5 DEF GetSecond
  <2>6. CASE UnlockGate(p)  BY <2>6 DEF UnlockGate
  <2>7. CASE DownLeft(p)  BY <2>7 DEF DownLeft
  <2>8. CASE DownRight(p)  BY <2>8 DEF DownRight
  <2>9. CASE PostWaiter(p)  BY <2>9 DEF PostWaiter
  <2>10. CASE EnterHungry(p)  BY <2>10 DEF EnterHungry
  <2>11. CASE TestSelf(p)  BY <2>11 DEF TestSelf, Test, MayEat
  <2>12. CASE Leave(p)  BY <2>12 DEF Leave
  <2>13. CASE Sleep(p)  BY <2>13 DEF Sleep
  <2>14. CASE EnterThinking(p)  BY <2>14 DEF EnterThinking
  <2>15. CASE TestNext(p)  BY <2>15 DEF TestNext, Test, MayEat
  <2>16. CASE TestBefore(p)  BY <2>16 DEF TestBefore, Test, MayEat
  <2> QED
      BY <1>1, <2>1, <2>2, <2>3, <2>4, <2>5, <2>6, <2>7, <2>8, <2>9, <2>10,
         <2>11, <2>12, <2>13, <2>14, <2>15, <2>16 DEF Philosopher
<1>2. ASSUME NEW p \in Phils, Create(p) PROVE HungryHasReason'
  BY <1>2 DEF Create
<1>3. CASE Join  BY <1>3 DEF Join
<1>4. CASE UNCHANGED vars  BY <1>4 DEF vars
<1> QED  BY <1>1, <1>2, <1>3, <1>4 DEF Next, Main

-----------------------------------------------------------------------------
(* The inductive invariant of the dinner.                                  *)
THEOREM Inductive == Spec => []IInv
<1>1. Init => IInv  BY InitIInv
<1>2. IInv /\ [Next]_vars => IInv'
  BY NextTypeOK, NextStepsOfSolution, NextForksHeld, NextGateHeld,
     NextSeatsCounted, NextDishesDistinct, NextMonitorState,
     NextMonitorExcludes, NextHungryHasReason DEF IInv
<1> QED  BY <1>1, <1>2, PTL DEF Spec

(* sem_wait and sem_post of the waiter keep one of the PHILO seats empty,  *)
(* so never all philosophers hold a left fork (arkhipov/10/main.c).        *)
THEOREM SeatStaysEmpty ==
  Spec => [](SeatsCounted /\ (solution = "waiter" => AtTable # Phils))
<1>1. IInv => SeatsCounted /\ (solution = "waiter" => AtTable # Phils)
  <2> SUFFICES ASSUME IInv, solution = "waiter" PROVE AtTable # Phils
    BY DEF IInv
  <2>1. waiter \in Nat /\ waiter + Cardinality(AtTable) = PHILO - 1
    BY DEF IInv, TypeOK, SeatsCounted
  <2>2. Cardinality(Phils) = PHILO /\ Cardinality(AtTable) \in Nat
    BY TableSize DEF AtTable
  <2> QED  BY <2>1, <2>2, TableAssumption
<1> QED  BY <1>1, Inductive, PTL

(* food_on_table never gives one dish to two philosophers.                 *)
THEOREM DishesGivenOnce == Spec => []DishesDistinct
<1>1. IInv => DishesDistinct  BY DEF IInv
<1> QED  BY <1>1, Inductive, PTL

(* put_forks of the monitor tests everybody it may have to wake.           *)
THEOREM NoLostWakeUp == Spec => []HungryHasReason
<1>1. IInv => HungryHasReason  BY DEF IInv
<1> QED  BY <1>1, Inductive, PTL

-----------------------------------------------------------------------------
Apart == \A p, q \in Eating : q # Left(p)

(* Two philosophers who eat are not neighbours.                            *)
LEMMA EatingApart == IInv => Apart
<1> SUFFICES ASSUME IInv, NEW p \in Eating, NEW q \in Eating, q = Left(p)
             PROVE  FALSE
  BY DEF Apart
<1>0. p \in Phils /\ q \in Phils /\ p # q  BY Ring DEF Eating
<1>1. CASE solution = "monitor"
  BY <1>0, <1>1 DEF IInv, MonitorExcludes, Eating
<1>2. CASE solution # "monitor"
  <2>1. HasLeft(p) /\ HasRight(q)
    BY <1>2 DEF Eating, HasLeft, HasRight
  <2>2. forks[Left(p)] = p /\ forks[Left(p)] = q
    BY <2>1, <1>0 DEF IInv, ForksHeld, Right
  <2> QED  BY <2>2, <1>0
<1> QED  BY <1>1, <1>2

(* The names of the table's specification.                                 *)
LEMMA TableNames ==
  /\ Table!Phils = Phils
  /\ \A p, q \in Phils : Table!Neighbours(p, q) <=> q = Left(p) \/ p = Left(q)
BY DEF Table!Phils, Phils, Table!Neighbours, Table!Succ, Left

(* A change of the eaters by one philosopher is a step of the table.       *)
LEMMA TableStep ==
  ASSUME IInv, IInv', NEW p \in Phils,
         Eating' = Eating \/ Eating' = Eating \cup {p} \/ Eating' = Eating \ {p}
  PROVE  Table!Next \/ Eating' = Eating
<1>1. CASE Eating' = Eating \cup {p} /\ p \notin Eating
  <2>1. ASSUME NEW q \in Eating PROVE ~Table!Neighbours(p, q)
    <3>1. p \in Eating' /\ q \in Eating'  BY <1>1
    <3>2. q # Left(p) /\ p # Left(q)
      <4>1. Apart'  BY EatingApart, PTL
      <4> QED  BY <4>1, <3>1 DEF Apart
    <3>3. q \in Phils  BY DEF Eating
    <3> QED  BY <3>2, <3>3, TableNames
  <2>2. Table!TakeForks(p)  BY <1>1, <2>1 DEF Table!TakeForks
  <2> QED  BY <2>2, TableNames DEF Table!Next
<1>2. CASE Eating' = Eating \ {p} /\ p \in Eating
  <2>1. Table!PutForks(p)  BY <1>2 DEF Table!PutForks
  <2> QED  BY <2>1, TableNames DEF Table!Next
<1> QED  BY <1>1, <1>2
(* Every step of a philosopher changes the eaters by at most one.          *)
LEMMA EatingChanges ==
  ASSUME IInv, NEW p \in Phils, Philosopher(p) \/ Create(p)
  PROVE  \E q \in Phils : \/ Eating' = Eating
                         \/ Eating' = Eating \cup {q}
                         \/ Eating' = Eating \ {q}
<1> USE Ring DEF IInv, TypeOK, StepsOfSolution, Goto
<1>a. ASSUME solution' = solution, state' = state, NEW l \in PCs,
             pc' = [pc EXCEPT ![p] = l], pc[p] \notin {"ungate", "eat"},
             l \notin {"ungate", "eat"}
      PROVE  Eating' = Eating
  BY <1>a DEF Eating
<1>t. ASSUME NEW q \in Phils, Test(q), solution' = solution, solution = "monitor"
      PROVE  Eating' = Eating \/ Eating' = Eating \cup {q}
  <2>1. CASE MayEat(q)
    <3>1. state' = [state EXCEPT ![q] = "EATING"]  BY <1>t, <2>1 DEF Test
    <3> QED  BY <3>1, <1>t DEF Eating
  <2>2. CASE ~MayEat(q)
    <3>1. state' = state  BY <1>t, <2>2 DEF Test
    <3> QED  BY <3>1, <1>t DEF Eating
  <2> QED  BY <2>1, <2>2
<1>1. CASE AskWaiter(p) \/ LockGate(p) \/ GetFirst(p) \/ PostWaiter(p) \/ Create(p)
  <2>1. \E l \in {"first", "second", "food"} :
          /\ solution' = solution /\ state' = state /\ pc' = [pc EXCEPT ![p] = l]
          /\ pc[p] \notin {"ungate", "eat"}
    BY <1>1 DEF AskWaiter, LockGate, GetFirst, PostWaiter, Create
  <2> QED  BY <2>1, <1>a DEF PCs
<1>2. CASE FoodOnTable(p) \/ DownRight(p)
  <2>1. /\ solution' = solution /\ state' = state /\ pc[p] \notin {"ungate", "eat"}
        /\ \/ pc' = [pc EXCEPT ![p] = "done"] \/ pc' = [pc EXCEPT ![p] = "wait"]
           \/ pc' = [pc EXCEPT ![p] = "post"] \/ pc' = [pc EXCEPT ![p] = "food"]
    BY <1>2 DEF FoodOnTable, DownRight
  <2> QED  BY <2>1, <1>a DEF PCs
<1>3. CASE GetSecond(p)
  <2>1. /\ solution # "monitor" /\ solution' = solution
        /\ \/ pc' = [pc EXCEPT ![p] = "ungate"]
           \/ pc' = [pc EXCEPT ![p] = "eat"]
    BY <1>3 DEF GetSecond
  <2>2. Eating' = Eating \cup {p}  BY <2>1 DEF Eating
  <2> QED  BY <2>2
<1>4. CASE UnlockGate(p)
  <2>1. Eating' = Eating  BY <1>4 DEF UnlockGate, Eating
  <2> QED  BY <2>1
<1>5. CASE DownLeft(p)
  <2>1. Eating' = Eating \ {p}  BY <1>5 DEF DownLeft, Eating
  <2> QED  BY <2>1
<1>6. CASE EnterHungry(p)
  <2>1. Eating' = Eating
    BY <1>6 DEF EnterHungry, Eating, MonitorState
  <2> QED  BY <2>1
<1>7. CASE EnterThinking(p)
  <2>1. Eating' = Eating \ {p}  BY <1>7 DEF EnterThinking, Eating
  <2> QED  BY <2>1
<1>8. CASE Leave(p) \/ Sleep(p)
  <2>1. solution = "monitor" /\ solution' = solution /\ state' = state
    BY <1>8 DEF Leave, Sleep
  <2>2. Eating' = Eating  BY <2>1 DEF Eating
  <2> QED  BY <2>2
<1>9. CASE TestSelf(p)
  <2>1. Test(p) /\ solution' = solution /\ solution = "monitor"
    BY <1>9 DEF TestSelf
  <2> QED  BY <2>1, <1>t
<1>10. CASE TestNext(p)
  <2>1. Test(Left(p)) /\ solution' = solution /\ solution = "monitor"
    BY <1>10 DEF TestNext
  <2> QED  BY <2>1, <1>t
<1>11. CASE TestBefore(p)
  <2>1. Test(Before(p)) /\ solution' = solution /\ solution = "monitor"
    BY <1>11 DEF TestBefore
  <2> QED  BY <2>1, <1>t
<1> QED
  BY <1>1, <1>2, <1>3, <1>4, <1>5, <1>6, <1>7, <1>8, <1>9, <1>10, <1>11
     DEF Philosopher

(* All three solutions implement the table: two neighbours never eat at    *)
(* the same time, however many philosophers there are.                     *)
THEOREM Refinement == Spec => NeighboursExcluded
<1>1. Init => Table!Init
  BY DEF Init, Table!Init, Eating
<1>2. IInv /\ IInv' /\ [Next]_vars => [Table!Next]_Eating
  <2> SUFFICES ASSUME IInv, IInv', [Next]_vars
               PROVE  Table!Next \/ Eating' = Eating
    OBVIOUS
  <2>1. ASSUME NEW p \in Phils, Philosopher(p) \/ Create(p)
        PROVE  Table!Next \/ Eating' = Eating
    BY <2>1, EatingChanges, TableStep
  <2>2. CASE Join \/ UNCHANGED vars
    BY <2>2 DEF Join, vars, Eating
  <2> QED  BY <2>1, <2>2 DEF Next, Main
<1> QED  BY <1>1, <1>2, Inductive, PTL DEF Spec, NeighboursExcluded, Table!Spec
=============================================================================
