-------------------------- MODULE ExercisesProofs --------------------------
(***************************************************************************)
(* Theorems about the smaller programs of Exercises, for any number of     *)
(* threads, lines, terms and steps.  The variables are v1 to v9 here; each *)
(* section says what they are in the module it is about.                   *)
(***************************************************************************)
EXTENDS Exercises, Sequences, FiniteSetTheorems, WellFoundedInduction, TLAPS

-----------------------------------------------------------------------------
(***************************************************************************)
(* OrderedOutput: v1 is prompt, v2 failed, v3 pc, v4 at, v5 owner, v6      *)
(* sems, v7 turn and v9 lines.                                             *)
(***************************************************************************)
LEMMA Rest ==
  ASSUME NEW n \in Nat, n > 0, NEW x \in Nat, x < n
  PROVE  x % n = x /\ (x + n) % n = x /\ n % n = 0
<1>1. x % n = x
  OBVIOUS
<1>2. (x + n) % n = x
  OBVIOUS
<1>3. n % n = 0
  OBVIOUS
<1> QED  BY <1>1, <1>2, <1>3

\* The mutexes of exercise 11 form a ring.
LEMMA RingOrder ==
  ASSUME Ring!OutputConstants, NEW m \in Ring!Mutexes
  PROVE  /\ Ring!Following(m) = (IF m = THREADS THEN 0 ELSE m + 1)
         /\ Ring!Previous(m) = (IF m = 0 THEN THREADS ELSE m - 1)
<1>1. /\ Ring!MUTEX_NUM = THREADS + 1 /\ Ring!MUTEX_NUM \in Nat /\ Ring!MUTEX_NUM > 0
      /\ m \in Nat /\ m < Ring!MUTEX_NUM /\ THREADS \in Nat
  BY DEF Ring!OutputConstants, Ring!MUTEX_NUM, Ring!Mutexes
<1>2. Ring!Following(m) = (IF m = THREADS THEN 0 ELSE m + 1)
  <2>1. CASE m = THREADS
    <3>1. m + 1 = Ring!MUTEX_NUM
      BY <1>1, <2>1
    <3>2. (m + 1) % Ring!MUTEX_NUM = 0
      BY <1>1, <3>1, Rest
    <3> QED  BY <1>1, <2>1, <3>2 DEF Ring!Following
  <2>2. CASE m # THREADS
    <3>1. m + 1 \in Nat /\ m + 1 < Ring!MUTEX_NUM
      BY <1>1, <2>2
    <3> QED  BY <1>1, <2>2, <3>1, Rest DEF Ring!Following
  <2> QED  BY <2>1, <2>2
<1>3. Ring!Previous(m) = (IF m = 0 THEN THREADS ELSE m - 1)
  <2>1. CASE m = 0
    <3>1. m + Ring!MUTEX_NUM - 1 = THREADS /\ THREADS \in Nat /\ THREADS < Ring!MUTEX_NUM
      BY <1>1, <2>1 DEF Ring!OutputConstants
    <3> QED  BY <1>1, <2>1, <3>1, Rest DEF Ring!Previous
  <2>2. CASE m # 0
    <3>1. m - 1 \in Nat /\ m - 1 < Ring!MUTEX_NUM
          /\ m + Ring!MUTEX_NUM - 1 = m - 1 + Ring!MUTEX_NUM
      BY <1>1, <2>2
    <3> QED  BY <1>1, <2>2, <3>1, Rest DEF Ring!Previous
  <2> QED  BY <2>1, <2>2
<1> QED  BY <1>2, <1>3

LEMMA RingFacts ==
  ASSUME Ring!OutputConstants, NEW m \in Ring!Mutexes
  PROVE  /\ Ring!Following(m) \in Ring!Mutexes /\ Ring!Previous(m) \in Ring!Mutexes
         /\ Ring!Previous(Ring!Following(m)) = m /\ Ring!Following(Ring!Previous(m)) = m
         /\ Ring!Previous(m) # m
<1>1. THREADS \in Nat /\ THREADS > 1 /\ Ring!Mutexes = 0 .. THREADS /\ m \in 0 .. THREADS
  BY DEF Ring!OutputConstants, Ring!MUTEX_NUM, Ring!Mutexes
<1>2. Ring!Following(m) \in Ring!Mutexes /\ Ring!Previous(m) \in Ring!Mutexes
  BY <1>1, RingOrder
<1>3. Ring!Previous(Ring!Following(m)) = m
  <2>1. CASE m = THREADS
    <3>1. Ring!Following(m) = 0  BY <2>1, RingOrder
    <3>2. Ring!Previous(0) = THREADS  BY <1>2, <3>1, RingOrder
    <3> QED  BY <2>1, <3>1, <3>2
  <2>2. CASE m # THREADS
    <3>1. Ring!Following(m) = m + 1 /\ m + 1 # 0 /\ m + 1 - 1 = m  BY <1>1, <2>2, RingOrder
    <3>2. m + 1 \in Ring!Mutexes  BY <1>1, <2>2
    <3>3. \A k \in Ring!Mutexes : k # 0 => Ring!Previous(k) = k - 1  BY RingOrder
    <3>4. PICK k \in Ring!Mutexes : k = m + 1  BY <3>2
    <3>5. k # 0 /\ k - 1 = m  BY <1>1, <3>4
    <3> QED  BY <3>1, <3>3, <3>4, <3>5
  <2> QED  BY <2>1, <2>2
<1>4. Ring!Following(Ring!Previous(m)) = m
  <2>1. CASE m = 0
    <3>1. Ring!Previous(m) = THREADS  BY <2>1, RingOrder
    <3>2. Ring!Following(THREADS) = 0  BY <1>2, <3>1, RingOrder
    <3> QED  BY <2>1, <3>1, <3>2
  <2>2. CASE m # 0
    <3>1. Ring!Previous(m) = m - 1 /\ m - 1 # THREADS /\ m - 1 + 1 = m  BY <1>1, <2>2,
                                                                           RingOrder
    <3>2. m - 1 \in Ring!Mutexes  BY <1>1, <2>2
    <3>3. Ring!Following(m - 1) = m - 1 + 1  BY <3>1, <3>2, RingOrder, Zenon
    <3> QED  BY <3>1, <3>3
  <2> QED  BY <2>1, <2>2
<1>5. Ring!Previous(m) # m
  BY <1>1, RingOrder
<1> QED  BY <1>2, <1>3, <1>4, <1>5

\* The thread that SemPost wakes.
LEMMA RingNeighbour ==
  ASSUME Ring!OutputConstants, NEW t \in Ring!Threads
  PROVE  /\ (t + 1) % THREADS \in Ring!Threads
         /\ (t + 1) % THREADS = (IF t = THREADS - 1 THEN 0 ELSE t + 1)
<1>1. THREADS \in Nat /\ THREADS > 1 /\ t \in Nat /\ t < THREADS
  BY DEF Ring!OutputConstants, Ring!Threads
<1>2. CASE t = THREADS - 1
  <2>1. t + 1 = THREADS
    BY <1>1, <1>2
  <2> QED  BY <1>1, <1>2, <2>1, Rest DEF Ring!Threads
<1>3. CASE t # THREADS - 1
  <2>1. t + 1 \in Nat /\ t + 1 < THREADS
    BY <1>1, <1>3
  <2> QED  BY <1>1, <1>3, <2>1, Rest DEF Ring!Threads
<1> QED  BY <1>2, <1>3

LEMMA TeamInThreads ==
  ASSUME Ring!OutputConstants
  PROVE  /\ Ring!Team \subseteq Ring!Threads /\ 0 \in Ring!Team
         /\ Ring!Children \subseteq Ring!Team
         /\ Ring!Threads \subseteq Nat /\ 0 \notin Ring!Children
BY DEF Ring!OutputConstants, Ring!Team, Ring!Threads, Ring!Children

-----------------------------------------------------------------------------
\* Where the threads are, and what they have printed.
Places == Ring!TypeOK /\ \A t \in Ring!Threads : Ring!PositionOK(t)

LEMMA PlacesInit ==
  ASSUME Ring!OutputConstants, Ring!Init
  PROVE  Places
<1>1. \A t \in Ring!Threads : (Ring!MUTEX_NUM - t + 1) % Ring!MUTEX_NUM \in Ring!Mutexes
  <2> SUFFICES ASSUME NEW t \in Ring!Threads
               PROVE  (Ring!MUTEX_NUM - t + 1) % Ring!MUTEX_NUM \in Ring!Mutexes
    OBVIOUS
  <2>1. Ring!MUTEX_NUM \in Nat /\ Ring!MUTEX_NUM > 0 /\ Ring!MUTEX_NUM - t + 1 \in Nat
    BY DEF Ring!OutputConstants, Ring!MUTEX_NUM, Ring!Threads
  <2>2. \A a \in Nat : a % Ring!MUTEX_NUM \in 0 .. Ring!MUTEX_NUM - 1
    BY <2>1
  <2> QED  BY <2>1, <2>2 DEF Ring!Mutexes
<1>2. Ring!TypeOK
  <2>1. v4 \in [Ring!Threads -> Ring!Mutexes]
    BY <1>1 DEF Ring!Init
  <2>2. v5 \in [Ring!Mutexes -> Ring!Threads \cup {Ring!Free}] /\ v6 \in [Ring!Threads -> Nat]
    BY DEF Ring!OutputConstants, Ring!Init, Ring!Threads
  <2>3. v1 \in BOOLEAN
    BY DEF Ring!Init
  <2>4. v9 \in [Ring!Threads -> 0 .. LINES]
    BY DEF Ring!OutputConstants, Ring!Init
  <2> QED  BY <2>1, <2>2, <2>3, <2>4 DEF Ring!Init, Ring!TypeOK, Ring!PCs, Ring!Solutions
<1>3. \A t \in Ring!Threads : Ring!PositionOK(t)
  BY DEF Ring!OutputConstants, Ring!Init, Ring!PositionOK
<1> QED  BY <1>2, <1>3 DEF Places

\* A step is a step of main, or of one thread.
LEMMA StepKinds ==
  ASSUME Ring!Next
  PROVE  \/ Ring!ParentStarts \/ Ring!JoinAndDestroy
         \/ \E t \in Ring!Threads :
              \/ Ring!Create(t) \/ Ring!CreateFails(t) \/ Ring!LockFirst(t) \/ Ring!Awake(t)
              \/ Ring!AcquireMutex(t) \/ Ring!ReleaseMutex(t) \/ Ring!LockMutex(t) \/ Ring!CondWait(t)
              \/ Ring!CondSignal(t) \/ Ring!SemWait(t) \/ Ring!SemPost(t) \/ Ring!PrintLine(t)
              \/ Ring!SpuriousWakeUp(t)
BY DEF Ring!Next, Ring!Main, Ring!PrintFunc

LEMMA TypeStep ==
  ASSUME Ring!OutputConstants, Places, Ring!Next
  PROVE  Ring!TypeOK'
<1> USE DEF Ring!Goto
<1>1. Ring!TypeOK /\ \A t \in Ring!Threads : Ring!PositionOK(t)
  BY DEF Places
<1>2. \A t \in Ring!Threads :
          Ring!Previous(v4[t]) \in Ring!Mutexes /\ (v4[t] + 1) % Ring!MUTEX_NUM \in Ring!Mutexes
  BY <1>1, RingFacts DEF Ring!TypeOK, Ring!Following
<1>3. 0 \in Ring!Threads /\ 0 \in Ring!Mutexes /\ Ring!Children \subseteq Ring!Threads
  BY TeamInThreads DEF Ring!OutputConstants, Ring!Mutexes, Ring!MUTEX_NUM
<1>4. ASSUME NEW t \in Ring!Threads, Ring!Create(t)  PROVE Ring!TypeOK'
  BY <1>1, <1>2, <1>3, <1>4 DEF Ring!Create, Ring!TypeOK, Ring!PCs, Ring!Children,
     Ring!Team, Ring!NextChild, Ring!Pending
<1>5. ASSUME NEW t \in Ring!Threads, Ring!CreateFails(t)  PROVE Ring!TypeOK'
  BY <1>1, <1>2, <1>3, <1>5 DEF Ring!CreateFails, Ring!TypeOK, Ring!PCs, Ring!Children,
     Ring!Team, Ring!NextChild, Ring!Pending
<1>6. CASE Ring!ParentStarts
  BY <1>1, <1>2, <1>3, <1>6 DEF Ring!ParentStarts, Ring!TypeOK, Ring!PCs, Ring!Children,
     Ring!Team
<1>7. CASE Ring!JoinAndDestroy
  BY <1>1, <1>2, <1>3, <1>7 DEF Ring!JoinAndDestroy, Ring!TypeOK, Ring!PCs, Ring!Children,
     Ring!Team
<1>8. ASSUME NEW t \in Ring!Threads, Ring!LockFirst(t)  PROVE Ring!TypeOK'
  BY <1>1, <1>2, <1>3, <1>8 DEF Ring!LockFirst, Ring!TypeOK, Ring!PCs, Ring!Children,
     Ring!Team
<1>9. ASSUME NEW t \in Ring!Threads, Ring!Awake(t)  PROVE Ring!TypeOK'
  BY <1>1, <1>2, <1>3, <1>9 DEF Ring!Awake, Ring!TypeOK, Ring!PCs, Ring!Children, Ring!Team
<1>10. ASSUME NEW t \in Ring!Threads, Ring!AcquireMutex(t)  PROVE Ring!TypeOK'
  BY <1>1, <1>2, <1>3, <1>10 DEF Ring!AcquireMutex, Ring!TypeOK, Ring!PCs, Ring!Children,
     Ring!Team
<1>11. ASSUME NEW t \in Ring!Threads, Ring!ReleaseMutex(t)  PROVE Ring!TypeOK'
  BY <1>1, <1>2, <1>3, <1>11 DEF Ring!ReleaseMutex, Ring!TypeOK, Ring!PCs, Ring!Children,
     Ring!Team, Ring!PositionOK, Ring!OutputConstants
<1>12. ASSUME NEW t \in Ring!Threads, Ring!LockMutex(t)  PROVE Ring!TypeOK'
  BY <1>1, <1>2, <1>3, <1>12 DEF Ring!LockMutex, Ring!TypeOK, Ring!PCs, Ring!Children,
     Ring!Team
<1>13. ASSUME NEW t \in Ring!Threads, Ring!CondWait(t)  PROVE Ring!TypeOK'
  BY <1>1, <1>2, <1>3, <1>13 DEF Ring!CondWait, Ring!TypeOK, Ring!PCs, Ring!Children,
     Ring!Team
<1>14. ASSUME NEW t \in Ring!Threads, Ring!CondSignal(t)  PROVE Ring!TypeOK'
  BY <1>1, <1>2, <1>3, <1>14 DEF Ring!CondSignal, Ring!TypeOK, Ring!PCs, Ring!Children,
     Ring!Team
<1>15. ASSUME NEW t \in Ring!Threads, Ring!SemWait(t)  PROVE Ring!TypeOK'
  BY <1>1, <1>2, <1>3, <1>15 DEF Ring!SemWait, Ring!TypeOK, Ring!PCs, Ring!Children,
     Ring!Team
<1>16. ASSUME NEW t \in Ring!Threads, Ring!SemPost(t)  PROVE Ring!TypeOK'
  BY <1>1, <1>2, <1>3, <1>16, RingNeighbour DEF Ring!SemPost, Ring!TypeOK, Ring!PCs,
     Ring!Children, Ring!Team
<1>17. ASSUME NEW t \in Ring!Threads, Ring!PrintLine(t)  PROVE Ring!TypeOK'
  BY <1>1, <1>2, <1>3, <1>17 DEF Ring!PrintLine, Ring!TypeOK, Ring!PCs, Ring!Children,
     Ring!Team, Ring!PositionOK, Ring!OutputConstants
<1>18. ASSUME NEW t \in Ring!Threads, Ring!SpuriousWakeUp(t)  PROVE Ring!TypeOK'
  BY <1>1, <1>2, <1>3, <1>18 DEF Ring!SpuriousWakeUp, Ring!TypeOK, Ring!PCs,
     Ring!Children, Ring!Team
<1> QED
  BY StepKinds, <1>4, <1>5, <1>6, <1>7, <1>8, <1>9, <1>10, <1>11,
     <1>12, <1>13, <1>14, <1>15, <1>16, <1>17, <1>18

LEMMA PositionStep ==
  ASSUME Ring!OutputConstants, Places, Ring!Next, NEW u \in Ring!Threads
  PROVE  Ring!PositionOK(u)'
<1> USE DEF Ring!Goto, Ring!Team
<1>1. Ring!PositionOK(u) /\ v3 \in [Ring!Threads -> Ring!PCs]
      /\ v9 \in [Ring!Threads -> 0 .. LINES]
      /\ v9[u] \in Nat /\ LINES \in Nat /\ v2 \subseteq Ring!Children
  BY DEF Places, Ring!TypeOK, Ring!OutputConstants
<1>2. 0 \in Ring!Threads /\ 0 \notin Ring!Children /\ Ring!Children \subseteq Ring!Threads
  BY TeamInThreads
<1>3. ASSUME NEW t \in Ring!Threads, Ring!Create(t)  PROVE Ring!PositionOK(u)'
  BY <1>1, <1>2, <1>3 DEF Ring!Create, Ring!PositionOK, Ring!NextChild, Ring!Pending,
     Ring!Children
<1>4. ASSUME NEW t \in Ring!Threads, Ring!CreateFails(t)  PROVE Ring!PositionOK(u)'
  BY <1>1, <1>2, <1>4 DEF Ring!CreateFails, Ring!PositionOK, Ring!NextChild, Ring!Pending,
     Ring!Children
<1>5. CASE Ring!ParentStarts
  BY <1>1, <1>2, <1>5 DEF Ring!ParentStarts, Ring!PositionOK, Ring!Children
<1>6. CASE Ring!JoinAndDestroy
  BY <1>1, <1>2, <1>6 DEF Ring!JoinAndDestroy, Ring!PositionOK, Ring!Children
<1>7. ASSUME NEW t \in Ring!Threads, Ring!LockFirst(t)  PROVE Ring!PositionOK(u)'
  BY <1>1, <1>2, <1>7 DEF Ring!LockFirst, Ring!PositionOK
<1>8. ASSUME NEW t \in Ring!Threads, Ring!Awake(t)  PROVE Ring!PositionOK(u)'
  BY <1>1, <1>2, <1>8 DEF Ring!Awake, Ring!PositionOK
<1>9. ASSUME NEW t \in Ring!Threads, Ring!AcquireMutex(t)  PROVE Ring!PositionOK(u)'
  BY <1>1, <1>2, <1>9 DEF Ring!AcquireMutex, Ring!PositionOK
<1>10. ASSUME NEW t \in Ring!Threads, Ring!ReleaseMutex(t)  PROVE Ring!PositionOK(u)'
  BY <1>1, <1>2, <1>10 DEF Ring!ReleaseMutex, Ring!PositionOK
<1>11. ASSUME NEW t \in Ring!Threads, Ring!LockMutex(t)  PROVE Ring!PositionOK(u)'
  BY <1>1, <1>2, <1>11 DEF Ring!LockMutex, Ring!PositionOK
<1>12. ASSUME NEW t \in Ring!Threads, Ring!CondWait(t)  PROVE Ring!PositionOK(u)'
  BY <1>1, <1>2, <1>12 DEF Ring!CondWait, Ring!PositionOK
<1>13. ASSUME NEW t \in Ring!Threads, Ring!CondSignal(t)  PROVE Ring!PositionOK(u)'
  BY <1>1, <1>2, <1>13 DEF Ring!CondSignal, Ring!PositionOK
<1>14. ASSUME NEW t \in Ring!Threads, Ring!SemWait(t)  PROVE Ring!PositionOK(u)'
  BY <1>1, <1>2, <1>14 DEF Ring!SemWait, Ring!PositionOK
<1>15. ASSUME NEW t \in Ring!Threads, Ring!SemPost(t)  PROVE Ring!PositionOK(u)'
  BY <1>1, <1>2, <1>15 DEF Ring!SemPost, Ring!PositionOK
<1>16. ASSUME NEW t \in Ring!Threads, Ring!PrintLine(t)  PROVE Ring!PositionOK(u)'
  BY <1>1, <1>2, <1>16 DEF Ring!PrintLine, Ring!PositionOK
<1>17. ASSUME NEW t \in Ring!Threads, Ring!SpuriousWakeUp(t)  PROVE Ring!PositionOK(u)'
  BY <1>1, <1>2, <1>17 DEF Ring!SpuriousWakeUp, Ring!PositionOK
<1> QED
  BY StepKinds, <1>3, <1>4, <1>5, <1>6, <1>7, <1>8, <1>9, <1>10,
     <1>11, <1>12, <1>13, <1>14, <1>15, <1>16, <1>17

-----------------------------------------------------------------------------
\* Whoever begins to print, and whoever passes the turn on.
Acquires(t) ==
  \/ Ring!AcquireMutex(t) \/ Ring!SemWait(t)
  \/ Ring!CondWait(t) /\ Ring!MyTurn(t)

Releases(t) == Ring!ReleaseMutex(t) \/ Ring!CondSignal(t) \/ Ring!SemPost(t)

LEMMA Constancy ==
  ASSUME Ring!Next
  PROVE  /\ UNCHANGED <<program, v1>> /\ Ring!Team' = Ring!Team /\ v2 \subseteq v2'
         /\ Ring!Orderly' => Ring!Orderly
<1>1. UNCHANGED <<program, v1>> /\ v2 \subseteq v2'
  BY StepKinds DEF Ring!Create, Ring!CreateFails, Ring!ParentStarts, Ring!JoinAndDestroy,
     Ring!LockFirst, Ring!Awake,
     Ring!AcquireMutex, Ring!ReleaseMutex, Ring!LockMutex, Ring!CondWait, Ring!CondSignal,
     Ring!SemWait, Ring!SemPost,
     Ring!PrintLine, Ring!SpuriousWakeUp
<1> QED  BY <1>1 DEF Ring!Team, Ring!Orderly

LEMMA RoundsType ==
  ASSUME Ring!OutputConstants, Places, NEW t \in Ring!Threads
  PROVE  Ring!Rounds(t) \in Nat /\ Ring!Rounds(t) <= v9[t] /\ v9[t] \in 0 .. LINES
<1>1. v9[t] \in 0 .. LINES /\ LINES \in Nat /\ (v3[t] = "leave" => v9[t] > 0)
  BY DEF Places, Ring!TypeOK, Ring!PositionOK, Ring!OutputConstants
<1> QED  BY <1>1 DEF Ring!Rounds

\* A line printed is a round only when the turn has been passed on.
LEMMA RoundsKept ==
  ASSUME Ring!OutputConstants, Places, Ring!Next, NEW u \in Ring!Threads
  PROVE  \/ \E t \in Ring!Threads : Releases(t)
         \/ Ring!Rounds(u)' = Ring!Rounds(u) /\ (Ring!Busy(u)' => Ring!Busy(u) \/ Acquires(u))
<1> DEFINE Kept == \/ \E t \in Ring!Threads : Releases(t)
                   \/ Ring!Rounds(u)' = Ring!Rounds(u)
                      /\ (Ring!Busy(u)' => Ring!Busy(u) \/ Acquires(u))
<1> USE DEF Ring!Goto
<1>1. /\ v3 \in [Ring!Threads -> Ring!PCs] /\ v9 \in [Ring!Threads -> 0 .. LINES]
      /\ v9[u] \in Nat /\ 0 \in Ring!Threads /\ LINES \in Nat
  BY TeamInThreads DEF Places, Ring!TypeOK, Ring!OutputConstants
<1>2. v3[u] = "exit" \/ v3[u] # "leave" \/ v9[u] > 0
  BY DEF Places, Ring!PositionOK
<1>3. ASSUME NEW t \in Ring!Threads, Ring!Create(t)  PROVE  Kept
  BY <1>1, <1>2, <1>3 DEF Ring!Create, Ring!Rounds, Ring!Busy, Acquires, Ring!NextChild,
     Ring!Pending
<1>4. ASSUME NEW t \in Ring!Threads, Ring!CreateFails(t)  PROVE  Kept
  BY <1>1, <1>2, <1>4 DEF Ring!CreateFails, Ring!Rounds, Ring!Busy, Acquires,
     Ring!NextChild, Ring!Pending
<1>5. CASE Ring!ParentStarts
  BY <1>1, <1>2, <1>5 DEF Ring!ParentStarts, Ring!Rounds, Ring!Busy, Acquires
<1>6. CASE Ring!JoinAndDestroy
  BY <1>1, <1>2, <1>6 DEF Ring!JoinAndDestroy, Ring!Rounds, Ring!Busy, Acquires
<1>7. ASSUME NEW t \in Ring!Threads, Ring!LockFirst(t)  PROVE  Kept
  BY <1>1, <1>2, <1>7 DEF Ring!LockFirst, Ring!Rounds, Ring!Busy, Acquires
<1>8. ASSUME NEW t \in Ring!Threads, Ring!Awake(t)  PROVE  Kept
  BY <1>1, <1>2, <1>8 DEF Ring!Awake, Ring!Rounds, Ring!Busy, Acquires
<1>9. ASSUME NEW t \in Ring!Threads, Ring!AcquireMutex(t)  PROVE  Kept
  BY <1>1, <1>2, <1>9 DEF Ring!AcquireMutex, Ring!Rounds, Ring!Busy, Acquires
<1>10. ASSUME NEW t \in Ring!Threads, Ring!ReleaseMutex(t)  PROVE  Kept
  BY <1>1, <1>2, <1>10 DEF Releases
<1>11. ASSUME NEW t \in Ring!Threads, Ring!LockMutex(t)  PROVE  Kept
  BY <1>1, <1>2, <1>11 DEF Ring!LockMutex, Ring!Rounds, Ring!Busy, Acquires
<1>12. ASSUME NEW t \in Ring!Threads, Ring!CondWait(t)  PROVE  Kept
  BY <1>1, <1>2, <1>12 DEF Ring!CondWait, Ring!Rounds, Ring!Busy, Acquires
<1>13. ASSUME NEW t \in Ring!Threads, Ring!CondSignal(t)  PROVE  Kept
  BY <1>1, <1>2, <1>13 DEF Releases
<1>14. ASSUME NEW t \in Ring!Threads, Ring!SemWait(t)  PROVE  Kept
  BY <1>1, <1>2, <1>14 DEF Ring!SemWait, Ring!Rounds, Ring!Busy, Acquires
<1>15. ASSUME NEW t \in Ring!Threads, Ring!SemPost(t)  PROVE  Kept
  BY <1>1, <1>2, <1>15 DEF Releases
<1>16. ASSUME NEW t \in Ring!Threads, Ring!PrintLine(t)  PROVE  Kept
  BY <1>1, <1>2, <1>16 DEF Ring!PrintLine, Ring!Rounds, Ring!Busy, Acquires
<1>17. ASSUME NEW t \in Ring!Threads, Ring!SpuriousWakeUp(t)  PROVE  Kept
  BY <1>1, <1>2, <1>17 DEF Ring!SpuriousWakeUp, Ring!Rounds, Ring!Busy, Acquires
<1> QED
  BY StepKinds, <1>3, <1>4, <1>5, <1>6, <1>7, <1>8, <1>9, <1>10,
     <1>11, <1>12, <1>13, <1>14, <1>15, <1>16, <1>17

LEMMA RoundPassed ==
  ASSUME Ring!OutputConstants, Places, NEW t \in Ring!Threads, Releases(t),
         NEW u \in Ring!Threads
  PROVE  /\ Ring!Busy(t) /\ ~Ring!Busy(t)' /\ Ring!Rounds(t)' = Ring!Rounds(t) + 1
         /\ u # t => Ring!Rounds(u)' = Ring!Rounds(u) /\ Ring!Busy(u)' = Ring!Busy(u)
<1> USE DEF Ring!Goto
<1>1. /\ v3 \in [Ring!Threads -> Ring!PCs] /\ v9 \in [Ring!Threads -> 0 .. LINES]
      /\ v9[t] \in Nat /\ LINES \in Nat
  BY DEF Places, Ring!TypeOK, Ring!OutputConstants
<1>2. CASE Ring!ReleaseMutex(t)  BY <1>1, <1>2 DEF Ring!ReleaseMutex, Ring!Rounds, Ring!Busy
<1>3. CASE Ring!CondSignal(t)    BY <1>1, <1>3 DEF Ring!CondSignal, Ring!Rounds, Ring!Busy
<1>4. CASE Ring!SemPost(t)       BY <1>1, <1>4 DEF Ring!SemPost, Ring!Rounds, Ring!Busy
<1> QED  BY <1>2, <1>3, <1>4 DEF Releases

LEMMA OneTurn ==
  ASSUME Ring!OutputConstants, Places, NEW t \in Ring!Team, NEW u \in Ring!Team,
         Ring!HasTurn(t), Ring!HasTurn(u)
  PROVE  t = u
<1>1. t \in Nat /\ u \in Nat /\ Ring!Rounds(t) \in Nat /\ Ring!Rounds(u) \in Nat
  BY TeamInThreads, RoundsType
<1> QED  BY <1>1 DEF Ring!HasTurn

\* The turn is handed round: a step keeps the rounds in order if whoever begins
\* to print has the turn.
LEMMA TurnStep ==
  ASSUME Ring!OutputConstants, Places, Ring!TurnOK, Ring!Next,
         \A t \in Ring!Team : Ring!Orderly /\ Acquires(t) => Ring!HasTurn(t)
  PROVE  Ring!TurnOK'
<1> SUFFICES ASSUME Ring!Orderly'
             PROVE  /\ \A u, v \in Ring!Team : u < v =>
                           Ring!Rounds(u)' \in {Ring!Rounds(v)', Ring!Rounds(v)' + 1}
                    /\ \A u \in Ring!Team : Ring!Busy(u)' => Ring!HasTurn(u)'
  BY Constancy DEF Ring!TurnOK
<1>1. Ring!Orderly /\ Ring!Team' = Ring!Team /\ Ring!Team \subseteq Ring!Threads
      /\ Ring!Threads \subseteq Nat
  BY Constancy, TeamInThreads
<1>2. /\ \A u, v \in Ring!Team : u < v =>
             Ring!Rounds(u) \in {Ring!Rounds(v), Ring!Rounds(v) + 1}
      /\ \A u \in Ring!Team : Ring!Busy(u) => Ring!HasTurn(u)
  BY <1>1 DEF Ring!TurnOK
<1>3. \A u \in Ring!Team : Ring!Rounds(u) \in Nat
  BY <1>1, RoundsType
<1>4. CASE \E t \in Ring!Threads : Releases(t)
  <2>1. PICK t \in Ring!Threads : Releases(t)
    BY <1>4
  <2>2. /\ Ring!Busy(t) /\ ~Ring!Busy(t)' /\ Ring!Rounds(t)' = Ring!Rounds(t) + 1
        /\ \A u \in Ring!Threads : u # t =>
               Ring!Rounds(u)' = Ring!Rounds(u) /\ Ring!Busy(u)' = Ring!Busy(u)
    BY <2>1, RoundPassed
  <2>3. t \in Ring!Team
    BY <2>2 DEF Ring!Busy, Places, Ring!PositionOK
  <2>4. /\ \A u \in Ring!Team : u < t => Ring!Rounds(u) = Ring!Rounds(t) + 1
        /\ \A u \in Ring!Team : t < u => Ring!Rounds(u) = Ring!Rounds(t)
    BY <1>2, <2>2, <2>3 DEF Ring!HasTurn
  <2>5. \A u \in Ring!Team : ~Ring!Busy(u)'
    <3> SUFFICES ASSUME NEW u \in Ring!Team, Ring!Busy(u)'  PROVE FALSE
      OBVIOUS
    <3>1. u # t /\ Ring!Busy(u)
      BY <1>1, <2>2
    <3> QED  BY <1>2, <2>2, <2>3, <3>1, OneTurn
  <2>6. \A u, v \in Ring!Team : u < v =>
            Ring!Rounds(u)' \in {Ring!Rounds(v)', Ring!Rounds(v)' + 1}
    <3> SUFFICES ASSUME NEW u \in Ring!Team, NEW v \in Ring!Team, u < v
                 PROVE  Ring!Rounds(u)' \in {Ring!Rounds(v)', Ring!Rounds(v)' + 1}
      OBVIOUS
    <3>1. CASE u = t  BY <1>1, <1>3, <2>2, <2>3, <2>4, <3>1
    <3>2. CASE v = t  BY <1>1, <1>3, <2>2, <2>3, <2>4, <3>2
    <3>3. CASE u # t /\ v # t  BY <1>1, <1>2, <2>2, <3>3
    <3> QED  BY <3>1, <3>2, <3>3
  <2> QED  BY <2>5, <2>6
<1>5. CASE ~\E t \in Ring!Threads : Releases(t)
  <2>1. \A u \in Ring!Team :
            Ring!Rounds(u)' = Ring!Rounds(u) /\ (Ring!Busy(u)' => Ring!HasTurn(u))
    BY <1>1, <1>2, <1>5, RoundsKept
  <2>2. \A u \in Ring!Team : Ring!HasTurn(u) => Ring!HasTurn(u)'
    BY <1>1, <2>1 DEF Ring!HasTurn
  <2> QED  BY <1>2, <2>1, <2>2
<1> QED  BY <1>4, <1>5

-----------------------------------------------------------------------------
\* Exercise 11.
LEMMA HoldsStep ==
  ASSUME Ring!OutputConstants, Places, Ring!HoldsOK, Ring!Next, program = "mutexes",
         NEW u \in Ring!Threads
  PROVE  /\ v3'[u] \in {"usleep", "enter", "print", "leave"} \/ (u = 0 /\ v3'[u] = "new")
              => v5'[Ring!Previous(v4'[u])] = u
         /\ v3'[u] \in {"print", "leave"} => v5'[v4'[u]] = u
<1> DEFINE Holds ==
      /\ v3'[u] \in {"usleep", "enter", "print", "leave"} \/ (u = 0 /\ v3'[u] = "new")
           => v5'[Ring!Previous(v4'[u])] = u
      /\ v3'[u] \in {"print", "leave"} => v5'[v4'[u]] = u
<1> USE DEF Ring!Goto
<1>1. /\ v3 \in [Ring!Threads -> Ring!PCs] /\ v4 \in [Ring!Threads -> Ring!Mutexes]
      /\ v5 \in [Ring!Mutexes -> Ring!Threads \cup {Ring!Free}]
      /\ Ring!Free \notin Ring!Threads
      /\ 0 \in Ring!Threads /\ 0 \notin Ring!Children
  BY TeamInThreads DEF Places, Ring!TypeOK, Ring!OutputConstants, Ring!Free, Ring!Threads
<1>2. \A v \in Ring!Threads :
        /\ v4[v] \in Ring!Mutexes /\ Ring!Previous(v4[v]) \in Ring!Mutexes
        /\ Ring!Previous(v4[v]) # v4[v]
        /\ Ring!Following(v4[v]) \in Ring!Mutexes
        /\ Ring!Previous(Ring!Following(v4[v])) = v4[v]
  BY <1>1, RingFacts
<1>3. \A v \in Ring!Threads :
        /\ v3[v] \in {"usleep", "enter", "print", "leave"} \/ (v = 0 /\ v3[v] = "new")
             => v5[Ring!Previous(v4[v])] = v
        /\ v3[v] \in {"print", "leave"} => v5[v4[v]] = v
        /\ v3[v] \notin {"test", "wait"}
  BY DEF Ring!HoldsOK, Ring!Busy, Places, Ring!PositionOK
<1>4. ASSUME NEW t \in Ring!Threads, Ring!Create(t)  PROVE  Holds
  BY <1>1, <1>2, <1>3, <1>4 DEF Ring!Create, Ring!NextChild, Ring!Pending
<1>5. ASSUME NEW t \in Ring!Threads, Ring!CreateFails(t)  PROVE  Holds
  BY <1>1, <1>2, <1>3, <1>5 DEF Ring!CreateFails, Ring!NextChild, Ring!Pending
<1>6. CASE Ring!ParentStarts
  BY <1>1, <1>2, <1>3, <1>6 DEF Ring!ParentStarts
<1>7. CASE Ring!JoinAndDestroy
  BY <1>1, <1>2, <1>3, <1>7 DEF Ring!JoinAndDestroy
<1>8. ASSUME NEW t \in Ring!Threads, Ring!LockFirst(t)  PROVE  Holds
  BY <1>1, <1>2, <1>3, <1>8 DEF Ring!LockFirst
<1>9. ASSUME NEW t \in Ring!Threads, Ring!Awake(t)  PROVE  Holds
  BY <1>1, <1>2, <1>3, <1>9 DEF Ring!Awake
<1>10. ASSUME NEW t \in Ring!Threads, Ring!AcquireMutex(t)  PROVE  Holds
  BY <1>1, <1>2, <1>3, <1>10 DEF Ring!AcquireMutex
<1>11. ASSUME NEW t \in Ring!Threads, Ring!ReleaseMutex(t)  PROVE  Holds
  BY <1>1, <1>2, <1>3, <1>11 DEF Ring!ReleaseMutex, Ring!Following
<1>12. ASSUME NEW t \in Ring!Threads, Ring!LockMutex(t)  PROVE  Holds
  BY <1>1, <1>2, <1>3, <1>12 DEF Ring!LockMutex
<1>13. ASSUME NEW t \in Ring!Threads, Ring!CondWait(t)  PROVE  Holds
  BY <1>1, <1>2, <1>3, <1>13 DEF Ring!CondWait
<1>14. ASSUME NEW t \in Ring!Threads, Ring!CondSignal(t)  PROVE  Holds
  BY <1>1, <1>2, <1>3, <1>14 DEF Ring!CondSignal
<1>15. ASSUME NEW t \in Ring!Threads, Ring!SemWait(t)  PROVE  Holds
  BY <1>1, <1>2, <1>3, <1>15 DEF Ring!SemWait
<1>16. ASSUME NEW t \in Ring!Threads, Ring!SemPost(t)  PROVE  Holds
  BY <1>1, <1>2, <1>3, <1>16 DEF Ring!SemPost
<1>17. ASSUME NEW t \in Ring!Threads, Ring!PrintLine(t)  PROVE  Holds
  BY <1>1, <1>2, <1>3, <1>17 DEF Ring!PrintLine
<1>18. ASSUME NEW t \in Ring!Threads, Ring!SpuriousWakeUp(t)  PROVE  Holds
  BY <1>1, <1>2, <1>3, <1>18 DEF Ring!SpuriousWakeUp
<1> QED
  BY StepKinds, <1>4, <1>5, <1>6, <1>7, <1>8, <1>9, <1>10, <1>11,
     <1>12, <1>13, <1>14, <1>15, <1>16, <1>17, <1>18

LEMMA PromptStep ==
  ASSUME Ring!OutputConstants, Places, Ring!PromptOK, Ring!Next
  PROVE  Ring!PromptOK'
<1> USE DEF Ring!Goto
<1> SUFFICES ASSUME program = "mutexes", v1
             PROVE  (Ring!Started \/ \A t \in Ring!Threads :
                                      v3[t] \in {"new", "first", "usleep"} /\ v9[t] = 0)'
  BY Constancy DEF Ring!PromptOK
<1> DEFINE Wait == \A t \in Ring!Threads : v3[t] \in {"new", "first", "usleep"} /\ v9[t] = 0
<1>1. /\ v3 \in [Ring!Threads -> Ring!PCs] /\ v9 \in [Ring!Threads -> 0 .. LINES]
      /\ 0 \in Ring!Team /\ Ring!Team \subseteq Ring!Threads /\ Ring!Team' = Ring!Team
      /\ v2 \subseteq Ring!Children
      /\ 0 \notin Ring!Children /\ Ring!Children \subseteq Ring!Team
  BY TeamInThreads, Constancy DEF Places, Ring!TypeOK
<1>2. \A t \in Ring!Threads : Ring!PositionOK(t)
  BY DEF Places
<1>3. Ring!Started \/ Wait
  BY DEF Ring!PromptOK
<1> DEFINE Prompt == (Ring!Started \/ Wait)'
<1>4. ASSUME NEW t \in Ring!Threads, Ring!Create(t)  PROVE  Prompt
  BY <1>1, <1>2, <1>3, <1>4 DEF Ring!Create, Ring!Started, Ring!NextChild, Ring!Pending
<1>5. ASSUME NEW t \in Ring!Threads, Ring!CreateFails(t)  PROVE  Prompt
  BY <1>1, <1>2, <1>3, <1>5 DEF Ring!CreateFails, Ring!Started, Ring!NextChild, Ring!Pending
<1>6. CASE Ring!ParentStarts
  BY <1>1, <1>2, <1>3, <1>6 DEF Ring!ParentStarts, Ring!Started
<1>7. CASE Ring!JoinAndDestroy
  BY <1>1, <1>2, <1>3, <1>7 DEF Ring!JoinAndDestroy, Ring!Started
<1>8. ASSUME NEW t \in Ring!Threads, Ring!LockFirst(t)  PROVE  Prompt
  BY <1>1, <1>2, <1>3, <1>8 DEF Ring!LockFirst, Ring!Started
<1>9. ASSUME NEW t \in Ring!Threads, Ring!Awake(t)  PROVE  Prompt
  BY <1>1, <1>2, <1>3, <1>9 DEF Ring!Awake, Ring!Started
<1>10. ASSUME NEW t \in Ring!Threads, Ring!AcquireMutex(t)  PROVE  Prompt
  BY <1>1, <1>2, <1>3, <1>10 DEF Ring!AcquireMutex, Ring!Started
<1>11. ASSUME NEW t \in Ring!Threads, Ring!ReleaseMutex(t)  PROVE  Prompt
  BY <1>1, <1>2, <1>3, <1>11 DEF Ring!ReleaseMutex, Ring!Started
<1>12. ASSUME NEW t \in Ring!Threads, Ring!LockMutex(t)  PROVE  Prompt
  BY <1>1, <1>2, <1>3, <1>12 DEF Ring!LockMutex, Ring!Started
<1>13. ASSUME NEW t \in Ring!Threads, Ring!CondWait(t)  PROVE  Prompt
  BY <1>1, <1>2, <1>3, <1>13 DEF Ring!CondWait, Ring!Started
<1>14. ASSUME NEW t \in Ring!Threads, Ring!CondSignal(t)  PROVE  Prompt
  BY <1>1, <1>2, <1>3, <1>14 DEF Ring!CondSignal, Ring!Started
<1>15. ASSUME NEW t \in Ring!Threads, Ring!SemWait(t)  PROVE  Prompt
  BY <1>1, <1>2, <1>3, <1>15 DEF Ring!SemWait, Ring!Started
<1>16. ASSUME NEW t \in Ring!Threads, Ring!SemPost(t)  PROVE  Prompt
  BY <1>1, <1>2, <1>3, <1>16 DEF Ring!SemPost, Ring!Started
<1>17. ASSUME NEW t \in Ring!Threads, Ring!PrintLine(t)  PROVE  Prompt
  BY <1>1, <1>2, <1>3, <1>17 DEF Ring!PrintLine, Ring!Started
<1>18. ASSUME NEW t \in Ring!Threads, Ring!SpuriousWakeUp(t)  PROVE  Prompt
  BY <1>1, <1>2, <1>3, <1>18 DEF Ring!SpuriousWakeUp, Ring!Started
<1> QED
  BY StepKinds, <1>4, <1>5, <1>6, <1>7, <1>8, <1>9, <1>10, <1>11,
     <1>12, <1>13, <1>14, <1>15, <1>16, <1>17, <1>18

LEMMA RingStep ==
  ASSUME Ring!OutputConstants, Places, Ring!TurnOK, Ring!RingOK, Ring!Next
  PROVE  Ring!RingOK'
<1> DEFINE Z == THREADS - 1
<1> SUFFICES ASSUME program = "mutexes", v1, v2' = {}
             PROVE  /\ \A u \in Ring!Threads \ {0} :
                         Ring!Previous(v4'[u - 1]) =
                           IF Ring!Rounds(u - 1)' = Ring!Rounds(u)' THEN v4'[u]
                           ELSE Ring!Following(v4'[u])
                    /\ Ring!Previous(v4'[Z]) =
                         IF Ring!Rounds(0)' = Ring!Rounds(Z)' THEN Ring!Following(v4'[0])
                         ELSE v4'[0]
  BY Constancy DEF Ring!RingOK, Ring!Previous, Ring!Following
<1>1. /\ v2 = {} /\ Ring!Orderly /\ Ring!Team = Ring!Threads
      /\ v4 \in [Ring!Threads -> Ring!Mutexes]
      /\ \A u \in Ring!Threads : Ring!Rounds(u) \in Nat
      /\ THREADS \in Nat /\ Ring!Threads = 0 .. Z /\ 0 \in Ring!Threads
      /\ Z \in Ring!Threads /\ Z # 0
  <2>1. v2 = {}
    BY Constancy
  <2>2. Ring!Orderly /\ Ring!Team = Ring!Threads
    BY <2>1 DEF Ring!Orderly, Ring!Team
  <2>3. v4 \in [Ring!Threads -> Ring!Mutexes]
        /\ \A u \in Ring!Threads : Ring!Rounds(u) \in Nat
    BY RoundsType DEF Places, Ring!TypeOK
  <2>4. THREADS \in Nat /\ Ring!Threads = 0 .. Z /\ 0 \in Ring!Threads /\ Z \in Ring!Threads
        /\ Z # 0
    BY DEF Ring!OutputConstants, Ring!Threads
  <2> QED  BY <2>1, <2>2, <2>3, <2>4
<1>2. /\ \A u \in Ring!Threads \ {0} :
           Ring!Previous(v4[u - 1]) = IF Ring!Rounds(u - 1) = Ring!Rounds(u) THEN v4[u]
                                      ELSE Ring!Following(v4[u])
      /\ Ring!Previous(v4[Z]) = IF Ring!Rounds(0) = Ring!Rounds(Z) THEN Ring!Following(v4[0]) ELSE v4[0]
  BY <1>1 DEF Ring!RingOK
<1>3. \A u \in Ring!Threads \ {0} : u - 1 \in Ring!Threads /\ u - 1 < u /\ u - 1 # u
  BY <1>1
<1>4. CASE \E t \in Ring!Threads : Releases(t)
  <2>1. PICK t \in Ring!Threads : Ring!ReleaseMutex(t)
    BY <1>4 DEF Releases, Ring!CondSignal, Ring!SemPost
  <2>2. /\ Ring!Busy(t) /\ Ring!Rounds(t)' = Ring!Rounds(t) + 1
        /\ \A u \in Ring!Threads : u # t => Ring!Rounds(u)' = Ring!Rounds(u)
    BY <2>1, RoundPassed DEF Releases
  <2>3. /\ v4'[t] = Ring!Following(v4[t])
        /\ \A u \in Ring!Threads : u # t => v4'[u] = v4[u]
    BY <1>1, <2>1 DEF Ring!ReleaseMutex, Ring!Following
  <2>4. /\ \A u \in Ring!Threads : u < t => Ring!Rounds(u) = Ring!Rounds(t) + 1
        /\ \A u \in Ring!Threads : t < u => Ring!Rounds(u) = Ring!Rounds(t)
    BY <1>1, <2>2 DEF Ring!TurnOK, Ring!HasTurn
  <2>5. \A u \in Ring!Threads :
            Ring!Previous(Ring!Following(v4[u])) = v4[u] /\ Ring!Following(Ring!Previous(v4[u])) = v4[u]
    BY <1>1, RingFacts
  <2>6. \A u \in Ring!Threads \ {0} :
          Ring!Previous(v4'[u - 1]) =
            IF Ring!Rounds(u - 1)' = Ring!Rounds(u)' THEN v4'[u] ELSE Ring!Following(v4'[u])
    <3> SUFFICES ASSUME NEW u \in Ring!Threads, u # 0
                 PROVE  Ring!Previous(v4'[u - 1]) =
                          IF Ring!Rounds(u - 1)' = Ring!Rounds(u)' THEN v4'[u]
                          ELSE Ring!Following(v4'[u])
      OBVIOUS
    <3> DEFINE v == u - 1
    <3>1. v \in Ring!Threads /\ v < u /\ v # u
      BY <1>3
    <3>2. Ring!Previous(v4[v]) = IF Ring!Rounds(v) = Ring!Rounds(u) THEN v4[u]
                                 ELSE Ring!Following(v4[u])
      BY <1>2
    <3>3. Ring!Rounds(u) \in Nat /\ Ring!Rounds(v) \in Nat
      BY <1>1, <3>1
    <3> HIDE DEF v
    <3>4. Ring!Previous(v4'[v]) = IF Ring!Rounds(v)' = Ring!Rounds(u)' THEN v4'[u]
                                  ELSE Ring!Following(v4'[u])
      <4>1. CASE u = t
        <5>1. Ring!Rounds(v) = Ring!Rounds(u) + 1 /\ Ring!Rounds(v)' = Ring!Rounds(u)'
              /\ Ring!Rounds(v) # Ring!Rounds(u)
          BY <2>2, <2>4, <3>1, <3>3, <4>1
        <5> QED  BY <2>3, <3>1, <3>2, <4>1, <5>1
      <4>2. CASE v = t
        <5>1. Ring!Rounds(v) = Ring!Rounds(u) /\ Ring!Rounds(v)' # Ring!Rounds(u)'
          BY <2>2, <2>4, <3>1, <3>3, <4>2
        <5>2. v4[v] = Ring!Following(v4[u])
          BY <2>5, <3>1, <3>2, <5>1
        <5> QED  BY <2>3, <2>5, <3>1, <4>2, <5>1, <5>2
      <4>3. CASE u # t /\ v # t
        BY <2>2, <2>3, <3>1, <3>2, <4>3
      <4> QED  BY <4>1, <4>2, <4>3
    <3> QED  BY <3>4 DEF v
  <2>7. Ring!Previous(v4'[Z]) = IF Ring!Rounds(0)' = Ring!Rounds(Z)' THEN Ring!Following(v4'[0]) ELSE v4'[0]
    <3> DEFINE z == Z
    <3>1. z \in Ring!Threads /\ z # 0 /\ z > 0 /\ Ring!Rounds(z) \in Nat
          /\ Ring!Rounds(0) \in Nat
      BY <1>1
    <3>2. Ring!Previous(v4[z]) = IF Ring!Rounds(0) = Ring!Rounds(z) THEN Ring!Following(v4[0]) ELSE v4[0]
      BY <1>2
    <3> HIDE DEF z
    <3>3. Ring!Previous(v4'[z]) = IF Ring!Rounds(0)' = Ring!Rounds(z)' THEN Ring!Following(v4'[0]) ELSE v4'[0]
      <4>1. CASE t = 0
        <5>1. Ring!Rounds(0) = Ring!Rounds(z) /\ Ring!Rounds(0)' # Ring!Rounds(z)'
          BY <2>2, <2>4, <3>1, <4>1
        <5> QED  BY <2>3, <3>1, <3>2, <4>1, <5>1
      <4>2. CASE t = z
        <5>1. Ring!Rounds(0) # Ring!Rounds(z) /\ Ring!Rounds(0)' = Ring!Rounds(z)'
          BY <1>1, <2>2, <2>4, <3>1, <4>2
        <5>2. v4[z] = Ring!Following(v4[0])
          BY <2>5, <3>1, <3>2, <5>1
        <5> QED  BY <1>1, <2>3, <2>5, <3>1, <4>2, <5>1, <5>2
      <4>3. CASE t # 0 /\ t # z
        BY <1>1, <2>2, <2>3, <3>1, <3>2, <4>3
      <4> QED  BY <4>1, <4>2, <4>3
    <3> QED  BY <3>3 DEF z
  <2> QED  BY <2>6, <2>7
<1>5. CASE ~\E t \in Ring!Threads : Releases(t)
  <2>1. v4' = v4
    BY <1>5, StepKinds DEF Ring!Create, Ring!CreateFails, Ring!ParentStarts,
       Ring!JoinAndDestroy, Ring!LockFirst, Ring!Awake,
       Ring!AcquireMutex, Ring!LockMutex, Ring!CondWait, Ring!SemWait, Ring!PrintLine,
       Ring!SpuriousWakeUp, Releases
  <2>2. \A u \in Ring!Threads : Ring!Rounds(u)' = Ring!Rounds(u)
    BY <1>5, RoundsKept
  <2> QED  BY <1>1, <1>2, <1>3, <2>1, <2>2
<1> QED  BY <1>4, <1>5

\* A thread that has rounds to go keeps the next one waiting.
LEMMA Blocks ==
  ASSUME Ring!OutputConstants, Ring!IInv, program = "mutexes", Ring!Started, v2 = {},
         NEW p \in Ring!Threads, Ring!Rounds(p) < LINES
  PROVE  v5[Ring!Previous(v4[p])] \in Ring!Threads
<1>1. /\ Ring!PositionOK(p) /\ v3[p] \in Ring!PCs /\ v9[p] \in Nat /\ LINES \in Nat
      /\ Ring!Team = Ring!Threads
  BY DEF Ring!IInv, Ring!TypeOK, Ring!OutputConstants, Ring!Team
<1>2. v3[p] \notin {"new", "first"}
  BY <1>1 DEF Ring!Started
<1>3. v3[p] \notin {"end", "exit", "test", "wait"}
  BY <1>1 DEF Ring!PositionOK, Ring!Rounds
<1>4. v3[p] \in {"usleep", "enter", "print", "leave"}
  BY <1>1, <1>2, <1>3 DEF Ring!PCs
<1> QED  BY <1>4 DEF Ring!IInv, Ring!HoldsOK

LEMMA MutexTurn ==
  ASSUME Ring!OutputConstants, Ring!IInv, Ring!Orderly, NEW t \in Ring!Team,
         Ring!AcquireMutex(t)
  PROVE  Ring!HasTurn(t)
<1>1. /\ program = "mutexes" /\ v1 /\ v2 = {} /\ Ring!Team = Ring!Threads
      /\ v3[t] = "enter" /\ v5[v4[t]] = Ring!Free
  BY DEF Ring!AcquireMutex, Ring!Orderly, Ring!Team
<1>2. Ring!Started
  BY <1>1 DEF Ring!IInv, Ring!PromptOK
<1>3. Places
  BY DEF Ring!IInv, Places
<1>4. Ring!Rounds(t) < LINES
      /\ \A u \in Ring!Threads : Ring!Rounds(u) \in Nat /\ LINES \in Nat
  BY <1>1, <1>3, RoundsType DEF Places, Ring!PositionOK, Ring!Rounds, Ring!OutputConstants
<1>5. \A u, v \in Ring!Threads : u < v =>
          Ring!Rounds(u) \in {Ring!Rounds(v), Ring!Rounds(v) + 1}
  BY <1>1 DEF Ring!IInv, Ring!TurnOK
<1>6. Ring!Free \notin Ring!Threads /\ v4[t] \in Ring!Mutexes
  BY <1>1 DEF Ring!Free, Ring!Threads, Ring!IInv, Ring!TypeOK, Ring!OutputConstants
<1>7. THREADS \in Nat /\ Ring!Threads = 0 .. THREADS - 1 /\ THREADS - 1 \in Ring!Threads
      /\ t \in Ring!Threads
  BY <1>1 DEF Ring!OutputConstants, Ring!Threads
<1>8. CASE t = 0
  <2> DEFINE z == THREADS - 1
  <2>1. z \in Ring!Threads /\ \A u \in Ring!Threads : u <= z
    BY <1>7
  <2>2. Ring!Previous(v4[z]) = IF Ring!Rounds(0) = Ring!Rounds(z) THEN Ring!Following(v4[0])
                               ELSE v4[0]
    BY <1>1 DEF Ring!IInv, Ring!RingOK
  <2> HIDE DEF z
  <2>3. Ring!Rounds(0) = Ring!Rounds(z)
    <3> SUFFICES ASSUME Ring!Rounds(0) # Ring!Rounds(z)  PROVE FALSE
      OBVIOUS
    <3>1. z # 0 /\ 0 < z
      BY <1>7, <1>8, <2>1
    <3>2. Ring!Rounds(0) = Ring!Rounds(z) + 1
      BY <1>5, <1>7, <1>8, <2>1, <3>1
    <3>3. Ring!Rounds(z) < LINES
      BY <1>4, <1>8, <2>1, <3>2
    <3>4. v5[Ring!Previous(v4[z])] \in Ring!Threads
      BY <1>1, <1>2, <2>1, <3>3, Blocks
    <3> QED  BY <1>1, <1>6, <1>8, <2>2, <3>4
  <2>4. ASSUME NEW u \in Ring!Threads, 0 < u  PROVE Ring!Rounds(u) = Ring!Rounds(0)
    <3>1. Ring!Rounds(0) \in {Ring!Rounds(u), Ring!Rounds(u) + 1}
      BY <1>5, <1>7, <1>8, <2>4
    <3>2. u = z \/ Ring!Rounds(u) \in {Ring!Rounds(z), Ring!Rounds(z) + 1}
      BY <1>5, <1>7, <2>1
    <3> QED  BY <1>4, <1>7, <1>8, <2>1, <2>3, <3>1, <3>2
  <2> QED  BY <1>1, <1>7, <1>8, <2>4 DEF Ring!HasTurn
<1>9. CASE t # 0
  <2> DEFINE p == t - 1
  <2>1. p \in Ring!Threads /\ p < t /\ \A u \in Ring!Threads : u < t => u = p \/ u < p
    BY <1>7, <1>9
  <2>2. Ring!Previous(v4[p]) = IF Ring!Rounds(p) = Ring!Rounds(t) THEN v4[t]
                               ELSE Ring!Following(v4[t])
    BY <1>1, <1>9 DEF Ring!IInv, Ring!RingOK
  <2> HIDE DEF p
  <2>3. Ring!Rounds(p) # Ring!Rounds(t)
    <3> SUFFICES ASSUME Ring!Rounds(p) = Ring!Rounds(t)  PROVE FALSE
      OBVIOUS
    <3>1. v5[Ring!Previous(v4[p])] \in Ring!Threads
      BY <1>1, <1>2, <1>4, <2>1, Blocks
    <3> QED  BY <1>1, <1>6, <2>2, <3>1
  <2>4. Ring!Rounds(p) = Ring!Rounds(t) + 1
    BY <1>5, <1>7, <2>1, <2>3
  <2>5. ASSUME NEW u \in Ring!Threads, u < t  PROVE Ring!Rounds(u) = Ring!Rounds(t) + 1
    <3>1. u = p \/ Ring!Rounds(u) \in {Ring!Rounds(p), Ring!Rounds(p) + 1}
      BY <1>5, <2>1, <2>5
    <3>2. Ring!Rounds(u) \in {Ring!Rounds(t), Ring!Rounds(t) + 1}
      BY <1>5, <1>7, <2>5
    <3> QED  BY <1>4, <1>7, <2>4, <3>1, <3>2
  <2>6. ASSUME NEW u \in Ring!Threads, t < u  PROVE Ring!Rounds(u) = Ring!Rounds(t)
    <3>1. Ring!Rounds(t) \in {Ring!Rounds(u), Ring!Rounds(u) + 1}
      BY <1>5, <1>7, <2>6
    <3>2. p < u
      BY <1>7, <2>1, <2>6
    <3>3. Ring!Rounds(p) \in {Ring!Rounds(u), Ring!Rounds(u) + 1}
      BY <1>5, <2>1, <3>2
    <3> QED  BY <1>4, <1>7, <2>4, <3>1, <3>3
  <2> QED  BY <1>1, <2>5, <2>6 DEF Ring!HasTurn
<1> QED  BY <1>8, <1>9

-----------------------------------------------------------------------------
\* Exercise 13.
LEMMA CondTurn ==
  ASSUME Ring!OutputConstants, Ring!IInv, NEW t \in Ring!Team, Ring!CondWait(t),
         Ring!MyTurn(t)
  PROVE  Ring!HasTurn(t)
<1>1. program = "cond" /\ Ring!Team = {0, 1} /\ Places
  BY TeamInThreads DEF Ring!CondWait, Ring!IInv, Ring!PositionOK, Ring!Team, Places
<1>2. Ring!Rounds(0) = IF v7 = "main" THEN Ring!Rounds(1) ELSE Ring!Rounds(1) + 1
  BY <1>1 DEF Ring!IInv, Ring!CondOK
<1> QED  BY <1>1, <1>2 DEF Ring!MyTurn, Ring!HasTurn

LEMMA CondHolds ==
  ASSUME Ring!OutputConstants, Places, Ring!CondOK, Ring!Next, program = "cond",
         NEW u \in Ring!Team
  PROVE  /\ v3'[u] \in {"test", "print", "leave"} => v5'[0] = u
         /\ Ring!Busy(u)' => Ring!MyTurn(u)'
<1> DEFINE Holds == /\ v3'[u] \in {"test", "print", "leave"} => v5'[0] = u
                    /\ Ring!Busy(u)' => Ring!MyTurn(u)'
<1> USE DEF Ring!Goto, Ring!Busy, Ring!MyTurn
<1>1. /\ v3 \in [Ring!Threads -> Ring!PCs]
      /\ v5 \in [Ring!Mutexes -> Ring!Threads \cup {Ring!Free}]
      /\ Ring!Free \notin Ring!Threads /\ 0 \in Ring!Mutexes /\ u \in Ring!Threads
      /\ 0 \in Ring!Threads
  BY TeamInThreads DEF Places, Ring!TypeOK, Ring!OutputConstants, Ring!Free, Ring!Threads,
     Ring!Mutexes, Ring!MUTEX_NUM
<1>2. /\ Ring!Team = {0, 1}
      /\ \A v \in Ring!Team : /\ v3[v] \in {"test", "print", "leave"} => v5[0] = v
                              /\ Ring!Busy(v) => Ring!MyTurn(v)
      /\ \A v \in Ring!Threads : /\ v \notin Ring!Team => v3[v] = "new"
                                 /\ v3[v] \notin {"first", "usleep"}
  BY DEF Ring!CondOK, Ring!Team, Places, Ring!PositionOK
<1>3. ASSUME NEW t \in Ring!Threads, Ring!Create(t)  PROVE  Holds
  BY <1>1, <1>2, <1>3 DEF Ring!Create, Ring!NextChild, Ring!Pending
<1>4. ASSUME NEW t \in Ring!Threads, Ring!CreateFails(t)  PROVE  Holds
  BY <1>1, <1>2, <1>4 DEF Ring!CreateFails, Ring!NextChild, Ring!Pending
<1>5. CASE Ring!ParentStarts
  BY <1>1, <1>2, <1>5 DEF Ring!ParentStarts
<1>6. CASE Ring!JoinAndDestroy
  BY <1>1, <1>2, <1>6 DEF Ring!JoinAndDestroy
<1>7. ASSUME NEW t \in Ring!Threads, Ring!LockFirst(t)  PROVE  Holds
  BY <1>1, <1>2, <1>7 DEF Ring!LockFirst
<1>8. ASSUME NEW t \in Ring!Threads, Ring!Awake(t)  PROVE  Holds
  BY <1>1, <1>2, <1>8 DEF Ring!Awake
<1>9. ASSUME NEW t \in Ring!Threads, Ring!AcquireMutex(t)  PROVE  Holds
  BY <1>1, <1>2, <1>9 DEF Ring!AcquireMutex
<1>10. ASSUME NEW t \in Ring!Threads, Ring!ReleaseMutex(t)  PROVE  Holds
  BY <1>1, <1>2, <1>10 DEF Ring!ReleaseMutex
<1>11. ASSUME NEW t \in Ring!Threads, Ring!LockMutex(t)  PROVE  Holds
  BY <1>1, <1>2, <1>11 DEF Ring!LockMutex
<1>12. ASSUME NEW t \in Ring!Threads, Ring!CondWait(t)  PROVE  Holds
  BY <1>1, <1>2, <1>12 DEF Ring!CondWait
<1>13. ASSUME NEW t \in Ring!Threads, Ring!CondSignal(t)  PROVE  Holds
  BY <1>1, <1>2, <1>13 DEF Ring!CondSignal
<1>14. ASSUME NEW t \in Ring!Threads, Ring!SemWait(t)  PROVE  Holds
  BY <1>1, <1>2, <1>14 DEF Ring!SemWait
<1>15. ASSUME NEW t \in Ring!Threads, Ring!SemPost(t)  PROVE  Holds
  BY <1>1, <1>2, <1>15 DEF Ring!SemPost
<1>16. ASSUME NEW t \in Ring!Threads, Ring!PrintLine(t)  PROVE  Holds
  BY <1>1, <1>2, <1>16 DEF Ring!PrintLine
<1>17. ASSUME NEW t \in Ring!Threads, Ring!SpuriousWakeUp(t)  PROVE  Holds
  BY <1>1, <1>2, <1>17 DEF Ring!SpuriousWakeUp
<1> QED
  BY StepKinds, <1>3, <1>4, <1>5, <1>6, <1>7, <1>8, <1>9, <1>10,
     <1>11, <1>12, <1>13, <1>14, <1>15, <1>16, <1>17

LEMMA CondStep ==
  ASSUME Ring!OutputConstants, Places, Ring!CondOK, Ring!Next
  PROVE  Ring!CondOK'
<1> SUFFICES ASSUME program = "cond"
             PROVE  Ring!Rounds(0)' = IF v7' = "main" THEN Ring!Rounds(1)'
                                      ELSE Ring!Rounds(1)' + 1
  <2>1. program' = program /\ Ring!Team' = Ring!Team
    BY Constancy
  <2> QED  BY <2>1, CondHolds DEF Ring!CondOK
<1>1. /\ Ring!Team = {0, 1} /\ 0 \in Ring!Threads /\ 1 \in Ring!Threads
      /\ Ring!Rounds(0) \in Nat /\ Ring!Rounds(1) \in Nat /\ v7 \in {"main", "child"}
  BY TeamInThreads, RoundsType DEF Ring!Team, Places, Ring!TypeOK
<1>2. Ring!Rounds(0) = IF v7 = "main" THEN Ring!Rounds(1) ELSE Ring!Rounds(1) + 1
  BY DEF Ring!CondOK
<1>3. CASE \E t \in Ring!Threads : Releases(t)
  <2>1. PICK t \in Ring!Threads : Ring!CondSignal(t)
    BY <1>3 DEF Releases, Ring!ReleaseMutex, Ring!SemPost
  <2>2. /\ Ring!Busy(t) /\ Ring!Rounds(t)' = Ring!Rounds(t) + 1
        /\ \A u \in Ring!Threads : u # t => Ring!Rounds(u)' = Ring!Rounds(u)
    BY <2>1, RoundPassed DEF Releases
  <2>3. t \in Ring!Team /\ Ring!MyTurn(t) /\ v7' = IF v7 = "main" THEN "child" ELSE "main"
    BY <2>1, <2>2 DEF Ring!Busy, Places, Ring!PositionOK, Ring!CondOK, Ring!CondSignal
  <2>4. CASE t = 0  BY <1>1, <1>2, <2>2, <2>3, <2>4 DEF Ring!MyTurn
  <2>5. CASE t = 1  BY <1>1, <1>2, <2>2, <2>3, <2>5 DEF Ring!MyTurn
  <2> QED  BY <1>1, <2>3, <2>4, <2>5
<1>4. CASE ~\E t \in Ring!Threads : Releases(t)
  <2>1. v7' = v7
    BY <1>4, StepKinds DEF Ring!Create, Ring!CreateFails, Ring!ParentStarts,
       Ring!JoinAndDestroy, Ring!LockFirst, Ring!Awake,
       Ring!AcquireMutex, Ring!LockMutex, Ring!CondWait, Ring!SemWait, Ring!PrintLine,
       Ring!SpuriousWakeUp, Releases
  <2> QED  BY <1>1, <1>2, <1>4, <2>1, RoundsKept
<1> QED  BY <1>3, <1>4

-----------------------------------------------------------------------------
\* Exercise 14.
LEMMA SemTurn ==
  ASSUME Ring!OutputConstants, Ring!IInv, NEW t \in Ring!Team, Ring!SemWait(t)
  PROVE  Ring!HasTurn(t)
<1>1. t \in Ring!Threads /\ v6[t] > 0 /\ v6[t] \in {0, 1}
  BY TeamInThreads DEF Ring!SemWait, Ring!IInv, Ring!SemsOK
<1> QED  BY <1>1 DEF Ring!SemWait, Ring!IInv, Ring!SemsOK

LEMMA SemsStep ==
  ASSUME Ring!OutputConstants, Places, Ring!TurnOK, Ring!SemsOK, Ring!Next
  PROVE  Ring!SemsOK'
<1> SUFFICES ASSUME program = "semaphores", NEW u \in Ring!Threads
             PROVE  v6'[u] \in {0, 1} /\ (v6'[u] = 1 => Ring!HasTurn(u)' /\ ~Ring!Busy(u)')
  BY Constancy DEF Ring!SemsOK
<1>1. /\ Ring!Team = Ring!Threads /\ Ring!Team' = Ring!Threads /\ Ring!Threads \subseteq Nat
      /\ v6 \in [Ring!Threads -> Nat] /\ \A v \in Ring!Threads : Ring!Rounds(v) \in Nat
      /\ THREADS \in Nat /\ Ring!Threads = 0 .. THREADS - 1
  BY TeamInThreads, Constancy, RoundsType
     DEF Ring!Team, Places, Ring!TypeOK, Ring!OutputConstants, Ring!Threads
<1>2. /\ \A v \in Ring!Threads : /\ v6[v] \in {0, 1}
                                 /\ v6[v] = 1 => Ring!HasTurn(v) /\ ~Ring!Busy(v)
      /\ \A v \in Ring!Threads : Ring!Busy(v) => Ring!HasTurn(v)
  BY <1>1 DEF Ring!SemsOK, Ring!TurnOK, Ring!Orderly
<1>3. CASE \E t \in Ring!Threads : Releases(t)
  <2>1. PICK t \in Ring!Threads : Ring!SemPost(t)
    BY <1>3 DEF Releases, Ring!ReleaseMutex, Ring!CondSignal
  <2>2. /\ Ring!Busy(t) /\ ~Ring!Busy(t)' /\ Ring!Rounds(t)' = Ring!Rounds(t) + 1
        /\ \A v \in Ring!Threads : v # t =>
               Ring!Rounds(v)' = Ring!Rounds(v) /\ Ring!Busy(v)' = Ring!Busy(v)
    BY <2>1, RoundPassed DEF Releases
  <2>3. Ring!HasTurn(t) /\ \A v \in Ring!Threads : Ring!HasTurn(v) => v = t
    BY <1>1, <1>2, <2>2, OneTurn
  <2>4. /\ \A v \in Ring!Threads : v6[v] = 0
        /\ \A v \in Ring!Threads : ~Ring!Busy(v)'
    BY <1>2, <2>2, <2>3
  <2> DEFINE next == (t + 1) % THREADS
  <2>5. next \in Ring!Threads /\ next = IF t = THREADS - 1 THEN 0 ELSE t + 1
    BY RingNeighbour
  <2>6. v6' = [v6 EXCEPT ![next] = @ + 1]
    BY <2>1 DEF Ring!SemPost
  <2> HIDE DEF next
  <2>7. v6'[u] = IF u = next THEN 1 ELSE 0
    BY <1>1, <2>4, <2>5, <2>6
  <2>8. /\ \A v \in Ring!Threads : v < t => Ring!Rounds(v) = Ring!Rounds(t) + 1
        /\ \A v \in Ring!Threads : t < v => Ring!Rounds(v) = Ring!Rounds(t)
    BY <1>1, <2>3 DEF Ring!HasTurn
  <2>9. ASSUME NEW v \in Ring!Threads
        PROVE  /\ v < next => Ring!Rounds(v)' = Ring!Rounds(next)' + 1
               /\ next < v => Ring!Rounds(v)' = Ring!Rounds(next)'
    <3>1. CASE t = THREADS - 1
      <4>1. next = 0 /\ \A w \in Ring!Threads : w # t => w < t
        BY <1>1, <2>5, <3>1
      <4> QED  BY <1>1, <2>2, <2>5, <2>8, <4>1
    <3>2. CASE t # THREADS - 1
      <4>1. next = t + 1 /\ next # t /\ t < next
        BY <1>1, <2>5, <3>2
      <4>2. Ring!Rounds(next)' = Ring!Rounds(t)
        BY <2>2, <2>5, <2>8, <4>1
      <4>3. v < next => v = t \/ v < t
        BY <1>1, <4>1
      <4>4. next < v => t < v /\ v # t
        BY <1>1, <4>1
      <4>5. ASSUME v < next  PROVE Ring!Rounds(v)' = Ring!Rounds(next)' + 1
        <5>1. CASE v = t  BY <2>2, <4>2, <5>1
        <5>2. CASE v < t
          <6>1. v # t  BY <1>1, <5>2
          <6> QED  BY <2>2, <2>8, <4>2, <5>2, <6>1
        <5> QED  BY <4>3, <4>5, <5>1, <5>2
      <4> QED  BY <2>2, <2>8, <4>2, <4>4, <4>5
    <3> QED  BY <3>1, <3>2
  <2>10. Ring!HasTurn(next)'
    BY <1>1, <2>9 DEF Ring!HasTurn
  <2> QED  BY <2>4, <2>7, <2>10
<1>4. CASE ~\E t \in Ring!Threads : Releases(t)
  <2>1. \A v \in Ring!Threads :
            Ring!Rounds(v)' = Ring!Rounds(v) /\ (Ring!Busy(v)' => Ring!Busy(v) \/ Acquires(v))
    BY <1>4, RoundsKept
  <2>2. Ring!HasTurn(u) => Ring!HasTurn(u)'
    BY <1>1, <2>1 DEF Ring!HasTurn
  <2>3. CASE \E t \in Ring!Threads : Ring!SemWait(t)
    <3>1. PICK t \in Ring!Threads : Ring!SemWait(t)
      BY <2>3
    <3>2. v6'[t] = 0 /\ v6[t] = 1 /\ \A v \in Ring!Threads : v # t => v6'[v] = v6[v]
      BY <1>1, <1>2, <3>1 DEF Ring!SemWait
    <3>3. u # t => v6[u] = 0
      BY <1>1, <1>2, <3>2, OneTurn
    <3> QED  BY <3>2, <3>3
  <2>4. CASE ~\E t \in Ring!Threads : Ring!SemWait(t)
    <3>1. v6' = v6
      BY <1>4, <2>4, StepKinds DEF Ring!Create, Ring!CreateFails, Ring!ParentStarts,
         Ring!JoinAndDestroy, Ring!LockFirst,
         Ring!Awake, Ring!AcquireMutex, Ring!LockMutex, Ring!CondWait, Ring!PrintLine,
         Ring!SpuriousWakeUp, Releases
    <3>2. Ring!Busy(u)' => Ring!Busy(u)
      BY <2>1, <2>4 DEF Acquires, Ring!AcquireMutex, Ring!CondWait, Places, Ring!PositionOK
    <3> QED  BY <1>2, <2>2, <3>1, <3>2
  <2> QED  BY <2>3, <2>4
<1> QED  BY <1>3, <1>4

-----------------------------------------------------------------------------
LEMMA RingInit ==
  ASSUME Ring!OutputConstants, Ring!Init
  PROVE  Ring!IInv
<1>1. Places /\ 0 \in Ring!Threads /\ Ring!Threads \subseteq Nat
      /\ Ring!Team \subseteq Ring!Threads
  BY PlacesInit, TeamInThreads
<1>2. \A t \in Ring!Threads :
          v3[t] = "new" /\ v9[t] = 0 /\ Ring!Rounds(t) = 0 /\ ~Ring!Busy(t)
  BY DEF Ring!Init, Ring!Rounds, Ring!Busy
<1>3. Ring!TurnOK /\ Ring!PromptOK
  BY <1>1, <1>2 DEF Ring!TurnOK, Ring!PromptOK
<1>4. Ring!HoldsOK
  <2>1. ASSUME program = "mutexes"  PROVE v5[Ring!Previous(v4[0])] = 0
    <3>1. THREADS \in Nat /\ THREADS > 1 /\ Ring!MUTEX_NUM = THREADS + 1
          /\ Ring!Mutexes = 0 .. THREADS
      BY DEF Ring!OutputConstants, Ring!MUTEX_NUM, Ring!Mutexes
    <3>2. v4[0] = (Ring!MUTEX_NUM - 0 + 1) % Ring!MUTEX_NUM
          /\ Ring!MUTEX_NUM - 0 + 1 = 1 + Ring!MUTEX_NUM
      BY <1>1, <3>1 DEF Ring!Init
    <3>3. v4[0] = 1
      BY <3>1, <3>2, Rest
    <3>4. Ring!Previous(v4[0]) = 0
      BY <3>1, <3>3, RingOrder
    <3> QED  BY <2>1, <3>1, <3>4 DEF Ring!Init
  <2> QED  BY <1>2, <2>1 DEF Ring!HoldsOK, Ring!Busy
<1>5. Ring!RingOK
  <2>1. /\ THREADS \in Nat /\ THREADS > 1 /\ Ring!MUTEX_NUM = THREADS + 1
        /\ Ring!Mutexes = 0 .. THREADS
        /\ Ring!Threads = 0 .. THREADS - 1
    BY DEF Ring!OutputConstants, Ring!MUTEX_NUM, Ring!Mutexes, Ring!Threads
  <2>2. ASSUME NEW t \in Ring!Threads
        PROVE  v4[t] = IF t = 0 THEN 1 ELSE IF t = 1 THEN 0 ELSE THREADS + 2 - t
    <3>1. v4[t] = (Ring!MUTEX_NUM - t + 1) % Ring!MUTEX_NUM
      BY DEF Ring!Init
    <3>2. CASE t = 0
      <4>1. Ring!MUTEX_NUM - t + 1 = 1 + Ring!MUTEX_NUM /\ 1 < Ring!MUTEX_NUM
        BY <2>1, <3>2
      <4> QED  BY <2>1, <3>1, <3>2, <4>1, Rest
    <3>3. CASE t = 1
      <4>1. Ring!MUTEX_NUM - t + 1 = Ring!MUTEX_NUM
        BY <2>1, <3>3
      <4> QED  BY <2>1, <3>1, <3>3, <4>1, Rest
    <3>4. CASE t # 0 /\ t # 1
      <4>1. /\ Ring!MUTEX_NUM - t + 1 \in Nat /\ Ring!MUTEX_NUM - t + 1 < Ring!MUTEX_NUM
            /\ Ring!MUTEX_NUM - t + 1 = THREADS + 2 - t
        BY <2>1, <3>4
      <4>2. (Ring!MUTEX_NUM - t + 1) % Ring!MUTEX_NUM = Ring!MUTEX_NUM - t + 1
        BY <2>1, <4>1, Rest
      <4> QED  BY <3>1, <3>4, <4>1, <4>2
    <3> QED  BY <3>2, <3>3, <3>4
  <2>3. \A t \in Ring!Threads : v4[t] \in Ring!Mutexes
    BY <1>1 DEF Places, Ring!TypeOK
  <2>4. ASSUME NEW t \in Ring!Threads \ {0}  PROVE Ring!Previous(v4[t - 1]) = v4[t]
    <3>1. PICK s \in Ring!Threads : s = t - 1
      BY <2>1
    <3>2. Ring!Previous(v4[s]) = IF v4[s] = 0 THEN THREADS ELSE v4[s] - 1
      BY <2>3, RingOrder
    <3>3. v4[t] = IF v4[s] = 0 THEN THREADS ELSE v4[s] - 1
      BY <2>1, <2>2, <3>1
    <3> QED  BY <3>1, <3>2, <3>3
  <2>5. Ring!Previous(v4[THREADS - 1]) = Ring!Following(v4[0])
    <3>1. PICK z \in Ring!Threads : z = THREADS - 1
      BY <2>1
    <3>2. Ring!Previous(v4[z]) = IF v4[z] = 0 THEN THREADS ELSE v4[z] - 1
      BY <2>3, RingOrder
    <3>3. Ring!Following(v4[0]) = IF v4[0] = THREADS THEN 0 ELSE v4[0] + 1
      BY <1>1, <2>3, RingOrder
    <3>4. (IF v4[z] = 0 THEN THREADS ELSE v4[z] - 1) = 2
      BY <2>1, <2>2, <3>1
    <3>5. (IF v4[0] = THREADS THEN 0 ELSE v4[0] + 1) = 2
      BY <1>1, <2>1, <2>2
    <3> QED  BY <3>1, <3>2, <3>3, <3>4, <3>5
  <2>6. \A t \in Ring!Threads \ {0} : t - 1 \in Ring!Threads
    BY <2>1
  <2> QED  BY <1>1, <1>2, <2>1, <2>4, <2>5, <2>6 DEF Ring!RingOK
<1>6. Ring!CondOK
  <2>1. program = "cond" => 1 \in Ring!Threads
    BY <1>1 DEF Ring!Team
  <2> QED  BY <1>1, <1>2, <2>1 DEF Ring!CondOK, Ring!Init
<1>7. Ring!SemsOK
  <2>1. Ring!HasTurn(0)
    BY <1>1, <1>2 DEF Ring!HasTurn
  <2> QED  BY <1>2, <2>1 DEF Ring!SemsOK, Ring!Init
<1> QED  BY <1>1, <1>3, <1>4, <1>5, <1>6, <1>7 DEF Ring!IInv, Places

LEMMA RingStutters ==
  ASSUME Ring!IInv, UNCHANGED Ring!vars
  PROVE  Ring!IInv'
<1> USE DEF Ring!vars
<1>1. Ring!TypeOK'
  BY DEF Ring!IInv, Ring!TypeOK, Ring!Children, Ring!Team
<1>2. Ring!PromptOK' /\ \A t \in Ring!Threads : Ring!PositionOK(t)'
  BY DEF Ring!IInv, Ring!PromptOK, Ring!PositionOK, Ring!Started, Ring!Team
<1>3. Ring!TurnOK'
  BY DEF Ring!IInv, Ring!TurnOK, Ring!Team, Ring!Orderly, Ring!Rounds, Ring!Busy, Ring!HasTurn
<1>4. Ring!HoldsOK' /\ Ring!RingOK'
  BY DEF Ring!IInv, Ring!HoldsOK, Ring!RingOK, Ring!Rounds, Ring!Busy
<1>5. Ring!CondOK' /\ Ring!SemsOK'
  BY DEF Ring!IInv, Ring!CondOK, Ring!SemsOK, Ring!Team, Ring!MyTurn, Ring!Rounds, Ring!Busy,
     Ring!HasTurn
<1> QED  BY <1>1, <1>2, <1>3, <1>4, <1>5 DEF Ring!IInv

LEMMA RingNext ==
  ASSUME Ring!OutputConstants, Ring!IInv, [Ring!Next]_Ring!vars
  PROVE  Ring!IInv'
<1> SUFFICES ASSUME Ring!Next  PROVE  Ring!IInv'
  BY RingStutters
<1>1. Places
  BY DEF Ring!IInv, Places
<1>2. Ring!TypeOK' /\ \A t \in Ring!Threads : Ring!PositionOK(t)'
  BY <1>1, TypeStep, PositionStep
<1>3. Ring!PromptOK'
  BY <1>1, PromptStep DEF Ring!IInv
<1>4. \A t \in Ring!Team : Ring!Orderly /\ Acquires(t) => Ring!HasTurn(t)
  BY MutexTurn, CondTurn, SemTurn DEF Acquires
<1>5. Ring!TurnOK'
  BY <1>1, <1>4, TurnStep DEF Ring!IInv
<1>6. Ring!HoldsOK'
  BY <1>1, HoldsStep, Constancy DEF Ring!IInv, Ring!HoldsOK, Ring!Busy, Ring!Previous
<1>7. Ring!RingOK' /\ Ring!CondOK' /\ Ring!SemsOK'
  BY <1>1, RingStep, CondStep, SemsStep DEF Ring!IInv
<1> QED  BY <1>2, <1>3, <1>5, <1>6, <1>7 DEF Ring!IInv

LEMMA RingSafe ==
  ASSUME Ring!OutputConstants, Ring!IInv
  PROVE  Ring!InTurn /\ Ring!UnlocksItsOwn
<1>1. Ring!InTurn
  <2> SUFFICES ASSUME Ring!Orderly, NEW t \in Ring!Team, NEW u \in Ring!Team, t < u
               PROVE  v9[t] \in {v9[u], v9[u] + 1}
    BY DEF Ring!InTurn, Ring!Orderly
  <2>1. Places /\ t \in Ring!Threads /\ u \in Ring!Threads
    BY TeamInThreads DEF Ring!IInv, Places
  <2>2. /\ Ring!Rounds(t) \in Nat /\ Ring!Rounds(u) \in Nat /\ v9[t] \in Nat /\ v9[u] \in Nat
        /\ t \in Nat /\ u \in Nat
    BY <2>1, RoundsType, TeamInThreads DEF Ring!OutputConstants
  <2>3. Ring!Rounds(t) \in {Ring!Rounds(u), Ring!Rounds(u) + 1}
    BY DEF Ring!IInv, Ring!TurnOK
  <2>4. (Ring!Busy(t) => Ring!HasTurn(t)) /\ (Ring!Busy(u) => Ring!HasTurn(u))
    BY DEF Ring!IInv, Ring!TurnOK
  <2>5. v3[t] = "leave" => Ring!Rounds(u) = Ring!Rounds(t)
    BY <2>4 DEF Ring!Busy, Ring!HasTurn
  <2>6. v3[u] = "leave" => Ring!Rounds(t) = Ring!Rounds(u) + 1
    BY <2>4 DEF Ring!Busy, Ring!HasTurn
  <2> QED  BY <2>2, <2>3, <2>5, <2>6 DEF Ring!Rounds
<1>2. Ring!UnlocksItsOwn
  <2> SUFFICES ASSUME NEW t \in Ring!Threads, v3[t] = "leave"
               PROVE  /\ program = "mutexes" =>
                             v5[v4[t]] = t /\ v5[Ring!Previous(v4[t])] = t
                      /\ program = "cond" => v5[0] = t
    BY DEF Ring!UnlocksItsOwn
  <2>1. program = "cond" => t \in Ring!Team
    BY DEF Ring!IInv, Ring!PositionOK
  <2> QED  BY <2>1 DEF Ring!IInv, Ring!HoldsOK, Ring!CondOK, Ring!Busy
<1> QED  BY <1>1, <1>2

-----------------------------------------------------------------------------
(***************************************************************************)
(* PiStop: v1 is main, v2 stop, v3 pc, v4 last, v5 block and v6 raced.     *)
(***************************************************************************)
StopConstants == N \in Nat \ {0} /\ SUPPLEMENT \in Nat \ {0} /\ RUN \in Nat

LEMMA TermType ==
  ASSUME StopConstants, Stop!TypeOK, NEW t \in Stop!Threads
  PROVE  Stop!Term(t) \in Int
BY DEF StopConstants, Stop!TypeOK, Stop!Threads, Stop!Term

LEMMA AheadType ==
  ASSUME StopConstants
  PROVE  SUPPLEMENT * N \in Nat /\ SUPPLEMENT * N > 0
BY DEF StopConstants

LEMMA StopInit ==
  ASSUME StopConstants, Stop!Init
  PROVE  Stop!IInv
<1> USE DEF Stop!Init
<1>1. Stop!TypeOK
  BY DEF Stop!TypeOK
<1>2. Stop!NobodyYet /\ Stop!Counted
  BY DEF Stop!NobodyYet, Stop!Counted
<1>3. Stop!MuratovOK
  BY DEF Stop!MuratovOK, Stop!Ended
<1>4. Stop!ShinkevichOK
  BY DEF Stop!ShinkevichOK, Stop!Ended
<1>5. Stop!TamplonOK
  BY DEF Stop!TamplonOK, Stop!GotAhead
<1> QED  BY <1>1, <1>2, <1>3, <1>4, <1>5 DEF Stop!IInv

\* Main and the signal: no thread moves but those that are created.
LEMMA StopMain ==
  ASSUME StopConstants, Stop!IInv, Stop!Mains \/ Stop!signal
  PROVE  Stop!IInv' /\ v4' = v4
<1>1. \/ /\ v1 = "create" /\ UNCHANGED <<program, v2, v4, v5, v6>>
         /\ v1' \in {"gone", "join", "sigwait"}
         /\ v3' \in [Stop!Threads -> {"none", "work"}]
      \/ /\ UNCHANGED <<program, v3, v4, v5, v6>> /\ v1 # "create"
         /\ v1' \in {"join", "report", "undefined"}
         /\ v2' = TRUE \/ v2' = v2
  BY DEF Stop!Mains, Stop!shuvalov9Main, Stop!shuvalov92Main, Stop!muratov9Main,
         Stop!shinkevich9Main, Stop!tamplon9Main, Stop!Create, Stop!Created, Stop!Join,
         Stop!signal
<1>2. CASE /\ v1 = "create" /\ UNCHANGED <<program, v2, v4, v5, v6>>
           /\ v1' \in {"gone", "join", "sigwait"}
           /\ v3' \in [Stop!Threads -> {"none", "work"}]
  <2>1. Stop!TypeOK'
    BY <1>2 DEF Stop!IInv, Stop!TypeOK
  <2>2. Stop!NobodyYet' /\ Stop!Counted'
    BY <1>2 DEF Stop!NobodyYet, Stop!Counted
  <2>3. Stop!MuratovOK'
    <3>1. \A t \in Stop!Threads : v3[t] = "none" /\ v3'[t] \in {"none", "work"}
      BY <1>2 DEF Stop!IInv, Stop!NobodyYet
    <3> QED  BY <1>2, <3>1 DEF Stop!IInv, Stop!MuratovOK, Stop!Ended
  <2>4. Stop!ShinkevichOK'
    BY <1>2 DEF Stop!ShinkevichOK, Stop!Ended
  <2>5. Stop!TamplonOK'
    BY <1>2 DEF Stop!TamplonOK, Stop!GotAhead
  <2> QED  BY <1>2, <2>1, <2>2, <2>3, <2>4, <2>5 DEF Stop!IInv
<1>3. CASE /\ UNCHANGED <<program, v3, v4, v5, v6>> /\ v1 # "create"
           /\ v1' \in {"join", "report", "undefined"}
           /\ v2' = TRUE \/ v2' = v2
  <2>1. Stop!TypeOK'
    BY <1>3 DEF Stop!IInv, Stop!TypeOK
  <2>2. Stop!NobodyYet' /\ Stop!Counted'
    BY <1>3 DEF Stop!IInv, Stop!NobodyYet, Stop!Counted
  <2>3. Stop!MuratovOK'
    BY <1>3 DEF Stop!IInv, Stop!MuratovOK, Stop!Ended
  <2>4. Stop!ShinkevichOK'
    BY <1>3 DEF Stop!IInv, Stop!ShinkevichOK, Stop!Ended
  <2>5. Stop!TamplonOK'
    BY <1>3 DEF Stop!IInv, Stop!TamplonOK, Stop!GotAhead, Stop!Term
  <2> QED  BY <1>3, <2>1, <2>2, <2>3, <2>4, <2>5 DEF Stop!IInv
<1> QED  BY <1>1, <1>2, <1>3

Positions == {"none", "work", "check", "test", "store", "head", "compare", "lock", "flag", "end"}

\* A thread goes to another position and counts at most one block.
LEMMA StopThread ==
  ASSUME StopConstants, Stop!IInv, NEW t \in Stop!Threads, Stop!Thread(t)
  PROVE  /\ UNCHANGED <<program, v1, v2>> /\ v3[t] # "none" /\ v4' \in Nat /\ v6' \in BOOLEAN
         /\ \E l \in Positions : v3' = [v3 EXCEPT ![t] = l]
         /\ v5' = v5 \/ (v5' = [v5 EXCEPT ![t] = v5[t] + 1] /\ v3[t] = "work" /\ v4' = v4)
<1> USE DEF Stop!Goto, Positions
<1>1. v4 \in Nat /\ v5[t] \in Nat /\ v6 \in BOOLEAN
  BY DEF Stop!IInv, Stop!TypeOK
<1>2. ASSUME NEW l \in Positions, Stop!Work(t, l)
      PROVE  /\ UNCHANGED <<program, v1, v2, v4, v6>> /\ v3[t] = "work"
             /\ v3' = [v3 EXCEPT ![t] = l] /\ v5' = [v5 EXCEPT ![t] = v5[t] + 1]
  BY <1>2 DEF Stop!Work
<1>3. CASE Stop!Work(t, "check") \/ Stop!Work(t, "test")
  BY <1>1, <1>2, <1>3
<1>4. CASE Stop!CheckFlag(t) /\ ~Stop!Work(t, "check")
  BY <1>1, <1>4 DEF Stop!CheckFlag
<1>5. CASE Stop!muratovStore(t)
  <2>1. v3[t] = "store" => v5[t] - 1 \in Nat
    BY <1>1 DEF Stop!IInv, Stop!Counted
  <2>2. CASE v3[t] = "store"
    <3>1. v6' = (v6 \/ v4 > v5[t] - 1)
      BY <1>5, <2>2 DEF Stop!muratovStore
    <3>2. v6' \in BOOLEAN
      BY <3>1, Zenon
    <3> QED  BY <1>1, <1>5, <2>1, <2>2, <3>2 DEF Stop!muratovStore
  <2> QED  BY <1>1, <1>5, <2>2 DEF Stop!muratovStore
<1>6. CASE Stop!muratovHead(t)
  BY <1>1, <1>6 DEF Stop!muratovHead
<1>7. CASE Stop!shinkevichCheck(t)
  BY <1>1, <1>7 DEF Stop!shinkevichCheck
<1>8. CASE Stop!tamplonAhead(t)
  <2>1. Stop!Term(t) \in Int /\ SUPPLEMENT * N \in Nat
    BY TermType, AheadType DEF Stop!IInv
  <2>2. Stop!Ahead(t) => Stop!Term(t) \in Nat
    BY <1>1, <2>1 DEF Stop!Ahead
  <2>3. CASE v3[t] = "lock"
    <3>1. /\ UNCHANGED <<program, v1, v2, v5, v6>>
          /\ v4' = IF Stop!Ahead(t) THEN Stop!Term(t) ELSE v4
          /\ v3' = [v3 EXCEPT ![t] = IF Stop!Ahead(t) THEN "flag" ELSE "work"]
      BY <1>8, <2>3 DEF Stop!tamplonAhead
    <3> QED  BY <1>1, <2>2, <2>3, <3>1
  <2>4. CASE v3[t] \in {"check", "flag"}
    BY <1>1, <1>8, <2>4 DEF Stop!tamplonAhead
  <2> QED  BY <1>8, <2>3, <2>4 DEF Stop!tamplonAhead
<1> QED
  BY <1>3, <1>4, <1>5, <1>6, <1>7, <1>8 DEF Stop!Thread, Stop!calculate_pi_part,
     Stop!calculate_pi_part2, Stop!GetPartialSum, Stop!calcPartSum, Stop!calc_partial_sum,
     Stop!CheckFlag

LEMMA StopThreadTypes ==
  ASSUME StopConstants, Stop!IInv, NEW t \in Stop!Threads, Stop!Thread(t)
  PROVE  Stop!TypeOK' /\ Stop!NobodyYet'
<1>1. Stop!TypeOK /\ Stop!NobodyYet
  BY DEF Stop!IInv
<1>2. PICK l \in Positions : v3' = [v3 EXCEPT ![t] = l]
  BY StopThread
<1>3. UNCHANGED <<program, v1, v2>> /\ v3[t] # "none" /\ v4' \in Nat /\ v6' \in BOOLEAN
  BY StopThread
<1>4. v5' \in [Stop!Threads -> Nat]
  <2>1. v5' = v5 \/ v5' = [v5 EXCEPT ![t] = v5[t] + 1]
    BY StopThread
  <2> QED  BY <1>1, <2>1 DEF Stop!TypeOK
<1>5. v3' \in [Stop!Threads -> Positions]
  BY <1>1, <1>2 DEF Stop!TypeOK, Positions
<1>6. Stop!TypeOK'
  BY <1>1, <1>3, <1>4, <1>5 DEF Stop!TypeOK, Positions
<1>7. v1 # "create"
  BY <1>1, <1>3 DEF Stop!NobodyYet
<1> QED  BY <1>3, <1>6, <1>7 DEF Stop!NobodyYet

\* The thread that ends has read the last block; the others have theirs to do.
LEMMA MuratovStep ==
  ASSUME StopConstants, Stop!IInv, NEW t \in Stop!Threads, Stop!Thread(t)
  PROVE  Stop!MuratovOK'
<1> SUFFICES ASSUME program' = "muratov9", ~v6'
             PROVE  /\ \A u \in Stop!Threads :
                         /\ v5'[u] <= v4' + IF v3'[u] \in {"test", "store"} THEN 2 ELSE 1
                         /\ v3'[u] = "compare" => v2'
                    /\ \A e \in Stop!Ended' :
                         /\ v2' /\ v4' <= v5'[e]
                         /\ \A u \in Stop!Threads :
                              /\ v3'[u] = "work" => v5'[u] <= v5'[e]
                              /\ v3'[u] \in {"test", "store"} => v5'[u] - 1 <= v5'[e]
  BY DEF Stop!MuratovOK
<1> USE DEF Stop!Goto
<1>1. Stop!TypeOK /\ program = "muratov9"
  BY StopThread DEF Stop!IInv
<1>2. Stop!GetPartialSum(t)
  BY <1>1 DEF Stop!Thread, Stop!calculate_pi_part, Stop!calculate_pi_part2, Stop!calcPartSum,
     Stop!calc_partial_sum
<1>3. ~v6
  BY <1>2 DEF Stop!GetPartialSum, Stop!Work, Stop!muratovStore, Stop!muratovHead
<1>4. /\ \A u \in Stop!Threads :
           /\ v5[u] <= v4 + IF v3[u] \in {"test", "store"} THEN 2 ELSE 1
           /\ v3[u] = "compare" => v2
      /\ \A e \in Stop!Threads : v3[e] = "end" =>
           /\ v2 /\ v4 <= v5[e]
           /\ \A u \in Stop!Threads :
                /\ v3[u] = "work" => v5[u] <= v5[e]
                /\ v3[u] \in {"test", "store"} => v5[u] - 1 <= v5[e]
  BY <1>1, <1>3 DEF Stop!IInv, Stop!MuratovOK, Stop!Ended
<1>5. /\ v4 \in Nat /\ v3 \in [Stop!Threads -> Positions] /\ v5 \in [Stop!Threads -> Nat]
      /\ v6 \in BOOLEAN /\ v2 \in BOOLEAN
  BY <1>1 DEF Stop!TypeOK, Positions
<1> USE DEF Stop!Ended
<1>6. CASE Stop!Work(t, "test")
  BY <1>4, <1>5, <1>6 DEF Stop!Work
<1>7. CASE v3[t] = "test" /\ Stop!muratovStore(t)
  BY <1>4, <1>5, <1>7 DEF Stop!muratovStore
<1>8. CASE v3[t] = "store" /\ Stop!muratovStore(t)
  <2>1. v4' = v5[t] - 1 /\ v4 <= v5[t] - 1
    <3>1. v4' = v5[t] - 1 /\ v6' = (v6 \/ v4 > v5[t] - 1)
      BY <1>8 DEF Stop!muratovStore
    <3>2. ~(v4 > v5[t] - 1)
      BY <3>1, Zenon
    <3> QED  BY <1>5, <3>1, <3>2
  <2>2. v3' = [v3 EXCEPT ![t] = "head"] /\ UNCHANGED <<v2, v5>>
    BY <1>8 DEF Stop!muratovStore
  <2> QED  BY <1>4, <1>5, <1>8, <2>1, <2>2
<1>9. CASE v3[t] = "head" /\ Stop!muratovHead(t)
  BY <1>4, <1>5, <1>9 DEF Stop!muratovHead
<1>10. CASE v3[t] = "compare" /\ Stop!muratovHead(t)
  BY <1>4, <1>5, <1>10 DEF Stop!muratovHead
<1> QED
  BY <1>2, <1>6, <1>7, <1>8, <1>9, <1>10 DEF Stop!GetPartialSum, Stop!muratovStore,
     Stop!muratovHead

\* The step is named when no thread has ended, or the race is seen.
LEMMA ShinkevichStep ==
  ASSUME StopConstants, Stop!IInv, NEW t \in Stop!Threads, Stop!Thread(t)
  PROVE  Stop!ShinkevichOK'
<1> SUFFICES ASSUME program' = "shinkevich9", ~v6', NEW e \in Stop!Threads, v3'[e] = "end"
             PROVE  v4' # 0 /\ v4' <= v5'[e]
  BY DEF Stop!ShinkevichOK, Stop!Ended
<1> USE DEF Stop!Goto
<1>1. Stop!TypeOK /\ program = "shinkevich9"
  BY StopThread DEF Stop!IInv
<1>2. Stop!calcPartSum(t)
  BY <1>1 DEF Stop!Thread, Stop!calculate_pi_part, Stop!calculate_pi_part2,
     Stop!GetPartialSum, Stop!calc_partial_sum
<1>3. ~v6
  BY <1>2 DEF Stop!calcPartSum, Stop!Work, Stop!shinkevichCheck
<1>4. /\ \A u \in Stop!Threads : v3[u] = "end" => v4 # 0 /\ v4 <= v5[u]
      /\ \A u \in Stop!Threads : v3[u] = "store" => v5[u] > 0
  BY <1>1, <1>3 DEF Stop!IInv, Stop!ShinkevichOK, Stop!Ended, Stop!Counted
<1>5. /\ v4 \in Nat /\ v3 \in [Stop!Threads -> Positions] /\ v5 \in [Stop!Threads -> Nat]
      /\ v6 \in BOOLEAN
  BY <1>1 DEF Stop!TypeOK, Positions
<1>6. CASE Stop!Work(t, "check")
  BY <1>4, <1>5, <1>6 DEF Stop!Work
<1>7. CASE v3[t] = "check" /\ Stop!shinkevichCheck(t)
  <2>1. /\ UNCHANGED <<v4, v5>>
        /\ v3' = [v3 EXCEPT ![t] = CASE ~v2 -> "work"
                  [] v2 /\ v4 = 0 -> "store"
                  [] v2 /\ v4 # 0 -> IF v5[t] >= v4 THEN "end" ELSE "work"]
    BY <1>7 DEF Stop!shinkevichCheck
  <2>2. v2 \in BOOLEAN
    BY <1>1 DEF Stop!TypeOK
  <2>3. v3'[t] = "end" => v4 # 0 /\ v5[t] >= v4
    <3>1. CASE ~v2
      BY <1>5, <2>1, <3>1
    <3>2. CASE v2 /\ v4 = 0
      BY <1>5, <2>1, <3>2
    <3>3. CASE v2 /\ v4 # 0
      BY <1>5, <2>1, <3>3
    <3> QED  BY <2>2, <3>1, <3>2, <3>3
  <2> QED  BY <1>4, <1>5, <2>1, <2>3
<1>8. CASE v3[t] = "store" /\ Stop!shinkevichCheck(t)
  <2>1. v4 = 0 /\ v4' = v5[t] /\ v5' = v5
    BY <1>5, <1>8 DEF Stop!shinkevichCheck
  <2>2. v3' = [v3 EXCEPT ![t] = "end"]
    BY <1>8 DEF Stop!shinkevichCheck
  <2>3. e = t
    BY <1>4, <1>5, <2>1, <2>2
  <2> QED  BY <1>4, <1>5, <1>8, <2>1, <2>3
<1> QED  BY <1>2, <1>6, <1>7, <1>8 DEF Stop!calcPartSum, Stop!shinkevichCheck

\* Whoever gets ahead is a supplement ahead of all that did before.
LEMMA TamplonStep ==
  ASSUME StopConstants, Stop!IInv, NEW t \in Stop!Threads, Stop!Thread(t)
  PROVE  Stop!TamplonOK'
<1> DEFINE SN == SUPPLEMENT * N
<1> SUFFICES ASSUME program' = "tamplon9"
             PROVE  /\ \A u \in Stop!GotAhead' : Stop!Term(u)' <= v4'
                    /\ \A u, w \in Stop!GotAhead' : u # w =>
                         Stop!Term(u)' >= Stop!Term(w)' + SN \/ Stop!Term(w)' >= Stop!Term(u)' + SN
  BY DEF Stop!TamplonOK
<1> USE DEF Stop!Goto
<1>1. Stop!TypeOK /\ program = "tamplon9"
  BY StopThread DEF Stop!IInv
<1>2. Stop!calc_partial_sum(t)
  BY <1>1 DEF Stop!Thread, Stop!calculate_pi_part, Stop!calculate_pi_part2,
     Stop!GetPartialSum, Stop!calcPartSum
<1>3. /\ \A u \in Stop!GotAhead : Stop!Term(u) <= v4
      /\ \A u, w \in Stop!GotAhead : u # w =>
           Stop!Term(u) >= Stop!Term(w) + SN \/ Stop!Term(w) >= Stop!Term(u) + SN
  BY <1>1 DEF Stop!IInv, Stop!TamplonOK
<1>4. SN \in Nat /\ SN > 0 /\ v4 \in Nat /\ v3 \in [Stop!Threads -> Positions]
  BY <1>1, AheadType DEF Stop!TypeOK, Positions
<1>5. \A u \in Stop!Threads : Stop!Term(u) \in Int
  BY <1>1, TermType
<1>6. \A u \in Stop!Threads : v5'[u] = v5[u] => Stop!Term(u)' = Stop!Term(u)
  BY DEF Stop!Term
<1> HIDE DEF SN
<1>7. CASE Stop!Work(t, "check")
  <2>1. /\ v4' = v4 /\ v3[t] = "work" /\ v3' = [v3 EXCEPT ![t] = "check"]
        /\ v5' = [v5 EXCEPT ![t] = v5[t] + 1]
    BY <1>7 DEF Stop!Work
  <2>2. \A u \in Stop!GotAhead' : u \in Stop!GotAhead /\ v5'[u] = v5[u]
    BY <1>1, <1>4, <2>1 DEF Stop!GotAhead, Stop!TypeOK
  <2> QED  BY <1>3, <1>6, <2>1, <2>2 DEF Stop!GotAhead
<1>8. CASE Stop!tamplonAhead(t) /\ ~(v3[t] = "lock" /\ Stop!Ahead(t))
  <2>1. v4' = v4 /\ v5' = v5
    BY <1>8 DEF Stop!tamplonAhead
  <2>2. \A u \in Stop!GotAhead' : u \in Stop!GotAhead
    BY <1>4, <1>8 DEF Stop!tamplonAhead, Stop!GotAhead
  <2> QED  BY <1>3, <1>6, <2>1, <2>2 DEF Stop!GotAhead
<1>9. CASE Stop!tamplonAhead(t) /\ v3[t] = "lock" /\ Stop!Ahead(t)
  <2>1. v4' = Stop!Term(t) /\ v5' = v5 /\ v3' = [v3 EXCEPT ![t] = "flag"]
    BY <1>9 DEF Stop!tamplonAhead
  <2>2. Stop!Term(t) >= v4 + SN
    BY <1>9 DEF Stop!Ahead, SN
  <2>3. \A u \in Stop!GotAhead' : u \in Stop!Threads /\ (u \in Stop!GotAhead \/ u = t)
    BY <1>4, <2>1 DEF Stop!GotAhead
  <2>4. \A u \in Stop!GotAhead' : Stop!Term(u)' = Stop!Term(u)
    BY <1>6, <2>1, <2>3
  <2>5. \A u \in Stop!GotAhead : Stop!Term(t) >= Stop!Term(u) + SN
    <3> SUFFICES ASSUME NEW u \in Stop!GotAhead
                 PROVE  Stop!Term(t) >= Stop!Term(u) + SN
      OBVIOUS
    <3>1. Stop!Term(u) \in Int /\ Stop!Term(t) \in Int /\ Stop!Term(u) <= v4
      BY <1>3, <1>5 DEF Stop!GotAhead
    <3> QED  BY <1>4, <2>2, <3>1
  <2>6. \A u \in Stop!GotAhead' : Stop!Term(u)' <= v4'
    <3> SUFFICES ASSUME NEW u \in Stop!GotAhead'
                 PROVE  Stop!Term(u) <= Stop!Term(t)
      BY <2>1, <2>4
    <3>1. CASE u = t
      BY <1>5, <3>1
    <3>2. CASE u \in Stop!GotAhead
      <4>1. Stop!Term(u) \in Int /\ Stop!Term(t) \in Int
        BY <1>5, <2>3
      <4> QED  BY <1>4, <2>5, <3>2, <4>1
    <3> QED  BY <2>3, <3>1, <3>2
  <2>7. \A u, w \in Stop!GotAhead' : u # w =>
          Stop!Term(u) >= Stop!Term(w) + SN \/ Stop!Term(w) >= Stop!Term(u) + SN
    BY <1>3, <2>3, <2>5
  <2> QED  BY <2>4, <2>6, <2>7
<1> QED  BY <1>2, <1>7, <1>8, <1>9 DEF Stop!calc_partial_sum

LEMMA CountedStep ==
  ASSUME StopConstants, Stop!IInv, NEW t \in Stop!Threads, Stop!Thread(t)
  PROVE  Stop!Counted'
<1> USE DEF Stop!Goto
<1>1. /\ v3 \in [Stop!Threads -> Positions] /\ v5 \in [Stop!Threads -> Nat]
      /\ \A u \in Stop!Threads : v3[u] \in {"check", "test", "store"} => v5[u] > 0
  BY DEF Stop!IInv, Stop!TypeOK, Stop!Counted, Positions
<1>2. ASSUME NEW l \in Positions, Stop!Work(t, l)
      PROVE  Stop!Counted'
  BY <1>1, <1>2 DEF Stop!Work, Stop!Counted
<1>3. CASE Stop!Work(t, "check") \/ Stop!Work(t, "test")
  BY <1>2, <1>3 DEF Positions
<1>4. CASE Stop!CheckFlag(t) /\ ~Stop!Work(t, "check")
  BY <1>1, <1>4 DEF Stop!CheckFlag, Stop!Counted
<1>5. CASE Stop!muratovStore(t)
  BY <1>1, <1>5 DEF Stop!muratovStore, Stop!Counted
<1>6. CASE Stop!muratovHead(t)
  BY <1>1, <1>6 DEF Stop!muratovHead, Stop!Counted
<1>7. CASE Stop!shinkevichCheck(t)
  BY <1>1, <1>7 DEF Stop!shinkevichCheck, Stop!Counted
<1>8. CASE Stop!tamplonAhead(t)
  BY <1>1, <1>8 DEF Stop!tamplonAhead, Stop!Counted
<1> QED
  BY <1>3, <1>4, <1>5, <1>6, <1>7, <1>8 DEF Stop!Thread, Stop!calculate_pi_part,
     Stop!calculate_pi_part2, Stop!GetPartialSum, Stop!calcPartSum, Stop!calc_partial_sum,
     Stop!CheckFlag

LEMMA StopNext ==
  ASSUME StopConstants, Stop!IInv, [Stop!Next]_Stop!vars
  PROVE  Stop!IInv'
<1>1. CASE Stop!Mains \/ Stop!signal
  BY <1>1, StopMain
<1>2. ASSUME NEW t \in Stop!Threads, Stop!Thread(t)
      PROVE  Stop!IInv'
  BY <1>2, StopThreadTypes, CountedStep, MuratovStep, ShinkevichStep, TamplonStep DEF Stop!IInv
<1>3. CASE UNCHANGED Stop!vars
  BY <1>3 DEF Stop!vars, Stop!IInv, Stop!TypeOK, Stop!NobodyYet, Stop!Counted,
     Stop!MuratovOK, Stop!ShinkevichOK, Stop!TamplonOK, Stop!Ended, Stop!GotAhead, Stop!Term
<1> QED  BY <1>1, <1>2, <1>3 DEF Stop!Next

\* What the threads agree on.
LEMMA StopSafe ==
  ASSUME StopConstants, Stop!IInv
  PROVE  Stop!StopsTogether
<1>1. Stop!TypeOK /\ Stop!MuratovOK /\ Stop!ShinkevichOK /\ Stop!TamplonOK
  BY DEF Stop!IInv
<1>2. ASSUME program = "muratov9", ~v6, NEW t \in Stop!Ended, NEW u \in Stop!Ended
      PROVE  v5[t] <= v5[u] + 1
  <2>1. v5[t] \in Nat /\ v5[u] \in Nat /\ v4 \in Nat
    BY <1>1 DEF Stop!TypeOK, Stop!Ended
  <2>2. v5[t] <= v4 + 1 /\ v4 <= v5[u]
    BY <1>1, <1>2 DEF Stop!MuratovOK, Stop!Ended
  <2> QED  BY <2>1, <2>2
<1>3. ASSUME program = "shinkevich9", ~v6, NEW t \in Stop!Ended
      PROVE  v5[t] >= v4
  BY <1>1, <1>3 DEF Stop!ShinkevichOK, Stop!Ended, Stop!TypeOK
<1>4. program = "tamplon9" =>
        \A t, u \in Stop!Ended : t # u => Stop!Term(t) >= Stop!Term(u) + SUPPLEMENT * N
                                   \/ Stop!Term(u) >= Stop!Term(t) + SUPPLEMENT * N
  BY <1>1 DEF Stop!TamplonOK, Stop!Ended, Stop!GotAhead
<1> QED  BY <1>2, <1>3, <1>4 DEF Stop!StopsTogether

\* The number the threads agree on only grows.
LEMMA StopGrows ==
  ASSUME StopConstants, Stop!IInv, [Stop!Next]_Stop!vars
  PROVE  Stop!LastStep
<1> SUFFICES ASSUME program # "shinkevich9", ~v6'
             PROVE  v4' >= v4
  BY DEF Stop!LastStep
<1>1. Stop!TypeOK /\ v4 \in Nat
  BY DEF Stop!IInv, Stop!TypeOK
<1>2. CASE Stop!Mains \/ Stop!signal \/ UNCHANGED Stop!vars
  BY <1>1, <1>2, StopMain DEF Stop!vars
<1>3. ASSUME NEW t \in Stop!Threads, Stop!Thread(t)
      PROVE  v4' >= v4
  <2>1. CASE Stop!calculate_pi_part(t) \/ Stop!calculate_pi_part2(t)
    BY <1>1, <2>1 DEF Stop!calculate_pi_part, Stop!calculate_pi_part2, Stop!CheckFlag, Stop!Work
  <2>2. CASE Stop!GetPartialSum(t) /\ v4' # v4
    <3>1. v4' = v5[t] - 1 /\ v6' = (v6 \/ v4 > v5[t] - 1)
      BY <2>2 DEF Stop!GetPartialSum, Stop!Work, Stop!muratovStore, Stop!muratovHead
    <3>2. ~(v4 > v5[t] - 1)
      BY <3>1, Zenon
    <3>3. v5[t] \in Nat
      BY <1>1 DEF Stop!TypeOK
    <3> QED  BY <1>1, <3>1, <3>2, <3>3
  <2>3. CASE Stop!calc_partial_sum(t) /\ v4' # v4
    <3>1. v4' = Stop!Term(t) /\ Stop!Ahead(t)
      BY <2>3 DEF Stop!calc_partial_sum, Stop!Work, Stop!tamplonAhead
    <3>2. Stop!Term(t) \in Int /\ SUPPLEMENT * N \in Nat
      BY <1>1, TermType, AheadType
    <3> QED  BY <1>1, <3>1, <3>2 DEF Stop!Ahead
  <2> QED  BY <1>1, <1>3, <2>1, <2>2, <2>3 DEF Stop!Thread, Stop!calcPartSum
<1> QED  BY <1>2, <1>3 DEF Stop!Next

-----------------------------------------------------------------------------
(***************************************************************************)
(* Induction over the natural numbers, as a fact about sets.               *)
(***************************************************************************)
Less == {p \in Nat \X Nat : p[1] < p[2]}

LEMMA LessWellFounded == IsWellFoundedOn(Less, Nat)
<1>1. Less = OpToRel(<, Nat)
  BY Zenon DEF Less, OpToRel
<1> QED  BY <1>1, NatLessThanWellFounded, Zenon

LEMMA Smallest ==
  ASSUME NEW S \in SUBSET Nat, S # {}
  PROVE  \E x \in S : \A y \in S : x <= y
<1>1. PICK x \in S : \A y \in S : <<y, x>> \notin Less
  BY LessWellFounded, WFMin, Zenon
<1>2. \A y \in S : ~(y < x)
  BY <1>1 DEF Less
<1> QED  BY <1>1, <1>2

LEMMA Induction ==
  ASSUME NEW S, 0 \in S, \A j \in Nat : j \in S => j + 1 \in S
  PROVE  Nat \subseteq S
<1> SUFFICES ASSUME Nat \ S # {}  PROVE  FALSE
  OBVIOUS
<1>1. PICK x \in Nat \ S : \A y \in Nat \ S : x <= y
  BY Smallest
<1>2. x - 1 \in Nat /\ x - 1 \notin Nat \ S
  BY <1>1
<1> QED  BY <1>1, <1>2

-----------------------------------------------------------------------------
(***************************************************************************)
(* PiSum: the terms of the threads.                                        *)
(***************************************************************************)
LEMMA Division ==
  ASSUME NEW a \in Nat, NEW d \in Nat, d > 0
  PROVE  /\ a \div d \in Nat /\ a % d \in 0 .. d - 1
         /\ a = (a \div d) * d + (a % d)
<1>1. a % d \in 0 .. d - 1
  OBVIOUS
<1>2. a \div d \in Nat
  OBVIOUS
<1>3. a = (a \div d) * d + (a % d)
  OBVIOUS
<1> QED  BY <1>1, <1>2, <1>3

LEMMA Quotient ==
  ASSUME NEW d \in Nat, d > 0, NEW q \in Int, NEW r \in 0 .. d - 1
  PROVE  (q * d + r) \div d = q /\ (q * d + r) % d = r
<1>1. (q * d + r) \div d = q
  OBVIOUS
<1>2. (q * d + r) % d = r
  OBVIOUS
<1> QED  BY <1>1, <1>2

LEMMA Multiples ==
  ASSUME NEW d \in Nat, d > 0, NEW i \in Nat, NEW j \in Nat, NEW k \in 0 .. d - 1,
         NEW l \in 0 .. d - 1, i * d + k = j * d + l
  PROVE  k = l
BY Quotient

LEMMA Product ==
  ASSUME NEW a \in Nat, NEW b \in Nat, NEW d \in Nat, a <= b
  PROVE  a * d <= b * d /\ d * a <= d * b /\ a * d = d * a /\ a * d \in Nat
OBVIOUS

LEMMA DivisionGrows ==
  ASSUME NEW a \in Nat, NEW b \in Nat, NEW d \in Nat, d > 0, a <= b
  PROVE  a \div d <= b \div d
OBVIOUS
-----------------------------------------------------------------------------
SumConstants == MAX_THREADS \in Nat \ {0} /\ STEPS \subseteq Nat

\* Parts that begin where the one before them ends are disjoint and leave nothing out.
LEMMA Cuts ==
  ASSUME NEW m \in Nat, NEW b \in [0 .. m -> Nat], b[0] = 0,
         \A j \in 0 .. m - 1 : b[j] <= b[j + 1]
  PROVE  /\ \A k, l \in 0 .. m - 1 :
              \A i \in (b[k] .. b[k + 1] - 1) \cap (b[l] .. b[l + 1] - 1) : k = l
         /\ \A i \in 0 .. b[m] - 1 : \E k \in 0 .. m - 1 : i \in b[k] .. b[k + 1] - 1
         /\ \A k \in 0 .. m - 1 : b[k] .. b[k + 1] - 1 \subseteq 0 .. b[m] - 1
<1>1. \A k, l \in 0 .. m : k <= l => b[k] <= b[l]
  <2> SUFFICES ASSUME NEW k \in 0 .. m
               PROVE  \A l \in 0 .. m : k <= l => b[k] <= b[l]
    OBVIOUS
  <2> DEFINE S == {l \in Nat : k <= l /\ l <= m => b[k] <= b[l]}
  <2>1. 0 \in S
    OBVIOUS
  <2>2. ASSUME NEW j \in Nat, j \in S
        PROVE  j + 1 \in S
    <3> SUFFICES ASSUME k <= j + 1, j + 1 <= m
                 PROVE  b[k] <= b[j + 1]
      OBVIOUS
    <3>1. j \in 0 .. m - 1 /\ b[j] \in Nat /\ b[j + 1] \in Nat /\ b[k] \in Nat
      OBVIOUS
    <3>2. CASE k = j + 1
      BY <3>1, <3>2
    <3>3. CASE k <= j
      BY <2>2, <3>1, <3>3
    <3> QED  BY <3>1, <3>2, <3>3
  <2> HIDE DEF S
  <2>3. Nat \subseteq S
    BY <2>1, <2>2, Induction
  <2> QED  BY <2>3 DEF S
<1>2. \A k, l \in 0 .. m - 1 : \A i \in Int :
        b[k] <= i /\ i < b[k + 1] /\ b[l] <= i /\ i < b[l + 1] => k <= l
  <2> SUFFICES ASSUME NEW k \in 0 .. m - 1, NEW l \in 0 .. m - 1, NEW i \in Int,
                      b[k] <= i, i < b[k + 1], b[l] <= i, i < b[l + 1], l < k
               PROVE  FALSE
    OBVIOUS
  <2>1. b[l + 1] <= b[k] /\ b[l + 1] \in Nat /\ b[k] \in Nat
    BY <1>1
  <2> QED  BY <2>1
<1>3. ASSUME NEW i \in 0 .. b[m] - 1
      PROVE  \E k \in 0 .. m - 1 : i \in b[k] .. b[k + 1] - 1
  <2> DEFINE S == {l \in Nat : l <= m /\ i < b[l]}
  <2>1. m \in S
    OBVIOUS
  <2>2. PICK l \in S : \A y \in S : l <= y
    BY <2>1, Smallest
  <2>3. l # 0 /\ l - 1 \in 0 .. m - 1
    BY <2>2
  <2>4. ~(i < b[l - 1])
    <3>1. l - 1 \notin S
      BY <2>2, <2>3
    <3> QED  BY <2>3, <3>1
  <2>5. i \in b[l - 1] .. b[(l - 1) + 1] - 1
    <3>1. b[l - 1] \in Nat /\ b[l] \in Nat /\ (l - 1) + 1 = l /\ i < b[l]
      BY <2>2, <2>3
    <3> QED  BY <2>4, <3>1
  <2> QED  BY <2>3, <2>5
<1>4. ASSUME NEW k \in 0 .. m - 1, NEW i \in b[k] .. b[k + 1] - 1
      PROVE  i \in 0 .. b[m] - 1
  <2>1. b[k] \in Nat /\ b[k + 1] \in Nat /\ b[m] \in Nat /\ b[k + 1] <= b[m]
    BY <1>1
  <2> QED  BY <2>1
<1>5. ASSUME NEW k \in 0 .. m - 1, NEW l \in 0 .. m - 1,
             NEW i \in (b[k] .. b[k + 1] - 1) \cap (b[l] .. b[l + 1] - 1)
      PROVE  k = l
  <2>1. /\ b[k] \in Nat /\ b[k + 1] \in Nat /\ b[l] \in Nat /\ b[l + 1] \in Nat /\ i \in Int
        /\ b[k] <= i /\ i < b[k + 1] /\ b[l] <= i /\ i < b[l + 1]
    OBVIOUS
  <2>2. k <= l /\ l <= k
    BY <1>2, <2>1
  <2> QED  BY <2>2
<1> QED  BY <1>3, <1>4, <1>5

SumTypes == v1 \in Nat /\ v1 > 0 /\ v6 \in Nat

LEMMA StridedDivides ==
  ASSUME SumTypes
  PROVE  /\ \A k, l \in 0 .. v1 - 1 : \A i \in Sum!Strided(k) \cap Sum!Strided(l) : k = l
         /\ \A k \in 0 .. v1 - 1 : Sum!Strided(k) \subseteq 0 .. v1 * v6 - 1
         /\ \A i \in 0 .. v1 * v6 - 1 : \E k \in 0 .. v1 - 1 : i \in Sum!Strided(k)
<1> USE DEF SumTypes
<1>1. ASSUME NEW k \in 0 .. v1 - 1, NEW l \in 0 .. v1 - 1,
             NEW i \in Sum!Strided(k) \cap Sum!Strided(l)
      PROVE  k = l
  <2>1. PICK x \in 0 .. v6 - 1 : i = x * v1 + k
    BY DEF Sum!Strided
  <2>2. PICK y \in 0 .. v6 - 1 : i = y * v1 + l
    BY DEF Sum!Strided
  <2> QED  BY <2>1, <2>2, Multiples
<1>2. ASSUME NEW k \in 0 .. v1 - 1, NEW i \in Sum!Strided(k)
      PROVE  i \in 0 .. v1 * v6 - 1
  <2>1. PICK x \in 0 .. v6 - 1 : i = x * v1 + k
    BY DEF Sum!Strided
  <2>2. x * v1 \in Nat /\ (x + 1) * v1 <= v6 * v1 /\ v6 * v1 = v1 * v6 /\ v1 * v6 \in Nat
    BY Product
  <2>3. (x + 1) * v1 = x * v1 + v1
    OBVIOUS
  <2> QED  BY <2>1, <2>2, <2>3
<1>3. ASSUME NEW i \in 0 .. v1 * v6 - 1
      PROVE  \E k \in 0 .. v1 - 1 : i \in Sum!Strided(k)
  <2>1. v1 * v6 \in Nat /\ v1 * v6 = v6 * v1
    BY Product
  <2>2. i \in Nat /\ i < v1 * v6
    BY <2>1
  <2> DEFINE q == i \div v1
             r == i % v1
  <2>3. q \in Nat /\ r \in 0 .. v1 - 1 /\ i = q * v1 + r
    BY <2>2, Division
  <2> HIDE DEF q, r
  <2>4. q < v6
    <3> SUFFICES ASSUME v6 <= q  PROVE  FALSE
      BY <2>3
    <3>1. v6 * v1 <= q * v1 /\ q * v1 \in Nat
      BY <2>3, Product
    <3> QED  BY <2>1, <2>2, <2>3, <3>1
  <2> QED  BY <2>3, <2>4 DEF Sum!Strided
<1> QED  BY <1>1, <1>2, <1>3

LEMMA StridedBelowDivides ==
  ASSUME SumTypes
  PROVE  /\ \A k, l \in 0 .. v1 - 1 : \A i \in Sum!StridedBelow(k) \cap Sum!StridedBelow(l) : k = l
         /\ \A k \in 0 .. v1 - 1 : Sum!StridedBelow(k) \subseteq 0 .. v6 - 1
         /\ \A i \in 0 .. v6 - 1 : \E k \in 0 .. v1 - 1 : i \in Sum!StridedBelow(k)
<1>1. \A i \in 0 .. v6 - 1 : i % v1 \in 0 .. v1 - 1
  BY Division DEF SumTypes
<1> QED  BY <1>1 DEF Sum!StridedBelow

LEMMA SliceDivides ==
  ASSUME SumTypes
  PROVE  /\ \A k, l \in 0 .. v1 - 1 : \A i \in Sum!Slice(k) \cap Sum!Slice(l) : k = l
         /\ \A k \in 0 .. v1 - 1 : Sum!Slice(k) \subseteq 0 .. v6 - 1
         /\ \A i \in 0 .. v6 - 1 : \E k \in 0 .. v1 - 1 : i \in Sum!Slice(k)
<1> USE DEF SumTypes
<1> DEFINE b == [j \in 0 .. v1 |-> (v6 * j) \div v1]
<1>1. \A j \in 0 .. v1 : v6 * j \in Nat /\ (v6 * j) \div v1 \in Nat
  BY Product, Division
<1>2. b \in [0 .. v1 -> Nat]
  BY <1>1
<1>3. b[0] = 0
  BY Quotient
<1>4. b[v1] = v6
  <2>1. v6 * v1 + 0 = v6 * v1 /\ 0 \in 0 .. v1 - 1
    BY <1>1
  <2> QED  BY <2>1, Quotient
<1>5. ASSUME NEW j \in 0 .. v1 - 1
      PROVE  b[j] <= b[j + 1]
  <2>1. j \in 0 .. v1 /\ j + 1 \in 0 .. v1
    OBVIOUS
  <2>2. v6 * j \in Nat /\ v6 * (j + 1) \in Nat /\ v6 * j <= v6 * (j + 1)
    BY <1>1, <2>1, Product
  <2>3. (v6 * j) \div v1 <= (v6 * (j + 1)) \div v1
    BY <2>2, DivisionGrows
  <2> QED  BY <2>1, <2>3
<1>6. \A k \in 0 .. v1 - 1 : Sum!Slice(k) = b[k] .. b[k + 1] - 1
  BY DEF Sum!Slice
<1> HIDE DEF b
<1>7. /\ \A k, l \in 0 .. v1 - 1 :
            \A i \in (b[k] .. b[k + 1] - 1) \cap (b[l] .. b[l + 1] - 1) : k = l
      /\ \A i \in 0 .. b[v1] - 1 : \E k \in 0 .. v1 - 1 : i \in b[k] .. b[k + 1] - 1
      /\ \A k \in 0 .. v1 - 1 : b[k] .. b[k + 1] - 1 \subseteq 0 .. b[v1] - 1
  BY <1>2, <1>3, <1>5, Cuts
<1>8. ASSUME NEW k \in 0 .. v1 - 1, NEW l \in 0 .. v1 - 1, NEW i \in Sum!Slice(k) \cap Sum!Slice(l)
      PROVE  k = l
  <2>1. i \in (b[k] .. b[k + 1] - 1) \cap (b[l] .. b[l + 1] - 1)
    BY <1>6
  <2> QED  BY <1>7, <2>1
<1>9. ASSUME NEW k \in 0 .. v1 - 1
      PROVE  Sum!Slice(k) \subseteq 0 .. v6 - 1
  <2>1. Sum!Slice(k) = b[k] .. b[k + 1] - 1
    BY <1>6
  <2>2. b[k] .. b[k + 1] - 1 \subseteq 0 .. b[v1] - 1
    BY <1>7
  <2> QED  BY <1>4, <2>1, <2>2
<1>10. ASSUME NEW i \in 0 .. v6 - 1
       PROVE  \E k \in 0 .. v1 - 1 : i \in Sum!Slice(k)
  <2>1. i \in 0 .. b[v1] - 1
    BY <1>4
  <2>2. PICK k \in 0 .. v1 - 1 : i \in b[k] .. b[k + 1] - 1
    BY <1>7, <2>1
  <2>3. i \in Sum!Slice(k)
    BY <1>6, <2>2
  <2> QED  BY <2>3
<1> QED  BY <1>8, <1>9, <1>10

\* Where block j begins: the blocks before it have v6 \div v1 terms each, and the
\* first v6 % v1 of them one more.
Begin(j) == j * (v6 \div v1) + IF j < v6 % v1 THEN j ELSE v6 % v1

LEMMA BeginFacts ==
  ASSUME SumTypes
  PROVE  /\ \A j \in Nat : Begin(j) \in Nat
         /\ Begin(0) = 0 /\ Begin(v1) = v6
         /\ \A j \in Nat : Sum!Size(j) \in Nat /\ Begin(j + 1) = Begin(j) + Sum!Size(j)
<1> DEFINE q == v6 \div v1
           r == v6 % v1
<1>1. q \in Nat /\ r \in 0 .. v1 - 1 /\ v6 = q * v1 + r /\ v1 \in Nat
  BY Division DEF SumTypes
<1>2. \A j : Begin(j) = j * q + IF j < r THEN j ELSE r
  BY DEF Begin
<1>3. \A j : Sum!Size(j) = q + IF j < r THEN 1 ELSE 0
  BY DEF Sum!Size
<1> HIDE DEF q, r
<1>4. \A j \in Nat : j * q \in Nat /\ (j + 1) * q = j * q + q
  BY <1>1
<1>5. 0 * q = 0 /\ v1 * q = q * v1 /\ q * v1 \in Nat
  BY <1>1
<1>6. \A j \in Nat : Begin(j) \in Nat
  BY <1>1, <1>2, <1>4
<1>7. Begin(0) = 0
  BY <1>1, <1>2, <1>5
<1>8. Begin(v1) = v6
  BY <1>1, <1>2, <1>5
<1>9. ASSUME NEW j \in Nat
      PROVE  Sum!Size(j) \in Nat /\ Begin(j + 1) = Begin(j) + Sum!Size(j)
  <2> DEFINE x == j * q
             y == (j + 1) * q
  <2>1. x \in Nat /\ y = x + q
    BY <1>4
  <2>2. Begin(j) = x + (IF j < r THEN j ELSE r) /\ Begin(j + 1) = y + (IF j + 1 < r THEN j + 1 ELSE r)
    BY <1>2
  <2> HIDE DEF x, y
  <2> QED  BY <1>1, <1>3, <2>1, <2>2
<1> QED  BY <1>6, <1>7, <1>8, <1>9

\* What the loop over the blocks before block k computes.
LEMMA BlockBegins ==
  ASSUME SumTypes, NEW k \in Nat
  PROVE  Sum!Block(k) = Begin(k) .. Begin(k) + Sum!Size(k) - 1
<1> DEFINE Step(f) == [j \in 0 .. k |-> IF j = 0 THEN 0 ELSE f[j - 1] + Sum!Size(j - 1)]
           start == CHOOSE f : f = Step(f)
           b == [j \in 0 .. k |-> Begin(j)]
<1>1. b = Step(b)
  <2> SUFFICES ASSUME NEW j \in 0 .. k
               PROVE  b[j] = IF j = 0 THEN 0 ELSE b[j - 1] + Sum!Size(j - 1)
    OBVIOUS
  <2>1. CASE j = 0
    BY <2>1, BeginFacts
  <2>2. CASE j # 0
    <3>1. j - 1 \in Nat /\ j - 1 \in 0 .. k /\ (j - 1) + 1 = j
      BY <2>2
    <3>2. Begin((j - 1) + 1) = Begin(j - 1) + Sum!Size(j - 1)
      BY <3>1, BeginFacts
    <3> QED  BY <2>2, <3>1, <3>2
  <2> QED  BY <2>1, <2>2
<1>2. start = Step(start)
  BY <1>1, Zenon
<1>3. Sum!Block(k) = start[k] .. start[k] + Sum!Size(k) - 1
  BY DEF Sum!Block
<1> HIDE DEF start
<1>4. start[k] = Begin(k)
  <2> DEFINE S == {j \in Nat : j <= k => start[j] = Begin(j)}
  <2>1. 0 \in S
    BY <1>2, BeginFacts
  <2>2. ASSUME NEW j \in Nat, j \in S
        PROVE  j + 1 \in S
    <3> SUFFICES ASSUME j + 1 <= k
                 PROVE  start[j + 1] = Begin(j + 1)
      OBVIOUS
    <3>1. j + 1 \in 0 .. k /\ j + 1 # 0 /\ (j + 1) - 1 = j /\ start[j] = Begin(j)
      BY <2>2
    <3>2. start[j + 1] = start[j] + Sum!Size(j)
      BY <1>2, <3>1
    <3> QED  BY <3>1, <3>2, BeginFacts
  <2> HIDE DEF S
  <2>3. Nat \subseteq S
    BY <2>1, <2>2, Induction
  <2> QED  BY <2>3 DEF S
<1> QED  BY <1>3, <1>4

LEMMA BlockDivides ==
  ASSUME SumTypes
  PROVE  /\ \A k, l \in 0 .. v1 - 1 : \A i \in Sum!Block(k) \cap Sum!Block(l) : k = l
         /\ \A k \in 0 .. v1 - 1 : Sum!Block(k) \subseteq 0 .. v6 - 1
         /\ \A i \in 0 .. v6 - 1 : \E k \in 0 .. v1 - 1 : i \in Sum!Block(k)
<1> DEFINE b == [j \in 0 .. v1 |-> Begin(j)]
<1>1. v1 \in Nat /\ v1 > 0
  BY DEF SumTypes
<1>2. b \in [0 .. v1 -> Nat] /\ b[0] = 0 /\ b[v1] = v6
  BY <1>1, BeginFacts
<1>3. ASSUME NEW j \in 0 .. v1 - 1
      PROVE  b[j] <= b[j + 1] /\ Sum!Block(j) = b[j] .. b[j + 1] - 1
  <2>1. j \in Nat /\ j + 1 \in 0 .. v1 /\ j \in 0 .. v1
    BY <1>1
  <2>2. Begin(j) \in Nat /\ Sum!Size(j) \in Nat /\ Begin(j + 1) = Begin(j) + Sum!Size(j)
    BY <2>1, BeginFacts
  <2>3. Sum!Block(j) = Begin(j) .. Begin(j) + Sum!Size(j) - 1
    BY <2>1, BlockBegins
  <2> QED  BY <2>1, <2>2, <2>3
<1> HIDE DEF b
<1>4. /\ \A k, l \in 0 .. v1 - 1 :
            \A i \in (b[k] .. b[k + 1] - 1) \cap (b[l] .. b[l + 1] - 1) : k = l
      /\ \A i \in 0 .. b[v1] - 1 : \E k \in 0 .. v1 - 1 : i \in b[k] .. b[k + 1] - 1
      /\ \A k \in 0 .. v1 - 1 : b[k] .. b[k + 1] - 1 \subseteq 0 .. b[v1] - 1
  BY <1>1, <1>2, <1>3, Cuts
<1>5. ASSUME NEW k \in 0 .. v1 - 1, NEW l \in 0 .. v1 - 1, NEW i \in Sum!Block(k) \cap Sum!Block(l)
      PROVE  k = l
  <2>1. i \in (b[k] .. b[k + 1] - 1) \cap (b[l] .. b[l + 1] - 1)
    BY <1>3
  <2> QED  BY <1>4, <2>1
<1>6. ASSUME NEW k \in 0 .. v1 - 1
      PROVE  Sum!Block(k) \subseteq 0 .. v6 - 1
  <2>1. Sum!Block(k) = b[k] .. b[k + 1] - 1
    BY <1>3
  <2>2. b[k] .. b[k + 1] - 1 \subseteq 0 .. b[v1] - 1
    BY <1>4
  <2> QED  BY <1>2, <2>1, <2>2
<1>7. ASSUME NEW i \in 0 .. v6 - 1
      PROVE  \E k \in 0 .. v1 - 1 : i \in Sum!Block(k)
  <2>1. i \in 0 .. b[v1] - 1
    BY <1>2
  <2>2. PICK k \in 0 .. v1 - 1 : i \in b[k] .. b[k + 1] - 1
    BY <1>4, <2>1
  <2>3. i \in Sum!Block(k)
    BY <1>3, <2>2
  <2> QED  BY <2>3
<1> QED  BY <1>5, <1>6, <1>7

LEMMA SumPrograms ==
  Sum!Programs = {"matsko8", "shuvalov8s", "shuvalov9s", "roma2", "roma3", "shuvalov82",
                  "shuvalov83", "shuvalov8", "tamplon8", "arkhipov8", "muratov8",
                  "shunina8", "shinkevich8"}
BY DEF Sum!Programs, Sum!Mains

\* Every term that the program means to add belongs to exactly one thread.
LEMMA PartsDivide ==
  ASSUME SumTypes, program \in Sum!Programs
  PROVE  /\ \A k, l \in 0 .. v1 - 1 : \A i \in Sum!Part(k) \cap Sum!Part(l) : k = l
         /\ \A k \in 0 .. v1 - 1 : Sum!Part(k) \subseteq Sum!Wanted
         /\ \A i \in Sum!Wanted : \E k \in 0 .. v1 - 1 : i \in Sum!Part(k)
<1>1. CASE program \in {"matsko8", "shuvalov8s", "shuvalov9s", "tamplon8", "arkhipov8"}
  <2>1. \A k : Sum!Part(k) = Sum!Block(k)
    BY <1>1 DEF Sum!Part, Sum!CalcPartOfPi, Sum!shuvalov8sCalcPartOfPi,
       Sum!shuvalov9sCalcPartOfPi, Sum!calc_partial_sum, Sum!calculate_batch
  <2>2. Sum!Wanted = 0 .. v6 - 1
    BY <1>1 DEF Sum!Wanted
  <2> QED  BY <2>1, <2>2, BlockDivides
<1>2. CASE program \in {"muratov8", "shunina8"}
  <2>1. \A k : Sum!Part(k) = Sum!Slice(k)
    BY <1>2 DEF Sum!Part, Sum!partical_sum, Sum!shunina8Sum
  <2>2. Sum!Wanted = 0 .. v6 - 1
    BY <1>2 DEF Sum!Wanted
  <2> QED  BY <2>1, <2>2, SliceDivides
<1>3. CASE program \in {"roma2", "roma3", "shuvalov8", "shuvalov82", "shuvalov83"}
  <2>1. \A k : Sum!Part(k) = Sum!Strided(k)
    BY <1>3 DEF Sum!Part, Sum!roma2Part, Sum!roma3Part, Sum!shuvalov8Part,
       Sum!shuvalov82Part, Sum!shuvalov83Part
  <2>2. Sum!Wanted = 0 .. v1 * v6 - 1
    BY <1>3 DEF Sum!Wanted
  <2> QED  BY <2>1, <2>2, StridedDivides
<1>4. CASE program = "shinkevich8"
  <2>1. \A k : Sum!Part(k) = Sum!StridedBelow(k)
    BY <1>4 DEF Sum!Part, Sum!calcPartSum
  <2>2. Sum!Wanted = 0 .. v6 - 1
    BY <1>4 DEF Sum!Wanted
  <2> QED  BY <2>1, <2>2, StridedBelowDivides
<1> QED  BY <1>1, <1>2, <1>3, <1>4, SumPrograms

LEMMA BlockKept ==
  ASSUME UNCHANGED <<v1, v6>>, NEW k
  PROVE  Sum!Block(k)' = Sum!Block(k)
<1>1. v1' = v1 /\ v6' = v6
  OBVIOUS
<1> QED BY <1>1 DEF Sum!Block, Sum!Size
LEMMA PartKept ==
  ASSUME UNCHANGED <<program, v1, v6>>, NEW k
  PROVE  Sum!Part(k)' = Sum!Part(k)
<1>1. Sum!Block(k)' = Sum!Block(k)
  BY BlockKept
<1>2. Sum!Slice(k)' = Sum!Slice(k) /\ Sum!Strided(k)' = Sum!Strided(k)
      /\ Sum!StridedBelow(k)' = Sum!StridedBelow(k)
  BY DEF Sum!Slice, Sum!Strided, Sum!StridedBelow
<1> QED  BY <1>1, <1>2 DEF Sum!Part, Sum!CalcPartOfPi, Sum!shuvalov8sCalcPartOfPi,
       Sum!shuvalov9sCalcPartOfPi, Sum!calc_partial_sum, Sum!calculate_batch,
       Sum!partical_sum, Sum!shunina8Sum, Sum!roma2Part, Sum!roma3Part, Sum!shuvalov8Part,
       Sum!shuvalov82Part, Sum!shuvalov83Part, Sum!calcPartSum

-----------------------------------------------------------------------------
(***************************************************************************)
(* PiSum: v1 is n, v2 failed, v3 pc, v4 next, v5 part, v6 steps, v7 bytes  *)
(* and v8 sum.                                                             *)
(***************************************************************************)
MainOK ==
  /\ Sum!Main.start \in {"pipe", "barrier", "none"} /\ Sum!Main.worker \in BOOLEAN
  /\ Sum!Main.fails \in {"skip", "join", "stop", "exit", "leave"}
  /\ Sum!Main.worker => Sum!Main.start = "pipe"
  /\ Sum!Main.fails \in {"join", "stop", "exit"} \/ ~Sum!Main.clean => Sum!Main.start = "none"
  /\ Sum!Main.start = "barrier" => Sum!Main.fails = "leave"

LEMMA SumMain ==
  ASSUME program \in Sum!Programs
  PROVE  MainOK
<1>1. /\ Sum!Mains["matsko8"] = Sum!matsko8Main /\ Sum!Mains["shuvalov8s"] = Sum!shuvalov8sMain
      /\ Sum!Mains["shuvalov9s"] = Sum!shuvalov9sMain /\ Sum!Mains["roma2"] = Sum!roma2Main
      /\ Sum!Mains["roma3"] = Sum!roma3Main /\ Sum!Mains["shuvalov82"] = Sum!shuvalov82Main
      /\ Sum!Mains["shuvalov83"] = Sum!shuvalov83Main
      /\ Sum!Mains["shuvalov8"] = Sum!shuvalov8Main
      /\ Sum!Mains["tamplon8"] = Sum!tamplon8Main /\ Sum!Mains["arkhipov8"] = Sum!arkhipov8Main
      /\ Sum!Mains["muratov8"] = Sum!muratov8Main /\ Sum!Mains["shunina8"] = Sum!shunina8Main
      /\ Sum!Mains["shinkevich8"] = Sum!shinkevich8Main
  BY DEF Sum!Mains
<1>2. \/ Sum!Main = Sum!Pipe(TRUE, "skip") \/ Sum!Main = Sum!Pipe(FALSE, "leave")
      \/ Sum!Main = Sum!Barrier
      \/ \E f \in {"join", "stop", "exit", "leave"}, c \in BOOLEAN : Sum!Main = Sum!AtOnce(f, c)
  <2>1. CASE program \in {"matsko8", "shuvalov8s", "shuvalov9s"}
    BY <1>1, <2>1 DEF Sum!Main, Sum!matsko8Main, Sum!shuvalov8sMain, Sum!shuvalov9sMain
  <2>2. CASE program \in {"roma2", "shuvalov82", "roma3", "shuvalov83"}
    BY <1>1, <2>2 DEF Sum!Main, Sum!roma2Main, Sum!shuvalov82Main, Sum!roma3Main,
       Sum!shuvalov83Main
  <2>3. CASE program \in {"shuvalov8", "tamplon8", "arkhipov8"}
    BY <1>1, <2>3 DEF Sum!Main, Sum!shuvalov8Main, Sum!tamplon8Main, Sum!arkhipov8Main
  <2>4. CASE program \in {"muratov8", "shunina8", "shinkevich8"}
    BY <1>1, <2>4 DEF Sum!Main, Sum!muratov8Main, Sum!shunina8Main, Sum!shinkevich8Main
  <2> QED  BY <2>1, <2>2, <2>3, <2>4, SumPrograms
<1>3. ASSUME NEW f \in {"skip", "leave"}, NEW w \in BOOLEAN, Sum!Main = Sum!Pipe(w, f)
      PROVE  MainOK
  <2>1. /\ Sum!Main.start = "pipe" /\ Sum!Main.worker = w /\ Sum!Main.fails = f
        /\ Sum!Main.clean = TRUE
    BY <1>3 DEF Sum!Pipe
  <2> QED  BY <2>1 DEF MainOK
<1>4. CASE Sum!Main = Sum!Barrier
  BY <1>4 DEF MainOK, Sum!Barrier
<1>5. ASSUME NEW f \in {"join", "stop", "exit", "leave"}, NEW c \in BOOLEAN,
             Sum!Main = Sum!AtOnce(f, c)
      PROVE  MainOK
  <2>1. /\ Sum!Main.start = "none" /\ Sum!Main.worker = FALSE /\ Sum!Main.fails = f
        /\ Sum!Main.clean = c
    BY <1>5 DEF Sum!AtOnce
  <2> QED  BY <2>1 DEF MainOK
<1> QED  BY <1>2, <1>3, <1>4, <1>5

LEMMA SumCardinality == \A T : Sum!Cardinality(T) = Cardinality(T)
BY DEF Sum!Cardinality, Cardinality

SumTyped ==
  /\ program \in Sum!Programs
  /\ v1 \in 1 .. MAX_THREADS /\ v6 \in STEPS
  /\ v3 \in {"create", "join", "report", "exit", "hang", "undefined"}
  /\ v4 \in 0 .. v1
  /\ v2 \subseteq Sum!Workers
  /\ v5 \in [Sum!Workers -> {"none", "wait", "sum", "done"}]
  /\ v8 \in [0 .. Sum!MaxTerm -> Nat]

LEMMA WaitersBounded ==
  ASSUME SumConstants, NEW p
  PROVE  /\ IsFiniteSet({k \in Sum!Workers : p[k] = "wait"})
         /\ Sum!Cardinality({k \in Sum!Workers : p[k] = "wait"}) \in 0 .. MAX_THREADS
<1> DEFINE W == {k \in Sum!Workers : p[k] = "wait"}
<1>1. IsFiniteSet(Sum!Workers) /\ Cardinality(Sum!Workers) = MAX_THREADS
  BY FS_Interval DEF SumConstants, Sum!Workers
<1>2. /\ IsFiniteSet(W) /\ Cardinality(W) \in Nat /\ Cardinality(W) <= MAX_THREADS
  BY <1>1, FS_Subset, FS_CardinalityType
<1> HIDE DEF W
<1>3. Sum!Cardinality(W) \in 0 .. MAX_THREADS
  BY <1>2, SumCardinality DEF SumConstants
<1> QED  BY <1>2, <1>3 DEF W

\* bytes stay within bounds because there is one for every thread that waits.
LEMMA SumBytes ==
  ASSUME SumConstants
  PROVE  /\ SumTyped /\ Sum!BytesOK => Sum!TypeOK
         /\ SumTyped' /\ Sum!BytesOK' => Sum!TypeOK'
<1>1. Sum!Cardinality(Sum!Waiting) \in 0 .. MAX_THREADS
  BY WaitersBounded DEF Sum!Waiting
<1>2. Sum!Cardinality(Sum!Waiting)' \in 0 .. MAX_THREADS
  BY WaitersBounded DEF Sum!Waiting
<1>3. Sum!BytesOK => v7 \in 0 .. MAX_THREADS
  BY <1>1 DEF Sum!BytesOK, SumConstants
<1>4. Sum!BytesOK' => v7' \in 0 .. MAX_THREADS
  BY <1>2 DEF Sum!BytesOK, SumConstants
<1> QED  BY <1>3, <1>4 DEF SumTyped, Sum!TypeOK

LEMMA SumInit ==
  ASSUME SumConstants, Sum!Init
  PROVE  Sum!IInv
<1> USE DEF Sum!Init
<1>1. MainOK
  BY SumMain
<1>2. SumTyped
  BY <1>1 DEF SumTyped, SumConstants, MainOK
<1>3. Sum!BytesOK
  BY DEF Sum!BytesOK, Sum!Joining
<1>4. Sum!CreatedOK
  BY <1>1 DEF Sum!CreatedOK, Sum!Created, Sum!Joining, MainOK
<1>5. Sum!HeldBack
  BY DEF Sum!HeldBack, Sum!Created, Sum!Waiting
<1>6. Sum!SumOK
  BY DEF Sum!SumOK
<1> QED  BY <1>2, <1>3, <1>4, <1>5, <1>6, SumBytes DEF Sum!IInv

LEMMA SumCreates ==
  ASSUME SumConstants, Sum!IInv, Sum!pthread_create
  PROVE  Sum!IInv'
<1> USE DEF Sum!pthread_create
<1>1. MainOK /\ SumTyped /\ SumConstants
  BY SumMain DEF Sum!IInv, Sum!TypeOK, SumTyped
<1>2. v4 \in Sum!Workers /\ v4 + 1 \in 0 .. v1 /\ v4 \in Nat /\ v1 \in Nat
  BY <1>1 DEF SumTyped, Sum!Workers, SumConstants
<1>3. SumTyped'
  BY <1>1, <1>2 DEF SumTyped, Sum!Workers
<1>4. Sum!Main' = Sum!Main
  BY DEF Sum!Main
<1>5. Sum!BytesOK'
  <2>1. ~Sum!Joining /\ ~Sum!Joining'
    BY DEF Sum!Joining
  <2>2. v7 = 0 /\ v7' = v7
    BY <2>1 DEF Sum!IInv, Sum!BytesOK
  <2> QED  BY <2>1, <2>2 DEF Sum!BytesOK
<1>6. Sum!Created' = Sum!Created \cup {v4}
  BY <1>1, <1>2 DEF Sum!Created, SumTyped
<1>7. Sum!CreatedOK'
  <2>1. v3 = "create" /\ v3' = "create" /\ v4' = v4 + 1 /\ v2' = v2 /\ v1' = v1 /\ v4 < v1
    OBVIOUS
  <2>2. /\ \A k \in Sum!Created : k < v1 /\ k \notin v2 /\ k < v4
        /\ \A k \in v2 : k < v1 /\ k < v4
        /\ Sum!Main.worker => 0 \notin v2 /\ v4 > 0 /\ 0 \notin Sum!Created
        /\ v2 = {} => \A k \in 0 .. v4 - 1 : k \in Sum!Created \/ (Sum!Main.worker /\ k = 0)
    BY <2>1 DEF Sum!IInv, Sum!CreatedOK
  <2>3. v2 \subseteq Nat /\ Sum!Created \subseteq Nat /\ ~Sum!Joining'
    BY <1>1, <2>1 DEF SumTyped, Sum!Workers, Sum!Created, Sum!Joining
  <2>4. \A k \in Sum!Created' : k < v1 /\ k \notin v2 /\ k < v4 + 1
    BY <1>2, <1>6, <2>1, <2>2, <2>3
  <2>5. \A k \in v2 : k < v1 /\ k < v4 + 1
    BY <1>2, <2>2, <2>3
  <2>6. Sum!Main.worker => 0 \notin v2 /\ v4 + 1 > 0 /\ 0 \notin Sum!Created'
    BY <1>2, <1>6, <2>2
  <2>7. v2 = {} =>
          \A k \in 0 .. (v4 + 1) - 1 : k \in Sum!Created' \/ (Sum!Main.worker /\ k = 0)
    BY <1>2, <1>6, <2>2
  <2> QED  BY <1>4, <2>1, <2>3, <2>4, <2>5, <2>6, <2>7 DEF Sum!CreatedOK
<1>8. Sum!HeldBack'
  <2>1. Sum!Main.start # "none" => Sum!Waiting' = Sum!Waiting \cup {v4}
    BY <1>1, <1>2 DEF Sum!Waiting, SumTyped
  <2>2. Sum!Main.start = "none" => Sum!Waiting' = Sum!Waiting
    BY <1>1, <1>2 DEF Sum!Waiting, SumTyped, Sum!IInv, Sum!HeldBack
  <2> QED  BY <1>2, <1>4, <1>6, <2>1, <2>2 DEF Sum!IInv, Sum!HeldBack
<1>9. Sum!SumOK'
  BY DEF Sum!IInv, Sum!SumOK
<1> QED  BY <1>3, <1>5, <1>7, <1>8, <1>9, <1>1, SumBytes DEF Sum!IInv

LEMMA SumCreateFails ==
  ASSUME SumConstants, Sum!IInv, Sum!createFails
  PROVE  Sum!IInv'
<1> USE DEF Sum!createFails
<1>1. MainOK /\ SumTyped /\ SumConstants
  BY SumMain DEF Sum!IInv, Sum!TypeOK, SumTyped
<1>2. v4 \in Sum!Workers /\ v4 + 1 \in 0 .. v1 /\ v4 \in Nat /\ v1 \in Nat
  BY <1>1 DEF SumTyped, Sum!Workers, SumConstants
<1>3. /\ v3 = "create" /\ v4 < v1 /\ v2' = v2 \cup {v4}
      /\ UNCHANGED <<program, v1, v6, v5, v7, v8>>
      /\ \/ v3' = v3 /\ v4' \in {v4 + 1, v1}
         \/ v3' \in {"exit", "hang"} /\ v4' = v4
      /\ Sum!Main.start = "barrier" => v3' # "create"
  BY <1>1 DEF MainOK
<1>4. SumTyped'
  BY <1>1, <1>2, <1>3 DEF SumTyped, Sum!Workers
<1>5. Sum!Main' = Sum!Main /\ Sum!Created' = Sum!Created /\ Sum!Waiting' = Sum!Waiting
  BY DEF Sum!Main, Sum!Created, Sum!Waiting
<1>6. Sum!BytesOK'
  <2>1. ~Sum!Joining /\ ~Sum!Joining'
    BY <1>3 DEF Sum!Joining
  <2>2. v7 = 0 /\ v7' = v7
    BY <1>3, <2>1 DEF Sum!IInv, Sum!BytesOK
  <2> QED  BY <2>1, <2>2 DEF Sum!BytesOK
<1>7. Sum!CreatedOK'
  <2>1. /\ \A k \in Sum!Created : k < v1 /\ k \notin v2 /\ k < v4
        /\ \A k \in v2 : k < v1 /\ k < v4
        /\ Sum!Main.worker => 0 \notin v2 /\ v4 > 0 /\ 0 \notin Sum!Created
    BY <1>3 DEF Sum!IInv, Sum!CreatedOK
  <2>2. v2 \subseteq Nat /\ Sum!Created \subseteq Nat /\ ~Sum!Joining' /\ v2' # {}
    BY <1>1, <1>3 DEF SumTyped, Sum!Workers, Sum!Created, Sum!Joining
  <2>3. \A k \in Sum!Created : k < v1 /\ k \notin v2' /\ (v3' = "create" => k < v4')
    BY <1>2, <1>3, <2>1, <2>2
  <2>4. \A k \in v2' : k < v1 /\ (v3' = "create" => k < v4')
    BY <1>2, <1>3, <2>1, <2>2
  <2>5. Sum!Main.worker => 0 \notin v2'
    BY <1>2, <1>3, <2>1
  <2>6. Sum!Main.worker /\ v3' = "create" => v4' > 0 /\ 0 \notin Sum!Created
    BY <1>2, <1>3, <2>1
  <2> QED  BY <1>3, <1>5, <2>2, <2>3, <2>4, <2>5, <2>6 DEF Sum!CreatedOK
<1>8. Sum!HeldBack'
  BY <1>2, <1>3, <1>5 DEF Sum!IInv, Sum!HeldBack
<1>9. Sum!SumOK'
  BY <1>3 DEF Sum!IInv, Sum!SumOK
<1> QED  BY <1>4, <1>6, <1>7, <1>8, <1>9, <1>1, SumBytes DEF Sum!IInv

LEMMA SumNotifies ==
  ASSUME SumConstants, Sum!IInv, Sum!notify
  PROVE  Sum!IInv'
<1> USE DEF Sum!notify
<1>1. MainOK /\ SumTyped /\ SumConstants
  BY SumMain DEF Sum!IInv, Sum!TypeOK, SumTyped
<1>2. 0 \in Sum!Workers /\ v1 \in Nat /\ v1 > 0 /\ v4 = v1
  BY <1>1 DEF SumTyped, Sum!Workers, SumConstants
<1>3. SumTyped'
  BY <1>1, <1>2 DEF SumTyped
<1>4. Sum!Main' = Sum!Main /\ ~Sum!Joining /\ Sum!Joining'
  BY DEF Sum!Main, Sum!Joining
<1>5. CASE Sum!Main.worker
  <2>1. v5' = [v5 EXCEPT ![0] = "wait"] /\ Sum!Main.start = "pipe"
    BY <1>1, <1>5 DEF MainOK
  <2>2. 0 \notin Sum!Created /\ Sum!Created = Sum!Waiting /\ 0 \notin v2
    BY <1>1, <1>2, <1>5, <2>1 DEF Sum!IInv, Sum!CreatedOK, Sum!HeldBack
  <2>3. Sum!Created' = Sum!Created \cup {0} /\ Sum!Waiting' = Sum!Waiting \cup {0}
    BY <1>1, <1>2, <2>1 DEF Sum!Created, Sum!Waiting, SumTyped
  <2>4. Sum!BytesOK'
    <3>1. v7' = Sum!Cardinality(Sum!Created) + 1
      BY <1>5, <2>1
    <3>2. IsFiniteSet(Sum!Waiting)
      BY WaitersBounded DEF Sum!Waiting
    <3>3. Cardinality(Sum!Waiting \cup {0}) = Cardinality(Sum!Waiting) + 1
      BY <2>2, <3>2, FS_AddElement
    <3>4. Sum!Cardinality(Sum!Waiting') = Sum!Cardinality(Sum!Created) + 1
      BY <2>2, <2>3, <3>3, SumCardinality, Zenon
    <3> QED  BY <1>4, <2>1, <3>1, <3>4, Zenon DEF Sum!BytesOK
  <2>5. Sum!CreatedOK'
    BY <1>1, <1>2, <1>4, <1>5, <2>2, <2>3 DEF Sum!IInv, Sum!CreatedOK, Sum!Joining
  <2>6. Sum!HeldBack'
    BY <1>4, <2>1, Zenon DEF Sum!HeldBack
  <2>7. Sum!SumOK'
    BY <1>2 DEF Sum!IInv, Sum!SumOK, Sum!Created, Sum!Workers
  <2> QED  BY <1>1, <1>3, <2>4, <2>5, <2>6, <2>7, SumBytes DEF Sum!IInv
<1>6. CASE ~Sum!Main.worker
  <2>1. v5' = v5 /\ Sum!Created' = Sum!Created /\ Sum!Waiting' = Sum!Waiting
    BY <1>6 DEF Sum!Created, Sum!Waiting
  <2>2. Sum!BytesOK'
    <3>1. CASE Sum!Main.start = "pipe"
      <4>1. Sum!Created = Sum!Waiting
        BY <1>2, <3>1 DEF Sum!IInv, Sum!HeldBack
      <4>2. Sum!Cardinality(Sum!Created) \in Nat
        BY <4>1, WaitersBounded DEF Sum!Waiting, SumConstants
      <4>3. v7' = Sum!Cardinality(Sum!Created)
        BY <1>6, <3>1, <4>2
      <4> QED  BY <1>4, <2>1, <3>1, <4>1, <4>3, Zenon DEF Sum!BytesOK
    <3>2. CASE Sum!Main.start # "pipe"
      <4>1. v7' = 0
        BY <3>2
      <4> QED  BY <1>4, <3>2, <4>1, Zenon DEF Sum!BytesOK
    <3> QED  BY <3>1, <3>2
  <2>3. Sum!CreatedOK'
    BY <1>1, <1>2, <1>4, <1>6, <2>1 DEF Sum!IInv, Sum!CreatedOK, Sum!Joining
  <2>4. Sum!HeldBack'
    BY <1>4, <2>1 DEF Sum!IInv, Sum!HeldBack
  <2>5. Sum!SumOK'
    BY <1>2 DEF Sum!IInv, Sum!SumOK, Sum!Created, Sum!Workers
  <2> QED  BY <1>1, <1>3, <2>2, <2>3, <2>4, <2>5, SumBytes DEF Sum!IInv
<1> QED  BY <1>5, <1>6


\* What a step of a thread leaves alone.
LEMMA SumThread ==
  ASSUME SumConstants, Sum!IInv, UNCHANGED <<program, v1, v6, v3, v4, v2, v8>>,
         v5' \in [Sum!Workers -> {"none", "wait", "sum", "done"}],
         \A l \in Sum!Workers : /\ v5'[l] = "none" <=> v5[l] = "none"
                                /\ v5[l] = "done" => v5'[l] = "done"
  PROVE  SumTyped' /\ Sum!CreatedOK' /\ Sum!SumOK'
<1>1. SumTyped /\ SumTyped'
  BY DEF Sum!IInv, Sum!TypeOK, SumTyped
<1>2. /\ Sum!Main' = Sum!Main /\ Sum!Created' = Sum!Created
      /\ Sum!Joining' = Sum!Joining /\ Sum!MaxTerm' = Sum!MaxTerm
  BY DEF Sum!Main, Sum!Created, Sum!Joining, Sum!MaxTerm
<1>3. Sum!CreatedOK'
  BY <1>2, Zenon DEF Sum!IInv, Sum!CreatedOK
<1>4. Sum!SumOK'
  <2>1. \A k : Sum!Part(k)' = Sum!Part(k)
    BY PartKept
  <2>2. \A k \in Sum!Created : k \in Sum!Workers
    BY DEF Sum!Created
  <2> QED  BY <1>2, <2>1, <2>2 DEF Sum!IInv, Sum!SumOK
<1> QED  BY <1>1, <1>3, <1>4

\* All threads of a barrier are there: main has created the last of them.
LEMMA AllCreated ==
  ASSUME SumConstants, Sum!IInv, v3 = "create", Cardinality(Sum!Created) = v1
  PROVE  v4 = v1
<1>1. SumTyped
  BY DEF Sum!IInv, Sum!TypeOK, SumTyped
<1>2. Sum!Created \subseteq 0 .. v4 - 1
  BY <1>1 DEF Sum!IInv, Sum!CreatedOK, Sum!Created, Sum!Workers, SumTyped
<1>3. v4 \in Nat /\ v1 \in Nat /\ v4 <= v1
  BY <1>1 DEF SumTyped, SumConstants
<1>4. IsFiniteSet(0 .. v4 - 1) /\ Cardinality(0 .. v4 - 1) = v4
  BY <1>3, FS_Interval
<1>5. Cardinality(Sum!Created) <= v4
  BY <1>2, <1>4, FS_Subset
<1> QED  BY <1>3, <1>5

LEMMA SumStarts ==
  ASSUME SumConstants, Sum!IInv, NEW k \in Sum!Workers, Sum!Started(k)
  PROVE  Sum!IInv'
<1>1. MainOK /\ SumTyped /\ SumConstants /\ Sum!BytesOK /\ Sum!HeldBack
  BY SumMain DEF Sum!IInv, Sum!TypeOK, SumTyped
<1>2. Sum!Main' = Sum!Main /\ Sum!Joining' = Sum!Joining /\ v5[k] = "wait"
  BY DEF Sum!Started, Sum!Main, Sum!Joining
<1>3. Sum!Main.start \in {"pipe", "barrier"}
  <2>1. k \in Sum!Waiting
    BY <1>2 DEF Sum!Waiting
  <2> QED  BY <1>1, <2>1 DEF Sum!HeldBack, MainOK
<1>4. UNCHANGED <<program, v1, v6, v3, v4, v2, v8>>
  BY DEF Sum!Started
<1>5. CASE Sum!Main.start = "pipe"
  <2>1. v7 > 0 /\ v7' = v7 - 1 /\ v5' = [v5 EXCEPT ![k] = "sum"]
    BY <1>5 DEF Sum!Started
  <2>2. SumTyped' /\ Sum!CreatedOK' /\ Sum!SumOK'
    BY <1>1, <1>2, <1>4, <2>1, SumThread DEF SumTyped
  <2>3. Sum!Joining /\ v3 # "create"
    BY <1>1, <1>5, <2>1 DEF Sum!BytesOK, Sum!Joining
  <2>4. Sum!BytesOK'
    <3>1. Sum!Waiting' = Sum!Waiting \ {k} /\ k \in Sum!Waiting
      BY <1>1, <1>2, <2>1 DEF Sum!Waiting, SumTyped
    <3>2. IsFiniteSet(Sum!Waiting)
      BY WaitersBounded DEF Sum!Waiting
    <3>3. Cardinality(Sum!Waiting \ {k}) = Cardinality(Sum!Waiting) - 1
      BY <3>1, <3>2, FS_RemoveElement
    <3>4. v7 = Sum!Cardinality(Sum!Waiting)
      BY <1>1, <1>5, <2>3 DEF Sum!BytesOK
    <3>5. v7' = Sum!Cardinality(Sum!Waiting')
      BY <2>1, <3>1, <3>3, <3>4, SumCardinality
    <3> QED  BY <1>2, <1>5, <2>3, <3>5, Zenon DEF Sum!BytesOK
  <2>5. Sum!HeldBack'
    BY <1>2, <1>4, <1>5, <2>3 DEF Sum!HeldBack
  <2> QED  BY <1>1, <2>2, <2>4, <2>5, SumBytes DEF Sum!IInv
<1>6. CASE Sum!Main.start = "barrier"
  <2>1. /\ Sum!Cardinality(Sum!Created) = v1 /\ v7' = v7
        /\ v5' = [l \in Sum!Workers |-> IF v5[l] = "wait" THEN "sum" ELSE v5[l]]
    BY <1>6 DEF Sum!Started
  <2>2. SumTyped' /\ Sum!CreatedOK' /\ Sum!SumOK'
    <3>1. v5' \in [Sum!Workers -> {"none", "wait", "sum", "done"}]
      BY <1>1, <2>1 DEF SumTyped
    <3>2. \A l \in Sum!Workers : /\ v5'[l] = "none" <=> v5[l] = "none"
                                 /\ v5[l] = "done" => v5'[l] = "done"
      BY <2>1
    <3> QED  BY <1>4, <3>1, <3>2, SumThread
  <2>3. Sum!BytesOK'
    BY <1>1, <1>2, <1>6, <2>1 DEF Sum!BytesOK
  <2>4. v3 = "create" => v4 = v1
    BY <2>1, SumCardinality, AllCreated
  <2>5. Sum!HeldBack'
    <3>1. v3' = "create" => ~(v4' < v1')
      BY <1>1, <1>4, <2>4 DEF SumTyped, SumConstants
    <3> QED  BY <1>2, <1>6, <3>1 DEF Sum!HeldBack
  <2> QED  BY <1>1, <2>2, <2>3, <2>5, SumBytes DEF Sum!IInv
<1> QED  BY <1>3, <1>5, <1>6

LEMMA SumSums ==
  ASSUME SumConstants, Sum!IInv, NEW k \in Sum!Workers, Sum!Summed(k)
  PROVE  Sum!IInv'
<1> USE DEF Sum!Summed
<1>1. SumTyped /\ SumConstants /\ Sum!BytesOK /\ Sum!HeldBack /\ Sum!CreatedOK
  BY DEF Sum!IInv, Sum!TypeOK, SumTyped
<1>2. /\ Sum!Main' = Sum!Main /\ Sum!Joining' = Sum!Joining
      /\ v5[k] = "sum" /\ v5' = [v5 EXCEPT ![k] = "done"]
      /\ UNCHANGED <<program, v1, v6, v3, v4, v2, v8>>
  BY DEF Sum!Main, Sum!Joining
<1>3. SumTyped' /\ Sum!CreatedOK' /\ Sum!SumOK'
  BY <1>1, <1>2, SumThread DEF SumTyped
<1>4. Sum!Waiting' = Sum!Waiting /\ Sum!Created' = Sum!Created
  BY <1>1, <1>2 DEF Sum!Waiting, Sum!Created, SumTyped
<1>5. Sum!BytesOK' /\ Sum!HeldBack'
  BY <1>1, <1>2, <1>4 DEF Sum!BytesOK, Sum!HeldBack
<1> QED  BY <1>1, <1>3, <1>5, SumBytes DEF Sum!IInv

LEMMA SumJoins ==
  ASSUME SumConstants, Sum!IInv, Sum!pthread_join
  PROVE  Sum!IInv'
<1> USE DEF Sum!pthread_join
<1>1. /\ MainOK /\ SumTyped /\ SumConstants /\ Sum!BytesOK /\ Sum!HeldBack /\ Sum!CreatedOK
      /\ Sum!SumOK
  BY SumMain DEF Sum!IInv, Sum!TypeOK, SumTyped
<1>2. /\ v3 = "join" /\ v3' \in {"join", "undefined"} /\ v4' = v4 + 1 /\ v4 < v1
      /\ UNCHANGED <<program, v1, v6, v2, v5, v7>>
  <2>1. Sum!Main.clean => {v3} = IF Sum!Main.clean THEN {v3} ELSE {v3, "undefined"}
    OBVIOUS
  <2> QED  OBVIOUS
<1>3. v4 \in Sum!Workers /\ v4 + 1 \in 0 .. v1 /\ v4 \in 0 .. v1 - 1
  BY <1>1, <1>2 DEF SumTyped, Sum!Workers, SumConstants
<1>4. /\ Sum!Main' = Sum!Main /\ Sum!Created' = Sum!Created /\ Sum!Waiting' = Sum!Waiting
      /\ Sum!Joining /\ Sum!Joining' /\ Sum!MaxTerm' = Sum!MaxTerm
  BY <1>2 DEF Sum!Main, Sum!Created, Sum!Waiting, Sum!Joining, Sum!MaxTerm
<1>5. Sum!BytesOK' /\ Sum!HeldBack' /\ Sum!CreatedOK'
  <2>1. Sum!BytesOK'
    BY <1>1, <1>2, <1>4, Zenon DEF Sum!BytesOK
  <2>2. Sum!HeldBack'
    BY <1>1, <1>2, <1>4 DEF Sum!HeldBack
  <2>3. Sum!CreatedOK'
    BY <1>1, <1>2, <1>4 DEF Sum!CreatedOK
  <2> QED  BY <2>1, <2>2, <2>3
<1>6. SumTypes /\ program \in Sum!Programs /\ Sum!Created \subseteq 0 .. v1 - 1
  <2>1. SumTypes /\ program \in Sum!Programs
    BY <1>1 DEF SumTyped, SumTypes, SumConstants
  <2>2. ASSUME NEW k \in Sum!Created
        PROVE  k \in 0 .. v1 - 1
    <3>1. k \in Nat /\ k < v1
      BY <1>1 DEF Sum!CreatedOK, Sum!Created, Sum!Workers
    <3> QED  BY <1>1, <3>1 DEF SumTyped, SumConstants
  <2> QED  BY <2>1, <2>2
<1>7. \A k : Sum!Part(k)' = Sum!Part(k)
  BY <1>2, PartKept
<1>8. CASE v4 \in v2 \/ v5[v4] = "none"
  <2>1. v8' = v8
    BY <1>8
  <2>2. v4 \notin Sum!Created
    BY <1>1, <1>8 DEF Sum!Created, Sum!CreatedOK
  <2>3. \A k \in Sum!Created : k < v4 + 1 <=> k < v4
    BY <1>3, <1>6, <2>2
  <2>4. Sum!SumOK'
    BY <1>1, <1>2, <1>4, <1>7, <2>1, <2>3 DEF Sum!SumOK
  <2>5. SumTyped'
    BY <1>1, <1>2, <1>3, <2>1 DEF SumTyped
  <2> QED  BY <1>1, <1>5, <2>4, <2>5, SumBytes DEF Sum!IInv
<1>9. CASE ~(v4 \in v2 \/ v5[v4] = "none")
  <2>1. v5[v4] = "done" /\ v4 \in Sum!Created
        /\ v8' = [i \in DOMAIN v8 |-> IF i \in Sum!Part(v4) THEN v8[i] + 1 ELSE v8[i]]
    BY <1>3, <1>9 DEF Sum!Created
  <2>2. SumTyped'
    BY <1>1, <1>2, <1>3, <2>1 DEF SumTyped
  <2>3. \A k \in Sum!Created : k < v4 + 1 => k < v4 \/ k = v4
    BY <1>3, <1>6
  <2>4. ASSUME NEW i \in 0 .. Sum!MaxTerm
        PROVE  v8'[i] = IF \E k \in Sum!Created : k < v4 + 1 /\ i \in Sum!Part(k)
                        THEN 1 ELSE 0
    <3>1. v8[i] = IF \E k \in Sum!Created : k < v4 /\ i \in Sum!Part(k) THEN 1 ELSE 0
      BY <1>1, <1>2 DEF Sum!SumOK
    <3>2. v8'[i] = IF i \in Sum!Part(v4) THEN v8[i] + 1 ELSE v8[i]
      BY <1>1, <2>1 DEF SumTyped
    <3>3. CASE i \in Sum!Part(v4)
      <4>1. \A k \in Sum!Created : k < v4 => i \notin Sum!Part(k)
        BY <1>3, <1>6, <3>3, PartsDivide
      <4>2. v4 < v4 + 1
        BY <1>3
      <4> QED  BY <2>1, <3>1, <3>2, <3>3, <4>1, <4>2
    <3>4. CASE i \notin Sum!Part(v4)
      <4>1. \A k \in Sum!Created : k < v4 => k < v4 + 1
        BY <1>3, <1>6
      <4>2. v8'[i] = v8[i]
        BY <3>2, <3>4
      <4> QED  BY <2>3, <3>1, <3>4, <4>1, <4>2
    <3> QED  BY <3>3, <3>4
  <2>5. Sum!SumOK'
    BY <1>1, <1>2, <1>4, <1>7, <2>1, <2>3, <2>4 DEF Sum!SumOK
  <2> QED  BY <1>1, <1>5, <2>2, <2>5, SumBytes DEF Sum!IInv
<1> QED  BY <1>8, <1>9

LEMMA SumReports ==
  ASSUME SumConstants, Sum!IInv, Sum!report
  PROVE  Sum!IInv'
<1> USE DEF Sum!report
<1>1. SumTyped /\ Sum!BytesOK /\ Sum!HeldBack /\ Sum!CreatedOK /\ Sum!SumOK
  BY DEF Sum!IInv, Sum!TypeOK, SumTyped
<1>2. /\ Sum!Main' = Sum!Main /\ Sum!Created' = Sum!Created /\ Sum!Waiting' = Sum!Waiting
      /\ Sum!Joining /\ Sum!Joining' /\ Sum!MaxTerm' = Sum!MaxTerm
  BY DEF Sum!Main, Sum!Created, Sum!Waiting, Sum!Joining, Sum!MaxTerm
<1>3. \A k : Sum!Part(k)' = Sum!Part(k)
  BY PartKept
<1>4. SumTyped'
  BY <1>1 DEF SumTyped
<1>5. Sum!BytesOK'
  BY <1>1, <1>2, Zenon DEF Sum!BytesOK
<1>6. Sum!HeldBack'
  BY <1>1, <1>2 DEF Sum!HeldBack
<1>7. Sum!CreatedOK'
  BY <1>1, <1>2 DEF Sum!CreatedOK
<1>8. Sum!SumOK'
  BY <1>1, <1>2, <1>3 DEF Sum!SumOK
<1> QED  BY <1>4, <1>5, <1>6, <1>7, <1>8, SumBytes DEF Sum!IInv

LEMMA SumStutters ==
  ASSUME SumConstants, Sum!IInv, UNCHANGED Sum!vars
  PROVE  Sum!IInv'
<1>1. SumTyped /\ Sum!BytesOK /\ Sum!HeldBack /\ UNCHANGED <<program, v1, v6, v3, v4, v2, v8>>
      /\ v5' = v5 /\ v7' = v7
  BY DEF Sum!IInv, Sum!TypeOK, SumTyped, Sum!vars
<1>2. SumTyped' /\ Sum!CreatedOK' /\ Sum!SumOK'
  BY <1>1, SumThread DEF SumTyped
<1>3. Sum!BytesOK' /\ Sum!HeldBack'
  BY <1>1 DEF Sum!BytesOK, Sum!HeldBack, Sum!Main, Sum!Waiting, Sum!Created, Sum!Joining
<1> QED  BY <1>2, <1>3, SumBytes DEF Sum!IInv

LEMMA SumNext ==
  ASSUME SumConstants, Sum!IInv, [Sum!Next]_Sum!vars
  PROVE  Sum!IInv'
BY SumCreates, SumCreateFails, SumNotifies, SumStarts, SumSums, SumJoins, SumReports,
   SumStutters DEF Sum!Next

LEMMA SumSafe ==
  ASSUME SumConstants, Sum!IInv
  PROVE  Sum!StartTogether /\ Sum!TermsOnce
<1>1. /\ MainOK /\ SumTyped /\ SumConstants /\ Sum!BytesOK /\ Sum!HeldBack /\ Sum!CreatedOK
      /\ Sum!SumOK
  BY SumMain DEF Sum!IInv, Sum!TypeOK, SumTyped
<1>2. ASSUME NEW k \in Sum!Created
      PROVE  k \in 0 .. v1 - 1
  <2>1. k \in Nat /\ k < v1
    BY <1>1 DEF Sum!CreatedOK, Sum!Created, Sum!Workers
  <2> QED  BY <1>1, <2>1 DEF SumTyped, SumConstants
<1>3. v3 = "report" => v4 = v1 /\ \A k \in Sum!Created : v5[k] = "done"
  BY <1>1, <1>2 DEF Sum!SumOK, SumTyped, SumConstants
<1>4. Sum!StartTogether
  <2>1. ASSUME Sum!Main.start # "none", v3 = "create", v4 < v1, NEW k \in Sum!Workers
        PROVE  v5[k] \notin {"sum", "done"}
    <3>1. Sum!Created = Sum!Waiting
      BY <1>1, <2>1 DEF Sum!HeldBack, MainOK
    <3> QED  BY <3>1 DEF Sum!Created, Sum!Waiting
  <2>2. ASSUME v3 = "report"
        PROVE  v7 = 0
    <3>1. Sum!Waiting = {}
      <4>1. Sum!Waiting \subseteq Sum!Created
        BY DEF Sum!Created, Sum!Waiting
      <4> QED  BY <1>3, <2>2, <4>1 DEF Sum!Waiting
    <3>2. Sum!Cardinality(Sum!Waiting) = 0
      BY <3>1, SumCardinality, FS_EmptySet
    <3> QED  BY <1>1, <3>2 DEF Sum!BytesOK
  <2> QED  BY <2>1, <2>2 DEF Sum!StartTogether
<1>5. ASSUME v3 = "report", NEW i \in 0 .. Sum!MaxTerm
      PROVE  /\ v8[i] = Sum!Cardinality({k \in Sum!Created : i \in Sum!Part(k)}) /\ v8[i] <= 1
             /\ v2 = {} => v8[i] = IF i \in Sum!Wanted THEN 1 ELSE 0
  <2> DEFINE P == {k \in Sum!Created : i \in Sum!Part(k)}
  <2>1. SumTypes /\ program \in Sum!Programs
    BY <1>1 DEF SumTyped, SumTypes, SumConstants
  <2>2. \A k \in Sum!Created : k < v4
    BY <1>1, <1>2, <1>3, <1>5 DEF SumTyped, SumConstants
  <2>3. v8[i] = IF P # {} THEN 1 ELSE 0
    BY <1>1, <1>5, <2>2 DEF Sum!SumOK
  <2>4. \A k, l \in P : k = l
    BY <1>2, <2>1, PartsDivide
  <2>5. Cardinality(P) = IF P # {} THEN 1 ELSE 0
    <3>1. CASE P = {}
      BY <3>1, FS_EmptySet
    <3>2. CASE P # {}
      <4>1. PICK k \in P : TRUE
        BY <3>2
      <4>2. P = {k}
        BY <2>4, <4>1
      <4> QED  BY <3>2, <4>2, FS_Singleton
    <3> QED  BY <3>1, <3>2
  <2>6. Sum!Cardinality(P) = v8[i]
    BY <2>3, <2>5, SumCardinality
  <2>7. ASSUME v2 = {}
        PROVE  P # {} <=> i \in Sum!Wanted
    <3>1. \A k \in 0 .. v1 - 1 : k \in Sum!Created
      BY <1>1, <1>5, <2>7 DEF Sum!CreatedOK, Sum!Joining
    <3> QED  BY <1>2, <2>1, <3>1, PartsDivide
  <2> QED  BY <2>3, <2>6, <2>7
<1>6. Sum!TermsOnce
  <2>1. DOMAIN v8 = 0 .. Sum!MaxTerm
    BY <1>1 DEF SumTyped
  <2> QED  BY <1>5, <2>1, Zenon DEF Sum!TermsOnce
<1> QED  BY <1>4, <1>6

-----------------------------------------------------------------------------
(***************************************************************************)
(* SortedList: lines out of order.                                         *)
(***************************************************************************)
LEMMA ListsCardinality == \A T : Lists!Cardinality(T) = Cardinality(T)
BY DEF Lists!Cardinality, Cardinality

\* The places where a line is.
Spots(s, v) == {n \in DOMAIN s : s[n] = v}

\* An exchange of i and i + 1, of places or of numbers.
Turned(i, n) == IF n = i THEN i + 1 ELSE IF n = i + 1 THEN i ELSE n

LEMMA SwapTurns ==
  ASSUME NEW V, NEW s \in Seq(V), NEW i \in Nat, i > 0, i < Len(s)
  PROVE  /\ Lists!Swap(s, i, i + 1) \in Seq(V)
         /\ Len(Lists!Swap(s, i, i + 1)) = Len(s)
         /\ \A n \in 1 .. Len(s) : /\ Turned(i, n) \in 1 .. Len(s)
                                   /\ Turned(i, Turned(i, n)) = n
                                   /\ Lists!Swap(s, i, i + 1)[n] = s[Turned(i, n)]
         /\ Lists!Swap(s, i + 1, i) = Lists!Swap(s, i, i + 1)
<1>1. i \in DOMAIN s /\ i + 1 \in DOMAIN s /\ DOMAIN s = 1 .. Len(s)
  OBVIOUS
<1>2. /\ Lists!Swap(s, i, i + 1) = [[s EXCEPT ![i] = s[i + 1]] EXCEPT ![i + 1] = s[i]]
      /\ Lists!Swap(s, i + 1, i) = [[s EXCEPT ![i + 1] = s[i]] EXCEPT ![i] = s[i + 1]]
  BY DEF Lists!Swap
<1> DEFINE t == [[s EXCEPT ![i] = s[i + 1]] EXCEPT ![i + 1] = s[i]]
<1>3. t \in Seq(V) /\ Len(t) = Len(s) /\ DOMAIN t = DOMAIN s
  BY <1>1
<1>4. [[s EXCEPT ![i + 1] = s[i]] EXCEPT ![i] = s[i + 1]] = t
  BY <1>1
<1>5. ASSUME NEW n \in 1 .. Len(s)
      PROVE  /\ Turned(i, n) \in 1 .. Len(s) /\ Turned(i, Turned(i, n)) = n
             /\ t[n] = s[Turned(i, n)]
  <2>1. Turned(i, n) \in 1 .. Len(s) /\ Turned(i, Turned(i, n)) = n
    BY DEF Turned
  <2>2. t[n] = s[Turned(i, n)]
    BY <1>1 DEF Turned
  <2> QED  BY <2>1, <2>2
<1> HIDE DEF t
<1>6. Lists!Swap(s, i, i + 1) = t /\ Lists!Swap(s, i + 1, i) = t
  BY <1>2, <1>4 DEF t
<1> QED  BY <1>3, <1>5, <1>6

LEMMA LinesSwapped ==
  ASSUME NEW V, NEW s \in Seq(V), NEW i \in Nat, i > 0, i < Len(s), NEW v
  PROVE  Cardinality(Spots(Lists!Swap(s, i, i + 1), v)) = Cardinality(Spots(s, v))
<1> DEFINE t == Lists!Swap(s, i, i + 1)
           S == Spots(s, v)
           T == Spots(t, v)
           f == [n \in S |-> Turned(i, n)]
<1>1. /\ t \in Seq(V) /\ Len(t) = Len(s) /\ DOMAIN t = 1 .. Len(s) /\ DOMAIN s = 1 .. Len(s)
      /\ \A n \in 1 .. Len(s) : /\ Turned(i, n) \in 1 .. Len(s)
                                /\ Turned(i, Turned(i, n)) = n
                                /\ t[n] = s[Turned(i, n)]
  BY SwapTurns
<1> HIDE DEF t
<1>2. IsFiniteSet(S)
  <2>1. IsFiniteSet(1 .. Len(s)) /\ S \in SUBSET (1 .. Len(s))
    BY <1>1, FS_Interval DEF Spots
  <2> QED  BY <2>1, FS_Subset
<1>3. \A n \in S : n \in 1 .. Len(s) /\ s[n] = v
  BY <1>1 DEF Spots
<1>4. \A n \in S : Turned(i, n) \in T
  BY <1>1, <1>3 DEF Spots
<1>5. \A n \in T : Turned(i, n) \in S /\ Turned(i, Turned(i, n)) = n
  BY <1>1 DEF Spots
<1>6. \A n \in S : Turned(i, Turned(i, n)) = n
  BY <1>1, <1>3
<1> HIDE DEF S, T
<1>7. f \in Bijection(S, T)
  <2>1. f \in [S -> T]
    BY <1>4
  <2>2. \A a, b \in S : f[a] = f[b] => a = b
    BY <1>6
  <2>3. \A b \in T : \E a \in S : f[a] = b
    BY <1>5
  <2> QED  BY <2>1, <2>2, <2>3 DEF Bijection, Injection, Surjection, IsInjective
<1>8. Cardinality(T) = Cardinality(S)
  BY <1>2, <1>7, FS_Bijection DEF ExistsBijection
<1> QED  BY <1>8 DEF S, T, t

LEMMA LineAppended ==
  ASSUME NEW V, NEW s \in Seq(V), NEW x \in V, NEW v
  PROVE  /\ Cardinality(Spots(s, v)) \in Nat
         /\ Cardinality(Spots(Append(s, x), v))
              = Cardinality(Spots(s, v)) + IF x = v THEN 1 ELSE 0
<1> DEFINE t == Append(s, x)
           n == Len(s) + 1
<1>1. /\ Len(s) \in Nat /\ DOMAIN s = 1 .. Len(s) /\ DOMAIN t = 1 .. n /\ t[n] = x
      /\ \A k \in 1 .. Len(s) : t[k] = s[k]
  OBVIOUS
<1>2. IsFiniteSet(Spots(s, v))
  <2>1. IsFiniteSet(1 .. Len(s)) /\ Spots(s, v) \in SUBSET (1 .. Len(s))
    BY <1>1, FS_Interval DEF Spots
  <2> QED  BY <2>1, FS_Subset
<1>3. Cardinality(Spots(s, v)) \in Nat
  BY <1>2, FS_CardinalityType
<1>4. n \notin Spots(s, v) /\ 1 .. n = (1 .. Len(s)) \cup {n}
  BY <1>1 DEF Spots
<1>5. Spots(t, v) = IF x = v THEN Spots(s, v) \cup {n} ELSE Spots(s, v)
  <2> HIDE DEF t, n
  <2> QED  BY <1>1, <1>4 DEF Spots
<1> HIDE DEF n, t
<1>6. Cardinality(Spots(s, v) \cup {n}) = Cardinality(Spots(s, v)) + 1
  BY <1>2, <1>4, FS_AddElement
<1>7. Cardinality(Spots(t, v)) = Cardinality(Spots(s, v)) + IF x = v THEN 1 ELSE 0
  BY <1>3, <1>5, <1>6
<1> QED  BY <1>3, <1>7 DEF t

\* An exchange of neighbours that are out of order takes one pair out of the set.
LEMMA SwapsSort ==
  ASSUME NEW V \in SUBSET Int, NEW s \in Seq(V), NEW i \in Nat, i > 0, i < Len(s),
         ~Lists!InOrder(s, i, i + 1)
  PROVE  Cardinality(Lists!Inversions(Lists!Swap(s, i, i + 1)))
           < Cardinality(Lists!Inversions(s))
<1> DEFINE t == Lists!Swap(s, i, i + 1)
           S == Lists!Inversions(s)
           T == Lists!Inversions(t)
           R == S \ {<<i, i + 1>>}
           f == [p \in T |-> <<Turned(i, p[1]), Turned(i, p[2])>>]
           D == 1 .. Len(s)
<1>1. /\ t \in Seq(V) /\ Len(t) = Len(s) /\ DOMAIN t = D /\ DOMAIN s = D
      /\ \A n \in D : /\ Turned(i, n) \in D
                      /\ Turned(i, Turned(i, n)) = n
                      /\ t[n] = s[Turned(i, n)]
  BY SwapTurns
<1> HIDE DEF t
<1>2. IsFiniteSet(S) /\ IsFiniteSet(R) /\ Cardinality(S) \in Nat
      /\ Cardinality(R) = Cardinality(S) - 1
  <2>1. IsFiniteSet(D)
    BY FS_Interval
  <2>2. IsFiniteSet(D \X D) /\ S \in SUBSET (D \X D)
    BY <1>1, <2>1, FS_Product DEF Lists!Inversions
  <2>3. IsFiniteSet(S)
    BY <2>2, FS_Subset
  <2>4. <<i, i + 1>> \in S
    BY <1>1 DEF Lists!Inversions
  <2> HIDE DEF S
  <2> QED  BY <2>3, <2>4, FS_RemoveElement, FS_CardinalityType
<1>3. \A n \in D : s[n] \in Int /\ t[n] \in Int
  <2>1. \A n \in D : s[n] \in V
    OBVIOUS
  <2>2. \A n \in D : s[n] \in Int
    BY <2>1, Zenon
  <2> HIDE DEF D
  <2> QED  BY <1>1, <2>2, Zenon
<1>4. ASSUME NEW p \in T
      PROVE  /\ p = <<p[1], p[2]>> /\ p[1] \in D /\ p[2] \in D
             /\ <<Turned(i, p[1]), Turned(i, p[2])>> \in R
  <2>1. /\ p = <<p[1], p[2]>> /\ p[1] \in D /\ p[2] \in D /\ p[1] < p[2]
        /\ ~Lists!InOrder(t, p[1], p[2])
    <3>1. p \in D \X D /\ p[1] < p[2] /\ ~Lists!InOrder(t, p[1], p[2])
      BY <1>1 DEF Lists!Inversions
    <3> QED  BY <3>1
  <2>2. ~(p[1] = i /\ p[2] = i + 1)
    <3> SUFFICES ASSUME p[1] = i, p[2] = i + 1  PROVE  FALSE
      OBVIOUS
    <3>1. t[i] = s[i + 1] /\ t[i + 1] = s[i] /\ i \in D /\ i + 1 \in D
      BY <1>1, <2>1 DEF Turned
    <3>2. s[i] \in Int /\ s[i + 1] \in Int
      BY <1>3, <3>1
    <3> QED  BY <2>1, <3>1, <3>2 DEF Lists!InOrder
  <2>3. Turned(i, p[1]) < Turned(i, p[2])
    BY <2>1, <2>2 DEF Turned
  <2>4. /\ Turned(i, p[1]) \in D /\ Turned(i, p[2]) \in D
        /\ ~Lists!InOrder(s, Turned(i, p[1]), Turned(i, p[2]))
    BY <1>1, <2>1 DEF Lists!InOrder
  <2>5. <<Turned(i, p[1]), Turned(i, p[2])>> \in S
    BY <1>1, <2>3, <2>4 DEF Lists!Inversions
  <2>6. <<Turned(i, p[1]), Turned(i, p[2])>> # <<i, i + 1>>
    BY <2>1, <2>2 DEF Turned
  <2> QED  BY <2>1, <2>5, <2>6
<1> HIDE DEF S, T
<1>5. f \in Injection(T, R)
  <2> HIDE DEF R
  <2>1. f \in [T -> R]
    BY <1>4
  <2>2. ASSUME NEW p \in T, NEW q \in T, f[p] = f[q]
        PROVE  p = q
    <3>1. Turned(i, p[1]) = Turned(i, q[1]) /\ Turned(i, p[2]) = Turned(i, q[2])
      BY <2>2
    <3>2. p[1] = Turned(i, Turned(i, p[1])) /\ p[2] = Turned(i, Turned(i, p[2]))
      BY <1>1, <1>4
    <3>3. q[1] = Turned(i, Turned(i, q[1])) /\ q[2] = Turned(i, Turned(i, q[2]))
      BY <1>1, <1>4
    <3>4. p[1] = q[1] /\ p[2] = q[2]
      BY <3>1, <3>2, <3>3
    <3>5. p = <<p[1], p[2]>> /\ q = <<q[1], q[2]>>
      BY <1>4
    <3> QED  BY <3>4, <3>5, Zenon
  <2> QED  BY <2>1, <2>2 DEF Injection, IsInjective
<1>6. Cardinality(T) <= Cardinality(R) /\ IsFiniteSet(T)
  <2> HIDE DEF R, f
  <2> QED  BY <1>2, <1>5, FS_Injection
<1>7. Cardinality(T) \in Nat
  BY <1>6, FS_CardinalityType
<1> QED  BY <1>2, <1>6, <1>7 DEF S, T, t

-----------------------------------------------------------------------------
(***************************************************************************)
(* SortedList: the walks of the sorters with one mutex.                    *)
(***************************************************************************)
Rows(V, n) == {s \in Seq(V) : Len(s) = n}

\* The histories of a loop of n rounds that begins with x and whose round i is the
\* function G[i].  There is one, so that a recursive function of the model has the
\* values its definition says.
Rounds(S, n) == [1 .. n -> [S -> S]]
Histories(S, n, x, G) == {f \in [0 .. n -> S] : f[0] = x /\ \A i \in 1 .. n : f[i] = G[i][f[i - 1]]}

LEMMA Iterates ==
  ASSUME NEW S, NEW n \in Nat, NEW x \in S, NEW G \in Rounds(S, n)
  PROVE  Histories(S, n, x, G) # {}
<1> USE DEF Rounds
<1> DEFINE Runs(f, m) == f[0] = x /\ \A i \in 1 .. m : f[i] = G[i][f[i - 1]]
           M == {m \in Nat : m <= n => \E f \in [0 .. m -> S] : Runs(f, m)}
<1>1. 0 \in M
  <2>1. [i \in 0 .. 0 |-> x] \in [0 .. 0 -> S] /\ Runs([i \in 0 .. 0 |-> x], 0)
    OBVIOUS
  <2> QED  BY <2>1
<1>2. ASSUME NEW m \in Nat, m \in M
      PROVE  m + 1 \in M
  <2> SUFFICES ASSUME m + 1 <= n
               PROVE  \E f \in [0 .. m + 1 -> S] : Runs(f, m + 1)
    OBVIOUS
  <2>1. PICK g \in [0 .. m -> S] : Runs(g, m)
    BY <1>2
  <2> DEFINE f == [i \in 0 .. m + 1 |-> IF i = m + 1 THEN G[m + 1][g[m]] ELSE g[i]]
  <2>2. g[m] \in S /\ m + 1 \in 1 .. n
    OBVIOUS
  <2>3. G[m + 1][g[m]] \in S
    BY <2>2
  <2>4. f \in [0 .. m + 1 -> S]
    BY <2>3
  <2>5. /\ f[m + 1] = G[m + 1][g[m]] /\ \A i \in 0 .. m : f[i] = g[i]
        /\ \A i \in 1 .. m : f[i - 1] = g[i - 1]
        /\ f[(m + 1) - 1] = g[m] /\ f[0] = g[0]
    OBVIOUS
  <2> HIDE DEF f
  <2>6. Runs(f, m + 1)
    <3>1. f[0] = x
      BY <2>1, <2>5
    <3>2. ASSUME NEW i \in 1 .. m + 1
          PROVE  f[i] = G[i][f[i - 1]]
      <4>1. CASE i = m + 1
        BY <4>1, <2>5
      <4>2. CASE i # m + 1
        <5>1. i \in 1 .. m /\ i \in 0 .. m
          BY <4>2
        <5> QED  BY <2>1, <2>5, <5>1
      <4> QED  BY <4>1, <4>2
    <3> QED  BY <3>1, <3>2
  <2> QED  BY <2>4, <2>6
<1> HIDE DEF M
<1>3. Nat \subseteq M
  BY <1>1, <1>2, Induction
<1>4. PICK f \in [0 .. n -> S] : Runs(f, n)
  BY <1>3 DEF M
<1> QED  BY <1>4 DEF Histories

\* One comparison of a walk.
Sunk(s, i) == IF s[i] > s[i + 1] THEN Lists!Swap(s, i, i + 1) ELSE s

LEMMA SunkRow ==
  ASSUME NEW V, NEW n \in Nat, NEW s \in Rows(V, n), NEW i \in 1 .. n - 1
  PROVE  Sunk(s, i) \in Rows(V, n)
BY SwapTurns DEF Rows, Sunk

\* The lists a walk of k comparisons goes through.
Walks(V, n, s, k) ==
  {f \in [0 .. k -> Rows(V, n)] :
     f[0] = s /\ f[k] = Lists!Walk(s, k) /\ \A i \in 1 .. k : f[i] = Sunk(f[i - 1], i)}

LEMMA WalkRuns ==
  ASSUME NEW V, NEW n \in Nat, NEW s \in Rows(V, n), NEW k \in Nat, k < n
  PROVE  Walks(V, n, s, k) # {}
<1> DEFINE Step(f) == [i \in 0 .. k |->
                         IF i = 0 THEN s
                         ELSE IF f[i - 1][i] > f[i - 1][i + 1]
                              THEN Lists!Swap(f[i - 1], i, i + 1) ELSE f[i - 1]]
           w == CHOOSE f : f = Step(f)
           G == [i \in 1 .. k |-> [r \in Rows(V, n) |-> Sunk(r, i)]]
<1>1. G \in Rounds(Rows(V, n), k)
  <2>1. \A i \in 1 .. k : \A r \in Rows(V, n) : Sunk(r, i) \in Rows(V, n)
    BY SunkRow
  <2> QED  BY <2>1 DEF Rounds
<1>2. PICK f \in [0 .. k -> Rows(V, n)] :
           f[0] = s /\ \A i \in 1 .. k : f[i] = G[i][f[i - 1]]
  <2>1. Histories(Rows(V, n), k, s, G) # {}
    <3> HIDE DEF G
    <3> QED  BY <1>1, Iterates
  <2> QED  BY <2>1 DEF Histories
<1>3. f = Step(f)
  <2> DEFINE h == Step(f)
  <2>1. DOMAIN h = 0 .. k /\ DOMAIN f = 0 .. k /\ h = [i \in DOMAIN h |-> h[i]]
        /\ f = [i \in DOMAIN f |-> f[i]]
    OBVIOUS
  <2>2. ASSUME NEW i \in 0 .. k
        PROVE  h[i] = f[i]
    <3>1. CASE i = 0
      BY <1>2, <3>1
    <3>2. CASE i # 0
      <4>1. i \in 1 .. k /\ i - 1 \in 0 .. k
        BY <3>2
      <4>2. f[i - 1] \in Rows(V, n)
        BY <4>1
      <4>3. f[i] = G[i][f[i - 1]]
        BY <1>2, <3>2
      <4>4. G[i][f[i - 1]] = Sunk(f[i - 1], i)
        BY <4>1, <4>2
      <4>5. h[i] = Sunk(f[i - 1], i)
        BY <3>2 DEF Sunk
      <4> QED  BY <4>3, <4>4, <4>5
    <3> QED  BY <3>1, <3>2
  <2> HIDE DEF h
  <2>3. h = f
    BY <2>1, <2>2
  <2> QED  BY <2>3 DEF h
<1>4. w = Step(w)
  BY <1>3, Zenon
<1>5. Lists!Walk(s, k) = w[k]
  BY DEF Lists!Walk
<1> HIDE DEF w
<1>6. w[0] = s /\ \A i \in 1 .. k : w[i] = Sunk(w[i - 1], i)
  <2>1. w[0] = s
    BY <1>4
  <2>2. ASSUME NEW i \in 1 .. k
        PROVE  w[i] = Sunk(w[i - 1], i)
    <3>1. i \in 0 .. k /\ i # 0
      OBVIOUS
    <3> QED  BY <1>4, <3>1 DEF Sunk
  <2> QED  BY <2>1, <2>2
<1>7. \A i \in 0 .. k : w[i] \in Rows(V, n)
  <2> DEFINE M == {i \in Nat : i <= k => w[i] \in Rows(V, n)}
  <2>1. 0 \in M
    BY <1>6
  <2>2. ASSUME NEW j \in Nat, j \in M
        PROVE  j + 1 \in M
    <3> SUFFICES ASSUME j + 1 <= k
                 PROVE  w[j + 1] \in Rows(V, n)
      OBVIOUS
    <3>1. w[j] \in Rows(V, n) /\ j + 1 \in 1 .. k /\ (j + 1) - 1 = j /\ j + 1 \in 1 .. n - 1
      BY <2>2
    <3>2. w[j + 1] = Sunk(w[j], j + 1)
      BY <1>6, <3>1
    <3> QED  BY <3>1, <3>2, SunkRow
  <2> HIDE DEF M
  <2>3. Nat \subseteq M
    BY <2>1, <2>2, Induction
  <2> QED  BY <2>3 DEF M
<1>8. w \in [0 .. k -> Rows(V, n)]
  <2>1. w = [i \in 0 .. k |-> w[i]]
    <3>1. w = [i \in 0 .. k |-> Step(w)[i]]
      BY <1>4
    <3> QED  BY <1>4
  <2> QED  BY <1>7, <2>1
<1> QED  BY <1>5, <1>6, <1>8 DEF Walks

\* The last m lines of s are where they belong.
Settled(s, m) == \A i, j \in 1 .. Len(s) : i < j /\ j > Len(s) - m => s[i] <= s[j]

LEMMA RowTypes ==
  ASSUME NEW V \in SUBSET Int, NEW n \in Nat, NEW s \in Rows(V, n)
  PROVE  Len(s) = n /\ DOMAIN s = 1 .. n /\ \A i \in 1 .. n : s[i] \in Int
<1>1. Len(s) = n /\ DOMAIN s = 1 .. n /\ \A i \in 1 .. n : s[i] \in V
  BY DEF Rows
<1> QED  BY <1>1, Zenon

LEMMA SunkFacts ==
  ASSUME NEW V \in SUBSET Int, NEW n \in Nat, NEW s \in Rows(V, n), NEW i \in 1 .. n - 1
  PROVE  /\ Sunk(s, i) \in Rows(V, n)
         /\ Sunk(s, i)[i] <= Sunk(s, i)[i + 1]
         /\ \A j \in 1 .. n : j \notin {i, i + 1} => Sunk(s, i)[j] = s[j]
         /\ \/ Sunk(s, i) = s
            \/ Sunk(s, i)[i] = s[i + 1] /\ Sunk(s, i)[i + 1] = s[i] /\ s[i] > s[i + 1]
<1>1. /\ Len(s) = n /\ s \in Seq(V) /\ i \in Nat /\ i > 0 /\ i < Len(s)
      /\ i \in 1 .. n /\ i + 1 \in 1 .. n
  BY DEF Rows
<1>2. s[i] \in Int /\ s[i + 1] \in Int
  BY <1>1, RowTypes
<1>3. Sunk(s, i) \in Rows(V, n)
  BY SunkRow
<1>4. CASE s[i] > s[i + 1]
  <2> DEFINE t == Lists!Swap(s, i, i + 1)
  <2>1. \A j \in 1 .. n : t[j] = s[Turned(i, j)]
    BY <1>1, SwapTurns
  <2> HIDE DEF t
  <2>2. t[i] = s[i + 1] /\ t[i + 1] = s[i] /\ \A j \in 1 .. n : j \notin {i, i + 1} => t[j] = s[j]
    BY <1>1, <2>1 DEF Turned
  <2>3. Sunk(s, i) = t
    BY <1>4 DEF Sunk, t
  <2> QED  BY <1>2, <1>3, <1>4, <2>2, <2>3
<1>5. CASE ~(s[i] > s[i + 1])
  <2>1. Sunk(s, i) = s
    BY <1>5 DEF Sunk
  <2> QED  BY <1>2, <1>3, <1>5, <2>1
<1> QED  BY <1>4, <1>5

LEMMA SunkSettles ==
  ASSUME NEW V \in SUBSET Int, NEW n \in Nat, NEW s \in Rows(V, n), NEW i \in 1 .. n - 1,
         NEW m \in Nat, Settled(s, m)
  PROVE  Settled(Sunk(s, i), m)
<1> DEFINE t == Sunk(s, i)
<1>1. /\ t \in Rows(V, n)
      /\ \A j \in 1 .. n : j \notin {i, i + 1} => t[j] = s[j]
      /\ t = s \/ (t[i] = s[i + 1] /\ t[i + 1] = s[i] /\ s[i] > s[i + 1])
  BY SunkFacts
<1> HIDE DEF t
<1>2. /\ Len(s) = n /\ Len(t) = n /\ \A j \in 1 .. n : s[j] \in Int /\ t[j] \in Int
      /\ i \in 1 .. n /\ i + 1 \in 1 .. n
  BY <1>1, RowTypes
<1>3. CASE t = s
  BY <1>3 DEF t
<1>4. CASE t # s
  <2>1. t[i] = s[i + 1] /\ t[i + 1] = s[i] /\ s[i] > s[i + 1]
    BY <1>1, <1>4
  <2>2. ~(i + 1 > n - m)
    BY <1>2, <2>1 DEF Settled
  <2>3. ASSUME NEW a \in 1 .. n, NEW b \in 1 .. n, a < b, b > n - m
        PROVE  t[a] <= t[b]
    <3>1. t[b] = s[b]
      BY <1>1, <2>2, <2>3
    <3>2. \A c \in 1 .. n : c < b => s[c] <= s[b]
      BY <1>2, <2>3 DEF Settled
    <3>3. i < b /\ i + 1 < b
      BY <2>2, <2>3
    <3>4. t[a] \in {s[a], s[i], s[i + 1]}
      BY <1>1, <2>1
    <3>5. s[a] <= s[b] /\ s[i] <= s[b] /\ s[i + 1] <= s[b]
      BY <1>2, <2>3, <3>2, <3>3
    <3> QED  BY <3>1, <3>4, <3>5
  <2>4. Settled(t, m)
    BY <1>2, <2>3 DEF Settled
  <2> QED  BY <2>4 DEF t
<1> QED  BY <1>3, <1>4

LEMMA SunkKeeps ==
  ASSUME NEW V \in SUBSET Int, NEW n \in Nat, NEW s \in Rows(V, n), NEW i \in 1 .. n - 1, NEW v
  PROVE  Cardinality(Spots(Sunk(s, i), v)) = Cardinality(Spots(s, v))
<1>1. s \in Seq(V) /\ i \in Nat /\ i > 0 /\ i < Len(s)
  BY DEF Rows
<1> QED  BY <1>1, LinesSwapped DEF Sunk

LEMMA WalkKeeps ==
  ASSUME NEW V \in SUBSET Int, NEW n \in Nat, NEW s \in Rows(V, n), NEW k \in Nat, k < n
  PROVE  /\ Lists!Walk(s, k) \in Rows(V, n)
         /\ \A v : Cardinality(Spots(Lists!Walk(s, k), v)) = Cardinality(Spots(s, v))
         /\ Settled(s, n) => Lists!Walk(s, k) = s
<1>1. PICK f \in [0 .. k -> Rows(V, n)] :
           f[0] = s /\ f[k] = Lists!Walk(s, k) /\ \A i \in 1 .. k : f[i] = Sunk(f[i - 1], i)
  <2>1. Walks(V, n, s, k) # {}
    BY WalkRuns
  <2> QED  BY <2>1 DEF Walks
<1> DEFINE Good(t) == /\ t \in Rows(V, n)
                      /\ \A v : Cardinality(Spots(t, v)) = Cardinality(Spots(s, v))
                      /\ Settled(s, n) => t = s
           M == {i \in Nat : i <= k => Good(f[i])}
<1>2. 0 \in M
  BY <1>1
<1>3. ASSUME NEW j \in Nat, j \in M
      PROVE  j + 1 \in M
  <2> SUFFICES ASSUME j + 1 <= k
               PROVE  Good(f[j + 1])
    OBVIOUS
  <2>1. Good(f[j]) /\ j + 1 \in 1 .. k /\ (j + 1) - 1 = j /\ j + 1 \in 1 .. n - 1
    BY <1>3
  <2>2. f[j + 1] = Sunk(f[j], j + 1)
    BY <1>1, <2>1
  <2>3. f[j + 1] \in Rows(V, n)
    BY <2>1, <2>2, SunkRow
  <2>4. \A v : Cardinality(Spots(f[j + 1], v)) = Cardinality(Spots(f[j], v))
    BY <2>1, <2>2, SunkKeeps
  <2>5. ASSUME Settled(s, n)
        PROVE  f[j + 1] = s
    <3>1. f[j] = s
      BY <2>1, <2>5
    <3>2. Len(s) = n /\ \A i \in 1 .. n : s[i] \in Int
      BY RowTypes
    <3>3. ~(s[j + 1] > s[(j + 1) + 1])
      BY <2>1, <2>5, <3>2 DEF Settled
    <3> QED  BY <2>2, <3>1, <3>3 DEF Sunk
  <2> QED  BY <2>1, <2>3, <2>4, <2>5
<1> HIDE DEF M
<1>4. Nat \subseteq M
  BY <1>2, <1>3, Induction
<1> QED  BY <1>1, <1>4 DEF M

\* The first i + 1 lines of s are at most s[i + 1].
Risen(s, i) == \A j \in 1 .. i + 1 : s[j] <= s[i + 1]

LEMMA WalkSettles ==
  ASSUME NEW V \in SUBSET Int, NEW n \in Nat, NEW s \in Rows(V, n), NEW k \in Nat, k < n,
         NEW m \in Nat, k >= n - m - 1, Settled(s, m)
  PROVE  Settled(Lists!Walk(s, k), m + 1)
<1>1. PICK f \in [0 .. k -> Rows(V, n)] :
           f[0] = s /\ f[k] = Lists!Walk(s, k) /\ \A i \in 1 .. k : f[i] = Sunk(f[i - 1], i)
  <2>1. Walks(V, n, s, k) # {}
    BY WalkRuns
  <2> QED  BY <2>1 DEF Walks
<1> DEFINE Good(i, t) == /\ t \in Rows(V, n) /\ Settled(t, m)
                         /\ i <= n - m - 1 => Risen(t, i)
                         /\ i >= n - m - 1 => Settled(t, m + 1)
           M == {i \in Nat : i <= k => Good(i, f[i])}
\* What has risen to the place n - m is settled there.
<1>2. ASSUME NEW t \in Rows(V, n), Settled(t, m), NEW i \in Nat, i = n - m - 1, Risen(t, i)
      PROVE  Settled(t, m + 1)
  <2>1. Len(t) = n /\ \A j \in 1 .. n : t[j] \in Int
    BY RowTypes
  <2>2. ASSUME NEW a \in 1 .. n, NEW b \in 1 .. n, a < b, b > n - (m + 1)
        PROVE  t[a] <= t[b]
    <3>1. CASE b > n - m
      BY <1>2, <2>1, <2>2, <3>1 DEF Settled
    <3>2. CASE b = n - m
      <4>1. b = i + 1 /\ a \in 1 .. i + 1
        BY <1>2, <2>2, <3>2
      <4> QED  BY <1>2, <4>1 DEF Risen
    <3> QED  BY <2>2, <3>1, <3>2
  <2> QED  BY <2>1, <2>2 DEF Settled
<1>3. 0 \in M
  <2>1. Risen(s, 0)
    <3>1. n > 0 /\ s[1] \in Int
      BY RowTypes
    <3> QED  BY <3>1 DEF Risen
  <2>2. 0 >= n - m - 1 => Settled(s, m + 1)
    <3>1. CASE 0 = n - m - 1
      BY <1>2, <2>1, <3>1
    <3>2. CASE 0 > n - m - 1
      <4>1. Len(s) = n
        BY RowTypes
      <4> QED  BY <3>2, <4>1 DEF Settled
    <3> QED  BY <3>1, <3>2
  <2> QED  BY <1>1, <2>1, <2>2
<1>4. ASSUME NEW j \in Nat, j \in M
      PROVE  j + 1 \in M
  <2> SUFFICES ASSUME j + 1 <= k
               PROVE  Good(j + 1, f[j + 1])
    OBVIOUS
  <2> DEFINE t == f[j]
             u == f[j + 1]
  <2>1. Good(j, t) /\ j + 1 \in 1 .. k /\ (j + 1) - 1 = j /\ j + 1 \in 1 .. n - 1
    BY <1>4
  <2>2. u = Sunk(t, j + 1)
    BY <1>1, <2>1
  <2> HIDE DEF t, u
  <2>3. u \in Rows(V, n) /\ Settled(u, m)
    BY <2>1, <2>2, SunkRow, SunkSettles
  <2>4. ASSUME j + 1 <= n - m - 1
        PROVE  Risen(u, j + 1)
    <3>1. Risen(t, j)
      BY <2>1, <2>4
    <3>2. /\ u[j + 1] <= u[(j + 1) + 1]
          /\ \A i \in 1 .. n : i \notin {j + 1, (j + 1) + 1} => u[i] = t[i]
          /\ \/ u = t
             \/ u[j + 1] = t[(j + 1) + 1] /\ u[(j + 1) + 1] = t[j + 1] /\ t[j + 1] > t[(j + 1) + 1]
      <4>1. t \in Rows(V, n) /\ j + 1 \in 1 .. n - 1
        BY <2>1
      <4> DEFINE i == j + 1
      <4>2. i \in 1 .. n - 1 /\ u = Sunk(t, i)
        BY <4>1, <2>2
      <4> HIDE DEF Good, M, i
      <4>3. /\ u[i] <= u[i + 1]
            /\ \A l \in 1 .. n : l \notin {i, i + 1} => u[l] = t[l]
            /\ u = t \/ (u[i] = t[i + 1] /\ u[i + 1] = t[i] /\ t[i] > t[i + 1])
        BY <4>1, <4>2, SunkFacts
      <4> QED  BY <4>3 DEF i
    <3>3. \A i \in 1 .. n : t[i] \in Int /\ u[i] \in Int
      BY <2>1, <2>3, RowTypes
    <3>4. \A i \in 1 .. j + 1 : t[i] <= t[j + 1]
      BY <3>1 DEF Risen
    <3>5. /\ j + 1 \in 1 .. n /\ (j + 1) + 1 \in 1 .. n
          /\ \A i \in 1 .. j : i \in 1 .. n /\ i \in 1 .. j + 1 /\ i \notin {j + 1, (j + 1) + 1}
      BY <2>1
    <3>6. ASSUME NEW i \in 1 .. j
          PROVE  u[i] <= u[(j + 1) + 1]
      <4>1. u[i] = t[i] /\ t[i] <= t[j + 1] /\ t[i] \in Int
        BY <3>2, <3>3, <3>4, <3>5
      <4> QED  BY <3>2, <3>3, <3>5, <4>1
    <3>7. \A i \in 1 .. (j + 1) + 1 : i \in 1 .. j \/ i = j + 1 \/ i = (j + 1) + 1
      OBVIOUS
    <3> QED  BY <3>2, <3>3, <3>5, <3>6, <3>7 DEF Risen
  <2>5. ASSUME j + 1 >= n - m - 1
        PROVE  Settled(u, m + 1)
    <3>1. CASE j >= n - m - 1
      BY <2>1, <2>2, <3>1, SunkSettles
    <3>2. CASE j + 1 = n - m - 1
      BY <1>2, <2>3, <2>4, <3>2
    <3> QED  BY <2>1, <2>5, <3>1, <3>2
  <2> QED  BY <2>3, <2>4, <2>5 DEF u
<1> HIDE DEF M
<1>5. Nat \subseteq M
  BY <1>3, <1>4, Induction
<1> QED  BY <1>1, <1>5 DEF M

\* Walks(k) comparisons in walk k: enough to settle one more line.
Enough(c, n) == c \in [1 .. n -> Nat] /\ \A k \in 1 .. n : c[k] < n /\ c[k] >= n - k

\* What a sort of s returns.
SortOf(t, s, V, n) ==
  /\ t \in Rows(V, n)
  /\ \A v : Cardinality(Spots(t, v)) = Cardinality(Spots(s, v))
  /\ Settled(t, n)
  /\ Settled(s, n) => t = s

LEMMA LoopSorts ==
  ASSUME NEW V \in SUBSET Int, NEW n \in Nat, NEW s \in Rows(V, n), NEW c, Enough(c, n),
         NEW f, f[0] = s, \A k \in 1 .. n : f[k] = Lists!Walk(f[k - 1], c[k])
  PROVE  SortOf(f[n], s, V, n)
<1> DEFINE Good(k, t) == /\ t \in Rows(V, n)
                         /\ \A v : Cardinality(Spots(t, v)) = Cardinality(Spots(s, v))
                         /\ Settled(t, k)
                         /\ Settled(s, n) => t = s
           M == {k \in Nat : k <= n => Good(k, f[k])}
<1>1. 0 \in M
  <2>1. Len(s) = n
    BY RowTypes
  <2>2. Settled(s, 0)
    BY <2>1 DEF Settled
  <2> QED  BY <2>2
<1>2. ASSUME NEW j \in Nat, j \in M
      PROVE  j + 1 \in M
  <2> SUFFICES ASSUME j + 1 <= n
               PROVE  Good(j + 1, f[j + 1])
    OBVIOUS
  <2> DEFINE t == f[j]
             u == f[j + 1]
             d == c[j + 1]
  <2>1. Good(j, t) /\ j + 1 \in 1 .. n /\ (j + 1) - 1 = j
    BY <1>2
  <2>2. u = Lists!Walk(t, d) /\ d \in Nat /\ d < n /\ d >= n - j - 1
    BY <2>1 DEF Enough
  <2>3. t \in Rows(V, n) /\ Settled(t, j)
    BY <2>1
  <2> HIDE DEF t, u, d, Good, M
  <2>4. /\ u \in Rows(V, n)
        /\ \A v : Cardinality(Spots(u, v)) = Cardinality(Spots(t, v))
        /\ Settled(t, n) => u = t
    BY <2>2, <2>3, WalkKeeps
  <2>5. Settled(u, j + 1)
    BY <2>2, <2>3, WalkSettles
  <2>6. Good(j + 1, u)
    BY <2>1, <2>4, <2>5 DEF Good
  <2> QED  BY <2>6 DEF u
<1> HIDE DEF M
<1>3. Nat \subseteq M
  BY <1>1, <1>2, Induction
<1>4. Good(n, f[n])
  BY <1>3 DEF M
<1> QED  BY <1>4 DEF SortOf

LEMMA LoopRuns ==
  ASSUME NEW V \in SUBSET Int, NEW n \in Nat, NEW s \in Rows(V, n), NEW c, Enough(c, n)
  PROVE  \E f : f = [k \in 0 .. n |-> IF k = 0 THEN s ELSE Lists!Walk(f[k - 1], c[k])]
<1> DEFINE R == Rows(V, n)
           G == [k \in 1 .. n |-> [r \in R |-> Lists!Walk(r, c[k])]]
           Step(f) == [k \in 0 .. n |-> IF k = 0 THEN s ELSE Lists!Walk(f[k - 1], c[k])]
<1>1. \A k \in 1 .. n : \A r \in R : Lists!Walk(r, c[k]) \in R
  BY WalkKeeps DEF Enough
<1>2. G \in Rounds(R, n)
  <2> HIDE DEF R
  <2> QED  BY <1>1 DEF Rounds
<1>3. Histories(R, n, s, G) # {}
  <2>1. s \in R
    OBVIOUS
  <2> HIDE DEF G, R
  <2> QED  BY <1>2, <2>1, Iterates
<1>4. PICK f \in [0 .. n -> R] : f[0] = s /\ \A k \in 1 .. n : f[k] = G[k][f[k - 1]]
  BY <1>3 DEF Histories
<1>5. ASSUME NEW k \in 0 .. n
      PROVE  Step(f)[k] = f[k]
  <2>1. CASE k = 0
    BY <1>4, <2>1
  <2>2. CASE k # 0
    <3>1. k \in 1 .. n /\ k - 1 \in 0 .. n
      BY <2>2
    <3>2. f[k - 1] \in R
      BY <3>1
    <3>3. f[k] = G[k][f[k - 1]]
      BY <1>4, <3>1
    <3>4. G[k][f[k - 1]] = Lists!Walk(f[k - 1], c[k])
      <4> HIDE DEF R
      <4> QED  BY <3>1, <3>2
    <3>5. Step(f)[k] = Lists!Walk(f[k - 1], c[k])
      BY <2>2
    <3> QED  BY <3>3, <3>4, <3>5
  <2> QED  BY <2>1, <2>2
<1>6. f = Step(f)
  <2> DEFINE h == Step(f)
  <2>1. DOMAIN h = 0 .. n /\ DOMAIN f = 0 .. n /\ h = [i \in DOMAIN h |-> h[i]]
        /\ f = [i \in DOMAIN f |-> f[i]]
    OBVIOUS
  <2>2. \A i \in 0 .. n : h[i] = f[i]
    BY <1>5
  <2> HIDE DEF h
  <2>3. h = f
    BY <2>1, <2>2
  <2> QED  BY <2>3 DEF h
<1> QED  BY <1>6

\* The sorts of Shinkevich/17 and arkhipov/17.
LEMMA ListSorted ==
  ASSUME NEW V \in SUBSET Int, NEW n \in Nat, NEW s \in Rows(V, n)
  PROVE  SortOf(Lists!sortedBy17(s), s, V, n) /\ SortOf(Lists!sort_list(s), s, V, n)
<1>1. Len(s) = n /\ s \in Seq(V) /\ (s = <<>> <=> n = 0)
  BY DEF Rows
<1>2. SortOf(Lists!sortedBy17(s), s, V, n)
  <2>1. CASE n = 0
    <3>1. Lists!sortedBy17(s) = s
      BY <1>1, <2>1 DEF Lists!sortedBy17
    <3> QED  BY <1>1, <2>1, <3>1 DEF SortOf, Settled
  <2>2. CASE n # 0
    <3> DEFINE w == CHOOSE f : f = [k \in 0 .. Len(s) |->
                      IF k = 0 THEN s ELSE Lists!Walk(f[k - 1], Len(s) - 1)]
               c == [k \in 1 .. n |-> n - 1]
    <3>1. Enough(c, n)
      BY <2>2 DEF Enough
    <3>2. PICK f : f = [k \in 0 .. n |-> IF k = 0 THEN s ELSE Lists!Walk(f[k - 1], c[k])]
      <4> HIDE DEF c
      <4> QED  BY <3>1, LoopRuns
    <3>3. f = [k \in 0 .. Len(s) |-> IF k = 0 THEN s ELSE Lists!Walk(f[k - 1], Len(s) - 1)]
      <4>1. \A k \in 0 .. n : k # 0 => c[k] = n - 1
        OBVIOUS
      <4> HIDE DEF c
      <4>2. [k \in 0 .. n |-> IF k = 0 THEN s ELSE Lists!Walk(f[k - 1], c[k])]
            = [k \in 0 .. Len(s) |-> IF k = 0 THEN s ELSE Lists!Walk(f[k - 1], Len(s) - 1)]
        BY <1>1, <4>1
      <4> QED  BY <3>2, <4>2
    <3>4. w = [k \in 0 .. Len(s) |-> IF k = 0 THEN s ELSE Lists!Walk(w[k - 1], Len(s) - 1)]
      BY <3>3, Zenon
    <3>5. Lists!sortedBy17(s) = w[n]
      BY <1>1, <2>2 DEF Lists!sortedBy17
    <3> HIDE DEF w
    <3>6. w[0] = s /\ \A k \in 1 .. n : w[k] = Lists!Walk(w[k - 1], c[k])
      <4>1. w[0] = s
        BY <1>1, <3>4
      <4>2. ASSUME NEW k \in 1 .. n
            PROVE  w[k] = Lists!Walk(w[k - 1], c[k])
        <5>1. k \in 0 .. Len(s) /\ k # 0 /\ c[k] = Len(s) - 1
          BY <1>1
        <5> HIDE DEF c
        <5> QED  BY <3>4, <5>1
      <4> QED  BY <4>1, <4>2
    <3> HIDE DEF c
    <3>7. SortOf(w[n], s, V, n)
      BY <3>1, <3>6, LoopSorts
    <3> QED  BY <3>5, <3>7
  <2> QED  BY <2>1, <2>2
<1>3. SortOf(Lists!sort_list(s), s, V, n)
  <2> DEFINE w == CHOOSE f : f = [k \in 0 .. Len(s) |->
                    IF k = 0 THEN s ELSE Lists!Walk(f[k - 1], Len(s) - k)]
             c == [k \in 1 .. n |-> n - k]
  <2>1. Enough(c, n)
    BY DEF Enough
  <2>2. PICK f : f = [k \in 0 .. n |-> IF k = 0 THEN s ELSE Lists!Walk(f[k - 1], c[k])]
    <3> HIDE DEF c
    <3> QED  BY <2>1, LoopRuns
  <2>3. f = [k \in 0 .. Len(s) |-> IF k = 0 THEN s ELSE Lists!Walk(f[k - 1], Len(s) - k)]
    <3>1. \A k \in 0 .. n : k # 0 => c[k] = n - k
      OBVIOUS
    <3> HIDE DEF c
    <3>2. [k \in 0 .. n |-> IF k = 0 THEN s ELSE Lists!Walk(f[k - 1], c[k])]
          = [k \in 0 .. Len(s) |-> IF k = 0 THEN s ELSE Lists!Walk(f[k - 1], Len(s) - k)]
      BY <1>1, <3>1
    <3> QED  BY <2>2, <3>2
  <2>4. w = [k \in 0 .. Len(s) |-> IF k = 0 THEN s ELSE Lists!Walk(w[k - 1], Len(s) - k)]
    BY <2>3, Zenon
  <2>5. Lists!sort_list(s) = w[n]
    BY <1>1 DEF Lists!sort_list
  <2> HIDE DEF w
  <2>6. w[0] = s /\ \A k \in 1 .. n : w[k] = Lists!Walk(w[k - 1], c[k])
    <3>1. w[0] = s
      BY <1>1, <2>4
    <3>2. ASSUME NEW k \in 1 .. n
          PROVE  w[k] = Lists!Walk(w[k - 1], c[k])
      <4>1. k \in 0 .. Len(s) /\ k # 0 /\ c[k] = Len(s) - k
        BY <1>1
      <4> HIDE DEF c
      <4> QED  BY <2>4, <4>1
    <3> QED  BY <3>1, <3>2
  <2> HIDE DEF c
  <2>7. SortOf(w[n], s, V, n)
    BY <2>1, <2>6, LoopSorts
  <2> QED  BY <2>5, <2>7
<1> QED  BY <1>2, <1>3

-----------------------------------------------------------------------------
(***************************************************************************)
(* SortedList: v1 is created, v2 finished, v3 mainlist, v4 list, v5 owner, *)
(* v6 adders, v7 sorters, v8 pushed and v9 bad.                            *)
(***************************************************************************)
ListConstants == VALUES \subseteq Int /\ INPUTS \in Nat /\ INPUTS >= 2 /\ Lists!Empty \notin VALUES

LEMMA LineTypes ==
  ASSUME ListConstants
  PROVE  /\ Lists!Lines \subseteq Int /\ Lists!Lines \in SUBSET Int
         /\ 0 \in Lists!Lines /\ 1 \in Lists!Lines /\ 2 \in Lists!Lines
         /\ VALUES \subseteq Lists!Lines /\ Lists!MaxLen \in Nat
         /\ Len(Lists!FileLines) = 2 /\ Lists!InputsOfMain \in Nat
         /\ Lists!InputsOfMain <= INPUTS
         /\ program = "s19" => Lists!InputsOfMain = INPUTS - 2
BY DEF ListConstants, Lists!Lines, Lists!MaxLen, Lists!FileLines, Lists!InputsOfMain, Lists!Empty

LEMMA ListRow ==
  ASSUME ListConstants, Lists!TypeOK
  PROVE  v4 \in Rows(Lists!Lines, Len(v4)) /\ Len(v4) \in Nat /\ Lists!Lines \in SUBSET Int
<1>1. v4 \in Seq(Lists!Lines)
  BY DEF Lists!TypeOK
<1>2. Len(v4) \in Nat /\ v4 \in Rows(Lists!Lines, Len(v4))
  BY <1>1 DEF Rows
<1> QED  BY <1>2, LineTypes, Zenon

LEMMA ListInit ==
  ASSUME ListConstants, Lists!Init
  PROVE  Lists!IInv
<1> USE DEF Lists!Init, Lists!SorterIds, Lists!Programs, Lists!PerNode
<1>1. Lists!TypeOK
  <2>1. v4 = <<>> /\ v4 \in Seq(Lists!Lines) /\ Len(v4) <= Lists!MaxLen
    BY LineTypes
  <2>2. v5 \in [1 .. Lists!MaxLen -> {Lists!Free} \cup Lists!SorterIds]
    BY DEF Lists!Free
  <2>3. v8 \in [Lists!Lines -> Nat]
    OBVIOUS
  <2> QED  BY <2>1, <2>2, <2>3 DEF Lists!TypeOK
<1>2. Lists!AddersOK
  <2>1. \A p \in {"main", "reader"} :
          /\ v6[p].pc \in {"read", "end"} /\ v6[p].count = 0
          /\ v6[p] \in [pc : {"read", "push", "fill", "print", "join", "end"}, node : Int,
                        line : Lists!Lines, count : Nat]
    BY LineTypes DEF Lists!Empty
  <2> QED  BY <2>1, LineTypes DEF Lists!AddersOK, Lists!AdderIds, Lists!Adding
<1>3. /\ v6["main"].pc \in {"read", "end"} /\ v6["reader"].pc \in {"read", "end"}
      /\ v6["main"].count = 0 /\ v6["reader"].count = 0
      /\ v6["main"].pc = "end" => program = "m17" /\ ~v1
      /\ program = "m17" => v6["reader"].pc = "end"
  OBVIOUS
<1>4. \A i \in {1, 2} : /\ v7[i].pc \in {"sleep", "end"}
                        /\ i \notin Lists!Running => v7[i].pc = "end"
  OBVIOUS
<1>5. Lists!SortersOK
  <2>1. \A i \in {1, 2} :
          v7[i] \in [pc : {"sleep", "outer", "end"} \cup Lists!Walking \cup Lists!Comparing,
                     node : Int, pair : {<<>>} \cup Lists!Lines \X Lists!Lines,
                     sorted : BOOLEAN, pos : Nat, shift : Nat, seen : Nat]
    OBVIOUS
  <2>2. v7 \in [{1, 2} ->
          [pc : {"sleep", "outer", "end"} \cup Lists!Walking \cup Lists!Comparing,
           node : Int, pair : {<<>>} \cup Lists!Lines \X Lists!Lines,
           sorted : BOOLEAN, pos : Nat, shift : Nat, seen : Nat]]
    BY <2>1
  <2>3. \A i \in {1, 2} : i \notin Lists!SorterIds => i \notin Lists!Running
    BY DEF Lists!Running
  <2> QED  BY <1>4, <2>2, <2>3 DEF Lists!SortersOK, Lists!Walking, Lists!Comparing
<1>6. Lists!FirstNode
  BY <1>3 DEF Lists!FirstNode, Lists!AdderIds
<1>7. Lists!Counted
  <2>1. v6["main"].pc = "end" => \A i \in {1, 2} : v7[i].pc = "end"
    <3> SUFFICES ASSUME v6["main"].pc = "end", NEW i \in {1, 2}
                 PROVE  v7[i].pc = "end"
      OBVIOUS
    <3>1. program = "m17" /\ ~v1 /\ Lists!SorterIds = {1}
      BY <1>3
    <3>2. Lists!Cardinality({1}) = 1
      BY ListsCardinality, FS_Singleton
    <3>3. i \notin Lists!Running
      BY <3>1, <3>2 DEF Lists!Running
    <3> QED  BY <1>4, <3>3
  <2> QED  BY <1>3, <2>1 DEF Lists!Counted, Lists!Put, Lists!Adding
<1>8. Lists!NodesOwned /\ Lists!ItemFollowsShift
  BY <1>4 DEF Lists!NodesOwned, Lists!ItemFollowsShift, Lists!Walking, Lists!Comparing
<1>9. Lists!LinesKept
  <2>1. ASSUME NEW v \in Lists!Lines
        PROVE  Lists!Cardinality({n \in DOMAIN v4 : v4[n] = v}) = v8[v]
    <3>1. {n \in DOMAIN v4 : v4[n] = v} = {}
      OBVIOUS
    <3> QED  BY <3>1, ListsCardinality, FS_EmptySet
  <2> QED  BY <2>1 DEF Lists!LinesKept
<1>10. Lists!CrashNeedsLateLines
  BY DEF Lists!CrashNeedsLateLines
<1> QED  BY <1>1, <1>2, <1>5, <1>6, <1>7, <1>8, <1>9, <1>10 DEF Lists!IInv

\* What a step that leaves some variables alone cannot disturb.
LEMMA ListFrames ==
  ASSUME Lists!IInv, UNCHANGED program
  PROVE  /\ UNCHANGED <<v2, v6>> => Lists!AddersOK'
         /\ UNCHANGED v7 => Lists!SortersOK'
         /\ UNCHANGED <<v1, v2, v3, v4, v5, v8>> /\ v9' \in {"no", "null list", "raw node",
              "two first nodes", "null next", "join"} => Lists!TypeOK'
         /\ Lists!FirstNode /\ UNCHANGED <<v3, v4, v6>> => Lists!FirstNode'
         /\ Lists!Counted /\ UNCHANGED <<v4, v6, v7>> => Lists!Counted'
         /\ Lists!NodesOwned /\ UNCHANGED <<v3, v4, v5, v7>> => Lists!NodesOwned'
         /\ Lists!ItemFollowsShift /\ UNCHANGED <<v4, v7>> => Lists!ItemFollowsShift'
         /\ v9' # "no" => Lists!LinesKept'
         /\ v9 = "no" /\ UNCHANGED <<v4, v8>> /\ (v6["main"].pc = "end" => v6'["main"].pc = "end")
              => Lists!LinesKept'
         /\ v9' # "null next" => Lists!CrashNeedsLateLines'
<1>1. UNCHANGED <<v2, v6>> => Lists!AddersOK'
  BY DEF Lists!IInv, Lists!AddersOK, Lists!Adding, Lists!InputsOfMain, Lists!AdderIds,
     Lists!Lines, Lists!Empty, Lists!FileLines
<1>2. UNCHANGED v7 => Lists!SortersOK'
  BY DEF Lists!IInv, Lists!SortersOK, Lists!SorterIds, Lists!Walking, Lists!Comparing,
     Lists!PerNode, Lists!Lines, Lists!Empty
<1>3. UNCHANGED <<v1, v2, v3, v4, v5, v8>> /\ v9' \in {"no", "null list", "raw node",
        "two first nodes", "null next", "join"} => Lists!TypeOK'
  BY DEF Lists!IInv, Lists!TypeOK, Lists!SorterIds, Lists!PerNode, Lists!Programs, Lists!Lines,
     Lists!Empty, Lists!MaxLen, Lists!Free
<1>4. Lists!FirstNode /\ UNCHANGED <<v3, v4, v6>> => Lists!FirstNode'
  BY DEF Lists!FirstNode, Lists!AdderIds, Lists!PerNode
<1>5. Lists!Counted /\ UNCHANGED <<v4, v6, v7>> => Lists!Counted'
  BY DEF Lists!Counted, Lists!Put, Lists!Adding
<1>6. Lists!NodesOwned /\ UNCHANGED <<v3, v4, v5, v7>> => Lists!NodesOwned'
  BY DEF Lists!NodesOwned, Lists!Walking
<1>7. Lists!ItemFollowsShift /\ UNCHANGED <<v4, v7>> => Lists!ItemFollowsShift'
  BY DEF Lists!ItemFollowsShift, Lists!Comparing
<1>8. /\ v9' # "no" => Lists!LinesKept'
      /\ v9 = "no" /\ UNCHANGED <<v4, v8>> /\ (v6["main"].pc = "end" => v6'["main"].pc = "end")
           => Lists!LinesKept'
  BY DEF Lists!IInv, Lists!LinesKept, Lists!Lines, Lists!Empty
<1>9. v9' # "null next" => Lists!CrashNeedsLateLines'
  BY DEF Lists!CrashNeedsLateLines
<1> QED  BY <1>1, <1>2, <1>3, <1>4, <1>5, <1>6, <1>7, <1>8, <1>9

ListHolds == ListConstants /\ Lists!IInv /\ v9 = "no"

AdderRecord ==
  [pc : {"read", "push", "fill", "print", "join", "end"}, node : Int,
   line : Lists!Lines, count : Nat]

AdderPcs == {"read", "push", "fill", "print", "join", "end"}

LEMMA AdderUpdates ==
  ASSUME NEW m \in AdderRecord
  PROVE  /\ \A c \in AdderPcs : [m EXCEPT !.pc = c] \in AdderRecord
         /\ \A x \in Int : [m EXCEPT !.node = x] \in AdderRecord
         /\ \A c \in AdderPcs, x \in Int : [m EXCEPT !.pc = c, !.node = x] \in AdderRecord
         /\ \A c \in AdderPcs, x \in Int, l \in Lists!Lines :
              [m EXCEPT !.pc = c, !.node = x, !.line = l] \in AdderRecord
         /\ \A c \in AdderPcs, x \in Int, l \in Lists!Lines, k \in Nat :
              [m EXCEPT !.pc = c, !.line = l, !.count = k, !.node = x] \in AdderRecord
<1>1. \A c \in AdderPcs : [m EXCEPT !.pc = c] \in AdderRecord
  BY DEF AdderRecord, AdderPcs
<1>2. \A x \in Int : [m EXCEPT !.node = x] \in AdderRecord
  BY DEF AdderRecord, AdderPcs
<1>3. \A c \in AdderPcs, x \in Int : [m EXCEPT !.pc = c, !.node = x] \in AdderRecord
  BY DEF AdderRecord, AdderPcs
<1>4. \A c \in AdderPcs, x \in Int, l \in Lists!Lines :
        [m EXCEPT !.pc = c, !.node = x, !.line = l] \in AdderRecord
  BY DEF AdderRecord, AdderPcs
<1>5. \A c \in AdderPcs, x \in Int, l \in Lists!Lines, k \in Nat :
        [m EXCEPT !.pc = c, !.line = l, !.count = k, !.node = x] \in AdderRecord
  BY DEF AdderRecord, AdderPcs
<1> QED  BY <1>1, <1>2, <1>3, <1>4, <1>5

LEMMA AdderFields ==
  ASSUME NEW m \in AdderRecord, NEW c, NEW x, NEW l, NEW k
  PROVE  /\ [m EXCEPT !.pc = c].pc = c /\ [m EXCEPT !.pc = c].count = m.count
         /\ [m EXCEPT !.node = x].pc = m.pc /\ [m EXCEPT !.node = x].count = m.count
         /\ [m EXCEPT !.pc = c, !.node = x].pc = c
         /\ [m EXCEPT !.pc = c, !.node = x].count = m.count
         /\ [m EXCEPT !.pc = c, !.node = x, !.line = l].pc = c
         /\ [m EXCEPT !.pc = c, !.node = x, !.line = l].count = m.count
         /\ [m EXCEPT !.pc = c, !.line = l, !.count = k, !.node = x].pc = c
         /\ [m EXCEPT !.pc = c, !.line = l, !.count = k, !.node = x].count = k
BY DEF AdderRecord

LEMMA AdderFacts ==
  ASSUME ListHolds
  PROVE  /\ v6 \in [{"main", "reader"} -> AdderRecord]
         /\ \A p \in {"main", "reader"} :
              /\ v6[p] \in AdderRecord /\ v6[p].count \in Nat /\ v6[p].line \in Lists!Lines
              /\ v6[p].node \in Int
              /\ v6[p].pc \in {"push", "fill"} => v6[p].count > 0
         /\ v6["reader"].pc \notin {"print", "join"}
         /\ v6["main"].count <=
              Lists!InputsOfMain
                + IF v2 /\ v6["main"].pc \in {"push", "fill", "join", "end"} THEN 1 ELSE 0
         /\ v6["reader"].count <= IF program = "s19" THEN 2 ELSE 0
         /\ Lists!InputsOfMain \in Nat /\ v2 \in BOOLEAN
<1>1. Lists!AddersOK /\ Lists!TypeOK
  BY DEF ListHolds, Lists!IInv
<1>2. v6 \in [{"main", "reader"} -> AdderRecord]
  BY <1>1 DEF Lists!AddersOK, AdderRecord, Lists!AdderIds
<1>3. \A p \in {"main", "reader"} :
        /\ v6[p] \in AdderRecord /\ v6[p].count \in Nat /\ v6[p].line \in Lists!Lines
        /\ v6[p].node \in Int
  BY <1>2 DEF AdderRecord
<1>4. Lists!InputsOfMain \in Nat /\ Len(Lists!FileLines) = 2
  BY LineTypes DEF ListHolds
<1> QED  BY <1>1, <1>2, <1>3, <1>4 DEF Lists!AddersOK, Lists!Adding, Lists!AdderIds, Lists!TypeOK

\* A new state of one adder.
LEMMA AdderChanged ==
  ASSUME ListHolds, UNCHANGED program, v2' \in BOOLEAN, v2 => v2',
         NEW p \in {"main", "reader"}, NEW r \in AdderRecord, v6' = [v6 EXCEPT ![p] = r],
         r.pc \in {"push", "fill"} => r.count > 0,
         p = "main" =>
           r.count <= Lists!InputsOfMain
             + IF v2' /\ r.pc \in {"push", "fill", "join", "end"} THEN 1 ELSE 0,
         p = "reader" => /\ r.pc \notin {"print", "join"}
                         /\ r.count <= IF program = "s19" THEN 2 ELSE 0
  PROVE  /\ Lists!AddersOK'
         /\ v6'[p] = r /\ \A q \in {"main", "reader"} : q # p => v6'[q] = v6[q]
<1>1. v6' \in [{"main", "reader"} -> AdderRecord]
  BY AdderFacts
<1>2. v6'[p] = r /\ \A q \in {"main", "reader"} : q # p => v6'[q] = v6[q]
  BY AdderFacts
<1>3. Lists!InputsOfMain' = Lists!InputsOfMain /\ Lists!InputsOfMain \in Nat
      /\ Len(Lists!FileLines) = 2
  BY AdderFacts, LineTypes DEF Lists!InputsOfMain, Lists!FileLines, ListHolds
<1>4. v6'["main"].count <= Lists!InputsOfMain
        + IF v2' /\ v6'["main"].pc \in {"push", "fill", "join", "end"} THEN 1 ELSE 0
  <2>1. CASE p = "main"
    BY <1>2, <2>1
  <2>2. CASE p # "main"
    <3>1. v6'["main"] = v6["main"] /\ v6["main"].count \in Nat
      BY <1>2, <2>2, AdderFacts
    <3> QED  BY <1>3, <3>1, AdderFacts
  <2> QED  BY <2>1, <2>2
<1>5. /\ v6'["reader"].count <= IF program = "s19" THEN 2 ELSE 0
      /\ v6'["reader"].pc \notin {"print", "join"}
  BY <1>2, AdderFacts
<1>6. \A q \in {"main", "reader"} : v6'[q].pc \in {"push", "fill"} => v6'[q].count > 0
  BY <1>2, AdderFacts
<1> QED  BY <1>1, <1>2, <1>3, <1>4, <1>5, <1>6 DEF Lists!AddersOK, Lists!Adding, Lists!AdderIds, AdderRecord

LEMMA AddersMoved ==
  ASSUME ListHolds, UNCHANGED <<program, v1, v3, v4, v5, v7, v8>>, v2' \in BOOLEAN,
         v9' \in {"no", "null list"},
         Lists!AddersOK',
         \A p \in {"main", "reader"} :
           /\ v6'[p].pc = "fill" => v6[p].pc = "fill"
           /\ v6'["main"].pc = "end" <=> v6["main"].pc = "end"
           /\ v6[p].pc = "end" => v6'[p].pc = "end"
           /\ Lists!Put(p)' = Lists!Put(p)
  PROVE  Lists!IInv'
<1>1. Lists!IInv /\ v9 = "no" /\ Lists!FirstNode /\ Lists!Counted /\ Lists!NodesOwned
      /\ Lists!ItemFollowsShift
  BY DEF ListHolds, Lists!IInv
<1>2. Lists!SortersOK' /\ Lists!NodesOwned' /\ Lists!ItemFollowsShift'
  BY <1>1, ListFrames
<1>3. Lists!LinesKept' /\ Lists!CrashNeedsLateLines'
  BY <1>1, ListFrames
<1>4. Lists!TypeOK'
  BY <1>1 DEF Lists!IInv, Lists!TypeOK, Lists!SorterIds, Lists!PerNode, Lists!Programs,
     Lists!Lines, Lists!Empty, Lists!MaxLen, Lists!Free
<1>5. Lists!FirstNode'
  BY <1>1 DEF Lists!FirstNode, Lists!AdderIds, Lists!PerNode
<1>6. Lists!Counted'
  BY <1>1 DEF Lists!Counted
<1> QED  BY <1>2, <1>3, <1>4, <1>5, <1>6 DEF Lists!IInv

\* A new state of one adder that leaves the list alone.
LEMMA AdderReads ==
  ASSUME ListHolds,
         UNCHANGED <<program, v1, v3, v4, v5, v7, v8, v9>>, v2' \in BOOLEAN, v2 => v2',
         NEW p \in {"main", "reader"}, NEW r \in AdderRecord, v6' = [v6 EXCEPT ![p] = r],
         v6[p].pc \in {"read", "print"}, r.pc # "fill",
         r.count = IF r.pc = "push" THEN v6[p].count + 1 ELSE v6[p].count,
         p = "main" => /\ r.pc # "end"
                       /\ r.count <= Lists!InputsOfMain
                            + IF v2' /\ r.pc \in {"push", "fill", "join", "end"} THEN 1 ELSE 0,
         p = "reader" => r.pc \notin {"print", "join"} /\ r.count <= 2 /\ program = "s19"
  PROVE  Lists!IInv'
<1>1. v6[p].count \in Nat /\ r.count \in Nat /\ (r.pc = "push" => r.count > 0)
  BY AdderFacts DEF AdderRecord
<1>2. Lists!AddersOK' /\ v6'[p] = r /\ \A q \in {"main", "reader"} : q # p => v6'[q] = v6[q]
  <2>1. UNCHANGED program /\ (r.pc \in {"push", "fill"} => r.count > 0)
    BY <1>1
  <2>2. p = "reader" => /\ r.pc \notin {"print", "join"}
                        /\ r.count <= IF program = "s19" THEN 2 ELSE 0
    OBVIOUS
  <2> QED  BY <2>1, <2>2, AdderChanged
<1>3. Lists!Put(p)' = Lists!Put(p)
  <2>1. ~Lists!Adding(p) /\ Lists!Put(p) = v6[p].count
    BY <1>1 DEF Lists!Put, Lists!Adding
  <2>2. Lists!Adding(p)' <=> r.pc = "push"
    BY <1>2 DEF Lists!Adding
  <2>3. Lists!Put(p)' = r.count - IF r.pc = "push" THEN 1 ELSE 0
    BY <1>2, <2>2 DEF Lists!Put
  <2>4. CASE r.pc = "push"
    BY <1>1, <2>1, <2>3, <2>4
  <2>5. CASE r.pc # "push"
    BY <1>1, <2>1, <2>3, <2>5
  <2> QED  BY <2>4, <2>5
<1>4. \A q \in {"main", "reader"} : q # p => Lists!Put(q)' = Lists!Put(q)
  BY <1>2 DEF Lists!Put, Lists!Adding
<1>5. \A q \in {"main", "reader"} :
         /\ v6'[q].pc = "fill" => v6[q].pc = "fill"
         /\ v6'["main"].pc = "end" <=> v6["main"].pc = "end"
         /\ v6[q].pc = "end" => v6'[q].pc = "end"
  BY <1>2
<1>6. v9' \in {"no", "null list"}
  BY DEF ListHolds
<1> QED  BY <1>2, <1>3, <1>4, <1>5, <1>6, AddersMoved

LEMMA MainReads ==
  ASSUME ListHolds,
         UNCHANGED <<program, v1, v2, v3, v4, v5, v7, v8, v9>>,
         NEW r \in AdderRecord, v6' = [v6 EXCEPT !["main"] = r],
         v6["main"].pc \in {"read", "print"},
         \/ r.pc \in {"read", "print"} /\ r.count = v6["main"].count
         \/ r.pc = "join" /\ v2 /\ r.count = v6["main"].count
         \/ /\ r.pc = "push" /\ r.count = v6["main"].count + 1
            /\ r.count <= Lists!InputsOfMain + IF v2 THEN 1 ELSE 0
  PROVE  Lists!IInv'
<1>1. v2' \in BOOLEAN /\ (v2 => v2') /\ r.pc # "fill" /\ r.pc # "end"
  BY AdderFacts
<1>2. r.count = IF r.pc = "push" THEN v6["main"].count + 1 ELSE v6["main"].count
  OBVIOUS
<1>3. v6["main"].count \in Nat /\ Lists!InputsOfMain \in Nat /\ v6["main"].count <= Lists!InputsOfMain
  BY AdderFacts
<1>4. r.count <= Lists!InputsOfMain
        + IF v2' /\ r.pc \in {"push", "fill", "join", "end"} THEN 1 ELSE 0
  BY <1>3
<1>5. UNCHANGED <<program, v1, v3, v4, v5, v7, v8, v9>> /\ "main" # "reader"
  OBVIOUS
<1> QED  BY <1>1, <1>2, <1>4, <1>5, AdderReads

LEMMA ReaderReads ==
  ASSUME ListHolds,
         UNCHANGED <<program, v1, v2, v3, v4, v5, v7, v8, v9>>, program = "s19",
         NEW r \in AdderRecord, v6' = [v6 EXCEPT !["reader"] = r],
         v6["reader"].pc = "read", r.count <= 2,
         \/ r.pc = "end" /\ r.count = v6["reader"].count
         \/ r.pc = "push" /\ r.count = v6["reader"].count + 1
  PROVE  Lists!IInv'
<1>1. v2' \in BOOLEAN /\ (v2 => v2') /\ r.pc # "fill" /\ r.pc \notin {"print", "join"}
  BY AdderFacts
<1>2. r.count = IF r.pc = "push" THEN v6["reader"].count + 1 ELSE v6["reader"].count
  OBVIOUS
<1>5. UNCHANGED <<program, v1, v3, v4, v5, v7, v8, v9>> /\ "main" # "reader"
  OBVIOUS
<1> QED  BY <1>1, <1>2, <1>5, AdderReads

LEMMA ReadingStep ==
  ASSUME ListHolds,
         \/ Lists!sig_handler \/ Lists!ReadDot \/ Lists!ReadNewline
         \/ \E line \in VALUES : Lists!ReadLine(line)
         \/ v2 /\ Lists!ReadLine(Lists!Empty)
         \/ Lists!readThread \/ Lists!PrintNode
  PROVE  Lists!IInv'
<1>1. Lists!IInv /\ v9 = "no" /\ Lists!FirstNode /\ Lists!Counted /\ Lists!NodesOwned
      /\ Lists!ItemFollowsShift
  BY DEF ListHolds, Lists!IInv
<1> DEFINE Lines == Lists!Lines
<1>2. 0 \in Lines /\ 1 \in Lines /\ 2 \in Lines /\ VALUES \subseteq Lines /\ 0 \notin VALUES
  BY LineTypes DEF ListHolds, ListConstants, Lists!Empty
<1> HIDE DEF Lines
<1>4. CASE Lists!sig_handler
  <2>1. UNCHANGED <<program, v1, v3, v4, v5, v6, v7, v8, v9>> /\ v2' = TRUE
    BY <1>4 DEF Lists!sig_handler
  <2>2. Lists!InputsOfMain' = Lists!InputsOfMain /\ Len(Lists!FileLines) = 2
    BY <2>1, LineTypes DEF Lists!InputsOfMain, ListHolds
  <2>3. v6["main"].count <= Lists!InputsOfMain
          + IF v2' /\ v6["main"].pc \in {"push", "fill", "join", "end"} THEN 1 ELSE 0
    BY <2>1, AdderFacts
  <2>4. Lists!AddersOK'
    BY <2>1, <2>2, <2>3, AdderFacts
    DEF Lists!AddersOK, Lists!Adding, Lists!AdderIds, AdderRecord, Lists!FileLines, Lists!Lines
  <2>5. \A p \in {"main", "reader"} : Lists!Put(p)' = Lists!Put(p)
    BY <2>1 DEF Lists!Put, Lists!Adding
  <2> QED  BY <1>1, <2>1, <2>4, <2>5, AddersMoved
<1> DEFINE m == v6["main"]
<1>5. m = v6["main"] /\ m \in AdderRecord /\ m.count \in Nat /\ Lists!InputsOfMain \in Nat /\ v2 \in BOOLEAN
      /\ m.line \in Lists!Lines /\ m.node \in Int
      /\ m.count <= Lists!InputsOfMain + (IF v2 /\ m.pc \in {"push", "fill", "join", "end"} THEN 1 ELSE 0)
  BY AdderFacts
<1> HIDE DEF m
\* Its updates.
<1>14. m \in AdderRecord /\ m.line \in Lists!Lines /\ m.node \in Int /\ m.count \in Nat
  BY <1>5
<1>15. m = v6["main"]
  BY <1>5
<1>16. ListHolds
  OBVIOUS
<1>6. CASE Lists!ReadDot
  <2> DEFINE r == [m EXCEPT !.pc = "join"]
  <2>1. /\ UNCHANGED <<program, v1, v3, v4, v5, v7, v8, v9>> /\ v2' = TRUE
        /\ m.pc = "read" /\ v6' = [v6 EXCEPT !["main"] = r]
    BY <1>5, <1>6, AdderFacts DEF Lists!ReadDot
  <2>2. r.pc = "join" /\ r.count = m.count
    BY <1>14, AdderFields
  <2>3. "join" \in AdderPcs
    BY DEF AdderPcs
  <2>4. r \in AdderRecord
    BY <1>14, <2>3, AdderUpdates, Zenon
  <2>5. v2' \in BOOLEAN /\ (v2 => v2') /\ m.pc \in {"read", "print"} /\ r.pc # "fill"
    BY <2>1, <2>2
  <2> HIDE DEF r
  <2>6. r.count = IF r.pc = "push" THEN m.count + 1 ELSE m.count
    BY <2>2
  <2>7. r.pc # "end" /\ r.count <= Lists!InputsOfMain
          + IF v2' /\ r.pc \in {"push", "fill", "join", "end"} THEN 1 ELSE 0
    BY <1>5, <2>1, <2>2
  <2> QED  BY <1>15, <2>1, <2>4, <2>5, <2>6, <2>7, AdderReads
<1>7. CASE Lists!ReadNewline
  <2> DEFINE r == [m EXCEPT !.pc = "print", !.node = 1]
  <2>1. CASE v3 = "null"
    <3>1. UNCHANGED <<program, v1, v2, v3, v4, v5, v6, v7, v8>> /\ v9' = "null list"
      BY <1>7, <2>1 DEF Lists!ReadNewline
    <3>2. Lists!AddersOK'
      BY <1>1, <3>1, ListFrames
    <3>3. \A p \in {"main", "reader"} : Lists!Put(p)' = Lists!Put(p)
      BY <3>1 DEF Lists!Put, Lists!Adding
    <3>4. v2' \in BOOLEAN /\ v9' \in {"no", "null list"}
      BY <1>5, <3>1
    <3>5. \A p \in {"main", "reader"} :
           /\ v6'[p].pc = "fill" => v6[p].pc = "fill"
           /\ v6'["main"].pc = "end" <=> v6["main"].pc = "end"
           /\ v6[p].pc = "end" => v6'[p].pc = "end"
           /\ Lists!Put(p)' = Lists!Put(p)
      BY <3>1, <3>3
    <3> QED  BY <1>16, <3>1, <3>2, <3>4, <3>5, AddersMoved
  <2>2. CASE v3 # "null"
    <3>1. /\ UNCHANGED <<program, v1, v2, v3, v4, v5, v7, v8, v9>>
          /\ m.pc = "read" /\ v6' = [v6 EXCEPT !["main"] = r]
      BY <1>5, <1>7, <2>2, AdderFacts DEF Lists!ReadNewline
    <3>2. r.pc = "print" /\ r.count = m.count
      BY <1>14, AdderFields
    <3>3. "print" \in AdderPcs /\ 1 \in Int
      BY DEF AdderPcs
    <3>4. r \in AdderRecord
      BY <1>14, <3>3, AdderUpdates, Zenon
    <3> HIDE DEF r
    <3> QED  BY <1>5, <1>16, <3>1, <3>2, <3>4, MainReads
  <2> QED  BY <2>1, <2>2
<1>8. ASSUME NEW line \in Lines, Lists!ReadLine(line), line = 0 => v2
      PROVE  Lists!IInv'
  <2> DEFINE r == [m EXCEPT !.pc = "push", !.line = line, !.count = m.count + 1,
                            !.node = IF v3 = "null" THEN 0 ELSE 1]
  <2>1. /\ UNCHANGED <<program, v1, v2, v3, v4, v5, v7, v8, v9>>
        /\ m.pc = "read" /\ v6' = [v6 EXCEPT !["main"] = r]
        /\ line = 0 \/ m.count < Lists!InputsOfMain
    BY <1>5, <1>8 DEF Lists!ReadLine, Lists!Empty
  <2> DEFINE x == IF v3 = "null" THEN 0 ELSE 1
  <2>4. "push" \in AdderPcs /\ x \in Int /\ m.count + 1 \in Nat /\ line \in Lists!Lines
    BY <1>14, <1>8 DEF AdderPcs, Lines
  <2> HIDE DEF x
  <2>5. [m EXCEPT !.pc = "push", !.line = line, !.count = m.count + 1, !.node = x] \in AdderRecord
    BY <1>14, <2>4, AdderUpdates, Zenon
  <2>6. r \in AdderRecord
    BY <2>5 DEF x
  <2>7. r.pc = "push" /\ r.count = m.count + 1
    BY <1>14, AdderFields
  <2> HIDE DEF r
  <2>2. r \in AdderRecord /\ r.pc = "push" /\ r.count = m.count + 1
    BY <2>6, <2>7
  <2>3. r.count <= Lists!InputsOfMain
          + IF v2 /\ r.pc \in {"push", "fill", "join", "end"} THEN 1 ELSE 0
    BY <1>5, <1>8, <2>1, <2>2
  <2> QED  BY <1>5, <1>16, <2>1, <2>2, <2>3, MainReads
<1>9. CASE Lists!readThread
  <2> DEFINE e == v6["reader"]
             k == e.count + 1
  <2>1. /\ UNCHANGED <<program, v1, v2, v3, v4, v5, v7, v8, v9>>
        /\ e.pc = "read" /\ program = "s19"
        /\ v6' = [v6 EXCEPT !["reader"] =
             IF v2 \/ k > Len(Lists!FileLines) THEN [e EXCEPT !.pc = "end"]
             ELSE [e EXCEPT !.pc = "push", !.line = Lists!FileLines[k], !.count = k,
                            !.node = IF v3 = "null" THEN 0 ELSE 1]]
    BY <1>9, AdderFacts DEF Lists!readThread
  <2>2. /\ e = v6["reader"] /\ e \in AdderRecord /\ e.count \in Nat /\ e.count <= 2
        /\ e.line \in Lists!Lines /\ e.node \in Int
    BY <2>1, AdderFacts
  <2>3. Len(Lists!FileLines) = 2 /\ Lists!FileLines[1] \in Lines /\ Lists!FileLines[2] \in Lines
    BY <1>2 DEF Lists!FileLines
  <2> HIDE DEF e
  <2>4. CASE v2 \/ k > 2
    <3> DEFINE r == [e EXCEPT !.pc = "end"]
    <3>1. v6' = [v6 EXCEPT !["reader"] = r]
      BY <2>1, <2>3, <2>4
    <3>2. r.pc = "end" /\ r.count = e.count
      BY <2>2, AdderFields
    <3>3. "end" \in AdderPcs
      BY DEF AdderPcs
    <3>4. r \in AdderRecord
      BY <2>2, <3>3, AdderUpdates, Zenon
    <3> HIDE DEF r
    <3> QED  BY <1>16, <2>1, <2>2, <3>1, <3>2, <3>4, ReaderReads
  <2>5. CASE ~(v2 \/ k > 2)
    <3> DEFINE r == [e EXCEPT !.pc = "push", !.line = Lists!FileLines[k], !.count = k,
                              !.node = IF v3 = "null" THEN 0 ELSE 1]
    <3>1. v6' = [v6 EXCEPT !["reader"] = r]
      BY <2>1, <2>3, <2>5
    <3>2. k \in {1, 2} /\ Lists!FileLines[k] \in Lines
      BY <2>2, <2>3, <2>5
    <3> DEFINE x == IF v3 = "null" THEN 0 ELSE 1
               l == Lists!FileLines[k]
    <3>4. "push" \in AdderPcs /\ x \in Int /\ k \in Nat /\ l \in Lists!Lines
      BY <3>2 DEF AdderPcs, Lines
    <3>5. k = e.count + 1
      OBVIOUS
    <3> HIDE DEF x, l, k
    <3>6. [e EXCEPT !.pc = "push", !.line = l, !.count = k, !.node = x] \in AdderRecord
      BY <2>2, <3>4, AdderUpdates, Zenon
    <3>7. r \in AdderRecord
      BY <3>6 DEF x, l
    <3>8. r.pc = "push" /\ r.count = k
      BY <2>2, AdderFields
    <3>3. r \in AdderRecord /\ r.pc = "push" /\ r.count = e.count + 1 /\ r.count <= 2
      BY <3>2, <3>5, <3>7, <3>8
    <3> HIDE DEF r
    <3> QED  BY <1>16, <2>1, <2>2, <3>1, <3>3, ReaderReads
  <2> QED  BY <2>4, <2>5
<1>10. CASE Lists!PrintNode
  <2>1. CASE Lists!Raw /\ m.pc = "print"
    <3>1. UNCHANGED <<program, v1, v2, v3, v4, v5, v6, v7, v8>> /\ v9' = "raw node"
      BY <2>1 DEF Lists!Raw
    <3>2. Lists!AddersOK' /\ Lists!SortersOK' /\ Lists!TypeOK' /\ Lists!LinesKept'
          /\ Lists!CrashNeedsLateLines'
      BY <1>1, <3>1, ListFrames
    <3> QED  BY <3>1, <3>2 DEF Lists!IInv
  <2>2. CASE ~(Lists!Raw /\ m.pc = "print")
    <3> DEFINE r == IF m.node < Len(v4) THEN [m EXCEPT !.node = m.node + 1]
                    ELSE [m EXCEPT !.pc = IF v2 THEN "join" ELSE "read", !.node = 0,
                                   !.line = 0]
    <3>1. /\ UNCHANGED <<program, v1, v2, v3, v4, v5, v7, v8, v9>>
          /\ m.pc = "print" /\ v6' = [v6 EXCEPT !["main"] = r]
      BY <1>5, <1>10, <2>2, AdderFacts DEF Lists!PrintNode, Lists!Added, Lists!Empty
    <3>2. m.node \in Int /\ 0 \in Lists!Lines
      BY <1>2, <1>5 DEF Lines
    <3> DEFINE x == m.node + 1
               c == IF v2 THEN "join" ELSE "read"
    <3>4. c \in AdderPcs /\ x \in Int /\ 0 \in Int /\ c \in {"join", "read"} /\ (c = "join" => v2)
      BY <1>14 DEF AdderPcs
    <3> HIDE DEF x, c
    <3>5. [m EXCEPT !.node = x] \in AdderRecord
          /\ [m EXCEPT !.pc = c, !.node = 0, !.line = 0] \in AdderRecord
      BY <1>14, <3>2, <3>4, AdderUpdates, Zenon
    <3>6. /\ [m EXCEPT !.node = x].pc = m.pc /\ [m EXCEPT !.node = x].count = m.count
          /\ [m EXCEPT !.pc = c, !.node = 0, !.line = 0].pc = c
          /\ [m EXCEPT !.pc = c, !.node = 0, !.line = 0].count = m.count
      BY <1>14, AdderFields
    <3>7. r = IF m.node < Len(v4) THEN [m EXCEPT !.node = x]
              ELSE [m EXCEPT !.pc = c, !.node = 0, !.line = 0]
      BY DEF x, c
    <3> HIDE DEF r
    <3>3. r \in AdderRecord /\ r.pc \in {"print", "join", "read"} /\ r.count = m.count
          /\ (r.pc = "join" => v2)
      <4>1. CASE m.node < Len(v4)
        BY <3>1, <3>5, <3>6, <3>7, <4>1
      <4>2. CASE ~(m.node < Len(v4))
        BY <3>1, <3>4, <3>5, <3>6, <3>7, <4>2
      <4> QED  BY <4>1, <4>2
    <3> QED  BY <1>5, <1>16, <3>1, <3>3, MainReads
  <2> QED  BY <1>10, <2>1, <2>2 DEF Lists!PrintNode
<1>11. ASSUME NEW line \in VALUES, Lists!ReadLine(line)
       PROVE  Lists!IInv'
  BY <1>2, <1>8, <1>11
<1>12. ASSUME v2, Lists!ReadLine(Lists!Empty)
       PROVE  Lists!IInv'
  BY <1>2, <1>8, <1>12 DEF Lists!Empty
<1> QED  BY <1>4, <1>6, <1>7, <1>9, <1>10, <1>11, <1>12

\* What Added makes of an adder.
LEMMA AddedFacts ==
  ASSUME ListHolds, NEW p \in {"main", "reader"}
  PROVE  /\ Lists!Added(p) \in AdderRecord /\ Lists!Added(p).count = v6[p].count
         /\ Lists!Added(p).pc = IF p = "main" /\ v2 THEN "join" ELSE "read"
<1> DEFINE m == v6[p]
           c == IF p = "main" /\ v2 THEN "join" ELSE "read"
<1>1. m \in AdderRecord /\ 0 \in Lists!Lines
  BY AdderFacts, LineTypes DEF ListHolds
<1>2. c \in AdderPcs /\ 0 \in Int
  BY DEF AdderPcs
<1>3. Lists!Added(p) = [m EXCEPT !.pc = c, !.node = 0, !.line = 0]
  BY DEF Lists!Added, Lists!Empty
<1> HIDE DEF m, c
<1>4. [m EXCEPT !.pc = c, !.node = 0, !.line = 0] \in AdderRecord
  BY <1>1, <1>2, AdderUpdates, Zenon
<1>5. /\ [m EXCEPT !.pc = c, !.node = 0, !.line = 0].pc = c
      /\ [m EXCEPT !.pc = c, !.node = 0, !.line = 0].count = m.count
  BY <1>1, AdderFields
<1>6. Lists!Added(p) \in AdderRecord /\ Lists!Added(p).count = m.count /\ Lists!Added(p).pc = c
  BY <1>3, <1>4, <1>5
<1> QED  BY <1>6 DEF m, c

\* The room there is for a line that is about to be added.
LEMMA RoomLeft ==
  ASSUME ListHolds, NEW p \in {"main", "reader"}, v6[p].pc \in {"push", "fill"}
  PROVE  /\ v6["main"].pc # "end" /\ Len(v4) \in Nat
         /\ Len(v4) = Lists!Put("main") + Lists!Put("reader")
         /\ Len(v4) + 1 <= Lists!MaxLen
<1>1. Lists!Counted /\ Lists!TypeOK
  BY DEF ListHolds, Lists!IInv
<1>2. v6["main"].pc # "end"
  BY <1>1 DEF Lists!Counted
<1>3. Len(v4) \in Nat /\ Len(v4) = Lists!Put("main") + Lists!Put("reader")
  BY <1>1, <1>2, ListRow DEF Lists!Counted, ListHolds
<1> DEFINE a == v6["main"].count
           b == v6["reader"].count
           x == Lists!Put("main")
           y == Lists!Put("reader")
           k == Lists!InputsOfMain
           M == Lists!MaxLen
<1>4. /\ a \in Nat /\ b \in Nat /\ k \in Nat
      /\ a <= k + 1 /\ b <= IF program = "s19" THEN 2 ELSE 0
  BY AdderFacts
<1>5. /\ x \in {a, a - 1} /\ y \in {b, b - 1}
      /\ p = "main" => x = a - 1
      /\ p = "reader" => y = b - 1
  BY <1>4 DEF Lists!Put, Lists!Adding
<1>6. k + (IF program = "s19" THEN 2 ELSE 0) <= INPUTS /\ M = INPUTS + 1 /\ INPUTS \in Nat
  BY LineTypes DEF ListHolds, ListConstants, Lists!MaxLen
<1>7. x + y = Len(v4)
  BY <1>3
<1> HIDE DEF a, b, x, y, k, M
<1>8. x + y + 1 <= M
  <2>1. CASE p = "main"
    BY <2>1, <1>4, <1>5, <1>6
  <2>2. CASE p = "reader"
    BY <2>2, <1>4, <1>5, <1>6
  <2> QED  BY <2>1, <2>2
<1>9. Len(v4) + 1 <= M
  BY <1>7, <1>8
<1> QED  BY <1>2, <1>3, <1>9 DEF M

SorterRecord ==
  [pc : {"sleep", "outer", "end"} \cup Lists!Walking \cup Lists!Comparing,
   node : Int, pair : {<<>>} \cup Lists!Lines \X Lists!Lines, sorted : BOOLEAN,
   pos : Nat, shift : Nat, seen : Nat]

LEMMA SorterFacts ==
  ASSUME ListHolds
  PROVE  /\ v7 \in [{1, 2} -> SorterRecord]
         /\ \A i \in {1, 2} :
              /\ v7[i] \in SorterRecord /\ v7[i].node \in Int /\ v7[i].sorted \in BOOLEAN
              /\ v7[i].pos \in Nat /\ v7[i].shift \in Nat /\ v7[i].seen \in Nat
              /\ v7[i].pair \in {<<>>} \cup Lists!Lines \X Lists!Lines
<1>1. Lists!SortersOK
  BY DEF ListHolds, Lists!IInv
<1>2. v7 \in [{1, 2} -> SorterRecord]
  BY <1>1 DEF Lists!SortersOK, SorterRecord
<1> QED  BY <1>2 DEF SorterRecord

LEMMA LineAdded ==
  ASSUME ListHolds, NEW p \in {"main", "reader"}, v6[p].pc \in {"push", "fill"},
         v3 = "raw" => v6[p].pc = "fill",
         v4' = Append(v4, v6[p].line), v8' = [v8 EXCEPT ![v6[p].line] = v8[v6[p].line] + 1],
         v3' = "set", v6' = [v6 EXCEPT ![p] = Lists!Added(p)],
         UNCHANGED <<program, v1, v2, v5, v7, v9>>
  PROVE  Lists!IInv'
<1> DEFINE r == Lists!Added(p)
           line == v6[p].line
<1>1. Lists!IInv /\ v9 = "no" /\ v9' = "no" /\ Lists!FirstNode /\ Lists!Counted /\ Lists!NodesOwned
      /\ Lists!ItemFollowsShift /\ Lists!TypeOK /\ Lists!LinesKept
  BY DEF ListHolds, Lists!IInv
<1>2. /\ v6["main"].pc # "end" /\ Len(v4) \in Nat
      /\ Len(v4) = Lists!Put("main") + Lists!Put("reader")
      /\ Len(v4) + 1 <= Lists!MaxLen
  BY RoomLeft
<1>3. /\ r \in AdderRecord /\ r.count = v6[p].count
      /\ r.pc = IF p = "main" /\ v2 THEN "join" ELSE "read"
  BY AddedFacts
<1>4. v4 \in Seq(Lists!Lines) /\ line \in Lists!Lines /\ v8 \in [Lists!Lines -> Nat]
      /\ v6[p].count \in Nat /\ v6[p].count > 0 /\ v2 \in BOOLEAN
  BY <1>1, AdderFacts DEF Lists!TypeOK
<1> HIDE DEF r
<1>5. /\ v4' \in Seq(Lists!Lines) /\ Len(v4') = Len(v4) + 1 /\ v4' # <<>>
      /\ DOMAIN v4 = 1 .. Len(v4)
      /\ \A n \in 1 .. Len(v4) : v4'[n] = v4[n]
  BY <1>4
<1>6. Lists!TypeOK'
  <2>1. v8' \in [Lists!Lines -> Nat]
    BY <1>4
  <2>2. Lists!Lines' = Lists!Lines /\ Lists!MaxLen' = Lists!MaxLen
    BY DEF Lists!Lines, Lists!MaxLen, Lists!Empty
  <2>3. v4' \in Seq(Lists!Lines') /\ Len(v4') <= Lists!MaxLen' /\ v8' \in [Lists!Lines' -> Nat]
    BY <1>2, <1>5, <2>1, <2>2
  <2>4. (v5 \in [1 .. Lists!MaxLen -> {Lists!Free} \cup Lists!SorterIds])'
    BY <1>1 DEF Lists!TypeOK, Lists!SorterIds, Lists!PerNode, Lists!MaxLen, Lists!Free
  <2>5. program' \in Lists!Programs' /\ v1' \in BOOLEAN /\ v2' \in BOOLEAN
        /\ v3' \in {"null", "raw", "set"}
    BY <1>1 DEF Lists!TypeOK, Lists!Programs
  <2> QED  BY <1>1, <2>3, <2>4, <2>5 DEF Lists!TypeOK
<1>7. Lists!AddersOK' /\ v6'[p] = r /\ \A q \in {"main", "reader"} : q # p => v6'[q] = v6[q]
  <2>1. v6' = [v6 EXCEPT ![p] = r]
    BY DEF r
  <2>2. UNCHANGED program /\ v2' \in BOOLEAN /\ (v2 => v2') /\ r.pc \notin {"push", "fill"}
    BY <1>3, <1>4
  <2>3. p = "main" =>
           r.count <= Lists!InputsOfMain
             + IF v2' /\ r.pc \in {"push", "fill", "join", "end"} THEN 1 ELSE 0
    BY <1>3, <1>4, AdderFacts
  <2>4. p = "reader" => /\ r.pc \notin {"print", "join"}
                        /\ r.count <= IF program = "s19" THEN 2 ELSE 0
    BY <1>3, AdderFacts
  <2> QED  BY <1>3, <2>1, <2>2, <2>3, <2>4, AdderChanged
<1>8. Lists!SortersOK'
  BY <1>1, ListFrames
<1>9. Lists!FirstNode'
  <2>1. \A q \in {"main", "reader"} : v6'[q].pc # "fill"
    <3>1. v6'[p].pc # "fill"
      BY <1>3, <1>7
    <3>2. ASSUME NEW q \in {"main", "reader"}, q # p
          PROVE  v6'[q].pc # "fill"
      BY <1>1, <1>7, <3>2 DEF Lists!FirstNode, Lists!AdderIds
    <3> QED  BY <3>1, <3>2
  <2> QED  BY <1>5, <2>1 DEF Lists!FirstNode, Lists!AdderIds
<1>10. Lists!Counted'
  <2>1. v6'["main"].pc # "end"
    BY <1>2, <1>3, <1>7
  <2>2. Lists!Put(p)' = Lists!Put(p) + 1
    <3>1. Lists!Put(p) = v6[p].count - 1
      BY DEF Lists!Put, Lists!Adding
    <3>2. Lists!Put(p)' = v6[p].count - 0
      BY <1>3, <1>7 DEF Lists!Put, Lists!Adding
    <3> QED  BY <1>4, <3>1, <3>2
  <2>3. \A q \in {"main", "reader"} : q # p => Lists!Put(q)' = Lists!Put(q)
    BY <1>7 DEF Lists!Put, Lists!Adding
  <2>4. Lists!Put("main") \in Int /\ Lists!Put("reader") \in Int
    BY AdderFacts DEF Lists!Put
  <2>5. Len(v4') = Lists!Put("main")' + Lists!Put("reader")'
    <3>1. CASE p = "main"
      BY <1>2, <1>5, <2>2, <2>3, <2>4, <3>1
    <3>2. CASE p = "reader"
      BY <1>2, <1>5, <2>2, <2>3, <2>4, <3>2
    <3> QED  BY <3>1, <3>2
  <2> QED  BY <2>1, <2>5 DEF Lists!Counted
<1>11. Lists!NodesOwned'
  BY <1>1, <1>2, <1>5, SorterFacts DEF Lists!NodesOwned, Lists!Walking
<1>12. Lists!ItemFollowsShift'
  BY <1>1, <1>2, <1>5 DEF Lists!ItemFollowsShift, Lists!Comparing
<1>13. Lists!LinesKept'
  <2>1. ASSUME NEW v \in Lists!Lines
        PROVE  Cardinality(Spots(v4', v)) = v8'[v]
    <3>1. /\ Cardinality(Spots(v4, v)) \in Nat
          /\ Cardinality(Spots(v4', v)) = Cardinality(Spots(v4, v)) + IF line = v THEN 1 ELSE 0
      BY <1>4, LineAppended
    <3>2. Cardinality(Spots(v4, v)) = v8[v]
      BY <1>1, <1>2, <2>1, ListsCardinality DEF Lists!LinesKept, Spots
    <3>3. v8'[v] = v8[v] + IF line = v THEN 1 ELSE 0
      BY <1>4, <2>1
    <3> QED  BY <3>1, <3>2, <3>3
  <2>2. Lists!Lines' = Lists!Lines
    BY DEF Lists!Lines, Lists!Empty
  <2> QED  BY <2>1, <2>2, ListsCardinality DEF Lists!LinesKept, Spots
<1>14. Lists!CrashNeedsLateLines'
  BY <1>1, ListFrames
<1> QED  BY <1>1, <1>6, <1>7, <1>8, <1>9, <1>10, <1>11, <1>12, <1>13, <1>14 DEF Lists!IInv

LEMMA RawStep ==
  ASSUME ListHolds, Lists!Raw
  PROVE  Lists!IInv'
<1>1. Lists!IInv /\ UNCHANGED <<program, v1, v2, v3, v4, v5, v6, v7, v8>> /\ v9' = "raw node"
  BY DEF Lists!Raw, ListHolds
<1>2. Lists!AddersOK' /\ Lists!SortersOK' /\ Lists!TypeOK' /\ Lists!LinesKept'
      /\ Lists!CrashNeedsLateLines'
  BY <1>1, ListFrames
<1> QED  BY <1>1, <1>2 DEF Lists!IInv

LEMMA FirstStep ==
  ASSUME ListHolds, NEW p \in {"main", "reader"}, Lists!pushFirst(p)
  PROVE  Lists!IInv'
<1> DEFINE m == v6[p]
           r == [m EXCEPT !.pc = "fill"]
<1>1. Lists!IInv /\ v9 = "no" /\ Lists!FirstNode /\ Lists!Counted /\ Lists!NodesOwned
      /\ Lists!ItemFollowsShift /\ Lists!TypeOK /\ Lists!LinesKept
  BY DEF ListHolds, Lists!IInv
<1>2. m = v6[p] /\ m \in AdderRecord
  BY AdderFacts
<1> HIDE DEF m
<1>3. /\ UNCHANGED <<program, v1, v2, v4, v5, v7, v8>> /\ program \in Lists!PerNode
      /\ m.pc = "push" /\ v3' = "raw" /\ v6' = [v6 EXCEPT ![p] = r]
      /\ v9' = IF v3 = "null" THEN "no" ELSE "two first nodes"
  BY <1>1, <1>2 DEF Lists!pushFirst
<1>4. r.pc = "fill" /\ r.count = m.count
  BY <1>2, AdderFields
<1>5. "fill" \in AdderPcs
  BY DEF AdderPcs
<1>6. r \in AdderRecord
  BY <1>2, <1>5, AdderUpdates, Zenon
<1> HIDE DEF r
<1>7. Lists!AddersOK' /\ v6'[p] = r /\ \A q \in {"main", "reader"} : q # p => v6'[q] = v6[q]
  <2>1. UNCHANGED program /\ v2' \in BOOLEAN /\ (v2 => v2') /\ r.count > 0
    BY <1>2, <1>3, <1>4, AdderFacts
  <2>2. p = "main" =>
           r.count <= Lists!InputsOfMain
             + IF v2' /\ r.pc \in {"push", "fill", "join", "end"} THEN 1 ELSE 0
    BY <1>2, <1>3, <1>4, AdderFacts
  <2>3. p = "reader" => /\ r.pc \notin {"print", "join"}
                        /\ r.count <= IF program = "s19" THEN 2 ELSE 0
    BY <1>2, <1>4, AdderFacts
  <2> QED  BY <1>3, <1>6, <2>1, <2>2, <2>3, AdderChanged
<1>8. Lists!SortersOK' /\ Lists!LinesKept' /\ Lists!CrashNeedsLateLines'
  BY <1>1, <1>2, <1>3, <1>4, <1>7, ListFrames
<1>9. Lists!TypeOK'
  BY <1>1, <1>3 DEF Lists!TypeOK, Lists!SorterIds, Lists!PerNode, Lists!Programs, Lists!Lines,
     Lists!Empty, Lists!MaxLen, Lists!Free
<1>10. v9' = "no" => /\ Lists!FirstNode' /\ Lists!Counted' /\ Lists!NodesOwned'
                     /\ Lists!ItemFollowsShift'
  <2> SUFFICES ASSUME v9' = "no"
               PROVE  /\ Lists!FirstNode' /\ Lists!Counted' /\ Lists!NodesOwned'
                      /\ Lists!ItemFollowsShift'
    OBVIOUS
  <2>1. v3 = "null" /\ v4 = <<>> /\ \A q \in {"main", "reader"} : v6[q].pc # "fill"
    BY <1>1, <1>3 DEF Lists!FirstNode, Lists!AdderIds
  <2>2. Lists!FirstNode'
    BY <1>3, <1>4, <1>7, <2>1 DEF Lists!FirstNode, Lists!AdderIds, Lists!PerNode
  <2>3. Lists!Counted'
    <3>1. \A q \in {"main", "reader"} : Lists!Put(q)' = Lists!Put(q)
      BY <1>2, <1>3, <1>4, <1>7 DEF Lists!Put, Lists!Adding
    <3>2. (v6'["main"].pc = "end" <=> v6["main"].pc = "end")
          /\ (v6["reader"].pc = "end" => v6'["reader"].pc = "end" \/ p = "reader")
          /\ (p = "reader" => v6["main"].pc # "end")
      BY <1>1, <1>2, <1>3, <1>4, <1>7 DEF Lists!Counted
    <3> QED  BY <1>1, <1>3, <1>7, <3>1, <3>2 DEF Lists!Counted
  <2>4. Lists!NodesOwned'
    BY <1>1, <1>3, <2>1 DEF Lists!NodesOwned, Lists!Walking
  <2>5. Lists!ItemFollowsShift'
    BY <1>1, <1>3, ListFrames
  <2> QED  BY <2>2, <2>3, <2>4, <2>5
<1> QED  BY <1>7, <1>8, <1>9, <1>10 DEF Lists!IInv

LEMMA AddingStep ==
  ASSUME ListHolds,
         \/ Lists!pushLine17 \/ Lists!handle_input \/ Lists!add_string \/ Lists!pushLine18
         \/ \E p \in {"main", "reader"} :
              Lists!pushFirst(p) \/ Lists!fillFirst(p) \/ Lists!pushLine19(p)
  PROVE  Lists!IInv'
<1>1. Lists!IInv /\ v9 = "no" /\ Lists!FirstNode
  BY DEF ListHolds, Lists!IInv
<1>2. CASE Lists!pushLine17 \/ Lists!handle_input \/ Lists!add_string
  <2>1. Lists!Push("main") /\ program \notin Lists!PerNode
    BY <1>2 DEF Lists!pushLine17, Lists!handle_input, Lists!add_string, Lists!PerNode
  <2>2. v3 # "raw"
    BY <1>1, <2>1 DEF Lists!FirstNode
  <2> QED  BY <2>1, <2>2, LineAdded DEF Lists!Push
<1>3. ASSUME NEW p \in {"main", "reader"}, Lists!fillFirst(p)
      PROVE  Lists!IInv'
  <2>1. v4 = <<>> /\ v6[p].line \in Lists!Lines
    BY <1>1, <1>3, AdderFacts DEF Lists!FirstNode, Lists!fillFirst, Lists!AdderIds
  <2>2. <<v6[p].line>> = Append(v4, v6[p].line)
    BY <2>1
  <2> QED  BY <1>3, <2>2, LineAdded DEF Lists!fillFirst
<1>4. ASSUME NEW p \in {"main", "reader"}, Lists!PushNode(p)
      PROVE  Lists!IInv'
  <2>1. CASE Lists!Raw
    BY <2>1, RawStep
  <2>2. CASE v3 = "set" /\ v6[p].node = Len(v4) /\ ~Lists!Raw
    BY <1>4, <2>2, LineAdded DEF Lists!PushNode
  <2>3. CASE v3 = "set" /\ v6[p].node # Len(v4) /\ ~Lists!Raw
    <3> DEFINE m == v6[p]
               x == m.node + 1
               r == [m EXCEPT !.node = x]
    <3>1. m = v6[p] /\ m \in AdderRecord /\ x \in Int
      BY AdderFacts
    <3>2. /\ UNCHANGED <<program, v1, v2, v3, v4, v5, v7, v8, v9>>
          /\ m.pc = "push" /\ v6' = [v6 EXCEPT ![p] = r]
      BY <1>4, <2>3 DEF Lists!PushNode
    <3> HIDE DEF m, x
    <3>3. r.pc = "push" /\ r.count = m.count
      BY <3>1, <3>2, AdderFields
    <3>4. r \in AdderRecord
      BY <3>1, AdderUpdates, Zenon
    <3> HIDE DEF r
    <3>5. Lists!AddersOK' /\ v6'[p] = r /\ \A q \in {"main", "reader"} : q # p => v6'[q] = v6[q]
      <4>1. UNCHANGED program /\ v2' \in BOOLEAN /\ (v2 => v2') /\ r.count > 0
        BY <3>1, <3>2, <3>3, AdderFacts
      <4>2. p = "main" =>
               r.count <= Lists!InputsOfMain
                 + IF v2' /\ r.pc \in {"push", "fill", "join", "end"} THEN 1 ELSE 0
        BY <3>1, <3>2, <3>3, AdderFacts
      <4>3. p = "reader" => /\ r.pc \notin {"print", "join"}
                            /\ r.count <= IF program = "s19" THEN 2 ELSE 0
        BY <3>1, <3>3, AdderFacts
      <4> QED  BY <3>2, <3>4, <4>1, <4>2, <4>3, AdderChanged
    <3>6. \A q \in {"main", "reader"} :
           /\ v6'[q].pc = "fill" => v6[q].pc = "fill"
           /\ v6'["main"].pc = "end" <=> v6["main"].pc = "end"
           /\ v6[q].pc = "end" => v6'[q].pc = "end"
           /\ Lists!Put(q)' = Lists!Put(q)
      BY <3>1, <3>2, <3>3, <3>5 DEF Lists!Put, Lists!Adding
    <3>7. v2' \in BOOLEAN /\ v9' \in {"no", "null list"}
      BY <1>1, <3>2, AdderFacts
    <3>8. UNCHANGED <<program, v1, v3, v4, v5, v7, v8>>
      BY <3>2
    <3> QED  BY <3>5, <3>6, <3>7, <3>8, AddersMoved
  <2> QED  BY <1>4, <2>1, <2>2, <2>3 DEF Lists!PushNode
<1>5. CASE Lists!pushLine18
  BY <1>4, <1>5 DEF Lists!pushLine18
<1>6. ASSUME NEW p \in {"main", "reader"}, Lists!pushLine19(p)
      PROVE  Lists!IInv'
  BY <1>4, <1>6 DEF Lists!pushLine19
<1>7. ASSUME NEW p \in {"main", "reader"}, Lists!pushFirst(p)
      PROVE  Lists!IInv'
  BY <1>7, FirstStep
<1> QED  BY <1>2, <1>3, <1>5, <1>6, <1>7

SorterPcs == {"sleep", "outer", "end"} \cup Lists!Walking \cup Lists!Comparing
Pairs == {<<>>} \cup Lists!Lines \X Lists!Lines

LEMMA SorterUpdates ==
  ASSUME NEW s \in SorterRecord
  PROVE  /\ \A c \in SorterPcs : [s EXCEPT !.pc = c] \in SorterRecord
         /\ \A c \in SorterPcs, x \in Int : [s EXCEPT !.pc = c, !.node = x] \in SorterRecord
         /\ \A c \in SorterPcs, k \in Nat : [s EXCEPT !.pc = c, !.pos = k] \in SorterRecord
         /\ \A c \in SorterPcs, q \in Pairs : [s EXCEPT !.pc = c, !.pair = q] \in SorterRecord
         /\ \A c \in SorterPcs, x \in Int, b \in BOOLEAN :
              [s EXCEPT !.pc = c, !.node = x, !.sorted = b] \in SorterRecord
         /\ \A c \in SorterPcs, q \in Pairs, b \in BOOLEAN :
              [s EXCEPT !.pc = c, !.pair = q, !.sorted = b] \in SorterRecord
         /\ \A c \in SorterPcs, x \in Int, k \in Nat :
              [s EXCEPT !.pc = c, !.node = x, !.shift = k] \in SorterRecord
         /\ \A c \in SorterPcs, x \in Int, k, h \in Nat :
              [s EXCEPT !.pc = c, !.pos = k, !.shift = k, !.node = x, !.seen = h] \in SorterRecord
<1>1. \A c \in SorterPcs : [s EXCEPT !.pc = c] \in SorterRecord
  BY DEF SorterRecord, SorterPcs
<1>2. \A c \in SorterPcs, x \in Int : [s EXCEPT !.pc = c, !.node = x] \in SorterRecord
  BY DEF SorterRecord, SorterPcs
<1>3. \A c \in SorterPcs, k \in Nat : [s EXCEPT !.pc = c, !.pos = k] \in SorterRecord
  BY DEF SorterRecord, SorterPcs
<1>4. \A c \in SorterPcs, q \in Pairs : [s EXCEPT !.pc = c, !.pair = q] \in SorterRecord
  BY DEF SorterRecord, SorterPcs, Pairs
<1>5. \A c \in SorterPcs, x \in Int, b \in BOOLEAN :
        [s EXCEPT !.pc = c, !.node = x, !.sorted = b] \in SorterRecord
  BY DEF SorterRecord, SorterPcs
<1>6. \A c \in SorterPcs, q \in Pairs, b \in BOOLEAN :
        [s EXCEPT !.pc = c, !.pair = q, !.sorted = b] \in SorterRecord
  BY DEF SorterRecord, SorterPcs, Pairs
<1>7. \A c \in SorterPcs, x \in Int, k \in Nat :
        [s EXCEPT !.pc = c, !.node = x, !.shift = k] \in SorterRecord
  BY DEF SorterRecord, SorterPcs
<1>8. \A c \in SorterPcs, x \in Int, k, h \in Nat :
        [s EXCEPT !.pc = c, !.pos = k, !.shift = k, !.node = x, !.seen = h] \in SorterRecord
  BY DEF SorterRecord, SorterPcs
<1> QED  BY <1>1, <1>2, <1>3, <1>4, <1>5, <1>6, <1>7, <1>8

\* A step of a sorter that neither adds a line nor loses one.
LEMMA SorterMoves ==
  ASSUME ListHolds, UNCHANGED <<program, v1, v2, v3, v6, v8, v9>>,
         NEW i \in {1, 2}, v7[i].pc # "end", NEW r \in SorterRecord, v7' = [v7 EXCEPT ![i] = r],
         r.pc \in Lists!Walking => program \in Lists!PerNode,
         r.pc \in Lists!Comparing \cup {"outer"} => program = "m17" /\ i = 1,
         v5' \in [1 .. Lists!MaxLen -> {Lists!Free} \cup Lists!SorterIds],
         v4' \in Seq(Lists!Lines), Len(v4') = Len(v4),
         \A v \in Lists!Lines : Cardinality(Spots(v4', v)) = Cardinality(Spots(v4, v)),
         Lists!NodesOwned', Lists!ItemFollowsShift'
  PROVE  Lists!IInv'
<1>1. Lists!IInv /\ v9 = "no" /\ v9' = "no" /\ Lists!FirstNode /\ Lists!Counted /\ Lists!TypeOK
      /\ Lists!LinesKept /\ Lists!SortersOK
  BY DEF ListHolds, Lists!IInv
<1>2. /\ v7' \in [{1, 2} -> SorterRecord] /\ v7'[i] = r
      /\ \A j \in {1, 2} : j # i => v7'[j] = v7[j]
  BY SorterFacts
<1>3. /\ v6["main"].pc # "end" /\ i \in Lists!SorterIds
      /\ Lists!Lines' = Lists!Lines /\ Lists!SorterIds' = Lists!SorterIds
      /\ Lists!MaxLen' = Lists!MaxLen /\ Lists!PerNode' = Lists!PerNode
  BY <1>1 DEF Lists!Counted, Lists!SortersOK, Lists!Lines, Lists!SorterIds, Lists!MaxLen,
     Lists!PerNode, Lists!Empty
<1>4. Lists!AddersOK' /\ Lists!CrashNeedsLateLines'
  BY <1>1, ListFrames
<1>5. Lists!SortersOK'
  <2>1. v7' \in [{1, 2} -> SorterRecord]'
    BY <1>2, <1>3 DEF SorterRecord, Lists!Walking, Lists!Comparing
  <2>2. \A j \in {1, 2} :
          /\ v7'[j].pc \in Lists!Walking => program' \in Lists!PerNode
          /\ v7'[j].pc \in Lists!Comparing \cup {"outer"} => program' = "m17" /\ j = 1
          /\ j \notin Lists!SorterIds => v7'[j].pc = "end"
    <3>1. ASSUME NEW j \in {1, 2}
          PROVE  /\ v7[j].pc \in Lists!Walking => program \in Lists!PerNode
                 /\ v7[j].pc \in Lists!Comparing \cup {"outer"} => program = "m17" /\ j = 1
                 /\ j \notin Lists!SorterIds => v7[j].pc = "end"
      BY <1>1, <3>1 DEF Lists!SortersOK
    <3> QED  BY <1>2, <1>3, <3>1
  <2>3. Lists!Walking' = Lists!Walking /\ Lists!Comparing' = Lists!Comparing
    BY DEF Lists!Walking, Lists!Comparing
  <2> QED  BY <1>3, <2>1, <2>2, <2>3 DEF Lists!SortersOK, SorterRecord
<1>6. Lists!TypeOK'
  <2>1. v8 \in [Lists!Lines -> Nat] /\ Len(v4) <= Lists!MaxLen /\ program \in Lists!Programs
        /\ v1 \in BOOLEAN /\ v2 \in BOOLEAN /\ v3 \in {"null", "raw", "set"}
    BY <1>1 DEF Lists!TypeOK
  <2>2. Lists!Programs' = Lists!Programs /\ Lists!Free' = Lists!Free
    BY DEF Lists!Programs, Lists!Free
  <2> QED  BY <1>1, <1>3, <2>1, <2>2 DEF Lists!TypeOK
<1>7. v4 \in Seq(Lists!Lines)
  BY <1>1 DEF Lists!TypeOK
<1>8. Lists!FirstNode'
  <2>1. v4' = <<>> <=> v4 = <<>>
    BY <1>7
  <2> QED  BY <1>1, <1>3, <2>1 DEF Lists!FirstNode, Lists!AdderIds
<1>9. Lists!Counted'
  BY <1>1, <1>3 DEF Lists!Counted, Lists!Put, Lists!Adding
<1>10. Lists!LinesKept'
  <2>1. \A v \in Lists!Lines : Cardinality(Spots(v4, v)) = v8[v]
    BY <1>1, <1>3, ListsCardinality DEF Lists!LinesKept, Spots
  <2> QED  BY <1>3, <2>1, ListsCardinality DEF Lists!LinesKept, Spots
<1> QED  BY <1>1, <1>4, <1>5, <1>6, <1>8, <1>9, <1>10 DEF Lists!IInv

\* The sorters with one mutex: the step that sorts.
LEMMA SortAllStep ==
  ASSUME ListHolds, program \in {"s17", "a17"}, NEW t, Lists!SortAll(1, t),
         SortOf(t, v4, Lists!Lines, Len(v4))
  PROVE  Lists!IInv'
<1>1. /\ UNCHANGED <<program, v1, v2, v3, v5, v6, v7, v8, v9>> /\ v4' = t
      /\ v7[1].pc = "sleep"
  BY DEF Lists!SortAll
<1>2. Lists!SortersOK /\ Lists!TypeOK
  BY DEF ListHolds, Lists!IInv
<1>3. v7[1] \in SorterRecord /\ v7' = [v7 EXCEPT ![1] = v7[1]]
  BY <1>1, SorterFacts
<1>4. \A i \in {1, 2} : v7[i].pc \notin Lists!Walking \cup Lists!Comparing
  BY <1>2 DEF Lists!SortersOK, Lists!PerNode
<1>5. Lists!NodesOwned' /\ Lists!ItemFollowsShift'
  BY <1>1, <1>4 DEF Lists!NodesOwned, Lists!ItemFollowsShift, Lists!Walking, Lists!Comparing
<1>6. /\ v4' \in Seq(Lists!Lines) /\ Len(v4') = Len(v4)
      /\ \A v \in Lists!Lines : Cardinality(Spots(v4', v)) = Cardinality(Spots(v4, v))
  BY <1>1 DEF SortOf, Rows
<1>7. v5' \in [1 .. Lists!MaxLen -> {Lists!Free} \cup Lists!SorterIds]
  BY <1>1, <1>2 DEF Lists!TypeOK
<1>8. v7[1].pc \notin Lists!Walking /\ v7[1].pc \notin Lists!Comparing \cup {"outer"}
  BY <1>1 DEF Lists!Walking, Lists!Comparing
<1>9. UNCHANGED <<program, v1, v2, v3, v6, v8, v9>> /\ v7[1].pc # "end"
  BY <1>1
<1> DEFINE r == v7[1]
<1>10. r \in SorterRecord /\ r.pc \notin Lists!Walking /\ r.pc \notin Lists!Comparing \cup {"outer"}
       /\ v7' = [v7 EXCEPT ![1] = r]
  BY <1>3, <1>8
<1> HIDE DEF r
<1> QED  BY <1>5, <1>6, <1>7, <1>9, <1>10, SorterMoves

LEMMA StopStep ==
  ASSUME ListHolds, NEW i \in {1, 2}, Lists!StopSorting(i)
  PROVE  Lists!IInv'
<1> DEFINE s == v7[i]
           r == [s EXCEPT !.pc = "end"]
<1>1. s = v7[i] /\ s \in SorterRecord
  BY SorterFacts
<1>2. /\ UNCHANGED <<program, v1, v2, v3, v4, v5, v6, v8, v9>> /\ v7' = [v7 EXCEPT ![i] = r]
      /\ v7[i].pc = "sleep"
  BY DEF Lists!StopSorting
<1>3. "end" \in SorterPcs
  BY DEF SorterPcs
<1> HIDE DEF s
<1>4. r \in SorterRecord
  BY <1>1, <1>3, SorterUpdates, Zenon
<1>5. r.pc = "end"
  BY <1>1 DEF SorterRecord
<1> HIDE DEF r
<1>6. v7'[i] = r /\ \A j \in {1, 2} : j # i => v7'[j] = v7[j]
  BY <1>2, SorterFacts
<1>7. Lists!NodesOwned /\ Lists!ItemFollowsShift /\ Lists!TypeOK
  BY DEF ListHolds, Lists!IInv
<1>8. Lists!NodesOwned' /\ Lists!ItemFollowsShift'
  BY <1>2, <1>5, <1>6, <1>7 DEF Lists!NodesOwned, Lists!ItemFollowsShift, Lists!Walking,
     Lists!Comparing
<1>9. /\ v5' \in [1 .. Lists!MaxLen -> {Lists!Free} \cup Lists!SorterIds]
      /\ v4' \in Seq(Lists!Lines) /\ Len(v4') = Len(v4)
      /\ \A v \in Lists!Lines : Cardinality(Spots(v4', v)) = Cardinality(Spots(v4, v))
  BY <1>2, <1>7 DEF Lists!TypeOK
<1>10. r.pc \notin Lists!Walking /\ r.pc \notin Lists!Comparing \cup {"outer"}
  BY <1>5 DEF Lists!Walking, Lists!Comparing
<1>11. UNCHANGED <<program, v1, v2, v3, v6, v8, v9>> /\ v7[i].pc # "end"
  BY <1>2
<1> QED  BY <1>2, <1>4, <1>8, <1>9, <1>10, <1>11, SorterMoves

LEMMA WholeStep ==
  ASSUME ListHolds, Lists!sortThread17 \/ Lists!sort_iteratively \/ Lists!sort_thread
  PROVE  Lists!IInv'
<1>1. v4 \in Rows(Lists!Lines, Len(v4)) /\ Len(v4) \in Nat /\ Lists!Lines \in SUBSET Int
  BY ListRow DEF ListHolds, Lists!IInv
<1>2. /\ SortOf(Lists!sortedBy17(v4), v4, Lists!Lines, Len(v4))
      /\ SortOf(Lists!sort_list(v4), v4, Lists!Lines, Len(v4))
  BY <1>1, ListSorted
<1>3. CASE Lists!sortThread17
  <2>1. CASE Lists!SortAll(1, Lists!sortedBy17(v4))
    BY <1>2, <1>3, <2>1, SortAllStep DEF Lists!sortThread17
  <2>2. CASE Lists!StopSorting(1)
    BY <2>2, StopStep
  <2>3. CASE UNCHANGED <<program, v1, v2, v3, v4, v5, v6, v7, v8>> /\ v9' = "null list"
    <3>1. Lists!IInv
      BY DEF ListHolds
    <3>2. Lists!AddersOK' /\ Lists!SortersOK' /\ Lists!TypeOK' /\ Lists!LinesKept'
          /\ Lists!CrashNeedsLateLines'
      BY <2>3, <3>1, ListFrames
    <3> QED  BY <2>3, <3>2 DEF Lists!IInv
  <2> QED  BY <1>3, <2>1, <2>2, <2>3 DEF Lists!sortThread17
<1>4. CASE Lists!sort_iteratively
  <2>1. CASE Lists!SortAll(1, Lists!sort_list(v4))
    BY <1>2, <1>4, <2>1, SortAllStep DEF Lists!sort_iteratively
  <2> QED  BY <1>4, <2>1, StopStep DEF Lists!sort_iteratively
<1>5. CASE Lists!sort_thread
  BY <1>5, StopStep DEF Lists!sort_thread
<1> QED  BY <1>3, <1>4, <1>5

\* The end: the list of what is left is not constrained any more.
LEMMA ClearStep ==
  ASSUME ListHolds,
         Lists!main17 \/ Lists!main18 \/ Lists!main19 \/ Lists!arkhipovMain \/ Lists!clear_all
  PROVE  Lists!IInv'
<1>1. Lists!IInv /\ v9 = "no" /\ Lists!FirstNode /\ Lists!Counted /\ Lists!NodesOwned
      /\ Lists!ItemFollowsShift /\ Lists!TypeOK /\ v4 \in Seq(Lists!Lines)
      /\ Len(v4) <= Lists!MaxLen /\ Lists!MaxLen \in Nat
  BY LineTypes DEF ListHolds, Lists!IInv, Lists!TypeOK
<1>2. PICK rest \in {Lists!AllButLast, <<>>} : Lists!Cleared(rest)
  BY DEF Lists!main17, Lists!main18, Lists!main19, Lists!arkhipovMain, Lists!clear_all
<1>3. /\ UNCHANGED <<program, v1, v2, v3, v5, v7, v8>> /\ Lists!JoinAll
      /\ \/ v9' = "join" /\ UNCHANGED <<v4, v6>>
         \/ /\ v6' = [v6 EXCEPT !["main"].pc = "end"] /\ v4' = rest /\ v9' = "no"
  BY <1>1, <1>2 DEF Lists!Cleared
<1>4. CASE v9' = "join" /\ UNCHANGED <<v4, v6>>
  <2>1. Lists!AddersOK' /\ Lists!SortersOK' /\ Lists!TypeOK' /\ Lists!LinesKept'
        /\ Lists!CrashNeedsLateLines'
    BY <1>1, <1>3, <1>4, ListFrames
  <2> QED  BY <1>4, <2>1 DEF Lists!IInv
<1>5. CASE v6' = [v6 EXCEPT !["main"].pc = "end"] /\ v4' = rest /\ v9' = "no"
  <2> DEFINE m == v6["main"]
             r == [m EXCEPT !.pc = "end"]
  <2>1. m = v6["main"] /\ m \in AdderRecord /\ v6' = [v6 EXCEPT !["main"] = r] /\ m.pc = "join"
    BY <1>3, <1>5, AdderFacts DEF Lists!JoinAll
  <2> HIDE DEF m
  <2>2. r.pc = "end" /\ r.count = m.count
    BY <2>1, AdderFields
  <2>3. "end" \in AdderPcs
    BY DEF AdderPcs
  <2>4. r \in AdderRecord
    BY <2>1, <2>3, AdderUpdates, Zenon
  <2> HIDE DEF r
  <2>5. Lists!AddersOK' /\ v6'["main"] = r
        /\ \A q \in {"main", "reader"} : q # "main" => v6'[q] = v6[q]
    <3>1. UNCHANGED program /\ v2' \in BOOLEAN /\ (v2 => v2') /\ r.pc \notin {"push", "fill"}
      BY <1>3, <2>2, AdderFacts
    <3>2. r.count <= Lists!InputsOfMain
            + IF v2' /\ r.pc \in {"push", "fill", "join", "end"} THEN 1 ELSE 0
      BY <1>3, <2>1, <2>2, AdderFacts
    <3>3. "main" # "reader"
      OBVIOUS
    <3> QED  BY <2>1, <2>4, <3>1, <3>2, <3>3, AdderChanged
  <2>6. v4' \in Seq(Lists!Lines) /\ Len(v4') <= Lists!MaxLen /\ (v4 = <<>> => v4' = <<>>)
    <3>1. CASE rest = <<>>
      BY <1>1, <1>5, <3>1
    <3>2. CASE v4 = <<>>
      BY <1>1, <1>2, <1>5, <3>2 DEF Lists!AllButLast
    <3>3. CASE v4 # <<>> /\ rest = SubSeq(v4, 1, Len(v4) - 1)
      <4>1. Len(v4) \in Nat /\ Len(v4) - 1 \in 0 .. Len(v4)
        BY <1>1, <3>3
      <4> QED  BY <1>1, <1>5, <3>3, <4>1
    <3> QED  BY <1>2, <3>1, <3>2, <3>3 DEF Lists!AllButLast
  <2>7. Lists!SortersOK' /\ Lists!CrashNeedsLateLines'
    BY <1>1, <1>3, <1>5, ListFrames
  <2>8. Lists!SorterIds \subseteq {1, 2} /\ \A i \in {1, 2} : v7[i].pc = "end"
    <3>1. Lists!SortersOK
      BY <1>1 DEF Lists!IInv
    <3> QED  BY <1>3, <3>1 DEF Lists!SortersOK, Lists!JoinAll, Lists!SorterIds
  <2>9. Lists!Counted'
    BY <1>3, <2>2, <2>5, <2>8 DEF Lists!Counted, Lists!JoinAll
  <2>10. Lists!NodesOwned' /\ Lists!ItemFollowsShift'
    BY <1>3, <2>8 DEF Lists!NodesOwned, Lists!ItemFollowsShift, Lists!Walking, Lists!Comparing
  <2>11. Lists!FirstNode'
    <3>1. \A q \in {"main", "reader"} : v6'[q].pc = "fill" => v6[q].pc = "fill"
      BY <2>2, <2>5
    <3> QED  BY <1>1, <1>3, <2>2, <2>5, <2>6, <3>1 DEF Lists!FirstNode, Lists!AdderIds, Lists!PerNode
  <2>12. Lists!LinesKept'
    BY <2>2, <2>5 DEF Lists!LinesKept
  <2>13. Lists!TypeOK'
    <3>1. Lists!Lines' = Lists!Lines /\ Lists!MaxLen' = Lists!MaxLen /\ Lists!Free' = Lists!Free
          /\ Lists!SorterIds' = Lists!SorterIds /\ Lists!Programs' = Lists!Programs
      BY <1>3 DEF Lists!Lines, Lists!MaxLen, Lists!Free, Lists!SorterIds, Lists!Programs,
         Lists!PerNode, Lists!Empty
    <3>2. v8 \in [Lists!Lines -> Nat] /\ program \in Lists!Programs
          /\ v1 \in BOOLEAN /\ v2 \in BOOLEAN /\ v3 \in {"null", "raw", "set"}
          /\ v5 \in [1 .. Lists!MaxLen -> {Lists!Free} \cup Lists!SorterIds]
      BY <1>1 DEF Lists!TypeOK
    <3> QED  BY <1>3, <1>5, <2>6, <3>1, <3>2 DEF Lists!TypeOK
  <2> QED  BY <1>5, <2>5, <2>7, <2>9, <2>10, <2>11, <2>12, <2>13 DEF Lists!IInv
<1> QED  BY <1>3, <1>4, <1>5

\* What a sorter of one list knows of the two nodes it compares.
Holds(pc, n, pair, i) ==
  /\ pc \in Lists!Walking => v3 # "null" /\ n >= 1 /\ (n = 1 \/ n <= Len(v4))
  /\ pc \in Lists!Walking \ {"lock"} => n <= Len(v4)
  /\ pc \in {"next", "swap"} => v5[n] = i
  /\ pc = "swap" => n < Len(v4) /\ v5[n + 1] = i /\ pair = <<v4[n], v4[n + 1]>>

LEMMA HoldsAll ==
  Lists!NodesOwned <=> \A i \in {1, 2} : Holds(v7[i].pc, v7[i].node, v7[i].pair, i)
BY DEF Lists!NodesOwned, Holds

\* A step of one sorter that is inside its walk, or that begins one.
LEMMA WalkMoves ==
  ASSUME ListHolds, UNCHANGED <<program, v1, v2, v3, v6, v8, v9>>, program \in Lists!PerNode,
         NEW i \in {1, 2}, v7[i].pc # "end", NEW r \in SorterRecord, v7' = [v7 EXCEPT ![i] = r],
         r.pc \in Lists!Walking \cup {"sleep"},
         v5' \in [1 .. Lists!MaxLen -> {Lists!Free} \cup Lists!SorterIds],
         v4' \in Seq(Lists!Lines), Len(v4') = Len(v4),
         \A v \in Lists!Lines : Cardinality(Spots(v4', v)) = Cardinality(Spots(v4, v)),
         Holds(r.pc, r.node, r.pair, i)',
         \A j \in {1, 2} : j # i /\ Holds(v7[j].pc, v7[j].node, v7[j].pair, j)
                             => Holds(v7[j].pc, v7[j].node, v7[j].pair, j)'
  PROVE  Lists!IInv'
<1>1. v7'[i] = r /\ \A j \in {1, 2} : j # i => v7'[j] = v7[j]
  BY SorterFacts
<1>2. Lists!NodesOwned /\ Lists!SortersOK
  BY DEF ListHolds, Lists!IInv
<1>3. \A j \in {1, 2} : Holds(v7[j].pc, v7[j].node, v7[j].pair, j)'
  BY <1>1, <1>2, HoldsAll
<1>4. Lists!NodesOwned'
  BY <1>3 DEF Lists!NodesOwned, Holds
<1>5. r.pc \notin Lists!Comparing \cup {"outer"}
  BY DEF Lists!Walking, Lists!Comparing
<1>6. Lists!ItemFollowsShift'
  <2>1. v7[1].pc \notin Lists!Comparing
    BY <1>2 DEF Lists!SortersOK, Lists!PerNode
  <2>2. v7'[1].pc \notin Lists!Comparing
    BY <1>1, <1>5, <2>1
  <2> QED  BY <2>2 DEF Lists!ItemFollowsShift, Lists!Comparing
<1> QED  BY <1>4, <1>5, <1>6, SorterMoves

\* The sorter i of a list with a mutex in every node.
LEMMA WalkFacts ==
  ASSUME ListHolds, NEW i \in {1, 2}, v7[i].pc \in Lists!Walking \cup {"sleep"}
  PROVE  /\ v7[i] \in SorterRecord /\ v7[i].node \in Int /\ v7[i].sorted \in BOOLEAN
         /\ Holds(v7[i].pc, v7[i].node, v7[i].pair, i)
         /\ v4 \in Seq(Lists!Lines) /\ Len(v4) \in Nat /\ Len(v4) <= Lists!MaxLen
         /\ Lists!MaxLen \in Nat /\ DOMAIN v4 = 1 .. Len(v4)
         /\ v5 \in [1 .. Lists!MaxLen -> {Lists!Free} \cup Lists!SorterIds]
         /\ i \in Lists!SorterIds /\ Lists!Free = 0
         /\ v6["main"].pc # "end" /\ (v3 = "set" => Len(v4) >= 1)
<1>1. Lists!NodesOwned /\ Lists!SortersOK /\ Lists!TypeOK /\ Lists!Counted /\ Lists!FirstNode
  BY DEF ListHolds, Lists!IInv
<1>2. v7[i].pc # "end"
  BY DEF Lists!Walking
<1>3. v6["main"].pc # "end" /\ i \in Lists!SorterIds
  BY <1>1, <1>2 DEF Lists!Counted, Lists!SortersOK
<1>4. v4 \in Seq(Lists!Lines) /\ Len(v4) <= Lists!MaxLen
      /\ v5 \in [1 .. Lists!MaxLen -> {Lists!Free} \cup Lists!SorterIds]
  BY <1>1 DEF Lists!TypeOK
<1>5. v3 = "set" => v4 # <<>>
  BY <1>1, <1>3 DEF Lists!FirstNode
<1>6. Len(v4) \in Nat /\ DOMAIN v4 = 1 .. Len(v4) /\ (v3 = "set" => Len(v4) >= 1)
  BY <1>4, <1>5
<1>7. Holds(v7[i].pc, v7[i].node, v7[i].pair, i)
  BY <1>1, HoldsAll
<1> QED  BY <1>3, <1>4, <1>6, <1>7, SorterFacts, LineTypes DEF ListHolds, Lists!Free

LEMMA StartWalkStep ==
  ASSUME ListHolds, program \in Lists!PerNode, NEW i \in {1, 2}, Lists!StartWalk(i)
  PROVE  Lists!IInv'
<1> DEFINE s == v7[i]
           r == [s EXCEPT !.pc = "lock", !.node = 1, !.sorted = TRUE]
<1>1. v7[i].pc = "sleep" /\ v7[i].pc \in Lists!Walking \cup {"sleep"}
  BY DEF Lists!StartWalk
<1>2. s = v7[i] /\ s \in SorterRecord /\ v7 \in [{1, 2} -> SorterRecord]
  BY SorterFacts
<1>3. v7' = [v7 EXCEPT ![i].pc = "lock", ![i].node = 1, ![i].sorted = TRUE]
      /\ UNCHANGED <<program, v1, v2, v3, v4, v5, v6, v8, v9>> /\ v3 # "null"
  BY DEF Lists!StartWalk
<1>4. v7' = [v7 EXCEPT ![i] = r]
  BY <1>2, <1>3
<1>5. "lock" \in SorterPcs /\ 1 \in Int /\ TRUE \in BOOLEAN
  BY DEF SorterPcs, Lists!Walking
<1> HIDE DEF s
<1>6. r \in SorterRecord
  BY <1>2, <1>5, SorterUpdates, Zenon
<1>7. r.pc = "lock" /\ r.node = 1
  BY <1>2 DEF SorterRecord
<1> HIDE DEF r
<1>20. PICK q \in SorterRecord : v7' = [v7 EXCEPT ![i] = q] /\ q.pc = "lock" /\ q.node = 1
  BY <1>4, <1>6, <1>7
<1>8. Holds(q.pc, q.node, q.pair, i)'
  BY <1>3, <1>20 DEF Holds, Lists!Walking
<1>9. \A j \in {1, 2} : j # i /\ Holds(v7[j].pc, v7[j].node, v7[j].pair, j)
                             => Holds(v7[j].pc, v7[j].node, v7[j].pair, j)'
  BY <1>2, <1>20, <1>3 DEF Holds, Lists!Walking
<1>10. /\ v5' \in [1 .. Lists!MaxLen -> {Lists!Free} \cup Lists!SorterIds]
       /\ v4' \in Seq(Lists!Lines) /\ Len(v4') = Len(v4)
       /\ \A v \in Lists!Lines : Cardinality(Spots(v4', v)) = Cardinality(Spots(v4, v))
  BY <1>1, <1>3, WalkFacts
<1>11. UNCHANGED <<program, v1, v2, v3, v6, v8, v9>> /\ v7[i].pc # "end"
       /\ q.pc \in Lists!Walking \cup {"sleep"}
  BY <1>1, <1>3, <1>20 DEF Lists!Walking
<1> QED  BY <1>20, <1>4, <1>6, <1>8, <1>9, <1>10, <1>11, WalkMoves

LEMMA LockNodeStep ==
  ASSUME ListHolds, program \in Lists!PerNode, NEW i \in {1, 2}, Lists!LockNode(i), ~Lists!Raw
  PROVE  Lists!IInv'
<1> DEFINE s == v7[i]
           n == s.node
           r == [s EXCEPT !.pc = "next"]
<1>1. v7[i].pc = "lock" /\ v7[i].pc \in Lists!Walking \cup {"sleep"}
  BY DEF Lists!LockNode, Lists!Walking
<1>2. s = v7[i] /\ s \in SorterRecord /\ v7 \in [{1, 2} -> SorterRecord] /\ n \in Int
      /\ n = v7[i].node /\ s.pc = "lock"
  BY <1>1, SorterFacts
<1>3. v7' = [v7 EXCEPT ![i] = r] /\ v5' = [v5 EXCEPT ![n] = i] /\ v5[n] = Lists!Free
      /\ UNCHANGED <<program, v1, v2, v3, v4, v6, v8, v9>> /\ v3 = "set"
  BY DEF Lists!LockNode
<1>4. "next" \in SorterPcs
  BY DEF SorterPcs, Lists!Walking
<1> HIDE DEF s, n
<1>5. r \in SorterRecord
  BY <1>2, <1>4, SorterUpdates, Zenon
<1>6. r.pc = "next" /\ r.node = n
  BY <1>2 DEF SorterRecord, n
<1> HIDE DEF r
<1>7. n \in 1 .. Len(v4) /\ n \in 1 .. Lists!MaxLen
  BY <1>1, <1>2, <1>3, WalkFacts DEF Holds, Lists!Walking
<1>8. v5' \in [1 .. Lists!MaxLen -> {Lists!Free} \cup Lists!SorterIds] /\ v5'[n] = i
      /\ \A k : k # n => v5'[k] = v5[k]
  BY <1>1, <1>3, <1>7, WalkFacts
<1>20. PICK q \in SorterRecord : v7' = [v7 EXCEPT ![i] = q] /\ q.pc = "next" /\ q.node = n
  BY <1>3, <1>5, <1>6
<1>9. Holds(q.pc, q.node, q.pair, i)'
  BY <1>3, <1>20, <1>7, <1>8 DEF Holds, Lists!Walking
<1>10. \A j \in {1, 2} : j # i /\ Holds(v7[j].pc, v7[j].node, v7[j].pair, j)
                             => Holds(v7[j].pc, v7[j].node, v7[j].pair, j)'
  <2> SUFFICES ASSUME NEW j \in {1, 2}, j # i, Holds(v7[j].pc, v7[j].node, v7[j].pair, j)
               PROVE  Holds(v7[j].pc, v7[j].node, v7[j].pair, j)'
    OBVIOUS
  <2>1. v7'[j] = v7[j]
    BY <1>2, <1>20
  <2>2. j # Lists!Free
    BY <1>1, WalkFacts
  <2> QED  BY <1>3, <1>8, <2>1, <2>2 DEF Holds, Lists!Walking
<1>11. /\ v4' \in Seq(Lists!Lines) /\ Len(v4') = Len(v4)
       /\ \A v \in Lists!Lines : Cardinality(Spots(v4', v)) = Cardinality(Spots(v4, v))
  BY <1>1, <1>3, WalkFacts
<1>12. UNCHANGED <<program, v1, v2, v3, v6, v8, v9>> /\ v7[i].pc # "end"
       /\ q.pc \in Lists!Walking \cup {"sleep"}
  BY <1>1, <1>3, <1>20 DEF Lists!Walking
<1> QED  BY <1>20, <1>3, <1>5, <1>8, <1>9, <1>10, <1>11, <1>12, WalkMoves

LEMMA AdvanceStep ==
  ASSUME ListHolds, program \in Lists!PerNode, NEW i \in {1, 2}, Lists!Advance(i)
  PROVE  Lists!IInv'
<1> DEFINE s == v7[i]
           x == s.node + 1
           r == IF s.node < Len(v4) /\ ~(program = "s19" /\ v2)
                THEN [s EXCEPT !.pc = "lock", !.node = x]
                ELSE IF s.sorted THEN [s EXCEPT !.pc = "sleep", !.node = 0]
                ELSE [s EXCEPT !.pc = "lock", !.node = 1, !.sorted = TRUE]
<1>1. v7[i].pc = "advance" /\ v7[i].pc \in Lists!Walking \cup {"sleep"}
  BY DEF Lists!Advance, Lists!Walking
<1>2. s = v7[i] /\ s \in SorterRecord /\ v7 \in [{1, 2} -> SorterRecord] /\ x \in Int
      /\ s.pc = "advance" /\ s.node \in Int /\ x = s.node + 1
  BY <1>1, SorterFacts
<1>3. v7' = [v7 EXCEPT ![i] = r] /\ UNCHANGED <<program, v1, v2, v3, v4, v5, v6, v8, v9>>
  BY DEF Lists!Advance
<1>4. "lock" \in SorterPcs /\ "sleep" \in SorterPcs /\ 0 \in Int /\ 1 \in Int /\ TRUE \in BOOLEAN
  BY DEF SorterPcs, Lists!Walking
<1> HIDE DEF s, x
<1>5. /\ [s EXCEPT !.pc = "lock", !.node = x] \in SorterRecord
      /\ [s EXCEPT !.pc = "sleep", !.node = 0] \in SorterRecord
      /\ [s EXCEPT !.pc = "lock", !.node = 1, !.sorted = TRUE] \in SorterRecord
  BY <1>2, <1>4, SorterUpdates, Zenon
<1>6. Len(v4) \in Nat /\ v3 # "null" /\ s.node >= 1
  BY <1>1, <1>2, WalkFacts DEF Holds, Lists!Walking
<1>7. r \in SorterRecord /\ r.pc \in {"lock", "sleep"}
      /\ (r.pc = "lock" => r.node >= 1 /\ (r.node = 1 \/ r.node <= Len(v4)))
  <2>1. /\ [s EXCEPT !.pc = "lock", !.node = x].pc = "lock"
        /\ [s EXCEPT !.pc = "lock", !.node = x].node = x
        /\ [s EXCEPT !.pc = "sleep", !.node = 0].pc = "sleep"
        /\ [s EXCEPT !.pc = "lock", !.node = 1, !.sorted = TRUE].pc = "lock"
        /\ [s EXCEPT !.pc = "lock", !.node = 1, !.sorted = TRUE].node = 1
    BY <1>2 DEF SorterRecord
  <2>2. CASE s.node < Len(v4) /\ ~(program = "s19" /\ v2)
    <3>1. r = [s EXCEPT !.pc = "lock", !.node = x]
      BY <2>2
    <3> HIDE DEF r
    <3>2. x >= 1 /\ x <= Len(v4)
      BY <1>2, <1>6, <2>2
    <3> QED  BY <1>5, <2>1, <3>1, <3>2
  <2>3. CASE ~(s.node < Len(v4) /\ ~(program = "s19" /\ v2)) /\ s.sorted
    <3>1. r = [s EXCEPT !.pc = "sleep", !.node = 0]
      BY <2>3
    <3> HIDE DEF r
    <3> QED  BY <1>5, <2>1, <3>1
  <2>4. CASE ~(s.node < Len(v4) /\ ~(program = "s19" /\ v2)) /\ ~s.sorted
    <3>1. r = [s EXCEPT !.pc = "lock", !.node = 1, !.sorted = TRUE]
      BY <2>4
    <3> HIDE DEF r
    <3> QED  BY <1>5, <2>1, <3>1
  <2> QED  BY <2>2, <2>3, <2>4
<1> HIDE DEF r
<1>20. PICK q \in SorterRecord : v7' = [v7 EXCEPT ![i] = q] /\ q.pc \in {"lock", "sleep"}
          /\ (q.pc = "lock" => q.node >= 1 /\ (q.node = 1 \/ q.node <= Len(v4)))
  BY <1>3, <1>7
<1>8. Holds(q.pc, q.node, q.pair, i)'
  BY <1>3, <1>6, <1>20 DEF Holds, Lists!Walking
<1>9. \A j \in {1, 2} : j # i /\ Holds(v7[j].pc, v7[j].node, v7[j].pair, j)
                             => Holds(v7[j].pc, v7[j].node, v7[j].pair, j)'
  BY <1>2, <1>20, <1>3 DEF Holds, Lists!Walking
<1>10. /\ v5' \in [1 .. Lists!MaxLen -> {Lists!Free} \cup Lists!SorterIds]
       /\ v4' \in Seq(Lists!Lines) /\ Len(v4') = Len(v4)
       /\ \A v \in Lists!Lines : Cardinality(Spots(v4', v)) = Cardinality(Spots(v4, v))
  BY <1>1, <1>3, WalkFacts
<1>11. UNCHANGED <<program, v1, v2, v3, v6, v8, v9>> /\ v7[i].pc # "end"
       /\ q.pc \in Lists!Walking \cup {"sleep"}
  BY <1>1, <1>3, <1>20 DEF Lists!Walking
<1> QED  BY <1>20, <1>3, <1>7, <1>8, <1>9, <1>10, <1>11, WalkMoves

LEMMA LockNextStep ==
  ASSUME ListHolds, program \in Lists!PerNode, NEW i \in {1, 2}, Lists!LockNext(i)
  PROVE  Lists!IInv'
<1> DEFINE s == v7[i]
           n == s.node
           y == <<v4[n], v4[n + 1]>>
           M == 1 .. Lists!MaxLen
<1>1. v7[i].pc = "next" /\ v7[i].pc \in Lists!Walking \cup {"sleep"}
      /\ UNCHANGED <<program, v1, v2, v3, v4, v6, v8, v9>>
  BY DEF Lists!LockNext, Lists!Walking
<1>2. /\ s = v7[i] /\ s \in SorterRecord /\ v7 \in [{1, 2} -> SorterRecord] /\ n \in Int
      /\ n = v7[i].node /\ s.pc = "next"
      /\ M = 1 .. Lists!MaxLen /\ y = <<v4[n], v4[n + 1]>>
  BY <1>1, SorterFacts
<1>3. \/ /\ n = Len(v4) /\ v5' = [v5 EXCEPT ![n] = Lists!Free]
         /\ v7' = [v7 EXCEPT ![i].pc = "advance"]
      \/ /\ n # Len(v4) /\ v5[n + 1] = Lists!Free /\ v5' = [v5 EXCEPT ![n + 1] = i]
         /\ v7' = [v7 EXCEPT ![i].pc = "swap", ![i].pair = y]
  BY DEF Lists!LockNext
<1>4. /\ n \in 1 .. Len(v4) /\ v5[n] = i /\ Len(v4) \in Nat /\ v4 \in Seq(Lists!Lines)
      /\ v5 \in [M -> {Lists!Free} \cup Lists!SorterIds] /\ i # Lists!Free
      /\ i \in Lists!SorterIds /\ 1 .. Len(v4) \subseteq M /\ v3 # "null"
  BY <1>1, <1>2, WalkFacts DEF Holds, Lists!Walking
<1>5. "advance" \in SorterPcs /\ "swap" \in SorterPcs
  BY DEF SorterPcs, Lists!Walking
<1> HIDE DEF s, n, y, M
<1>6. CASE n = Len(v4)
  <2> DEFINE r == [s EXCEPT !.pc = "advance"]
  <2>1. v7' = [v7 EXCEPT ![i] = r] /\ v5' = [v5 EXCEPT ![n] = Lists!Free]
    BY <1>2, <1>3, <1>6
  <2>2. r \in SorterRecord
    BY <1>2, <1>5, SorterUpdates, Zenon
  <2>3. r.pc = "advance" /\ r.node = n
    BY <1>2 DEF SorterRecord
  <2> HIDE DEF r
  <2>4. PICK q \in SorterRecord : v7' = [v7 EXCEPT ![i] = q] /\ q.pc = "advance" /\ q.node = n
    BY <2>1, <2>2, <2>3
  <2>5. v5' \in [M -> {Lists!Free} \cup Lists!SorterIds]
        /\ \A k : k # n => v5'[k] = v5[k]
    BY <1>4, <2>1
  <2>6. Holds(q.pc, q.node, q.pair, i)'
    BY <1>1, <1>4, <2>4 DEF Holds, Lists!Walking
  <2>7. \A j \in {1, 2} : j # i /\ Holds(v7[j].pc, v7[j].node, v7[j].pair, j)
                             => Holds(v7[j].pc, v7[j].node, v7[j].pair, j)'
    <3> SUFFICES ASSUME NEW j \in {1, 2}, j # i, Holds(v7[j].pc, v7[j].node, v7[j].pair, j)
                 PROVE  Holds(v7[j].pc, v7[j].node, v7[j].pair, j)'
      OBVIOUS
    <3>1. v7'[j] = v7[j]
      BY <1>2, <2>4
    <3> QED  BY <1>1, <1>4, <2>5, <3>1 DEF Holds, Lists!Walking
  <2>8. /\ v4' \in Seq(Lists!Lines) /\ Len(v4') = Len(v4)
        /\ \A v \in Lists!Lines : Cardinality(Spots(v4', v)) = Cardinality(Spots(v4, v))
    BY <1>1, <1>4
  <2>9. UNCHANGED <<program, v1, v2, v3, v6, v8, v9>> /\ v7[i].pc # "end"
        /\ q.pc \in Lists!Walking \cup {"sleep"}
    BY <1>1, <2>4 DEF Lists!Walking
  <2>10. v5' \in [1 .. Lists!MaxLen -> {Lists!Free} \cup Lists!SorterIds]
    BY <1>2, <2>5
  <2> QED  BY <2>4, <2>6, <2>7, <2>8, <2>9, <2>10, WalkMoves
<1>7. CASE n # Len(v4)
  <2> DEFINE r == [s EXCEPT !.pc = "swap", !.pair = y]
             k == n + 1
  <2>1. v7' = [v7 EXCEPT ![i].pc = "swap", ![i].pair = y] /\ v5' = [v5 EXCEPT ![k] = i]
        /\ v5[k] = Lists!Free /\ k = n + 1
    BY <1>3, <1>7
  <2>11. v7' = [v7 EXCEPT ![i] = r]
    BY <1>2, <2>1
  <2>12. k \in 1 .. Len(v4) /\ k \in M /\ n < Len(v4)
    BY <1>4, <1>7
  <2>13. y \in Pairs
    <3>1. v4[n] \in Lists!Lines /\ v4[n + 1] \in Lists!Lines
      BY <1>4, <2>12
    <3> QED  BY <1>2, <3>1 DEF Pairs
  <2> HIDE DEF k
  <2>2. r \in SorterRecord
    BY <1>2, <1>5, <2>13, SorterUpdates, Zenon
  <2>3. r.pc = "swap" /\ r.node = n /\ r.pair = y
    <3>1. s.node = n
      BY DEF n
    <3> QED  BY <1>2, <3>1 DEF SorterRecord
  <2> HIDE DEF r
  <2>4. PICK q \in SorterRecord : v7' = [v7 EXCEPT ![i] = q] /\ q.pc = "swap" /\ q.node = n /\ q.pair = y
    BY <2>11, <2>2, <2>3
  <2>5. v5' \in [M -> {Lists!Free} \cup Lists!SorterIds] /\ v5'[k] = i
        /\ \A h : h # k => v5'[h] = v5[h]
    BY <1>4, <2>1, <2>12
  <2>6. Holds(q.pc, q.node, q.pair, i)'
    <3>1. q.pair = <<v4'[q.node], v4'[q.node + 1]>>
      BY <1>1, <1>2, <2>4
    <3>2. n # k /\ v5'[n] = i /\ v5'[n + 1] = i
      BY <1>2, <1>4, <2>1, <2>5
    <3>3. /\ v3' # "null" /\ q.node >= 1 /\ q.node < Len(v4') /\ q.node <= Len(v4')
          /\ v5'[q.node] = i /\ v5'[q.node + 1] = i
      BY <1>1, <1>4, <2>4, <2>12, <3>2
    <3> QED  BY <2>4, <3>1, <3>3 DEF Holds, Lists!Walking
  <2>7. \A j \in {1, 2} : j # i /\ Holds(v7[j].pc, v7[j].node, v7[j].pair, j)
                             => Holds(v7[j].pc, v7[j].node, v7[j].pair, j)'
    <3> SUFFICES ASSUME NEW j \in {1, 2}, j # i, Holds(v7[j].pc, v7[j].node, v7[j].pair, j)
                 PROVE  Holds(v7[j].pc, v7[j].node, v7[j].pair, j)'
      OBVIOUS
    <3>1. v7'[j] = v7[j]
      BY <1>2, <2>4
    <3>2. j # Lists!Free
      BY <1>1, WalkFacts
    <3> DEFINE m == v7[j].node
    <3>3. v7[j].pc \in {"next", "swap"} => v5[m] = j
      BY DEF Holds
    <3>4. v7[j].pc = "swap" => v5[m + 1] = j
      BY DEF Holds
    <3>5. /\ v7[j].pc \in {"next", "swap"} => v5'[m] = j
          /\ v7[j].pc = "swap" => v5'[m + 1] = j
      BY <2>1, <2>5, <3>2, <3>3, <3>4
    <3>6. v3' = v3 /\ v4' = v4
      BY <1>1
    <3> QED  BY <3>1, <3>5, <3>6 DEF Holds, Lists!Walking
  <2>8. /\ v4' \in Seq(Lists!Lines) /\ Len(v4') = Len(v4)
        /\ \A v \in Lists!Lines : Cardinality(Spots(v4', v)) = Cardinality(Spots(v4, v))
    BY <1>1, <1>4
  <2>9. UNCHANGED <<program, v1, v2, v3, v6, v8, v9>> /\ v7[i].pc # "end"
        /\ q.pc \in Lists!Walking \cup {"sleep"}
    BY <1>1, <2>4 DEF Lists!Walking
  <2>10. v5' \in [1 .. Lists!MaxLen -> {Lists!Free} \cup Lists!SorterIds]
    BY <1>2, <2>5
  <2> QED  BY <2>4, <2>6, <2>7, <2>8, <2>9, <2>10, WalkMoves
<1> QED  BY <1>6, <1>7

\* The two lines that are swapped are the ones that were compared.
LEMMA SwapList ==
  ASSUME ListHolds, NEW i \in {1, 2}, Lists!SwapLines(i)
  PROVE  LET n == v7[i].node
         IN  /\ n \in 1 .. Len(v4) - 1 /\ v5[n] = i /\ v5[n + 1] = i
             /\ v4' = IF v4[n] > v4[n + 1] THEN Lists!Swap(v4, n, n + 1) ELSE v4
             /\ v5' = [v5 EXCEPT ![n] = Lists!Free, ![n + 1] = Lists!Free]
             /\ v7' = [v7 EXCEPT ![i].pc = "advance", ![i].pair = <<>>,
                                 ![i].sorted = @ /\ ~(v4[n] > v4[n + 1])]
             /\ v7[i].pc = "swap" /\ UNCHANGED <<program, v1, v2, v3, v6, v8, v9>>
<1> DEFINE n == v7[i].node
<1>1. v7[i].pc = "swap" /\ v7[i].pc \in Lists!Walking \cup {"sleep"}
  BY DEF Lists!SwapLines, Lists!Walking
<1>2. /\ n \in 1 .. Len(v4) - 1 /\ v5[n] = i /\ v5[n + 1] = i
      /\ v7[i].pair = <<v4[n], v4[n + 1]>>
  BY <1>1, WalkFacts DEF Holds, Lists!Walking
<1>3. v7[i].pair[1] = v4[n] /\ v7[i].pair[2] = v4[n + 1]
  BY <1>2
<1>4. /\ v4' = IF v7[i].pair[1] > v7[i].pair[2]
               THEN [v4 EXCEPT ![n] = v7[i].pair[2], ![n + 1] = v7[i].pair[1]] ELSE v4
      /\ v5' = [v5 EXCEPT ![n] = Lists!Free, ![n + 1] = Lists!Free]
      /\ v7' = [v7 EXCEPT ![i].pc = "advance", ![i].pair = <<>>,
                          ![i].sorted = @ /\ ~(v7[i].pair[1] > v7[i].pair[2])]
      /\ UNCHANGED <<program, v1, v2, v3, v6, v8, v9>>
  BY DEF Lists!SwapLines
<1>5. v4' = IF v4[n] > v4[n + 1]
            THEN [v4 EXCEPT ![n] = v4[n + 1], ![n + 1] = v4[n]] ELSE v4
  BY <1>3, <1>4
<1> HIDE DEF n
<1>6. Lists!Swap(v4, n, n + 1) = [v4 EXCEPT ![n] = v4[n + 1], ![n + 1] = v4[n]]
  BY DEF Lists!Swap
<1> QED  BY <1>1, <1>2, <1>3, <1>4, <1>5, <1>6 DEF n

LEMMA SwapLinesStep ==
  ASSUME ListHolds, program \in Lists!PerNode, NEW i \in {1, 2}, Lists!SwapLines(i)
  PROVE  Lists!IInv'
<1> DEFINE s == v7[i]
           n == s.node
           w == v4[n] > v4[n + 1]
           b == s.sorted /\ ~w
           M == 1 .. Lists!MaxLen
           r == [s EXCEPT !.pc = "advance", !.pair = <<>>, !.sorted = b]
<1>1. v7[i].pc = "swap" /\ v7[i].pc \in Lists!Walking \cup {"sleep"}
      /\ UNCHANGED <<program, v1, v2, v3, v6, v8, v9>>
  BY SwapList DEF Lists!Walking
<1>2. /\ s = v7[i] /\ s \in SorterRecord /\ v7 \in [{1, 2} -> SorterRecord] /\ n \in Int
      /\ n = v7[i].node /\ M = 1 .. Lists!MaxLen /\ b \in BOOLEAN /\ s.node = n
  BY SorterFacts
<1>3. /\ n \in 1 .. Len(v4) - 1 /\ v5[n] = i /\ v5[n + 1] = i
      /\ v4' = IF v4[n] > v4[n + 1] THEN Lists!Swap(v4, n, n + 1) ELSE v4
      /\ v5' = [v5 EXCEPT ![n] = Lists!Free, ![n + 1] = Lists!Free]
      /\ v7' = [v7 EXCEPT ![i].pc = "advance", ![i].pair = <<>>, ![i].sorted = @ /\ ~w]
  BY SwapList
<1>4. /\ Len(v4) \in Nat /\ v4 \in Seq(Lists!Lines)
      /\ v5 \in [M -> {Lists!Free} \cup Lists!SorterIds]
      /\ 1 .. Len(v4) \subseteq M /\ v3 # "null"
  BY <1>1, <1>2, WalkFacts DEF Holds, Lists!Walking
<1>5. "advance" \in SorterPcs /\ <<>> \in Pairs
  BY DEF SorterPcs, Lists!Walking, Pairs
<1>6. v7' = [v7 EXCEPT ![i] = r]
  BY <1>2, <1>3
<1> HIDE DEF s, n, w, b, M
<1>7. r \in SorterRecord
  BY <1>2, <1>5, SorterUpdates, Zenon
<1>8. r.pc = "advance" /\ r.node = n
  BY <1>2 DEF SorterRecord
<1> HIDE DEF r
<1>9. PICK q \in SorterRecord : v7' = [v7 EXCEPT ![i] = q] /\ q.pc = "advance" /\ q.node = n
  BY <1>6, <1>7, <1>8
<1>10. n \in Nat /\ n > 0 /\ n < Len(v4)
  BY <1>3, <1>4
<1>11. /\ Lists!Swap(v4, n, n + 1) \in Seq(Lists!Lines)
       /\ Len(Lists!Swap(v4, n, n + 1)) = Len(v4)
       /\ \A h \in 1 .. Len(v4) : Lists!Swap(v4, n, n + 1)[h] = v4[Turned(n, h)]
       /\ \A v : Cardinality(Spots(Lists!Swap(v4, n, n + 1), v)) = Cardinality(Spots(v4, v))
  BY <1>4, <1>10, SwapTurns, LinesSwapped
<1>12. /\ v4' \in Seq(Lists!Lines) /\ Len(v4') = Len(v4)
       /\ \A v \in Lists!Lines : Cardinality(Spots(v4', v)) = Cardinality(Spots(v4, v))
       /\ \A h \in 1 .. Len(v4) : h # n /\ h # n + 1 => v4'[h] = v4[h]
  <2>1. CASE v4[n] > v4[n + 1]
    BY <1>3, <1>11, <2>1 DEF Turned
  <2>2. CASE ~(v4[n] > v4[n + 1])
    BY <1>3, <1>4, <2>2
  <2> QED  BY <2>1, <2>2
<1>13. v5' \in [M -> {Lists!Free} \cup Lists!SorterIds]
       /\ \A h \in M : h # n /\ h # n + 1 => v5'[h] = v5[h]
  <2> DEFINE c == [v5 EXCEPT ![n] = Lists!Free]
  <2>1. c \in [M -> {Lists!Free} \cup Lists!SorterIds] /\ \A h \in M : h # n => c[h] = v5[h]
    BY <1>4, <1>10
  <2>2. v5' = [c EXCEPT ![n + 1] = Lists!Free]
    BY <1>3
  <2> HIDE DEF c
  <2>3. n + 1 \in M
    BY <1>4, <1>10
  <2> QED  BY <2>1, <2>2, <2>3
<1>14. Holds(q.pc, q.node, q.pair, i)'
  BY <1>1, <1>4, <1>9, <1>10, <1>12 DEF Holds, Lists!Walking
<1>15. \A j \in {1, 2} : j # i /\ Holds(v7[j].pc, v7[j].node, v7[j].pair, j)
                             => Holds(v7[j].pc, v7[j].node, v7[j].pair, j)'
  <2> SUFFICES ASSUME NEW j \in {1, 2}, j # i, Holds(v7[j].pc, v7[j].node, v7[j].pair, j)
               PROVE  Holds(v7[j].pc, v7[j].node, v7[j].pair, j)'
    OBVIOUS
  <2> DEFINE m == v7[j].node
  <2>1. v7'[j] = v7[j] /\ m \in Int /\ m = v7[j].node
    BY <1>2, <1>9, SorterFacts
  <2> HIDE DEF m
  <2>5. v5[n] = i /\ v5[n + 1] = i
    BY <1>3
  <2>6. v7[j].pc \in {"next", "swap"} => v5[m] = j
    BY <2>1 DEF Holds
  <2>7. v7[j].pc = "swap" => m >= 1 /\ m < Len(v4) /\ v5[m + 1] = j
    BY <2>1 DEF Holds, Lists!Walking
  <2>2. v7[j].pc \in {"next", "swap"} => m # n /\ m # n + 1 /\ v5'[m] = j
    <3>1. v7[j].pc \in {"next", "swap"} => m >= 1 /\ m <= Len(v4)
      BY <2>1 DEF Holds, Lists!Walking
    <3>2. v7[j].pc \in {"next", "swap"} => m \in M
      BY <1>4, <2>1, <3>1
    <3> QED  BY <1>13, <2>5, <2>6, <3>2
  <2>3. v7[j].pc = "swap" => /\ m >= 1 /\ m < Len(v4) /\ m + 1 # n /\ m + 1 # n + 1
                             /\ v5'[m + 1] = j /\ v4'[m] = v4[m] /\ v4'[m + 1] = v4[m + 1]
    <3> SUFFICES ASSUME v7[j].pc = "swap"
                 PROVE  /\ m >= 1 /\ m < Len(v4) /\ m + 1 # n /\ m + 1 # n + 1
                        /\ v5'[m + 1] = j /\ v4'[m] = v4[m] /\ v4'[m + 1] = v4[m + 1]
      OBVIOUS
    <3>1. m >= 1 /\ m < Len(v4) /\ v5[m + 1] = j /\ m # n /\ m # n + 1
      BY <2>2, <2>7
    <3>2. m + 1 # n /\ m + 1 # n + 1
      BY <2>5, <3>1
    <3>3. m \in 1 .. Len(v4) /\ m + 1 \in 1 .. Len(v4)
      BY <1>4, <2>1, <3>1
    <3> QED  BY <1>4, <1>12, <1>13, <3>1, <3>2, <3>3
  <2>4. v3' # "null" /\ Len(v4') = Len(v4)
    BY <1>1, <1>4, <1>12
  <2>8. v7[j].pc = "swap" => v7[j].pair = <<v4[m], v4[m + 1]>>
    BY <2>1 DEF Holds
  <2>9. v7'[j].pc = "swap" => /\ v7'[j].node < Len(v4') /\ v5'[v7'[j].node + 1] = j
                              /\ v7'[j].pair = <<v4'[v7'[j].node], v4'[v7'[j].node + 1]>>
    BY <2>1, <2>3, <2>4, <2>8
  <2>10. v7'[j].pc \in {"next", "swap"} => v5'[v7'[j].node] = j
    BY <2>1, <2>2
  <2>11. /\ v7'[j].pc \in Lists!Walking => v3' # "null" /\ v7'[j].node >= 1
              /\ (v7'[j].node = 1 \/ v7'[j].node <= Len(v4'))
         /\ v7'[j].pc \in Lists!Walking \ {"lock"} => v7'[j].node <= Len(v4')
    BY <2>1, <2>4 DEF Holds
  <2> QED  BY <2>9, <2>10, <2>11 DEF Holds, Lists!Walking
<1>16. UNCHANGED <<program, v1, v2, v3, v6, v8, v9>> /\ v7[i].pc # "end"
       /\ q.pc \in Lists!Walking \cup {"sleep"}
  BY <1>1, <1>9 DEF Lists!Walking
<1>17. v5' \in [1 .. Lists!MaxLen -> {Lists!Free} \cup Lists!SorterIds]
  BY <1>2, <1>13
<1> QED  BY <1>9, <1>12, <1>14, <1>15, <1>16, <1>17, WalkMoves

\* A step of muratov's sorter.
LEMMA ItemMoves ==
  ASSUME ListHolds, UNCHANGED <<program, v1, v2, v3, v5, v6, v8, v9>>, program = "m17",
         v7[1].pc # "end", NEW r \in SorterRecord, v7' = [v7 EXCEPT ![1] = r],
         r.pc \notin Lists!Walking,
         v4' \in Seq(Lists!Lines), Len(v4') = Len(v4),
         \A v \in Lists!Lines : Cardinality(Spots(v4', v)) = Cardinality(Spots(v4, v)),
         r.pc \in Lists!Comparing =>
           r.node \in 1 .. Len(v4) /\ r.node + r.shift = r.seen + r.pos,
         r.pc \in {"exchange", "step"} => r.node > 1,
         r.pc = "exchange" => v4'[r.node] > v4'[r.node - 1]
  PROVE  Lists!IInv'
<1>1. v7'[1] = r /\ v7'[2] = v7[2]
  BY SorterFacts
<1>2. Lists!SortersOK /\ Lists!TypeOK
  BY DEF ListHolds, Lists!IInv
<1>3. Lists!ItemFollowsShift'
  <2>1. r.pc \in Lists!Comparing =>
           r.node \in 1 .. Len(v4') /\ r.node + r.shift = r.seen + r.pos
    OBVIOUS
  <2> QED  BY <1>1, <2>1 DEF Lists!ItemFollowsShift, Lists!Comparing
<1>4. Lists!NodesOwned'
  <2>1. v7[2].pc \notin Lists!Walking
    BY <1>2 DEF Lists!SortersOK, Lists!PerNode
  <2>2. \A j \in {1, 2} : v7'[j].pc \notin Lists!Walking
    BY <1>1, <2>1
  <2> QED  BY <2>2 DEF Lists!NodesOwned, Lists!Walking
<1>5. v5' \in [1 .. Lists!MaxLen -> {Lists!Free} \cup Lists!SorterIds]
  BY <1>2 DEF Lists!TypeOK
<1>6. 1 \in {1, 2} /\ UNCHANGED <<program, v1, v2, v3, v6, v8, v9>>
  OBVIOUS
<1>7. r.pc \in Lists!Comparing \cup {"outer"} => program = "m17" /\ 1 = 1
  OBVIOUS
<1> QED  BY <1>3, <1>4, <1>5, <1>6, <1>7, SorterMoves

LEMMA ItemFacts ==
  ASSUME ListHolds, v7[1].pc \in {"sleep", "outer"} \cup Lists!Comparing
  PROVE  /\ v7[1] \in SorterRecord /\ v7 \in [{1, 2} -> SorterRecord]
         /\ v7[1].node \in Int /\ v7[1].pos \in Nat /\ v7[1].shift \in Nat /\ v7[1].seen \in Nat
         /\ v7[1].pc # "end" /\ v4 \in Seq(Lists!Lines) /\ Len(v4) \in Nat
         /\ DOMAIN v4 = 1 .. Len(v4) /\ \A k \in 1 .. Len(v4) : v4[k] \in Int
         /\ v7[1].pc \in Lists!Comparing =>
              v7[1].node \in 1 .. Len(v4) /\ v7[1].node + v7[1].shift = v7[1].seen + v7[1].pos
         /\ v7[1].pc \in {"exchange", "step"} => v7[1].node > 1
         /\ v7[1].pc = "exchange" => v4[v7[1].node] > v4[v7[1].node - 1]
<1>1. Lists!ItemFollowsShift /\ Lists!TypeOK
  BY DEF ListHolds, Lists!IInv
<1>2. v4 \in Rows(Lists!Lines, Len(v4)) /\ Len(v4) \in Nat /\ Lists!Lines \in SUBSET Int
  BY <1>1, ListRow DEF ListHolds
<1>3. DOMAIN v4 = 1 .. Len(v4) /\ \A k \in 1 .. Len(v4) : v4[k] \in Int
  BY <1>2, RowTypes
<1>4. v7[1].pc # "end"
  BY DEF Lists!Comparing
<1>5. v4 \in Seq(Lists!Lines)
  BY <1>1 DEF Lists!TypeOK
<1> QED  BY <1>1, <1>2, <1>3, <1>4, <1>5, SorterFacts DEF Lists!ItemFollowsShift, Lists!Comparing

LEMMA OuterStep ==
  ASSUME ListHolds, Lists!sortOuter
  PROVE  Lists!IInv'
<1> DEFINE s == v7[1]
           k == IF s.pc = "sleep" THEN 0 ELSE s.pos
           h == Len(v4)
           a == [s EXCEPT !.pc = "inner", !.pos = k, !.shift = k, !.node = h, !.seen = h]
           b == [s EXCEPT !.pc = "sleep", !.pos = 0, !.shift = 0, !.node = 0, !.seen = 0]
<1>1. /\ v7[1].pc \in {"sleep", "outer"} /\ program = "m17"
      /\ UNCHANGED <<program, v1, v2, v3, v4, v5, v6, v8, v9>>
      /\ v7' = [v7 EXCEPT ![1] = IF k < h - 1 THEN a ELSE b]
  BY DEF Lists!sortOuter
<1>2. /\ s = v7[1] /\ s \in SorterRecord /\ h \in Nat /\ k \in Nat /\ h = Len(v4) /\ h \in Int
      /\ v4 \in Seq(Lists!Lines)
  BY <1>1, ItemFacts
<1>3. "inner" \in SorterPcs /\ "sleep" \in SorterPcs /\ 0 \in Int /\ 0 \in Nat
  BY DEF SorterPcs, Lists!Comparing
<1> HIDE DEF s, k, h
<1>4. a \in SorterRecord /\ b \in SorterRecord
  BY <1>2, <1>3, SorterUpdates, Zenon
<1>5. /\ a.pc = "inner" /\ a.node = h /\ a.shift = k /\ a.pos = k /\ a.seen = h
      /\ b.pc = "sleep"
  BY <1>2 DEF SorterRecord
<1> HIDE DEF a, b
<1>6. /\ v4' \in Seq(Lists!Lines) /\ Len(v4') = Len(v4)
      /\ \A v \in Lists!Lines : Cardinality(Spots(v4', v)) = Cardinality(Spots(v4, v))
      /\ UNCHANGED <<program, v1, v2, v3, v5, v6, v8, v9>> /\ program = "m17" /\ v7[1].pc # "end"
  BY <1>1, <1>2
<1>7. "inner" \notin Lists!Walking /\ "sleep" \notin Lists!Walking \cup Lists!Comparing
  BY DEF Lists!Walking, Lists!Comparing
<1>8. CASE k < h - 1
  <2>1. PICK r \in SorterRecord : /\ v7' = [v7 EXCEPT ![1] = r] /\ r.pc = "inner" /\ r.node = h
                                  /\ r.shift = k /\ r.pos = k /\ r.seen = h
    BY <1>1, <1>4, <1>5, <1>8
  <2>2. r.node \in 1 .. Len(v4) /\ r.node + r.shift = r.seen + r.pos
    BY <1>2, <1>8, <2>1
  <2> QED  BY <1>6, <1>7, <2>1, <2>2, ItemMoves
<1>9. CASE ~(k < h - 1)
  <2>1. PICK r \in SorterRecord : v7' = [v7 EXCEPT ![1] = r] /\ r.pc = "sleep"
    BY <1>1, <1>4, <1>5, <1>9
  <2> QED  BY <1>6, <1>7, <2>1, ItemMoves
<1> QED  BY <1>8, <1>9

LEMMA InnerStep ==
  ASSUME ListHolds, Lists!sortInner
  PROVE  Lists!IInv'
<1> DEFINE s == v7[1]
           c == IF v4[s.node] > v4[s.node - 1] THEN "exchange" ELSE "step"
           k == s.pos + 1
<1>1. /\ v7[1].pc = "inner" /\ program = "m17" /\ v7[1].pc \in {"sleep", "outer"} \cup Lists!Comparing
      /\ UNCHANGED <<program, v1, v2, v3, v4, v5, v6, v8>>
      /\ IF s.shift >= Len(v4) - 1
         THEN v7' = [v7 EXCEPT ![1].pc = "outer", ![1].pos = k] /\ UNCHANGED v9
         ELSE IF s.node <= 1
         THEN v9' = "null next" /\ UNCHANGED v7
         ELSE v7' = [v7 EXCEPT ![1].pc = c] /\ UNCHANGED v9
  BY ItemFacts DEF Lists!sortInner, Lists!Comparing
<1>2. /\ s = v7[1] /\ s \in SorterRecord /\ v7 \in [{1, 2} -> SorterRecord] /\ Len(v4) \in Nat
      /\ s.node \in 1 .. Len(v4) /\ s.node + s.shift = s.seen + s.pos /\ s.pos \in Nat
      /\ s.shift \in Nat /\ s.seen \in Nat /\ v4 \in Seq(Lists!Lines)
      /\ c \in {"exchange", "step"} /\ k \in Nat
      /\ c = "exchange" => v4[s.node] > v4[s.node - 1]
  <2>1. /\ s \in SorterRecord /\ v7 \in [{1, 2} -> SorterRecord] /\ Len(v4) \in Nat
        /\ s.node \in Int /\ s.pos \in Nat /\ s.shift \in Nat /\ s.seen \in Nat
        /\ v4 \in Seq(Lists!Lines)
    BY <1>1, ItemFacts
  <2>2. s.node \in 1 .. Len(v4) /\ s.node + s.shift = s.seen + s.pos
    BY <1>1, ItemFacts DEF Lists!Comparing
  <2>3. c \in {"exchange", "step"} /\ (c = "exchange" => v4[s.node] > v4[s.node - 1])
    OBVIOUS
  <2>4. k \in Nat /\ s = v7[1]
    BY <2>1
  <2> HIDE DEF s, c, k
  <2> QED  BY <2>1, <2>2, <2>3, <2>4
<1>3. "outer" \in SorterPcs /\ c \in SorterPcs
  BY <1>2 DEF SorterPcs, Lists!Comparing
<1>4. /\ v4' \in Seq(Lists!Lines) /\ Len(v4') = Len(v4)
      /\ \A v \in Lists!Lines : Cardinality(Spots(v4', v)) = Cardinality(Spots(v4, v))
      /\ UNCHANGED <<program, v1, v2, v3, v5, v6, v8>> /\ program = "m17" /\ v7[1].pc # "end"
  BY <1>1, <1>2
<1> HIDE DEF s, c, k
<1>5. CASE s.shift >= Len(v4) - 1
  <2> DEFINE a == [s EXCEPT !.pc = "outer", !.pos = k]
  <2>1. v7' = [v7 EXCEPT ![1] = a] /\ UNCHANGED v9
    BY <1>1, <1>2, <1>5
  <2>2. a \in SorterRecord
    BY <1>2, <1>3, SorterUpdates, Zenon
  <2>3. a.pc = "outer"
    BY <1>2 DEF SorterRecord
  <2> HIDE DEF a
  <2>4. PICK r \in SorterRecord : v7' = [v7 EXCEPT ![1] = r] /\ r.pc = "outer"
    BY <2>1, <2>2, <2>3
  <2>5. "outer" \notin Lists!Walking \cup Lists!Comparing
    BY DEF Lists!Walking, Lists!Comparing
  <2> QED  BY <1>4, <2>1, <2>4, <2>5, ItemMoves
<1>6. CASE ~(s.shift >= Len(v4) - 1) /\ s.node <= 1
  <2>1. v9' = "null next" /\ UNCHANGED v7
    BY <1>1, <1>6
  <2>2. Lists!IInv
    BY DEF ListHolds
  <2>3. Lists!AddersOK' /\ Lists!SortersOK' /\ Lists!TypeOK' /\ Lists!LinesKept'
    BY <1>1, <2>1, <2>2, ListFrames
  <2>4. Len(v4) > s.seen + s.pos
    BY <1>2, <1>6
  <2>5. Lists!CrashNeedsLateLines'
    BY <1>1, <1>2, <2>1, <2>4 DEF Lists!CrashNeedsLateLines
  <2> QED  BY <2>1, <2>3, <2>5 DEF Lists!IInv
<1>7. CASE ~(s.shift >= Len(v4) - 1) /\ ~(s.node <= 1)
  <2> DEFINE a == [s EXCEPT !.pc = c]
  <2>1. v7' = [v7 EXCEPT ![1] = a] /\ UNCHANGED v9
    BY <1>1, <1>2, <1>7
  <2>2. a \in SorterRecord
    BY <1>2, <1>3, SorterUpdates, Zenon
  <2>3. a.pc = c /\ a.node = s.node /\ a.shift = s.shift /\ a.seen = s.seen /\ a.pos = s.pos
    BY <1>2 DEF SorterRecord
  <2> HIDE DEF a
  <2>4. PICK r \in SorterRecord :
          /\ v7' = [v7 EXCEPT ![1] = r] /\ r.pc = c /\ r.node = s.node /\ r.shift = s.shift
          /\ r.seen = s.seen /\ r.pos = s.pos
    BY <2>1, <2>2, <2>3
  <2>5. /\ r.node \in 1 .. Len(v4) /\ r.node + r.shift = r.seen + r.pos /\ r.node > 1
        /\ r.pc = "exchange" => v4'[r.node] > v4'[r.node - 1]
    BY <1>1, <1>2, <1>7, <2>4
  <2>6. r.pc \notin Lists!Walking
    BY <1>2, <2>4 DEF Lists!Walking
  <2> QED  BY <1>4, <2>1, <2>4, <2>5, <2>6, ItemMoves
<1> QED  BY <1>5, <1>6, <1>7

LEMMA ExchangeList ==
  ASSUME ListHolds, Lists!sortExchange
  PROVE  LET n == v7[1].node - 1
         IN  /\ n \in 1 .. Len(v4) - 1 /\ v4[n + 1] > v4[n]
             /\ v4' = Lists!Swap(v4, n, n + 1) /\ program = "m17"
             /\ v4 \in Seq(Lists!Lines) /\ Len(v4) \in Nat
<1> DEFINE n == v7[1].node - 1
<1>1. /\ v7[1].pc = "exchange" /\ v7[1].pc \in {"sleep", "outer"} \cup Lists!Comparing
      /\ program = "m17" /\ v4' = Lists!Swap(v4, v7[1].node, v7[1].node - 1)
  BY DEF Lists!sortExchange, Lists!Comparing
<1>2. /\ v7[1].node \in 1 .. Len(v4) /\ v7[1].node > 1 /\ Len(v4) \in Nat
      /\ v4[v7[1].node] > v4[v7[1].node - 1] /\ v4 \in Seq(Lists!Lines)
  BY <1>1, ItemFacts DEF Lists!Comparing
<1>3. n \in 1 .. Len(v4) - 1 /\ n + 1 = v7[1].node
  BY <1>2
<1>4. v4' = Lists!Swap(v4, n + 1, n)
  BY <1>1, <1>3
<1> HIDE DEF n
<1>5. n \in Nat /\ n > 0 /\ n < Len(v4)
  BY <1>2, <1>3
<1>6. Lists!Swap(v4, n + 1, n) = Lists!Swap(v4, n, n + 1)
  BY <1>2, <1>5, SwapTurns
<1>7. v4[n + 1] > v4[n]
  BY <1>2, <1>3 DEF n
<1> QED  BY <1>1, <1>2, <1>3, <1>4, <1>6, <1>7 DEF n

LEMMA ExchangeStep ==
  ASSUME ListHolds, Lists!sortExchange
  PROVE  Lists!IInv'
<1> DEFINE s == v7[1]
           n == s.node - 1
           a == [s EXCEPT !.pc = "step"]
<1>1. /\ v7[1].pc = "exchange" /\ v7[1].pc \in {"sleep", "outer"} \cup Lists!Comparing
      /\ UNCHANGED <<program, v1, v2, v3, v5, v6, v8, v9>> /\ v7' = [v7 EXCEPT ![1] = a]
  BY SorterFacts DEF Lists!sortExchange, Lists!Comparing
<1>2. /\ s = v7[1] /\ s \in SorterRecord /\ Len(v4) \in Nat /\ s.node > 1
      /\ s.node \in 1 .. Len(v4) /\ s.node + s.shift = s.seen + s.pos
  BY <1>1, ItemFacts DEF Lists!Comparing
<1>3. /\ n \in 1 .. Len(v4) - 1 /\ v4' = Lists!Swap(v4, n, n + 1) /\ program = "m17"
      /\ v4 \in Seq(Lists!Lines)
  BY ExchangeList
<1>4. "step" \in SorterPcs /\ "step" \notin Lists!Walking
  BY DEF SorterPcs, Lists!Comparing, Lists!Walking
<1> HIDE DEF s, n
<1>5. a \in SorterRecord
  BY <1>2, <1>4, SorterUpdates, Zenon
<1>6. a.pc = "step" /\ a.node = s.node /\ a.shift = s.shift /\ a.seen = s.seen /\ a.pos = s.pos
  BY <1>2 DEF SorterRecord
<1> HIDE DEF a
<1>7. PICK r \in SorterRecord :
        /\ v7' = [v7 EXCEPT ![1] = r] /\ r.pc = "step" /\ r.node = s.node /\ r.shift = s.shift
        /\ r.seen = s.seen /\ r.pos = s.pos
  BY <1>1, <1>5, <1>6
<1>8. n \in Nat /\ n > 0 /\ n < Len(v4)
  BY <1>2, <1>3
<1>9. /\ v4' \in Seq(Lists!Lines) /\ Len(v4') = Len(v4)
      /\ \A v \in Lists!Lines : Cardinality(Spots(v4', v)) = Cardinality(Spots(v4, v))
  BY <1>3, <1>8, SwapTurns, LinesSwapped
<1>10. r.node \in 1 .. Len(v4) /\ r.node + r.shift = r.seen + r.pos /\ r.node > 1
       /\ r.pc \notin Lists!Walking /\ r.pc # "exchange" /\ v7[1].pc # "end"
  BY <1>1, <1>2, <1>4, <1>7
<1> QED  BY <1>1, <1>3, <1>7, <1>9, <1>10, ItemMoves

LEMMA ItemStep ==
  ASSUME ListHolds, Lists!sortStep
  PROVE  Lists!IInv'
<1> DEFINE s == v7[1]
           x == s.node - 1
           k == s.shift + 1
           a == [s EXCEPT !.pc = "end"]
           b == [s EXCEPT !.pc = "inner", !.node = x, !.shift = k]
<1>1. /\ v7[1].pc = "step" /\ v7[1].pc \in {"sleep", "outer"} \cup Lists!Comparing /\ program = "m17"
      /\ UNCHANGED <<program, v1, v2, v3, v4, v5, v6, v8, v9>>
      /\ v7' = [v7 EXCEPT ![1] = a] \/ v7' = [v7 EXCEPT ![1] = b]
  BY DEF Lists!sortStep, Lists!Comparing
<1>2. /\ s = v7[1] /\ s \in SorterRecord /\ Len(v4) \in Nat /\ s.node > 1
      /\ s.node \in 1 .. Len(v4) /\ s.node + s.shift = s.seen + s.pos
      /\ s.shift \in Nat /\ s.seen \in Nat /\ s.pos \in Nat
      /\ x = s.node - 1 /\ k = s.shift + 1 /\ x \in Int /\ k \in Nat /\ v4 \in Seq(Lists!Lines)
  BY <1>1, ItemFacts DEF Lists!Comparing
<1>3. "end" \in SorterPcs /\ "inner" \in SorterPcs /\ "inner" \notin Lists!Walking
      /\ "end" \notin Lists!Walking \cup Lists!Comparing
  BY DEF SorterPcs, Lists!Comparing, Lists!Walking
<1> HIDE DEF s, x, k
<1>4. a \in SorterRecord /\ b \in SorterRecord
  BY <1>2, <1>3, SorterUpdates, Zenon
<1>5. /\ a.pc = "end" /\ b.pc = "inner" /\ b.node = x /\ b.shift = k
      /\ b.seen = s.seen /\ b.pos = s.pos
  BY <1>2 DEF SorterRecord
<1> HIDE DEF a, b
<1>6. /\ v4' \in Seq(Lists!Lines) /\ Len(v4') = Len(v4)
      /\ \A v \in Lists!Lines : Cardinality(Spots(v4', v)) = Cardinality(Spots(v4, v))
      /\ UNCHANGED <<program, v1, v2, v3, v5, v6, v8, v9>> /\ program = "m17" /\ v7[1].pc # "end"
  BY <1>1, <1>2
<1>7. CASE v7' = [v7 EXCEPT ![1] = a]
  <2>1. PICK r \in SorterRecord : v7' = [v7 EXCEPT ![1] = r] /\ r.pc = "end"
    BY <1>4, <1>5, <1>7
  <2> QED  BY <1>3, <1>6, <2>1, ItemMoves
<1>8. CASE v7' = [v7 EXCEPT ![1] = b]
  <2>1. PICK r \in SorterRecord :
          /\ v7' = [v7 EXCEPT ![1] = r] /\ r.pc = "inner" /\ r.node = x /\ r.shift = k
          /\ r.seen = s.seen /\ r.pos = s.pos
    BY <1>4, <1>5, <1>8
  <2>2. r.node \in 1 .. Len(v4) /\ r.node + r.shift = r.seen + r.pos
    <3> DEFINE n == s.node
               f == s.shift
               h == s.seen
               o == s.pos
    <3>2. /\ n \in Int /\ f \in Int /\ h \in Int /\ o \in Int /\ n + f = h + o /\ n > 1
          /\ n <= Len(v4) /\ x = n - 1 /\ k = f + 1 /\ Len(v4) \in Int
      BY <1>2
    <3> HIDE DEF n, f, h, o
    <3>3. x \in 1 .. Len(v4) /\ x + k = h + o
      BY <3>2
    <3>1. x \in 1 .. Len(v4) /\ x + k = s.seen + s.pos
      BY <3>3 DEF h, o
    <3> QED  BY <2>1, <3>1
  <2>3. r.pc \notin Lists!Walking /\ r.pc \notin {"exchange", "step"} /\ r.pc # "exchange"
    BY <1>3, <2>1
  <2> QED  BY <1>6, <2>1, <2>2, <2>3, ItemMoves
<1> QED  BY <1>1, <1>7, <1>8

LEMMA ListNext ==
  ASSUME ListConstants, Lists!IInv, [Lists!Next]_Lists!vars
  PROVE  Lists!IInv'
<1>1. CASE UNCHANGED Lists!vars
  <2>1. UNCHANGED <<program, v1, v2, v3, v4, v5, v6, v7, v8, v9>>
    BY <1>1 DEF Lists!vars
  <2>2. v9' \in {"no", "null list", "raw node", "two first nodes", "null next", "join"}
    BY <2>1 DEF Lists!IInv, Lists!TypeOK
  <2>3. Lists!TypeOK' /\ Lists!AddersOK' /\ Lists!SortersOK'
    BY <2>1, <2>2, ListFrames
  <2>4. v9' = "no" => Lists!FirstNode' /\ Lists!Counted' /\ Lists!NodesOwned' /\ Lists!ItemFollowsShift'
    <3>1. v9 = "no" => Lists!FirstNode /\ Lists!Counted /\ Lists!NodesOwned /\ Lists!ItemFollowsShift
      BY DEF Lists!IInv
    <3> QED  BY <2>1, <3>1, ListFrames
  <2>5. Lists!LinesKept'
    BY <2>1, ListFrames
  <2>6. Lists!CrashNeedsLateLines'
    BY <2>1 DEF Lists!IInv, Lists!CrashNeedsLateLines
  <2> QED  BY <2>3, <2>4, <2>5, <2>6 DEF Lists!IInv
<1> SUFFICES ASSUME Lists!Next  PROVE  Lists!IInv'
  BY <1>1
<1>2. ListHolds
  BY DEF ListHolds, Lists!Next
<1>3. CASE Lists!Environment
  BY <1>2, <1>3, ReadingStep DEF Lists!Environment
<1>4. CASE Lists!Adders
  <2>1. CASE (v2 /\ Lists!ReadLine(Lists!Empty)) \/ Lists!readThread \/ Lists!PrintNode
    BY <1>2, <2>1, ReadingStep
  <2>2. CASE \/ Lists!pushLine17 \/ Lists!handle_input \/ Lists!add_string \/ Lists!pushLine18
             \/ \E p \in {"main", "reader"} :
                  Lists!pushFirst(p) \/ Lists!fillFirst(p) \/ Lists!pushLine19(p)
    BY <1>2, <2>2, AddingStep
  <2>3. CASE Lists!main17 \/ Lists!main18 \/ Lists!main19 \/ Lists!arkhipovMain \/ Lists!clear_all
    BY <1>2, <2>3, ClearStep
  <2> QED  BY <1>4, <2>1, <2>2, <2>3 DEF Lists!Adders, Lists!printList18, Lists!printList19
<1>5. ASSUME NEW i \in Lists!SorterIds, Lists!Sorter(i)
      PROVE  Lists!IInv'
  <2>1. i \in {1, 2}
    BY DEF Lists!SorterIds
  <2>2. CASE Lists!sortThread17 \/ Lists!sort_iteratively \/ Lists!sort_thread
    BY <1>2, <2>2, WholeStep
  <2>3. CASE Lists!sortOuter \/ Lists!sortInner \/ Lists!sortExchange \/ Lists!sortStep
    BY <1>2, <2>3, OuterStep, InnerStep, ExchangeStep, ItemStep
  <2>4. CASE Lists!sortThread18(i) \/ Lists!sortThread19(i)
    <3>1. program \in Lists!PerNode /\ Lists!SortNode(i)
      BY <2>4 DEF Lists!sortThread18, Lists!sortThread19, Lists!PerNode
    <3>2. CASE Lists!LockNode(i)
      <4>1. CASE Lists!Raw
        BY <1>2, <4>1, RawStep
      <4> QED  BY <1>2, <2>1, <3>1, <3>2, <4>1, LockNodeStep
    <3> QED  BY <1>2, <2>1, <3>1, <3>2, StartWalkStep, LockNextStep, SwapLinesStep,
                AdvanceStep, StopStep DEF Lists!SortNode
  <2> QED  BY <1>5, <2>2, <2>3, <2>4 DEF Lists!Sorter
<1> QED  BY <1>3, <1>4, <1>5 DEF Lists!Next

\* Nothing is out of order in a list that is settled to its end.
LEMMA InOrderThen ==
  ASSUME NEW V \in SUBSET Int, NEW s \in Seq(V), program # "m17"
  PROVE  Settled(s, Len(s)) <=> Lists!Inversions(s) = {}
<1>1. Len(s) \in Nat /\ DOMAIN s = 1 .. Len(s)
  OBVIOUS
<1>2. ASSUME Settled(s, Len(s))
      PROVE  Lists!Inversions(s) = {}
  <2> SUFFICES ASSUME NEW p \in Lists!Inversions(s)  PROVE  FALSE
    OBVIOUS
  <2>1. p[1] \in 1 .. Len(s) /\ p[2] \in 1 .. Len(s) /\ p[1] < p[2] /\ ~(s[p[1]] <= s[p[2]])
    BY <1>1 DEF Lists!Inversions, Lists!InOrder
  <2>2. p[2] > Len(s) - Len(s)
    BY <1>1, <2>1
  <2> QED  BY <1>2, <2>1, <2>2 DEF Settled
<1>3. ASSUME Lists!Inversions(s) = {}
      PROVE  Settled(s, Len(s))
  <2> SUFFICES ASSUME NEW i \in 1 .. Len(s), NEW j \in 1 .. Len(s), i < j, ~(s[i] <= s[j])
               PROVE  FALSE
    BY DEF Settled
  <2>1. <<i, j>> \in Lists!Inversions(s)
    BY <1>1 DEF Lists!Inversions, Lists!InOrder
  <2> QED  BY <1>3, <2>1
<1> QED  BY <1>2, <1>3

LEMMA InversionsFinite ==
  ASSUME NEW V, NEW s \in Seq(V)
  PROVE  IsFiniteSet(Lists!Inversions(s)) /\ Cardinality(Lists!Inversions(s)) \in Nat
<1> DEFINE D == 1 .. Len(s)
<1>1. IsFiniteSet(D) /\ DOMAIN s = D
  BY FS_Interval
<1>2. IsFiniteSet(D \X D) /\ Lists!Inversions(s) \in SUBSET (D \X D)
  BY <1>1, FS_Product DEF Lists!Inversions
<1>3. IsFiniteSet(Lists!Inversions(s))
  BY <1>2, FS_Subset
<1> QED  BY <1>3, FS_CardinalityType

LEMMA ListSorts ==
  ASSUME ListConstants, Lists!IInv, [Lists!Next]_Lists!vars
  PROVE  Lists!SortStep
<1> SUFFICES ASSUME v4' # v4, Len(v4') = Len(v4)
             PROVE  /\ Cardinality(Lists!Inversions(v4')) < Cardinality(Lists!Inversions(v4))
                    /\ program \in {"s17", "a17"} => Lists!Inversions(v4') = {}
  BY ListsCardinality DEF Lists!SortStep
<1>1. Lists!Next
  BY DEF Lists!vars
<1>2. ListHolds
  BY <1>1 DEF ListHolds, Lists!Next
<1>3. /\ v4 \in Seq(Lists!Lines) /\ Len(v4) \in Nat /\ Lists!Lines \in SUBSET Int
      /\ v4 \in Rows(Lists!Lines, Len(v4))
  BY ListRow DEF Lists!IInv, Lists!TypeOK
<1>4. CASE Lists!Environment
  BY <1>4 DEF Lists!Environment, Lists!sig_handler, Lists!ReadDot, Lists!ReadNewline, Lists!ReadLine
<1>5. CASE Lists!Adders
  <2>1. ~(Lists!ReadLine(Lists!Empty) \/ Lists!readThread \/ Lists!printList18 \/ Lists!printList19)
    BY DEF Lists!ReadLine, Lists!readThread, Lists!printList18, Lists!printList19, Lists!PrintNode,
       Lists!Raw
  <2>2. ASSUME NEW x, v4' = Append(v4, x)  PROVE  FALSE
    <3>1. Len(Append(v4, x)) = Len(v4) + 1
      BY <1>3
    <3> QED  BY <1>3, <2>2, <3>1
  <2>3. ASSUME NEW p \in {"main", "reader"}, Lists!fillFirst(p)  PROVE  FALSE
    <3>1. v4 = <<>>
      BY <1>2, <2>3 DEF ListHolds, Lists!IInv, Lists!FirstNode, Lists!fillFirst, Lists!AdderIds
    <3>2. v4' = <<v6[p].line>>
      BY <2>3 DEF Lists!fillFirst
    <3> QED  BY <3>1, <3>2
  <2>4. ~(\E p \in {"main", "reader"} : Lists!pushFirst(p) \/ Lists!PushNode(p) \/ Lists!Push(p))
    BY <2>2 DEF Lists!pushFirst, Lists!PushNode, Lists!Push, Lists!Raw
  <2>5. ASSUME NEW rest \in {Lists!AllButLast, <<>>}, Lists!Cleared(rest)  PROVE  FALSE
    <3>1. v4' = rest
      BY <2>5 DEF Lists!Cleared
    <3>2. v4 # <<>> /\ Len(v4) # 0
      <4>1. CASE v4 = <<>>
        BY <3>1, <4>1 DEF Lists!AllButLast
      <4> QED  BY <1>3, <4>1
    <3>3. CASE rest = <<>>
      BY <3>1, <3>2, <3>3
    <3>4. CASE rest = SubSeq(v4, 1, Len(v4) - 1)
      <4>1. Len(v4) - 1 \in 0 .. Len(v4)
        BY <1>3, <3>2
      <4>2. Len(SubSeq(v4, 1, Len(v4) - 1)) = Len(v4) - 1
        BY <1>3, <4>1
      <4> QED  BY <1>3, <3>1, <3>4, <4>2
    <3> QED  BY <3>2, <3>3, <3>4 DEF Lists!AllButLast
  <2>6. ~(Lists!main17 \/ Lists!main18 \/ Lists!main19 \/ Lists!arkhipovMain \/ Lists!clear_all)
    BY <2>5 DEF Lists!main17, Lists!main18, Lists!main19, Lists!arkhipovMain, Lists!clear_all
  <2> QED  BY <1>5, <2>1, <2>3, <2>4, <2>6 DEF Lists!Adders, Lists!pushLine17, Lists!handle_input,
              Lists!add_string, Lists!pushLine18, Lists!pushLine19
<1>6. ASSUME NEW i \in Lists!SorterIds, Lists!Sorter(i)
      PROVE  /\ Cardinality(Lists!Inversions(v4')) < Cardinality(Lists!Inversions(v4))
             /\ program \in {"s17", "a17"} => Lists!Inversions(v4') = {}
  <2>1. ASSUME NEW t, SortOf(t, v4, Lists!Lines, Len(v4)), v4' = t, program # "m17"
        PROVE  /\ Cardinality(Lists!Inversions(v4')) < Cardinality(Lists!Inversions(v4))
               /\ Lists!Inversions(v4') = {}
    <3>1. t \in Seq(Lists!Lines) /\ Len(t) = Len(v4) /\ Settled(t, Len(t)) /\ ~Settled(v4, Len(v4))
      BY <2>1 DEF SortOf, Rows
    <3>2. Lists!Inversions(t) = {} /\ Lists!Inversions(v4) # {}
      BY <1>3, <2>1, <3>1, InOrderThen
    <3>3. IsFiniteSet(Lists!Inversions(v4)) /\ Cardinality(Lists!Inversions(v4)) \in Nat
      BY <1>3, InversionsFinite
    <3>4. Cardinality(Lists!Inversions(v4)) # 0
      BY <3>2, <3>3, FS_EmptySet
    <3>5. Cardinality({}) = 0
      BY FS_EmptySet
    <3> QED  BY <2>1, <3>2, <3>3, <3>4, <3>5
  <2>2. /\ SortOf(Lists!sortedBy17(v4), v4, Lists!Lines, Len(v4))
        /\ SortOf(Lists!sort_list(v4), v4, Lists!Lines, Len(v4))
    BY <1>3, ListSorted
  <2>3. CASE Lists!sortThread17 \/ Lists!sort_iteratively
    <3>1. program # "m17" /\ v4' \in {Lists!sortedBy17(v4), Lists!sort_list(v4)}
      BY <2>3 DEF Lists!sortThread17, Lists!sort_iteratively, Lists!SortAll, Lists!StopSorting
    <3> QED  BY <2>1, <2>2, <3>1
  <2>4. CASE Lists!sortExchange
    <3> DEFINE n == v7[1].node - 1
    <3>1. /\ n \in 1 .. Len(v4) - 1 /\ v4[n + 1] > v4[n]
          /\ v4' = Lists!Swap(v4, n, n + 1) /\ program = "m17"
      BY <1>2, <2>4, ExchangeList
    <3> HIDE DEF n
    <3>2. n \in Nat /\ n > 0 /\ n < Len(v4) /\ v4[n] \in Lists!Lines /\ v4[n + 1] \in Lists!Lines
      BY <1>3, <3>1
    <3>5. v4[n] \in Int /\ v4[n + 1] \in Int
      BY <1>3, <3>2, Zenon
    <3>3. ~Lists!InOrder(v4, n, n + 1)
      BY <3>1, <3>5 DEF Lists!InOrder
    <3>4. Cardinality(Lists!Inversions(v4')) < Cardinality(Lists!Inversions(v4))
      BY <1>3, <3>1, <3>2, <3>3, SwapsSort
    <3> QED  BY <3>1, <3>4
  <2>5. CASE (Lists!sortThread18(i) \/ Lists!sortThread19(i)) /\ Lists!SwapLines(i)
    <3> DEFINE n == v7[i].node
    <3>1. i \in {1, 2} /\ program \in {"s18", "s19"}
      BY <2>5 DEF Lists!SorterIds, Lists!sortThread18, Lists!sortThread19
    <3>2. /\ n \in 1 .. Len(v4) - 1
          /\ v4' = IF v4[n] > v4[n + 1] THEN Lists!Swap(v4, n, n + 1) ELSE v4
      BY <1>2, <2>5, <3>1, SwapList
    <3> HIDE DEF n
    <3>3. n \in Nat /\ n > 0 /\ n < Len(v4) /\ v4[n] \in Lists!Lines /\ v4[n + 1] \in Lists!Lines
      BY <1>3, <3>2
    <3>4. v4[n] > v4[n + 1] /\ v4' = Lists!Swap(v4, n, n + 1)
      BY <3>2
    <3>7. v4[n] \in Int /\ v4[n + 1] \in Int
      BY <1>3, <3>3, Zenon
    <3>5. ~Lists!InOrder(v4, n, n + 1)
      BY <3>1, <3>4, <3>7 DEF Lists!InOrder
    <3>6. Cardinality(Lists!Inversions(v4')) < Cardinality(Lists!Inversions(v4))
      BY <1>3, <3>3, <3>4, <3>5, SwapsSort
    <3> QED  BY <3>1, <3>6
  <2>6. ~(\/ Lists!sort_thread \/ Lists!sortOuter \/ Lists!sortInner \/ Lists!sortStep
          \/ Lists!StartWalk(i) \/ Lists!LockNode(i) \/ Lists!LockNext(i) \/ Lists!Advance(i)
          \/ Lists!StopSorting(i))
    BY DEF Lists!sort_thread, Lists!sortOuter, Lists!sortInner, Lists!sortStep, Lists!StartWalk,
       Lists!LockNode, Lists!LockNext, Lists!Advance, Lists!StopSorting, Lists!Raw
  <2> QED  BY <1>6, <2>3, <2>4, <2>5, <2>6 DEF Lists!Sorter, Lists!sortThread18, Lists!sortThread19,
              Lists!SortNode
<1> QED  BY <1>1, <1>4, <1>5, <1>6 DEF Lists!Next

-----------------------------------------------------------------------------
(***************************************************************************)
(* SleepSort: v1 is prompt, v2 len, v3 main, v4 tmp, v5 next, v6 thread,   *)
(* v7 clock, v8 bytes and v9 out.                                          *)
(***************************************************************************)
SortConstants == SLEEPERS \in Nat \ {0} /\ LENGTHS \subseteq Nat /\ SLOW \in Nat

LEMMA SortCardinality == \A T : Sort!Cardinality(T) = Cardinality(T)
BY DEF Sort!Cardinality, Cardinality

SleeperPcs == {"none", "failed", "wait", "sleep", "done"}
Sleeper == [pc : SleeperPcs, due : Nat]

LEMMA SleepTypes ==
  ASSUME SortConstants, Sort!StateOK
  PROVE  /\ Sort!Lines = 1 .. SLEEPERS /\ SLEEPERS \in Nat /\ IsFiniteSet(Sort!Lines)
         /\ v4 \in 0 .. SLEEPERS /\ v8 \in 0 .. SLEEPERS /\ v7 \in Nat /\ SLOW \in Nat
         /\ v5 \in [Sort!Lines -> 0 .. SLEEPERS] /\ v9 \in Seq(Sort!Lines)
         /\ v2 \in [Sort!Lines -> LENGTHS] /\ \A t \in Sort!Lines : v2[t] \in Nat
         /\ v6 \in [Sort!Lines -> Sleeper]
         /\ \A t \in Sort!Lines : v6[t].pc \in SleeperPcs /\ v6[t].due \in Nat
         /\ v3 \in {"create", "next", "join", "end", "left", "exited", "undefined"}
         /\ Len(v9) \in Nat /\ DOMAIN v9 = 1 .. Len(v9)
         /\ \A i \in DOMAIN v9 : v9[i] \in Sort!Lines
<1>1. Sort!Lines = 1 .. SLEEPERS /\ SLEEPERS \in Nat /\ IsFiniteSet(Sort!Lines) /\ SLOW \in Nat
  BY FS_Interval DEF Sort!Lines, SortConstants
<1>2. /\ v4 \in 0 .. SLEEPERS /\ v8 \in 0 .. SLEEPERS /\ v7 \in Nat
      /\ v5 \in [Sort!Lines -> 0 .. SLEEPERS] /\ v9 \in Seq(Sort!Lines)
  BY DEF Sort!StateOK, Sort!TypeOK
<1>3. v2 \in [Sort!Lines -> LENGTHS] /\ \A t \in Sort!Lines : v2[t] \in Nat
  BY DEF Sort!StateOK, SortConstants
<1>4. v6 \in [Sort!Lines -> Sleeper]
  BY DEF Sort!StateOK, Sleeper, SleeperPcs
<1>5. \A t \in Sort!Lines : v6[t].pc \in SleeperPcs /\ v6[t].due \in Nat
  BY <1>4 DEF Sleeper
<1>6. Len(v9) \in Nat /\ DOMAIN v9 = 1 .. Len(v9) /\ \A i \in DOMAIN v9 : v9[i] \in Sort!Lines
  BY <1>2
<1> QED  BY <1>1, <1>2, <1>3, <1>4, <1>5, <1>6 DEF Sort!StateOK

\* The sets of threads, as what is true of each thread.
LEMMA SleepSets ==
  /\ Sort!Failed = {} <=> \A t \in Sort!Lines : v6[t].pc # "failed"
  /\ Sort!Started = {} <=> \A t \in Sort!Lines : v6[t].pc \notin {"sleep", "done"}
  /\ Sort!Waiting = {} <=> \A t \in Sort!Lines : v6[t].pc # "wait"
  /\ \A t \in Sort!Lines : /\ t \in Sort!Started <=> v6[t].pc \in {"sleep", "done"}
                           /\ t \in Sort!Waiting <=> v6[t].pc = "wait"
                           /\ t \in Sort!Created <=> v6[t].pc \notin {"none", "failed"}
BY DEF Sort!Failed, Sort!Started, Sort!Waiting, Sort!Created

LEMMA SortInit ==
  ASSUME SortConstants, Sort!Init
  PROVE  Sort!IInv
<1> USE DEF Sort!Init
<1>1. Sort!Lines = 1 .. SLEEPERS /\ SLEEPERS \in Nat /\ SLEEPERS >= 1 /\ SLOW \in Nat
  BY DEF Sort!Lines, SortConstants
<1>2. \A t \in Sort!Lines : v6[t].pc = "none" /\ v6[t].due = 0
  OBVIOUS
<1>3. v9 = <<>> /\ DOMAIN v9 = {} /\ v9 \in Seq(Sort!Lines)
  OBVIOUS
<1>4. Sort!StateOK
  <2>1. v5 \in [Sort!Lines -> 0 .. SLEEPERS]
    BY <1>1
  <2>2. Sort!TypeOK
    BY <1>1, <1>3, <2>1 DEF Sort!TypeOK
  <2>3. v6 \in [Sort!Lines -> [pc : {"none", "failed", "wait", "sleep", "done"}, due : Nat]]
    OBVIOUS
  <2> QED  BY <2>2, <2>3 DEF Sort!StateOK
<1>5. Sort!WalkOK
  <2>1. \A t \in Sort!Lines : Sort!Ahead(t)
    BY <1>1 DEF Sort!Ahead
  <2> QED  BY <1>1, <1>2, <2>1 DEF Sort!WalkOK, Sort!Straight
<1>6. Sort!PipeOK
  BY <1>1, <1>2, SleepSets DEF Sort!PipeOK, Sort!Creating
<1>7. Sort!OutOK
  BY <1>2, <1>3 DEF Sort!OutOK
<1>8. Sort!TimesOK
  BY <1>2, <1>3, SleepSets DEF Sort!TimesOK
<1> QED  BY <1>4, <1>5, <1>6, <1>7, <1>8 DEF Sort!IInv

LEMMA CreateStep ==
  ASSUME SortConstants, Sort!IInv, Sort!pthread_create
  PROVE  Sort!IInv'
<1> DEFINE t == v4
           b == Sort!Begin(t)
<1>1. Sort!StateOK /\ Sort!WalkOK /\ Sort!PipeOK /\ Sort!OutOK /\ Sort!TimesOK
  BY DEF Sort!IInv
<1>2. /\ v3 = "create" /\ t # 0 /\ v6' = [v6 EXCEPT ![t] = b] /\ v3' = "next"
      /\ UNCHANGED <<program, v1, v2, v4, v5, v7, v8, v9>>
      /\ t = v4 /\ t' = t /\ (Sort!Piped' <=> Sort!Piped) /\ Sort!Lines' = Sort!Lines
  BY DEF Sort!pthread_create, Sort!Piped, Sort!Lines
<1>3. t \in Sort!Lines /\ v6 \in [Sort!Lines -> Sleeper] /\ v7 \in Nat /\ v2[t] \in Nat
      /\ t \in Int /\ \A u \in Sort!Lines : u \in Int
  BY <1>1, <1>2, SleepTypes
<1>4. b = IF Sort!Piped THEN [pc |-> "wait", due |-> 0]
          ELSE [pc |-> "sleep", due |-> v7 + v2[t]]
  BY DEF Sort!Begin
<1>5. /\ b \in Sleeper
      /\ Sort!Piped => b.pc = "wait"
      /\ ~Sort!Piped => b.pc = "sleep" /\ b.due = v7 + v2[t]
      /\ b.pc \in {"wait", "sleep"}
  BY <1>3, <1>4 DEF Sleeper, SleeperPcs
<1>6. v6[t].pc = "none" /\ Sort!Creating /\ Sort!Creating'
  BY <1>1, <1>2, <1>3 DEF Sort!WalkOK, Sort!Ahead, Sort!Creating
<1> HIDE DEF t, b
<1>7. v6' \in [Sort!Lines -> Sleeper] /\ v6'[t] = b /\ \A u \in Sort!Lines : u # t => v6'[u] = v6[u]
  BY <1>2, <1>3, <1>5
<1>8. Sort!StateOK'
  <2>1. Sort!TypeOK'
    BY <1>1, <1>2 DEF Sort!StateOK, Sort!TypeOK
  <2> QED  BY <1>1, <1>2, <1>7, <2>1 DEF Sort!StateOK, Sleeper, SleeperPcs, Sort!Programs
<1>9. Sort!WalkOK'
  <2>1. \A u \in Sort!Lines : (Sort!Ahead(u))' <=> u > t
    BY <1>2 DEF Sort!Ahead
  <2>2. \A u \in Sort!Lines : Sort!Ahead(u) <=> u >= t
    BY <1>2 DEF Sort!Ahead
  <2>3. \A u \in Sort!Lines : u > t => u >= t /\ u # t
    BY <1>3
  <2>4. \A u \in Sort!Lines : u > t => v6'[u].pc = "none"
    BY <1>1, <1>7, <2>2, <2>3 DEF Sort!WalkOK
  <2>5. Sort!Failed' = {} => Sort!Failed = {}
    BY <1>2, <1>6, <1>7 DEF Sort!Failed
  <2>6. Sort!Failed' = {} => \A u \in Sort!Lines : u > t \/ v6'[u].pc # "none"
    <3> SUFFICES ASSUME Sort!Failed = {}, NEW u \in Sort!Lines, ~(u > t)
                 PROVE  v6'[u].pc # "none"
      BY <2>5
    <3>1. CASE u = t
      BY <1>5, <1>7, <3>1
    <3>2. CASE u # t
      <4>1. ~(u >= t)
        BY <1>3, <3>2
      <4> QED  BY <1>1, <1>7, <2>2, <3>2, <4>1 DEF Sort!WalkOK
    <3> QED  BY <3>1, <3>2
  <2>7. Sort!Straight' = Sort!Straight
    BY DEF Sort!Straight, Sort!Lines
  <2> QED  BY <1>1, <1>2, <1>6, <2>1, <2>4, <2>5, <2>6, <2>7 DEF Sort!WalkOK
<1>10. Sort!PipeOK'
  <2>1. Sort!Piped => Sort!Started' = {}
    <3> SUFFICES ASSUME Sort!Piped, NEW u \in Sort!Lines  PROVE  v6'[u].pc \notin {"sleep", "done"}
      BY <1>2 DEF Sort!Started
    <3>1. v6[u].pc \notin {"sleep", "done"}
      BY <1>1, <1>6, SleepSets DEF Sort!PipeOK
    <3> QED  BY <1>5, <1>7, <3>1
  <2>2. ~Sort!Piped => Sort!Waiting' = {}
    <3> SUFFICES ASSUME ~Sort!Piped, NEW u \in Sort!Lines  PROVE  v6'[u].pc # "wait"
      BY <1>2 DEF Sort!Waiting
    <3>1. v6[u].pc # "wait"
      BY <1>1, SleepSets DEF Sort!PipeOK
    <3> QED  BY <1>5, <1>7, <3>1
  <2> QED  BY <1>1, <1>2, <1>6, <2>1, <2>2 DEF Sort!PipeOK
<1>11. Sort!OutOK'
  <2>1. \A u \in Sort!Lines : v6'[u].pc = "done" <=> v6[u].pc = "done"
    BY <1>5, <1>6, <1>7
  <2> QED  BY <1>1, <1>2, <2>1 DEF Sort!OutOK
<1>12. Sort!TimesOK'
  <2>1. ASSUME NEW u \in Sort!Lines, v6'[u].pc \in {"sleep", "done"}
        PROVE  v2[u] <= v6'[u].due /\ v6'[u].due <= v2[u] + IF Sort!Piped THEN 0 ELSE SLOW
    <3>1. CASE u = t
      <4>1. ~Sort!Piped /\ v6'[u].due = v7 + v2[u]
        BY <1>5, <1>7, <2>1, <3>1
      <4>2. v7 <= SLOW /\ SLOW \in Nat
        BY <1>1, <1>6, SleepTypes DEF Sort!PipeOK
      <4> QED  BY <1>3, <3>1, <4>1, <4>2
    <3>2. CASE u # t
      BY <1>1, <1>7, <2>1, <3>2, SleepSets DEF Sort!TimesOK
    <3> QED  BY <3>1, <3>2
  <2>2. ASSUME v1, NEW u \in Sort!Lines, v6'[u].pc = "sleep"
        PROVE  v6'[u].due >= v7
    <3>1. CASE u = t
      BY <1>3, <1>5, <1>7, <2>2, <3>1
    <3>2. CASE u # t
      BY <1>1, <1>7, <2>2, <3>2 DEF Sort!TimesOK
    <3> QED  BY <3>1, <3>2
  <2>3. ASSUME v1, NEW u \in Sort!Lines, v6'[u].pc = "done"
        PROVE  v6'[u].due <= v7
    BY <1>1, <1>5, <1>7, <2>3 DEF Sort!TimesOK
  <2>4. \A i \in DOMAIN v9 : v6'[v9[i]] = v6[v9[i]]
    <3>1. \A i \in DOMAIN v9 : v9[i] \in Sort!Lines
      BY <1>1, SleepTypes
    <3>2. \A i \in DOMAIN v9 : v9[i] # t
      BY <1>1, <1>3, <1>6 DEF Sort!OutOK
    <3> QED  BY <1>7, <3>1, <3>2
  <2>5. Sort!Started' = {u \in Sort!Lines : v6'[u].pc \in {"sleep", "done"}}
    BY <1>2 DEF Sort!Started
  <2> QED  BY <1>1, <1>2, <2>1, <2>2, <2>3, <2>4, <2>5 DEF Sort!TimesOK
<1> QED  BY <1>8, <1>9, <1>10, <1>11, <1>12 DEF Sort!IInv

\* What a step of main that leaves the threads alone cannot disturb.
LEMMA SleepFrames ==
  ASSUME Sort!IInv, UNCHANGED <<program, v1, v2, v6>>
  PROVE  /\ UNCHANGED <<v3, v4, v5>> => Sort!WalkOK'
         /\ UNCHANGED <<v3, v7, v8>> => Sort!PipeOK'
         /\ UNCHANGED v9 /\ (v3' = "end" => v3 = "end") => Sort!OutOK'
         /\ UNCHANGED <<v7, v9>> => Sort!TimesOK'
<1>1. UNCHANGED <<v3, v4, v5>> => Sort!WalkOK'
  BY DEF Sort!IInv, Sort!WalkOK, Sort!Lines, Sort!Ahead, Sort!Creating, Sort!Failed, Sort!Straight
<1>2. UNCHANGED <<v3, v7, v8>> => Sort!PipeOK'
  BY SortCardinality DEF Sort!IInv, Sort!PipeOK, Sort!Piped, Sort!Creating, Sort!Started,
     Sort!Waiting, Sort!Lines
<1>3. UNCHANGED v9 /\ (v3' = "end" => v3 = "end") => Sort!OutOK'
  BY DEF Sort!IInv, Sort!OutOK, Sort!Created, Sort!Lines
<1>4. UNCHANGED <<v7, v9>> => Sort!TimesOK'
  BY DEF Sort!IInv, Sort!TimesOK, Sort!Started, Sort!Piped, Sort!Lines
<1> QED  BY <1>1, <1>2, <1>3, <1>4

LEMMA FailStep ==
  ASSUME SortConstants, Sort!IInv, NEW then \in {"next", "left", "exited"},
         Sort!Piped => then = "next", Sort!createFails(then),
         v5' = v5 \/ v5' = [v5 EXCEPT ![v4] = 0]
  PROVE  Sort!IInv'
<1> DEFINE t == v4
           b == [v6[t] EXCEPT !.pc = "failed"]
<1>1. Sort!StateOK /\ Sort!WalkOK /\ Sort!PipeOK /\ Sort!OutOK /\ Sort!TimesOK
  BY DEF Sort!IInv
<1>2. /\ v3 = "create" /\ t # 0 /\ v6' = [v6 EXCEPT ![t] = b] /\ v3' = then
      /\ UNCHANGED <<program, v1, v2, v4, v7, v8, v9>>
      /\ t = v4 /\ (Sort!Piped' <=> Sort!Piped) /\ Sort!Lines' = Sort!Lines
  BY DEF Sort!createFails, Sort!Piped, Sort!Lines
<1>3. t \in Sort!Lines /\ v6 \in [Sort!Lines -> Sleeper] /\ t \in Int
      /\ v5 \in [Sort!Lines -> 0 .. SLEEPERS] /\ SLEEPERS \in Nat
      /\ \A u \in Sort!Lines : u \in Int
  BY <1>1, <1>2, SleepTypes
<1>5. b \in Sleeper /\ b.pc = "failed"
  BY <1>3 DEF Sleeper, SleeperPcs
<1>6. v6[t].pc = "none" /\ Sort!Creating
  BY <1>1, <1>2, <1>3 DEF Sort!WalkOK, Sort!Ahead, Sort!Creating
<1> HIDE DEF t, b
<1>7. v6' \in [Sort!Lines -> Sleeper] /\ v6'[t] = b /\ \A u \in Sort!Lines : u # t => v6'[u] = v6[u]
  BY <1>2, <1>3, <1>5
<1>13. v5' \in [Sort!Lines -> 0 .. SLEEPERS] /\ \A u \in Sort!Lines : v5'[u] \in {0, v5[u]}
  BY <1>2, <1>3
<1>8. Sort!StateOK'
  <2>1. Sort!TypeOK'
    BY <1>1, <1>2, <1>13 DEF Sort!StateOK, Sort!TypeOK
  <2> QED  BY <1>1, <1>2, <1>7, <2>1 DEF Sort!StateOK, Sleeper, SleeperPcs, Sort!Programs
<1>9. Sort!WalkOK'
  <2>1. \A u \in Sort!Lines : (Sort!Ahead(u))' => u > t
    BY <1>2 DEF Sort!Ahead
  <2>2. \A u \in Sort!Lines : Sort!Ahead(u) <=> u >= t
    BY <1>2 DEF Sort!Ahead
  <2>3. \A u \in Sort!Lines : u > t => u >= t /\ u # t
    BY <1>3
  <2>4. \A u \in Sort!Lines : u > t => v6'[u].pc = "none"
    BY <1>1, <1>7, <2>2, <2>3 DEF Sort!WalkOK
  <2>5. Sort!Failed' # {}
    BY <1>2, <1>3, <1>5, <1>7 DEF Sort!Failed
  <2>6. \A u \in Sort!Lines : v5'[u] \in {0, u + 1}
    BY <1>1, <1>6, <1>13 DEF Sort!WalkOK
  <2> QED  BY <1>2, <2>1, <2>4, <2>5, <2>6 DEF Sort!WalkOK
<1>10. Sort!PipeOK'
  <2>1. Sort!Started' = Sort!Started
    BY <1>2, <1>5, <1>6, <1>7 DEF Sort!Started
  <2>2. Sort!Waiting' = Sort!Waiting
    BY <1>2, <1>5, <1>6, <1>7 DEF Sort!Waiting
  <2>3. Sort!Piped => Sort!Creating'
    BY <1>2 DEF Sort!Creating
  <2> QED  BY <1>1, <1>2, <1>6, <2>1, <2>2, <2>3 DEF Sort!PipeOK
<1>11. Sort!OutOK'
  <2>1. \A u \in Sort!Lines : v6'[u].pc = "done" <=> v6[u].pc = "done"
    BY <1>5, <1>6, <1>7
  <2> QED  BY <1>1, <1>2, <2>1 DEF Sort!OutOK
<1>12. Sort!TimesOK'
  <2>1. \A u \in Sort!Lines : v6'[u].pc \in {"sleep", "done"} => u # t /\ v6'[u] = v6[u]
    BY <1>5, <1>7
  <2>2. Sort!Started' = Sort!Started
    BY <1>2, <1>5, <1>6, <1>7 DEF Sort!Started
  <2>3. \A u \in Sort!Started : u \in Sort!Lines /\ v6'[u] = v6[u]
    BY <1>2, <2>1, <2>2 DEF Sort!Started
  <2>4. \A i \in DOMAIN v9 : v6'[v9[i]] = v6[v9[i]]
    <3>1. \A i \in DOMAIN v9 : v9[i] \in Sort!Lines
      BY <1>1, SleepTypes
    <3>2. \A i \in DOMAIN v9 : v9[i] # t
      BY <1>1, <1>3, <1>6 DEF Sort!OutOK
    <3> QED  BY <1>7, <3>1, <3>2
  <2> QED  BY <1>1, <1>2, <2>1, <2>2, <2>3, <2>4 DEF Sort!TimesOK
<1> QED  BY <1>8, <1>9, <1>10, <1>11, <1>12 DEF Sort!IInv

LEMMA WalkStep ==
  ASSUME SortConstants, Sort!IInv, Sort!advance \/ Sort!sync_pipe_notify
  PROVE  Sort!IInv'
<1>1. Sort!StateOK /\ Sort!WalkOK /\ Sort!PipeOK /\ Sort!OutOK /\ Sort!TimesOK
  BY DEF Sort!IInv
<1>2. UNCHANGED <<program, v1, v2, v5, v6, v7, v9>> /\ v3' \in {"create", "join"}
      /\ (Sort!Piped' <=> Sort!Piped) /\ Sort!Lines' = Sort!Lines
      /\ Sort!Waiting' = Sort!Waiting /\ Sort!Started' = Sort!Started /\ Sort!Failed' = Sort!Failed
      /\ Sort!Creating
  BY DEF Sort!advance, Sort!sync_pipe_notify, Sort!Piped, Sort!Lines, Sort!Waiting, Sort!Started,
     Sort!Failed, Sort!Creating
<1>3. Sort!OutOK' /\ Sort!TimesOK'
  BY <1>1, <1>2, SleepFrames
<1>4. CASE Sort!advance
  <2>1. v3 = "next" /\ v4' = v5[v4] /\ v3' = "create" /\ UNCHANGED v8 /\ Sort!Creating'
    BY <1>4 DEF Sort!advance, Sort!Creating
  <2>2. /\ v4 \in Sort!Lines /\ Sort!Lines = 1 .. SLEEPERS /\ SLEEPERS \in Nat
        /\ v4' \in 0 .. SLEEPERS /\ v4' \in {0, v4 + 1}
    <3>1. v4 # 0 /\ v4 \in 0 .. SLEEPERS
      BY <1>1, <2>1 DEF Sort!StateOK, Sort!TypeOK
    <3>2. Sort!Lines = 1 .. SLEEPERS /\ SLEEPERS \in Nat /\ v5 \in [Sort!Lines -> 0 .. SLEEPERS]
      BY <1>1, SleepTypes
    <3>3. v4 \in Sort!Lines
      BY <3>1, <3>2
    <3> QED  BY <1>1, <1>2, <2>1, <3>2, <3>3 DEF Sort!WalkOK
  <2>3. Sort!StateOK'
    BY <1>1, <1>2, <2>1, <2>2 DEF Sort!StateOK, Sort!TypeOK, Sort!Programs
  <2>4. Sort!PipeOK'
    BY <1>1, <1>2, <2>1 DEF Sort!PipeOK
  <2>5. Sort!WalkOK'
    <3>1. \A u \in Sort!Lines : Sort!Ahead(u) <=> u > v4
      BY <2>1 DEF Sort!Ahead
    <3>2. \A u \in Sort!Lines : (Sort!Ahead(u))' <=> v4' # 0 /\ u >= v4'
      BY <2>1 DEF Sort!Ahead
    <3>3. \A u \in Sort!Lines : (Sort!Ahead(u))' => Sort!Ahead(u)
      BY <2>2, <3>1, <3>2
    <3>4. Sort!Failed = {} => \A u \in Sort!Lines : Sort!Ahead(u) => (Sort!Ahead(u))'
      <4> SUFFICES ASSUME Sort!Failed = {}, NEW u \in Sort!Lines, u > v4
                   PROVE  v4' # 0 /\ u >= v4'
        BY <3>1, <3>2
      <4>1. v5 = Sort!Straight
        BY <1>1, <1>2 DEF Sort!WalkOK
      <4>2. v4' = IF v4 < SLEEPERS THEN v4 + 1 ELSE 0
        BY <2>1, <2>2, <4>1 DEF Sort!Straight
      <4> QED  BY <2>2, <4>2
    <3>5. Sort!Straight' = Sort!Straight
      BY DEF Sort!Straight, Sort!Lines
    <3> QED  BY <1>1, <1>2, <2>1, <3>3, <3>4, <3>5 DEF Sort!WalkOK
  <2> QED  BY <1>3, <2>3, <2>4, <2>5 DEF Sort!IInv
<1>5. CASE Sort!sync_pipe_notify
  <2>1. v3 = "create" /\ v4 = 0 /\ v3' = "join" /\ UNCHANGED v4 /\ ~Sort!Creating'
        /\ v8' = IF Sort!Piped THEN Cardinality(Sort!Created) ELSE 0
    BY <1>5, SortCardinality DEF Sort!sync_pipe_notify, Sort!Creating
  <2>2. Cardinality(Sort!Created) \in 0 .. SLEEPERS
    <3>1. /\ Sort!Lines = 1 .. SLEEPERS /\ SLEEPERS \in Nat /\ IsFiniteSet(Sort!Lines)
          /\ Sort!Created \in SUBSET Sort!Lines
      BY <1>1, SleepTypes DEF Sort!Created
    <3>2. Cardinality(Sort!Lines) = SLEEPERS
      BY <3>1, FS_Interval
    <3>3. IsFiniteSet(Sort!Created) /\ Cardinality(Sort!Created) <= Cardinality(Sort!Lines)
      BY <3>1, FS_Subset
    <3>4. Cardinality(Sort!Created) \in Nat
      BY <3>3, FS_CardinalityType
    <3> QED  BY <3>1, <3>2, <3>3, <3>4
  <2>3. Sort!StateOK'
    <3>1. v8' \in 0 .. SLEEPERS
      BY <1>1, <2>1, <2>2, SleepTypes
    <3> QED  BY <1>1, <1>2, <2>1, <3>1 DEF Sort!StateOK, Sort!TypeOK, Sort!Programs
  <2>4. Sort!PipeOK'
    <3>1. Sort!Piped => Sort!Created = Sort!Waiting
      <4> SUFFICES ASSUME Sort!Piped, NEW u \in Sort!Lines
                   PROVE  u \in Sort!Created <=> u \in Sort!Waiting
        BY DEF Sort!Created, Sort!Waiting
      <4>1. v6[u].pc \in SleeperPcs /\ v6[u].pc \notin {"sleep", "done"}
        BY <1>1, <1>2, SleepTypes, SleepSets DEF Sort!PipeOK
      <4> QED  BY <4>1, SleepSets DEF SleeperPcs
    <3>2. Sort!Piped => v8' = Cardinality(Sort!Waiting')
      BY <1>2, <2>1, <3>1
    <3> QED  BY <1>1, <1>2, <2>1, <3>2, SortCardinality DEF Sort!PipeOK
  <2>5. Sort!WalkOK'
    <3>1. \A u \in Sort!Lines : ~Sort!Ahead(u) /\ ~(Sort!Ahead(u))'
      BY <2>1 DEF Sort!Ahead
    <3> QED  BY <1>1, <1>2, <2>1, <3>1 DEF Sort!WalkOK
  <2> QED  BY <1>3, <2>3, <2>4, <2>5 DEF Sort!IInv
<1> QED  BY <1>4, <1>5

LEMMA JoinStep ==
  ASSUME SortConstants, Sort!IInv, NEW then \in SUBSET {"end", "undefined"}, Sort!join(then)
  PROVE  Sort!IInv'
<1>1. Sort!StateOK /\ Sort!WalkOK /\ Sort!PipeOK /\ Sort!OutOK /\ Sort!TimesOK
  BY DEF Sort!IInv
<1>2. UNCHANGED <<program, v1, v2, v4, v5, v6, v7, v8, v9>>
      /\ v3 = "join" /\ v3' \in {"end", "undefined"}
      /\ (Sort!Piped' <=> Sort!Piped) /\ Sort!Lines' = Sort!Lines /\ Sort!Created' = Sort!Created
      /\ Sort!Waiting' = Sort!Waiting /\ Sort!Started' = Sort!Started /\ Sort!Failed' = Sort!Failed
      /\ ~Sort!Creating /\ ~Sort!Creating' /\ \A t \in Sort!Created : v6[t].pc = "done"
  BY DEF Sort!join, Sort!Piped, Sort!Lines, Sort!Created, Sort!Waiting, Sort!Started,
     Sort!Failed, Sort!Creating
<1>3. Sort!StateOK'
  BY <1>1, <1>2 DEF Sort!StateOK, Sort!TypeOK, Sort!Programs
<1>4. Sort!WalkOK'
  <2>1. \A u \in Sort!Lines : ~Sort!Ahead(u) /\ ~(Sort!Ahead(u))'
    BY <1>2 DEF Sort!Ahead
  <2> QED  BY <1>1, <1>2, <2>1 DEF Sort!WalkOK
<1>5. Sort!PipeOK'
  BY <1>1, <1>2, SortCardinality DEF Sort!PipeOK
<1>6. Sort!OutOK'
  BY <1>1, <1>2 DEF Sort!OutOK
<1>7. Sort!TimesOK'
  BY <1>1, <1>2 DEF Sort!TimesOK
<1> QED  BY <1>3, <1>4, <1>5, <1>6, <1>7 DEF Sort!IInv

LEMMA TickStep ==
  ASSUME SortConstants, Sort!IInv, Sort!Tick
  PROVE  Sort!IInv'
<1>1. Sort!StateOK /\ Sort!WalkOK /\ Sort!PipeOK /\ Sort!OutOK /\ Sort!TimesOK
  BY DEF Sort!IInv
<1>2. UNCHANGED <<program, v1, v2, v3, v4, v5, v6, v8, v9>> /\ v1 /\ v7' = v7 + 1 /\ v8 = 0
      /\ (v3 \in {"create", "next"} => v7 < SLOW)
      /\ (Sort!Piped' <=> Sort!Piped) /\ Sort!Lines' = Sort!Lines
      /\ Sort!Waiting' = Sort!Waiting /\ Sort!Started' = Sort!Started /\ Sort!Failed' = Sort!Failed
      /\ (Sort!Creating' <=> Sort!Creating)
  BY DEF Sort!Tick, Sort!Piped, Sort!Lines, Sort!Waiting, Sort!Started, Sort!Failed, Sort!Creating
<1>3. PICK t \in Sort!Lines : v6[t].pc = "sleep"
  BY DEF Sort!Tick
<1>4. \A u \in Sort!Lines : v6[u].pc = "sleep" => v6[u].due > v7
  BY DEF Sort!Tick
<1>5. v7 \in Nat /\ SLOW \in Nat /\ \A u \in Sort!Lines : v6[u].due \in Nat
  BY <1>1, SleepTypes
<1>6. Sort!StateOK'
  BY <1>1, <1>2, <1>5 DEF Sort!StateOK, Sort!TypeOK, Sort!Programs
<1>7. Sort!WalkOK' /\ Sort!OutOK'
  <2>1. UNCHANGED <<v3, v4, v5>> /\ UNCHANGED v9 /\ (v3' = "end" => v3 = "end")
    BY <1>2
  <2> QED  BY <1>2, <2>1, SleepFrames
<1>8. Sort!PipeOK'
  <2>1. Sort!Piped => ~Sort!Creating
    BY <1>1, <1>3, SleepSets DEF Sort!PipeOK
  <2>2. Sort!Piped => Sort!Waiting = {}
    <3>1. IsFiniteSet(Sort!Waiting)
      <4>1. IsFiniteSet(Sort!Lines) /\ Sort!Waiting \in SUBSET Sort!Lines
        BY <1>1, SleepTypes DEF Sort!Waiting
      <4> QED  BY <4>1, FS_Subset
    <3>2. Sort!Piped => Cardinality(Sort!Waiting) = 0
      BY <1>1, <1>2, <2>1, SortCardinality DEF Sort!PipeOK
    <3> QED  BY <3>1, <3>2, FS_EmptySet
  <2>3. Sort!Creating => v7' <= SLOW
    BY <1>2, <1>5 DEF Sort!Creating
  <2> QED  BY <1>1, <1>2, <2>1, <2>2, <2>3 DEF Sort!PipeOK
<1>9. Sort!TimesOK'
  <2>1. \A u \in Sort!Lines : v6[u].pc = "sleep" => v6[u].due >= v7 + 1
    BY <1>4, <1>5
  <2>2. \A u \in Sort!Lines : v6[u].pc = "done" => v6[u].due <= v7 + 1
    BY <1>1, <1>2, <1>5 DEF Sort!TimesOK
  <2> QED  BY <1>1, <1>2, <2>1, <2>2 DEF Sort!TimesOK
<1> QED  BY <1>6, <1>7, <1>8, <1>9 DEF Sort!IInv

LEMMA PipeWaitStep ==
  ASSUME SortConstants, Sort!IInv, NEW t \in Sort!Lines, Sort!sync_pipe_wait(t)
  PROVE  Sort!IInv'
<1> DEFINE b == [pc |-> "sleep", due |-> v7 + v2[t]]
<1>1. Sort!StateOK /\ Sort!WalkOK /\ Sort!PipeOK /\ Sort!OutOK /\ Sort!TimesOK
  BY DEF Sort!IInv
<1>2. /\ v6[t].pc = "wait" /\ v8 > 0 /\ v8' = v8 - 1 /\ v6' = [v6 EXCEPT ![t] = b]
      /\ UNCHANGED <<program, v1, v2, v3, v4, v5, v7, v9>>
      /\ (Sort!Piped' <=> Sort!Piped) /\ Sort!Lines' = Sort!Lines
      /\ (Sort!Creating' <=> Sort!Creating)
  BY DEF Sort!sync_pipe_wait, Sort!Piped, Sort!Lines, Sort!Creating
<1>3. v6 \in [Sort!Lines -> Sleeper] /\ v7 \in Nat /\ v2[t] \in Nat /\ v8 \in 0 .. SLEEPERS
      /\ SLEEPERS \in Nat
  BY <1>1, SleepTypes
<1>4. Sort!Piped /\ ~Sort!Creating /\ v7 = 0
  BY <1>1, <1>2, SleepSets DEF Sort!PipeOK
<1>5. b \in Sleeper /\ b.pc = "sleep" /\ b.due = v2[t]
  BY <1>3, <1>4 DEF Sleeper, SleeperPcs
<1> HIDE DEF b
<1>6. v6' \in [Sort!Lines -> Sleeper] /\ v6'[t] = b /\ \A u \in Sort!Lines : u # t => v6'[u] = v6[u]
  BY <1>2, <1>3, <1>5
<1>7. Sort!StateOK'
  <2>1. v8' \in 0 .. SLEEPERS
    BY <1>2, <1>3
  <2>2. Sort!TypeOK'
    BY <1>1, <1>2, <2>1 DEF Sort!StateOK, Sort!TypeOK
  <2> QED  BY <1>1, <1>2, <1>6, <2>2 DEF Sort!StateOK, Sleeper, SleeperPcs, Sort!Programs
<1>8. Sort!WalkOK'
  <2>1. \A u \in Sort!Lines : ~Sort!Ahead(u) /\ ~(Sort!Ahead(u))'
    BY <1>2, <1>4 DEF Sort!Ahead, Sort!Creating
  <2>2. Sort!Failed' = Sort!Failed
    BY <1>2, <1>5, <1>6 DEF Sort!Failed
  <2>3. \A u \in Sort!Lines : v6'[u].pc = "none" <=> v6[u].pc = "none"
    BY <1>2, <1>5, <1>6
  <2> QED  BY <1>1, <1>2, <1>4, <2>1, <2>2, <2>3 DEF Sort!WalkOK
<1>9. Sort!PipeOK'
  <2>1. Sort!Waiting' = Sort!Waiting \ {t} /\ t \in Sort!Waiting
    BY <1>2, <1>5, <1>6 DEF Sort!Waiting
  <2>2. IsFiniteSet(Sort!Waiting)
    <3>1. IsFiniteSet(Sort!Lines) /\ Sort!Waiting \in SUBSET Sort!Lines
      BY <1>1, SleepTypes DEF Sort!Waiting
    <3> QED  BY <3>1, FS_Subset
  <2>3. Cardinality(Sort!Waiting') = Cardinality(Sort!Waiting) - 1
    BY <2>1, <2>2, FS_RemoveElement
  <2> QED  BY <1>1, <1>2, <1>4, <2>3, SortCardinality DEF Sort!PipeOK
<1>10. Sort!OutOK'
  <2>1. \A u \in Sort!Lines : v6'[u].pc = "done" <=> v6[u].pc = "done"
    BY <1>2, <1>5, <1>6
  <2>2. v3 # "end"
    <3>1. t \in Sort!Created /\ v6[t].pc # "done"
      BY <1>2, SleepSets
    <3> QED  BY <1>1, <3>1 DEF Sort!OutOK
  <2> QED  BY <1>1, <1>2, <2>1, <2>2 DEF Sort!OutOK
<1>11. Sort!TimesOK'
  <2>1. ASSUME NEW u \in Sort!Lines, v6'[u].pc \in {"sleep", "done"}
        PROVE  v2[u] <= v6'[u].due /\ v6'[u].due <= v2[u] + IF Sort!Piped THEN 0 ELSE SLOW
    <3>1. CASE u = t
      BY <1>3, <1>4, <1>5, <1>6, <3>1
    <3>2. CASE u # t
      BY <1>1, <1>6, <2>1, <3>2, SleepSets DEF Sort!TimesOK
    <3> QED  BY <3>1, <3>2
  <2>2. ASSUME v1, NEW u \in Sort!Lines, v6'[u].pc = "sleep"
        PROVE  v6'[u].due >= v7
    <3>1. CASE u = t
      BY <1>3, <1>4, <1>5, <1>6, <3>1
    <3>2. CASE u # t
      BY <1>1, <1>6, <2>2, <3>2 DEF Sort!TimesOK
    <3> QED  BY <3>1, <3>2
  <2>3. ASSUME v1, NEW u \in Sort!Lines, v6'[u].pc = "done"
        PROVE  v6'[u].due <= v7
    BY <1>1, <1>5, <1>6, <2>3 DEF Sort!TimesOK
  <2>4. \A i \in DOMAIN v9 : v6'[v9[i]] = v6[v9[i]]
    <3>1. \A i \in DOMAIN v9 : v9[i] \in Sort!Lines
      BY <1>1, SleepTypes
    <3>2. \A i \in DOMAIN v9 : v9[i] # t
      BY <1>1, <1>2 DEF Sort!OutOK
    <3> QED  BY <1>6, <3>1, <3>2
  <2>5. Sort!Started' = {u \in Sort!Lines : v6'[u].pc \in {"sleep", "done"}}
    BY <1>2 DEF Sort!Started
  <2> QED  BY <1>1, <1>2, <2>1, <2>2, <2>3, <2>4, <2>5 DEF Sort!TimesOK
<1> QED  BY <1>7, <1>8, <1>9, <1>10, <1>11 DEF Sort!IInv

LEMMA OutStep ==
  ASSUME SortConstants, Sort!IInv, NEW t \in Sort!Lines, Sort!Out(t),
         v5' = v5 \/ (program = "matsko23" /\ Sort!addNodeToList(t))
  PROVE  Sort!IInv'
<1> DEFINE b == [v6[t] EXCEPT !.pc = "done"]
           n == Len(v9)
<1>1. Sort!StateOK /\ Sort!WalkOK /\ Sort!PipeOK /\ Sort!OutOK /\ Sort!TimesOK
  BY DEF Sort!IInv
<1>2. /\ v6[t].pc = "sleep" /\ (v1 => v6[t].due <= v7)
      /\ v9' = Append(v9, t) /\ v6' = [v6 EXCEPT ![t] = b]
      /\ UNCHANGED <<program, v1, v2, v3, v4, v7, v8>>
      /\ (Sort!Piped' <=> Sort!Piped) /\ Sort!Lines' = Sort!Lines
      /\ (Sort!Creating' <=> Sort!Creating)
  BY DEF Sort!Out, Sort!Piped, Sort!Lines, Sort!Creating
<1>3. v6 \in [Sort!Lines -> Sleeper] /\ v7 \in Nat /\ n \in Nat /\ DOMAIN v9 = 1 .. n
      /\ v9 \in Seq(Sort!Lines) /\ \A i \in DOMAIN v9 : v9[i] \in Sort!Lines
  BY <1>1, SleepTypes
<1>4. Sort!Piped => ~Sort!Creating
  BY <1>1, <1>2, SleepSets DEF Sort!PipeOK
<1>5. b \in Sleeper /\ b.pc = "done" /\ b.due = v6[t].due
  BY <1>3 DEF Sleeper, SleeperPcs
<1>6. /\ v9' \in Seq(Sort!Lines) /\ DOMAIN v9' = 1 .. n + 1 /\ v9'[n + 1] = t
      /\ \A i \in 1 .. n : v9'[i] = v9[i]
  BY <1>2, <1>3
<1>7. v5' \in [Sort!Lines -> 0 .. SLEEPERS] /\ (v5' = v5 \/ Sort!Piped)
  <2>1. CASE v5' = v5
    BY <1>1, <2>1, SleepTypes
  <2>2. CASE program = "matsko23" /\ Sort!addNodeToList(t)
    <3> DEFINE cut == [v5 EXCEPT ![t] = 0]
               q == v9[n]
    <3>1. v5 \in [Sort!Lines -> 0 .. SLEEPERS] /\ Sort!Lines = 1 .. SLEEPERS /\ SLEEPERS \in Nat
      BY <1>1, SleepTypes
    <3>2. cut \in [Sort!Lines -> 0 .. SLEEPERS]
      BY <3>1
    <3>3. v5' = cut \/ v5' = [cut EXCEPT ![q] = t]
      BY <2>2 DEF Sort!addNodeToList
    <3> HIDE DEF cut, q
    <3>4. t \in 0 .. SLEEPERS
      BY <3>1
    <3>5. [cut EXCEPT ![q] = t] \in [Sort!Lines -> 0 .. SLEEPERS]
      BY <3>2, <3>4
    <3> QED  BY <2>2, <3>2, <3>3, <3>5 DEF Sort!Piped
  <2> QED  BY <2>1, <2>2
<1> HIDE DEF b, n
<1>8. v6' \in [Sort!Lines -> Sleeper] /\ v6'[t] = b /\ \A u \in Sort!Lines : u # t => v6'[u] = v6[u]
  BY <1>2, <1>3, <1>5
<1>9. \A i \in DOMAIN v9 : v9[i] # t /\ v6[v9[i]].pc = "done" /\ v6'[v9[i]] = v6[v9[i]]
  BY <1>1, <1>2, <1>3, <1>8 DEF Sort!OutOK
<1>10. Sort!StateOK'
  <2>1. Sort!TypeOK'
    BY <1>1, <1>2, <1>6, <1>7 DEF Sort!StateOK, Sort!TypeOK
  <2> QED  BY <1>1, <1>2, <1>8, <2>1 DEF Sort!StateOK, Sleeper, SleeperPcs, Sort!Programs
<1>11. Sort!WalkOK'
  <2>1. \A u \in Sort!Lines : (Sort!Ahead(u))' <=> Sort!Ahead(u)
    BY <1>2 DEF Sort!Ahead
  <2>2. Sort!Failed' = Sort!Failed
    BY <1>2, <1>5, <1>8 DEF Sort!Failed
  <2>3. \A u \in Sort!Lines : v6'[u].pc = "none" <=> v6[u].pc = "none"
    BY <1>2, <1>5, <1>8
  <2>4. Sort!Creating => v5' = v5
    BY <1>4, <1>7
  <2>5. Sort!Straight' = Sort!Straight
    BY DEF Sort!Straight, Sort!Lines
  <2> QED  BY <1>1, <1>2, <2>1, <2>2, <2>3, <2>4, <2>5 DEF Sort!WalkOK
<1>12. Sort!PipeOK'
  <2>1. Sort!Waiting' = Sort!Waiting
    BY <1>2, <1>5, <1>8 DEF Sort!Waiting
  <2> QED  BY <1>1, <1>2, <1>4, <2>1, SortCardinality DEF Sort!PipeOK
<1>13. Sort!OutOK'
  <2>1. \A i, j \in DOMAIN v9' : v9'[i] = v9'[j] => i = j
    <3> SUFFICES ASSUME NEW i \in 1 .. n + 1, NEW j \in 1 .. n + 1, v9'[i] = v9'[j]
                 PROVE  i = j
      BY <1>6
    <3>1. (i \in 1 .. n \/ i = n + 1) /\ (j \in 1 .. n \/ j = n + 1)
      BY <1>3
    <3> QED  BY <1>1, <1>3, <1>6, <1>9, <3>1 DEF Sort!OutOK
  <2>2. ASSUME NEW u \in Sort!Lines
        PROVE  v6'[u].pc = "done" <=> \E i \in DOMAIN v9' : v9'[i] = u
    <3>1. CASE u = t
      <4>1. n + 1 \in DOMAIN v9'
        BY <1>3, <1>6
      <4> QED  BY <1>5, <1>6, <1>8, <3>1, <4>1
    <3>2. CASE u # t
      <4>1. v6'[u].pc = "done" <=> \E i \in DOMAIN v9 : v9[i] = u
        BY <1>1, <1>8, <3>2 DEF Sort!OutOK
      <4>2. (\E i \in DOMAIN v9' : v9'[i] = u) => \E i \in DOMAIN v9 : v9[i] = u
        <5> SUFFICES ASSUME NEW i \in 1 .. n + 1, v9'[i] = u
                     PROVE  \E k \in DOMAIN v9 : v9[k] = u
          BY <1>6
        <5>1. i \in 1 .. n
          BY <1>3, <1>6, <3>2
        <5> QED  BY <1>3, <1>6, <5>1
      <4>3. (\E i \in DOMAIN v9 : v9[i] = u) => \E i \in DOMAIN v9' : v9'[i] = u
        <5> SUFFICES ASSUME NEW i \in 1 .. n, v9[i] = u
                     PROVE  \E k \in DOMAIN v9' : v9'[k] = u
          BY <1>3
        <5>1. i \in DOMAIN v9'
          BY <1>3, <1>6
        <5> QED  BY <1>6, <5>1
      <4> QED  BY <4>1, <4>2, <4>3
    <3> QED  BY <3>1, <3>2
  <2>3. v3 # "end"
    <3>1. t \in Sort!Created /\ v6[t].pc # "done"
      BY <1>2, SleepSets
    <3> QED  BY <1>1, <3>1 DEF Sort!OutOK
  <2> QED  BY <1>2, <2>1, <2>2, <2>3 DEF Sort!OutOK
<1>14. Sort!TimesOK'
  <2>1. \A u \in Sort!Lines : v6'[u].due = v6[u].due
    BY <1>5, <1>8
  <2>2. Sort!Started' = Sort!Started
    BY <1>2, <1>5, <1>8 DEF Sort!Started
  <2>3. \A u \in Sort!Started : u \in Sort!Lines
    BY DEF Sort!Started
  <2>4. ASSUME v1, NEW u \in Sort!Lines
        PROVE  /\ v6'[u].pc = "sleep" => v6'[u].due >= v7
               /\ v6'[u].pc = "done" => v6'[u].due <= v7
    BY <1>1, <1>2, <1>5, <1>8, <2>1, <2>4 DEF Sort!TimesOK
  <2>5. ASSUME v1, NEW i \in DOMAIN v9', NEW j \in DOMAIN v9', i < j
        PROVE  v6'[v9'[i]].due <= v6'[v9'[j]].due
    <3>1. i \in 1 .. n /\ i \in DOMAIN v9 /\ v9'[i] = v9[i] /\ j \in 1 .. n + 1
      BY <1>3, <1>6, <2>5
    <3>2. v6'[v9'[i]].due = v6[v9[i]].due
      BY <1>9, <3>1
    <3>3. CASE j \in 1 .. n
      <4>1. v9'[j] = v9[j] /\ v6'[v9'[j]].due = v6[v9[j]].due /\ j \in DOMAIN v9
        BY <1>3, <1>6, <1>9, <3>3
      <4> QED  BY <1>1, <2>5, <3>1, <3>2, <4>1 DEF Sort!TimesOK
    <3>4. CASE j = n + 1
      <4> DEFINE d == v6[v9[i]].due
                 e == v6[t].due
      <4>1. d <= v7
        BY <1>1, <1>3, <1>9, <2>5, <3>1 DEF Sort!TimesOK
      <4>2. e >= v7
        BY <1>1, <1>2, <2>5 DEF Sort!TimesOK
      <4>3. v6'[v9'[j]].due = e
        BY <1>6, <2>1, <3>4
      <4>4. d \in Nat /\ e \in Nat
        <5>1. v9[i] \in Sort!Lines
          BY <1>3, <3>1
        <5> QED  BY <1>1, <5>1, SleepTypes
      <4> HIDE DEF d, e
      <4>5. d <= e
        BY <1>3, <4>1, <4>2, <4>4
      <4> QED  BY <3>2, <4>3, <4>5 DEF d, e
    <3> QED  BY <1>3, <3>1, <3>3, <3>4
  <2>6. \A u \in Sort!Started :
          v2[u] <= v6'[u].due /\ v6'[u].due <= v2[u] + IF Sort!Piped THEN 0 ELSE SLOW
    BY <1>1, <2>1, <2>3 DEF Sort!TimesOK
  <2> QED  BY <1>2, <2>2, <2>4, <2>5, <2>6 DEF Sort!TimesOK
<1> QED  BY <1>10, <1>11, <1>12, <1>13, <1>14 DEF Sort!IInv

\* What the main functions do, whichever program they belong to.
LEMMA MainStep ==
  ASSUME SortConstants, Sort!IInv,
         \/ Sort!Walk
         \/ \E then \in {"next", "left", "exited"} :
              /\ Sort!createFails(then)
              /\ Sort!Piped => then = "next"
              /\ v5' = v5 \/ v5' = [v5 EXCEPT ![v4] = 0]
         \/ \E then \in SUBSET {"end", "undefined"} : Sort!join(then)
  PROVE  Sort!IInv'
<1>1. CASE Sort!Walk
  BY <1>1, CreateStep, WalkStep DEF Sort!Walk
<1>2. CASE \E then \in {"next", "left", "exited"} :
             /\ Sort!createFails(then)
             /\ Sort!Piped => then = "next"
             /\ v5' = v5 \/ v5' = [v5 EXCEPT ![v4] = 0]
  BY <1>2, FailStep
<1>3. CASE \E then \in SUBSET {"end", "undefined"} : Sort!join(then)
  BY <1>3, JoinStep
<1> QED  BY <1>1, <1>2, <1>3

LEMMA SleeperStep ==
  ASSUME SortConstants, Sort!IInv, NEW t \in Sort!Lines, Sort!Thread(t)
  PROVE  Sort!IInv'
<1>1. CASE Sort!sync_pipe_wait(t)
  BY <1>1, PipeWaitStep
<1>2. CASE Sort!Out(t) /\ (v5' = v5 \/ (program = "matsko23" /\ Sort!addNodeToList(t)))
  BY <1>2, OutStep
<1> QED
  BY <1>1, <1>2 DEF Sort!Thread, Sort!mythread, Sort!matsko6thread, Sort!sort_by_length,
     Sort!print_line, Sort!new_thread_func

LEMMA SortNext ==
  ASSUME SortConstants, Sort!IInv, [Sort!Next]_Sort!vars
  PROVE  Sort!IInv'
<1>1. CASE UNCHANGED Sort!vars
  <2>1. UNCHANGED <<program, v1, v2, v3, v4, v5, v6, v7, v8, v9>>
    BY <1>1 DEF Sort!vars
  <2>2. Sort!StateOK'
    BY <2>1 DEF Sort!IInv, Sort!StateOK, Sort!TypeOK, Sort!Programs, Sort!Lines
  <2>3. /\ UNCHANGED <<program, v1, v2, v6>> /\ UNCHANGED <<v3, v4, v5>> /\ UNCHANGED <<v3, v7, v8>>
        /\ UNCHANGED v9 /\ (v3' = "end" => v3 = "end") /\ UNCHANGED <<v7, v9>>
    BY <2>1
  <2> QED  BY <2>2, <2>3, SleepFrames DEF Sort!IInv
<1>2. CASE Sort!matsko23Main
  <2>1. {"end", "undefined"} \in SUBSET {"end", "undefined"} /\ {"end"} \in SUBSET {"end", "undefined"}
    OBVIOUS
  <2> QED  BY <1>2, <2>1, MainStep DEF Sort!matsko23Main
<1>3. CASE Sort!matsko6Main
  <2>1. {"end"} \in SUBSET {"end", "undefined"}
    OBVIOUS
  <2> QED  BY <1>3, <2>1, MainStep DEF Sort!matsko6Main
<1>4. CASE Sort!shuvalov6Main \/ Sort!arkhipov6Main \/ Sort!tamplon6Main
  <2>1. {"end"} \in SUBSET {"end", "undefined"}
    OBVIOUS
  <2>2. ~Sort!Piped
    BY <1>4 DEF Sort!Piped, Sort!shuvalov6Main, Sort!arkhipov6Main, Sort!tamplon6Main
  <2> QED
    BY <1>4, <2>1, <2>2, MainStep DEF Sort!shuvalov6Main, Sort!arkhipov6Main, Sort!tamplon6Main
<1>5. CASE Sort!Tick
  BY <1>5, TickStep
<1>6. CASE \E t \in Sort!Lines : Sort!Thread(t)
  BY <1>6, SleeperStep
<1> QED  BY <1>1, <1>2, <1>3, <1>4, <1>5, <1>6 DEF Sort!Next, Sort!Mains

\* All lines that have a thread are out when main ends, and by length.
LEMMA SortSafe ==
  ASSUME SortConstants, Sort!IInv
  PROVE  Sort!LinesOut /\ Sort!ByLength
<1>1. Sort!StateOK /\ Sort!WalkOK /\ Sort!PipeOK /\ Sort!OutOK /\ Sort!TimesOK
  BY DEF Sort!IInv
<1>2. /\ v9 \in Seq(Sort!Lines) /\ Len(v9) \in Nat /\ DOMAIN v9 = 1 .. Len(v9)
      /\ \A i \in DOMAIN v9 : v9[i] \in Sort!Lines
  BY <1>1, SleepTypes
<1>3. Sort!LinesOut
  <2> SUFFICES ASSUME v3 = "end"
               PROVE  /\ Len(v9) = Cardinality(Sort!Created)
                      /\ {v9[i] : i \in DOMAIN v9} = Sort!Created
                      /\ (\A t \in Sort!Lines : v6[t].pc # "failed") => Sort!Created = Sort!Lines
    BY SortCardinality DEF Sort!LinesOut
  <2>1. \A t \in Sort!Lines : t \in Sort!Created <=> \E i \in DOMAIN v9 : v9[i] = t
    BY <1>1, SleepSets DEF Sort!OutOK
  <2>2. {v9[i] : i \in DOMAIN v9} = Sort!Created
    BY <1>2, <2>1 DEF Sort!Created
  <2>3. Len(v9) = Cardinality(Sort!Created)
    <3>1. v9 \in [1 .. Len(v9) -> Sort!Created]
      BY <1>2, <2>1
    <3>2. v9 \in Bijection(1 .. Len(v9), Sort!Created)
      <4>1. v9 \in Injection(1 .. Len(v9), Sort!Created)
        BY <1>1, <1>2, <3>1 DEF Sort!OutOK, Injection, IsInjective
      <4>2. v9 \in Surjection(1 .. Len(v9), Sort!Created)
        <5>1. \A t \in Sort!Created : \E i \in 1 .. Len(v9) : v9[i] = t
          BY <1>2, <2>2
        <5> QED  BY <3>1, <5>1 DEF Surjection
      <4> QED  BY <4>1, <4>2 DEF Bijection
    <3>3. ExistsBijection(1 .. Len(v9), Sort!Created)
      BY <3>2 DEF ExistsBijection
    <3> QED  BY <1>2, <3>3, FS_CountingElements
  <2>4. (\A t \in Sort!Lines : v6[t].pc # "failed") => Sort!Created = Sort!Lines
    <3> SUFFICES ASSUME \A t \in Sort!Lines : v6[t].pc # "failed", NEW t \in Sort!Lines
                 PROVE  t \in Sort!Created
      BY DEF Sort!Created
    <3>1. Sort!Failed = {} /\ ~Sort!Ahead(t)
      BY SleepSets DEF Sort!Ahead
    <3>2. v6[t].pc # "none"
      BY <1>1, <3>1 DEF Sort!WalkOK
    <3> QED  BY <3>2, SleepSets
  <2> QED  BY <2>2, <2>3, <2>4
<1>4. Sort!ByLength
  <2> DEFINE more == IF Sort!Piped THEN 0 ELSE SLOW
  <2> SUFFICES ASSUME v1, NEW i \in DOMAIN v9, NEW j \in DOMAIN v9, i < j
               PROVE  v2[v9[i]] <= v2[v9[j]] + more
    BY DEF Sort!ByLength
  <2> DEFINE a == v2[v9[i]]
             b == v2[v9[j]]
             c == v6[v9[i]].due
             d == v6[v9[j]].due
  <2>1. more \in Nat
    BY DEF SortConstants
  <2>2. a \in Nat /\ b \in Nat /\ c \in Nat /\ d \in Nat
    BY <1>1, <1>2, SleepTypes
  <2>3. v9[i] \in Sort!Started /\ v9[j] \in Sort!Started
    BY <1>1, <1>2, SleepSets DEF Sort!OutOK
  <2>4. a <= c /\ d <= b + more
    BY <1>1, <2>3 DEF Sort!TimesOK
  <2>5. c <= d
    BY <1>1 DEF Sort!TimesOK
  <2> HIDE DEF a, b, c, d, more
  <2>6. a <= b + more
    BY <2>1, <2>2, <2>4, <2>5
  <2> QED  BY <2>6 DEF a, b
<1> QED  BY <1>3, <1>4

-----------------------------------------------------------------------------
(***************************************************************************)
(* ListQueue: v1 is head, v2 tail, v3 next, v4 value, v5 nodes, v6 strs,   *)
(* v7 destroyed and v8 fifo.                                               *)
(***************************************************************************)
LEMMA QueueCardinality ==
  \A T : Queue!Cardinality(T) = Cardinality(T) /\ (Queue!IsFiniteSet(T) <=> IsFiniteSet(T))
BY DEF Queue!Cardinality, Cardinality, Queue!IsFiniteSet, IsFiniteSet

\* A chain of n nodes is as long as the queue.
ChainOf(node, n) ==
  /\ v8 \in Seq(Strings) /\ n = Len(v8) /\ n \in Nat /\ DOMAIN v8 = 1 .. n
  /\ node \in [1 .. n -> v5] /\ Queue!Chain(node)

LEMMA ChainFacts ==
  ASSUME Queue!QueueConstants, Queue!TypeOK, NEW n, NEW node, ChainOf(node, n)
  PROVE  /\ \A i \in 1 .. n : node[i] \in v5 /\ node[i] \in Addrs /\ node[i] # Queue!NULL
         /\ n = 0 <=> v1 = Queue!NULL
         /\ n = 0 <=> v8 = <<>>
         /\ n > 0 => v1 = node[1] /\ v2 = node[n]
         /\ v5 \subseteq Addrs /\ IsFiniteSet(v5) /\ Cardinality(v5) = n
         /\ Cardinality(Addrs) \in Nat /\ n <= Cardinality(Addrs)
<1>1. v5 \in SUBSET Addrs /\ IsFiniteSet(Addrs) /\ Queue!NULL \notin Addrs /\ n \in Nat
  BY QueueCardinality DEF Queue!QueueConstants, Queue!TypeOK, ChainOf
<1>2. \A i \in 1 .. n : node[i] \in v5 /\ node[i] \in Addrs /\ node[i] # Queue!NULL
  BY <1>1 DEF ChainOf
<1>3. n = 0 <=> v8 = <<>>
  BY DEF ChainOf
<1>4. v1 = IF n = 0 THEN Queue!NULL ELSE node[1]
  BY <1>3 DEF ChainOf, Queue!Chain
<1>5. n > 0 => v2 = node[n]
  BY <1>3 DEF ChainOf, Queue!Chain
<1>6. n > 0 => 1 \in 1 .. n
  BY <1>1
<1>7. IsFiniteSet(v5) /\ Cardinality(v5) <= Cardinality(Addrs) /\ Cardinality(Addrs) \in Nat
  BY <1>1, FS_Subset, FS_CardinalityType
<1>8. Cardinality(v5) = n
  <2>1. node \in [1 .. n -> v5] /\ DOMAIN node = 1 .. n
    BY DEF ChainOf
  <2>2. node \in Injection(1 .. n, v5)
    BY <2>1 DEF ChainOf, Queue!Chain, Injection, IsInjective
  <2>3. node \in Surjection(1 .. n, v5)
    <3>1. \A a \in v5 : \E i \in 1 .. n : node[i] = a
      BY <2>1 DEF ChainOf, Queue!Chain
    <3> QED  BY <2>1, <3>1 DEF Surjection
  <2>4. ExistsBijection(1 .. n, v5)
    BY <2>2, <2>3 DEF Bijection, ExistsBijection
  <2> QED  BY <1>1, <2>4, FS_CountingElements
<1> QED  BY <1>1, <1>2, <1>3, <1>4, <1>5, <1>6, <1>7, <1>8

\* The chain that the inductive invariant promises.
LEMMA SomeChain ==
  ASSUME Queue!IInv
  PROVE  Queue!TypeOK /\ \E node : ChainOf(node, Len(v8))
<1>1. Queue!TypeOK /\ v8 \in Seq(Strings)
  BY DEF Queue!IInv, Queue!TypeOK
<1>2. PICK node \in [1 .. Len(v8) -> v5] : Queue!Chain(node)
  BY DEF Queue!IInv
<1>3. ChainOf(node, Len(v8))
  BY <1>1, <1>2 DEF ChainOf
<1> QED  BY <1>1, <1>3

\* What a walk along the next pointers visits.
LEMMA WalkIs ==
  ASSUME Queue!QueueConstants, Queue!TypeOK, NEW n, NEW node, ChainOf(node, n)
  PROVE  /\ DOMAIN Queue!Walk = 0 .. Cardinality(Addrs) + 1
         /\ \A i \in 0 .. Cardinality(Addrs) + 1 :
              Queue!Walk[i] = IF i < n THEN node[i + 1] ELSE Queue!NULL
<1> DEFINE C == Cardinality(Addrs)
           D == 0 .. C + 1
           Step(f) == [i \in D |-> IF i = 0 THEN v1
                                   ELSE IF f[i - 1] = Queue!NULL THEN Queue!NULL
                                        ELSE v3[f[i - 1]]]
           w == CHOOSE f : f = Step(f)
           k == [i \in D |-> IF i < n THEN node[i + 1] ELSE Queue!NULL]
<1>1. /\ n \in Nat /\ C \in Nat /\ n <= C
      /\ v1 = IF n = 0 THEN Queue!NULL ELSE node[1]
      /\ \A i \in 1 .. n : node[i] # Queue!NULL
  <2>1. n \in Nat
    BY DEF ChainOf
  <2> QED  BY <2>1, ChainFacts
<1>2. \A i \in 1 .. n : v3[node[i]] = IF i < n THEN node[i + 1] ELSE Queue!NULL
  BY DEF ChainOf, Queue!Chain
<1>3. ASSUME NEW i \in D, i # 0
      PROVE  /\ i - 1 \in D
             /\ k[i] = IF k[i - 1] = Queue!NULL THEN Queue!NULL ELSE v3[k[i - 1]]
  <2>1. i - 1 \in D /\ i - 1 \in Nat /\ i \in Nat
    BY <1>1, <1>3
  <2>2. CASE i - 1 < n
    <3>1. i \in 1 .. n /\ i - 1 + 1 = i
      BY <1>1, <1>3, <2>1, <2>2
    <3>2. k[i - 1] = node[i]
      BY <2>1, <2>2, <3>1
    <3>3. k[i] = IF i < n THEN node[i + 1] ELSE Queue!NULL
      OBVIOUS
    <3> QED  BY <1>1, <1>2, <2>1, <3>1, <3>2, <3>3
  <2>3. CASE ~(i - 1 < n)
    <3>1. ~(i < n)
      BY <1>1, <2>1, <2>3
    <3> QED  BY <2>1, <2>3, <3>1
  <2> QED  BY <2>2, <2>3
<1>4. k[0] = v1
  BY <1>1
<1>5. k = Step(k)
  <2> DEFINE h == Step(k)
  <2>1. DOMAIN h = D /\ DOMAIN k = D /\ h = [i \in DOMAIN h |-> h[i]] /\ k = [i \in DOMAIN k |-> k[i]]
    OBVIOUS
  <2>2. \A i \in D : h[i] = IF i = 0 THEN v1
                            ELSE IF k[i - 1] = Queue!NULL THEN Queue!NULL ELSE v3[k[i - 1]]
    OBVIOUS
  <2> HIDE DEF h, k, D
  <2>3. \A i \in D : h[i] = k[i]
    BY <1>3, <1>4, <2>2
  <2>4. h = k
    BY <2>1, <2>3
  <2> QED  BY <2>4 DEF h
<1>6. w = Step(w)
  <2> HIDE DEF k
  <2> QED  BY <1>5, Zenon
<1>7. Queue!Walk = w
  BY QueueCardinality, Zenon DEF Queue!Walk
<1> HIDE DEF w, k
<1>8. DOMAIN w = D /\ \A i \in D : w[i] = IF i = 0 THEN v1
                                   ELSE IF w[i - 1] = Queue!NULL THEN Queue!NULL ELSE v3[w[i - 1]]
  <2>1. DOMAIN Step(w) = D /\ \A i \in D : Step(w)[i] = IF i = 0 THEN v1
                                   ELSE IF w[i - 1] = Queue!NULL THEN Queue!NULL ELSE v3[w[i - 1]]
    OBVIOUS
  <2> HIDE DEF Step
  <2> QED  BY <1>6, <2>1
<1>9. \A i \in D : w[i] = k[i]
  <2> DEFINE S == {i \in Nat : i \in D => w[i] = k[i]}
  <2>1. 0 \in S
    BY <1>1, <1>4, <1>8
  <2>2. ASSUME NEW j \in Nat, j \in S
        PROVE  j + 1 \in S
    <3> SUFFICES ASSUME j + 1 \in D  PROVE  w[j + 1] = k[j + 1]
      OBVIOUS
    <3>1. j + 1 # 0 /\ j + 1 - 1 = j
      OBVIOUS
    <3>2. j \in D /\ k[j + 1] = IF k[j] = Queue!NULL THEN Queue!NULL ELSE v3[k[j]]
      BY <1>3, <3>1
    <3>3. w[j + 1] = IF w[j] = Queue!NULL THEN Queue!NULL ELSE v3[w[j]]
      BY <1>8, <3>1
    <3> QED  BY <2>2, <3>2, <3>3
  <2> HIDE DEF S
  <2>3. Nat \subseteq S
    BY <2>1, <2>2, Induction
  <2>4. \A i \in D : i \in Nat
    BY <1>1
  <2> QED  BY <2>3, <2>4 DEF S
<1> QED  BY <1>7, <1>8, <1>9 DEF k

\* The walk from head visits the nodes, so that the list is the heap and holds the
\* strings in their order.
LEMMA QueueSafe ==
  ASSUME Queue!QueueConstants, Queue!IInv
  PROVE  Queue!ListNodes = v5 /\ Queue!ListIsFifo /\ Queue!ListIsHeap
<1> DEFINE n == Len(v8)
           C == Cardinality(Addrs)
           w == Queue!Walk
<1>1. Queue!TypeOK
  BY DEF Queue!IInv
<1>2. PICK node : ChainOf(node, n)
  BY SomeChain
<1>3. /\ \A i \in 1 .. n : node[i] \in v5 /\ node[i] # Queue!NULL
      /\ n = 0 <=> v1 = Queue!NULL
      /\ n > 0 => v2 = node[n]
      /\ v5 \subseteq Addrs /\ Queue!NULL \notin Addrs
      /\ Cardinality(v5) = n /\ n \in Nat /\ C \in Nat /\ n <= C
  BY <1>1, <1>2, ChainFacts DEF ChainOf, Queue!QueueConstants
<1>4. DOMAIN w = 0 .. C + 1
      /\ \A i \in 0 .. C + 1 : w[i] = IF i < n THEN node[i + 1] ELSE Queue!NULL
  BY <1>1, <1>2, WalkIs
<1>5. v8 \in Seq(Strings) /\ DOMAIN v8 = 1 .. n /\ DOMAIN node = 1 .. n
      /\ (\A a \in v5 : \E i \in 1 .. n : node[i] = a)
      /\ \A i \in 1 .. n : v4[node[i]] = v8[i]
                           /\ v3[node[i]] = IF i < n THEN node[i + 1] ELSE Queue!NULL
  BY <1>2 DEF ChainOf, Queue!Chain
<1> HIDE DEF w, n, C
<1>6. Queue!ListNodes = v5
  <2>1. Queue!ListNodes = {w[i] : i \in 0 .. C + 1} \ {Queue!NULL}
    BY <1>4 DEF Queue!ListNodes, w
  <2>2. ASSUME NEW i \in 0 .. C + 1, w[i] # Queue!NULL
        PROVE  w[i] \in v5
    <3>1. i < n /\ i + 1 \in 1 .. n /\ w[i] = node[i + 1]
      BY <1>3, <1>4, <2>2
    <3> QED  BY <1>3, <3>1
  <2>3. ASSUME NEW a \in v5
        PROVE  a # Queue!NULL /\ \E i \in 0 .. C + 1 : w[i] = a
    <3>1. PICK i \in 1 .. n : node[i] = a
      BY <1>5
    <3>2. i - 1 \in 0 .. C + 1 /\ i - 1 < n /\ i - 1 + 1 = i
      BY <1>3
    <3> QED  BY <1>3, <1>4, <3>1, <3>2
  <2> QED  BY <2>1, <2>2, <2>3
<1>7. Queue!ListIsFifo
  <2>1. Queue!Contents = [i \in 1 .. n |-> v4[w[i - 1]]]
    BY <1>3, <1>6, QueueCardinality DEF Queue!Contents, w
  <2>2. \A i \in 1 .. n : v4[w[i - 1]] = v8[i]
    <3> SUFFICES ASSUME NEW i \in 1 .. n  PROVE  v4[w[i - 1]] = v8[i]
      OBVIOUS
    <3>1. i - 1 \in 0 .. C + 1 /\ i - 1 < n /\ i - 1 + 1 = i
      BY <1>3
    <3> QED  BY <1>4, <1>5, <3>1
  <2>3. v8 = [i \in 1 .. n |-> v8[i]]
    BY <1>5
  <2> QED  BY <2>1, <2>2, <2>3 DEF Queue!ListIsFifo
<1>8. Queue!ListIsHeap
  <2>1. ASSUME v1 # Queue!NULL
        PROVE  v2 \in v5 /\ v3[v2] = Queue!NULL
    <3>1. n > 0 /\ n \in 1 .. n /\ v2 = node[n]
      BY <1>3, <2>1
    <3> QED  BY <1>3, <1>5, <3>1
  <2> QED  BY <1>6, <2>1 DEF Queue!ListIsHeap
<1> QED  BY <1>6, <1>7, <1>8

LEMMA QueueInit ==
  ASSUME Queue!QueueConstants, Queue!Init
  PROVE  Queue!IInv
<1> USE DEF Queue!Init
<1>1. Queue!TypeOK
  <2>1. v3 \in [Addrs -> Addrs \cup {Queue!NULL}]
    BY Zenon
  <2>2. v4 \in [Addrs -> Strings \cup {Queue!NULL}]
    BY Zenon
  <2>3. v8 \in Seq(Strings) /\ v5 \subseteq Addrs
    OBVIOUS
  <2>4. v7 \in BOOLEAN
    BY Zenon
  <2> QED  BY <2>1, <2>2, <2>3, <2>4 DEF Queue!TypeOK
<1>2. Len(v8) = 0 /\ <<>> \in [1 .. Len(v8) -> v5] /\ DOMAIN <<>> = {} /\ v8 = <<>>
  OBVIOUS
<1>3. Queue!Chain(<<>>)
  BY <1>2 DEF Queue!Chain
<1> QED  BY <1>1, <1>2, <1>3 DEF Queue!IInv

\* The next state has a chain: the invariant holds there.
LEMMA NextChain ==
  ASSUME Queue!TypeOK', NEW node, v8' \in Seq(Strings), node \in [1 .. Len(v8') -> v5'],
         /\ \A i, j \in DOMAIN node : node[i] = node[j] => i = j
         /\ \A a \in v5' : \E i \in DOMAIN node : node[i] = a
         /\ v1' = IF v8' = <<>> THEN Queue!NULL ELSE node[1]
         /\ v8' # <<>> => v2' = node[Len(v8')]
         /\ \A i \in DOMAIN node :
              /\ v4'[node[i]] = v8'[i]
              /\ v3'[node[i]] = IF i < Len(v8') THEN node[i + 1] ELSE Queue!NULL
  PROVE  Queue!IInv'
BY DEF Queue!IInv, Queue!Chain, Queue!NULL

LEMMA QueuePush ==
  ASSUME Queue!QueueConstants, Queue!IInv, NEW s \in Strings, Queue!Push(s)
  PROVE  Queue!IInv'
<1> DEFINE n == Len(v8)
<1>1. Queue!TypeOK
  BY DEF Queue!IInv
<1>2. PICK node : ChainOf(node, n)
  BY SomeChain
<1>3. PICK a \in Addrs \ v5 :
           /\ v4' = [v4 EXCEPT ![a] = s]
           /\ IF v1 = Queue!NULL
              THEN v1' = a /\ v3' = [v3 EXCEPT ![a] = Queue!NULL]
              ELSE v1' = v1 /\ v3' = [v3 EXCEPT ![a] = Queue!NULL, ![v2] = a]
           /\ v2' = a
           /\ v5' = v5 \cup {a}
  BY DEF Queue!Push
<1>4. v8' = Append(v8, s) /\ v7' = v7
  BY DEF Queue!Push
<1>5. /\ \A i \in 1 .. n : node[i] \in v5 /\ node[i] \in Addrs /\ node[i] # a
      /\ n = 0 <=> v1 = Queue!NULL
      /\ n > 0 => v1 = node[1] /\ v2 = node[n]
      /\ v5 \subseteq Addrs /\ n \in Nat
  <2>1. /\ \A i \in 1 .. n : node[i] \in v5 /\ node[i] \in Addrs
        /\ n = 0 <=> v1 = Queue!NULL
        /\ n > 0 => v1 = node[1] /\ v2 = node[n]
        /\ v5 \subseteq Addrs
    BY <1>1, <1>2, ChainFacts
  <2>2. n \in Nat
    BY <1>2 DEF ChainOf
  <2>3. a \notin v5
    BY <1>3
  <2> HIDE DEF n
  <2> QED  BY <2>1, <2>2, <2>3
<1>6. /\ node \in [1 .. n -> v5] /\ DOMAIN node = 1 .. n /\ v8 \in Seq(Strings)
      /\ (\A i, j \in 1 .. n : node[i] = node[j] => i = j)
      /\ (\A b \in v5 : \E i \in 1 .. n : node[i] = b)
      /\ \A i \in 1 .. n : v4[node[i]] = v8[i]
                           /\ v3[node[i]] = IF i < n THEN node[i + 1] ELSE Queue!NULL
  BY <1>2 DEF ChainOf, Queue!Chain
<1>7. /\ v8' \in Seq(Strings) /\ Len(v8') = n + 1 /\ v8' # <<>> /\ v8'[n + 1] = s
      /\ \A i \in 1 .. n : v8'[i] = v8[i]
  BY <1>4, <1>6
<1>8. v3 \in [Addrs -> Addrs \cup {Queue!NULL}] /\ v4 \in [Addrs -> Strings \cup {Queue!NULL}]
  BY <1>1 DEF Queue!TypeOK
<1> HIDE DEF n
<1>9. /\ v4'[a] = s /\ v3'[a] = Queue!NULL
      /\ \A i \in 1 .. n : v4'[node[i]] = v8[i]
                           /\ v3'[node[i]] = IF i < n THEN node[i + 1] ELSE a
  <2>1. v4'[a] = s /\ \A i \in 1 .. n : v4'[node[i]] = v8[i]
    BY <1>3, <1>5, <1>6, <1>8
  <2>2. CASE v1 = Queue!NULL
    BY <1>3, <1>5, <1>8, <2>1, <2>2
  <2>3. CASE v1 # Queue!NULL
    <3>1. n > 0 /\ n \in 1 .. n /\ v2 = node[n] /\ v2 \in Addrs /\ v2 # a
      BY <1>5, <2>3
    <3>2. v3'[a] = Queue!NULL /\ v3'[v2] = a /\ \A b \in Addrs : b # a /\ b # v2 => v3'[b] = v3[b]
      BY <1>3, <1>8, <2>3, <3>1
    <3>3. ASSUME NEW i \in 1 .. n
          PROVE  v3'[node[i]] = IF i < n THEN node[i + 1] ELSE a
      <4>1. CASE i = n
        BY <1>5, <3>1, <3>2, <4>1
      <4>2. CASE i # n
        <5>1. node[i] # v2 /\ i < n
          BY <1>5, <1>6, <3>1, <4>2
        <5> QED  BY <1>5, <1>6, <3>2, <5>1
      <4> QED  BY <4>1, <4>2
    <3> QED  BY <2>1, <3>2, <3>3
  <2> QED  BY <2>2, <2>3
<1>10. Queue!TypeOK'
  <2>1. v3' \in [Addrs -> Addrs \cup {Queue!NULL}]
    BY <1>3, <1>8
  <2>2. v4' \in [Addrs -> Strings \cup {Queue!NULL}]
    BY <1>3, <1>8
  <2>3. v5' \subseteq Addrs /\ v7' \in BOOLEAN
    BY <1>1, <1>3, <1>4 DEF Queue!TypeOK
  <2> QED  BY <1>7, <2>1, <2>2, <2>3 DEF Queue!TypeOK, Queue!NULL
<1> DEFINE more == [i \in 1 .. n + 1 |-> IF i = n + 1 THEN a ELSE node[i]]
<1>11. /\ more[n + 1] = a /\ (\A i \in 1 .. n : more[i] = node[i])
       /\ DOMAIN more = 1 .. n + 1 /\ n + 1 \in 1 .. n + 1
       /\ \A i \in 1 .. n + 1 : i = n + 1 \/ i \in 1 .. n
  BY <1>5
<1>12. more \in [1 .. n + 1 -> v5']
  BY <1>3, <1>5, <1>6
<1> HIDE DEF more
<1>13. \A i, j \in 1 .. n + 1 : more[i] = more[j] => i = j
  BY <1>5, <1>6, <1>11
<1>14. \A b \in v5' : \E i \in 1 .. n + 1 : more[i] = b
  <2> SUFFICES ASSUME NEW b \in v5'  PROVE  \E i \in 1 .. n + 1 : more[i] = b
    OBVIOUS
  <2>1. CASE b = a
    BY <1>11, <2>1
  <2>2. CASE b # a
    <3>1. PICK i \in 1 .. n : node[i] = b
      BY <1>3, <1>6, <2>2
    <3>2. i \in 1 .. n + 1
      BY <1>5
    <3> QED  BY <1>11, <3>1, <3>2
  <2> QED  BY <2>1, <2>2
<1>15. v1' = more[1]
  <2>1. CASE n = 0
    BY <1>3, <1>5, <1>11, <2>1
  <2>2. CASE n # 0
    <3>1. 1 \in 1 .. n
      BY <1>5, <2>2
    <3> QED  BY <1>3, <1>5, <1>11, <2>2, <3>1
  <2> QED  BY <2>1, <2>2
<1>16. \A i \in 1 .. n + 1 :
         /\ v4'[more[i]] = v8'[i]
         /\ v3'[more[i]] = IF i < n + 1 THEN more[i + 1] ELSE Queue!NULL
  <2> SUFFICES ASSUME NEW i \in 1 .. n + 1
               PROVE  /\ v4'[more[i]] = v8'[i]
                      /\ v3'[more[i]] = IF i < n + 1 THEN more[i + 1] ELSE Queue!NULL
    OBVIOUS
  <2>1. CASE i = n + 1
    BY <1>5, <1>7, <1>9, <1>11, <2>1
  <2>2. CASE i \in 1 .. n
    <3>1. more[i + 1] = (IF i < n THEN node[i + 1] ELSE a) /\ i < n + 1
      <4>1. CASE i = n
        BY <1>5, <1>11, <4>1
      <4>2. CASE i # n
        <5>1. i + 1 \in 1 .. n /\ i < n
          BY <1>5, <2>2, <4>2
        <5> QED  BY <1>5, <1>11, <5>1
      <4> QED  BY <4>1, <4>2
    <3> QED  BY <1>7, <1>9, <1>11, <2>2, <3>1
  <2> QED  BY <1>11, <2>1, <2>2
<1> QED  BY <1>3, <1>7, <1>10, <1>11, <1>12, <1>13, <1>14, <1>15, <1>16, NextChain

LEMMA QueuePop ==
  ASSUME Queue!QueueConstants, Queue!IInv, Queue!Pop
  PROVE  Queue!IInv'
<1> DEFINE n == Len(v8)
<1>1. Queue!TypeOK
  BY DEF Queue!IInv
<1>2. PICK node : ChainOf(node, n)
  BY SomeChain
<1>3. /\ v1 # Queue!NULL /\ v1' = v3[v1] /\ v5' = v5 \ {v1} /\ v8' = Tail(v8)
      /\ UNCHANGED <<v2, v3, v4, v6, v7>>
  BY DEF Queue!Pop
<1>4. /\ \A i \in 1 .. n : node[i] \in v5
      /\ n > 0 /\ n \in Nat /\ v1 = node[1] /\ v2 = node[n] /\ v8 # <<>>
      /\ v5 \subseteq Addrs
  <2>1. n \in Nat
    BY <1>2 DEF ChainOf
  <2> QED  BY <1>1, <1>2, <1>3, <2>1, ChainFacts
<1>5. /\ node \in [1 .. n -> v5] /\ DOMAIN node = 1 .. n /\ v8 \in Seq(Strings)
      /\ (\A i, j \in 1 .. n : node[i] = node[j] => i = j)
      /\ (\A b \in v5 : \E i \in 1 .. n : node[i] = b)
      /\ \A i \in 1 .. n : v4[node[i]] = v8[i]
                           /\ v3[node[i]] = IF i < n THEN node[i + 1] ELSE Queue!NULL
  BY <1>2 DEF ChainOf, Queue!Chain
<1>6. /\ v8' \in Seq(Strings) /\ Len(v8') = n - 1
      /\ \A i \in 1 .. n - 1 : v8'[i] = v8[i + 1]
  BY <1>3, <1>4, <1>5
<1> HIDE DEF n
<1>7. Queue!TypeOK'
  BY <1>1, <1>3, <1>6 DEF Queue!TypeOK, Queue!NULL
<1> DEFINE rest == [i \in 1 .. n - 1 |-> node[i + 1]]
<1>8. /\ DOMAIN rest = 1 .. n - 1
      /\ \A i \in 1 .. n - 1 : i + 1 \in 1 .. n /\ i \in Int /\ rest[i] = node[i + 1]
  BY <1>4
<1> HIDE DEF rest
<1>9. \A i \in 1 .. n - 1 : rest[i] \in v5'
  <2> SUFFICES ASSUME NEW i \in 1 .. n - 1  PROVE  rest[i] \in v5 /\ rest[i] # v1
    BY <1>3
  <2>1. i + 1 \in 1 .. n /\ 1 \in 1 .. n /\ i + 1 # 1 /\ rest[i] = node[i + 1]
    BY <1>4, <1>8
  <2> QED  BY <1>4, <1>5, <2>1
<1>10. rest \in [1 .. n - 1 -> v5']
  BY <1>8, <1>9 DEF rest
<1>11. \A i, j \in 1 .. n - 1 : rest[i] = rest[j] => i = j
  <2> SUFFICES ASSUME NEW i \in 1 .. n - 1, NEW j \in 1 .. n - 1, rest[i] = rest[j]  PROVE  i = j
    OBVIOUS
  <2>1. i + 1 = j + 1
    BY <1>5, <1>8
  <2> QED  BY <1>8, <2>1
<1>12. \A b \in v5' : \E i \in 1 .. n - 1 : rest[i] = b
  <2> SUFFICES ASSUME NEW b \in v5'  PROVE  \E i \in 1 .. n - 1 : rest[i] = b
    OBVIOUS
  <2>1. b \in v5 /\ b # node[1]
    BY <1>3, <1>4
  <2>2. PICK k \in 1 .. n : node[k] = b
    BY <1>5, <2>1
  <2>3. k - 1 \in 1 .. n - 1 /\ k - 1 + 1 = k
    BY <1>4, <2>1, <2>2
  <2> QED  BY <1>8, <2>2, <2>3
<1>13. v1' = IF v8' = <<>> THEN Queue!NULL ELSE rest[1]
  <2>1. 1 \in 1 .. n /\ v1' = IF 1 < n THEN node[2] ELSE Queue!NULL
    BY <1>3, <1>4, <1>5
  <2>2. CASE n = 1
    BY <1>6, <2>1, <2>2
  <2>3. CASE n # 1
    <3>1. 1 \in 1 .. n - 1 /\ 1 + 1 = 2
      BY <1>4, <2>3
    <3>2. v8' # <<>> /\ rest[1] = node[2]
      BY <1>6, <1>8, <3>1
    <3> QED  BY <1>4, <2>1, <2>3, <3>2
  <2> QED  BY <2>2, <2>3
<1>14. v8' # <<>> => v2' = rest[n - 1]
  <2> SUFFICES ASSUME v8' # <<>>  PROVE  v2 = rest[n - 1]
    BY <1>3
  <2>1. n - 1 \in 1 .. n - 1 /\ n - 1 + 1 = n
    BY <1>4, <1>6
  <2> QED  BY <1>4, <1>8, <2>1
<1>15. \A i \in 1 .. n - 1 :
         /\ v4'[rest[i]] = v8'[i]
         /\ v3'[rest[i]] = IF i < n - 1 THEN rest[i + 1] ELSE Queue!NULL
  <2> SUFFICES ASSUME NEW i \in 1 .. n - 1
               PROVE  /\ v4[rest[i]] = v8'[i]
                      /\ v3[rest[i]] = IF i < n - 1 THEN rest[i + 1] ELSE Queue!NULL
    BY <1>3
  <2>1. i + 1 \in 1 .. n /\ rest[i] = node[i + 1] /\ v8'[i] = v8[i + 1] /\ i \in Int
    BY <1>6, <1>8
  <2>2. CASE i < n - 1
    <3>1. i + 1 \in 1 .. n - 1 /\ i + 1 < n
      BY <1>4, <2>1, <2>2
    <3>2. rest[i + 1] = node[i + 1 + 1]
      BY <1>8, <3>1
    <3> QED  BY <1>5, <2>1, <2>2, <3>1, <3>2
  <2>3. CASE ~(i < n - 1)
    <3>1. ~(i + 1 < n)
      BY <1>4, <2>1, <2>3
    <3> QED  BY <1>5, <2>1, <2>3, <3>1
  <2> QED  BY <2>2, <2>3
<1>16. rest \in [1 .. Len(v8') -> v5'] /\ DOMAIN rest = 1 .. Len(v8')
  BY <1>6, <1>8, <1>10
<1>17. /\ \A i, j \in DOMAIN rest : rest[i] = rest[j] => i = j
       /\ \A b \in v5' : \E i \in DOMAIN rest : rest[i] = b
  BY <1>8, <1>11, <1>12
<1>18. /\ v8' # <<>> => v2' = rest[Len(v8')]
       /\ \A i \in DOMAIN rest :
            /\ v4'[rest[i]] = v8'[i]
            /\ v3'[rest[i]] = IF i < Len(v8') THEN rest[i + 1] ELSE Queue!NULL
  BY <1>6, <1>8, <1>14, <1>15
<1> QED  BY <1>6, <1>7, <1>13, <1>16, <1>17, <1>18, NextChain

LEMMA QueueDestroy ==
  ASSUME Queue!QueueConstants, Queue!IInv, Queue!Destroy
  PROVE  Queue!IInv'
<1>1. Queue!TypeOK /\ Queue!ListNodes = v5
  BY QueueSafe DEF Queue!IInv
<1>2. v5' = {} /\ v7' = TRUE /\ v1' = Queue!NULL /\ v8' = <<>> /\ UNCHANGED <<v2, v3, v4>>
  BY <1>1 DEF Queue!Destroy
<1>3. Queue!TypeOK'
  BY <1>1, <1>2 DEF Queue!TypeOK, Queue!NULL
<1> DEFINE none == <<>>
<1>4. v8' \in Seq(Strings) /\ none \in [1 .. Len(v8') -> v5'] /\ DOMAIN none = {}
  BY <1>2
<1> HIDE DEF none
<1>5. \A a \in v5' : \E i \in DOMAIN none : none[i] = a
  BY <1>2
<1>6. v1' = (IF v8' = <<>> THEN Queue!NULL ELSE none[1]) /\ ~(v8' # <<>>)
  BY <1>2
<1> QED  BY <1>3, <1>4, <1>5, <1>6, NextChain

LEMMA QueueNext ==
  ASSUME Queue!QueueConstants, Queue!IInv, [Queue!Next]_Queue!vars
  PROVE  Queue!IInv'
<1>1. CASE UNCHANGED Queue!vars
  <2>1. Queue!TypeOK'
    BY <1>1 DEF Queue!vars, Queue!IInv, Queue!TypeOK, Queue!NULL
  <2>2. PICK node \in [1 .. Len(v8) -> v5] : Queue!Chain(node)
    BY DEF Queue!IInv
  <2>3. v8' \in Seq(Strings)
    BY <2>1 DEF Queue!TypeOK
  <2> QED  BY <1>1, <2>1, <2>2, <2>3, NextChain DEF Queue!vars, Queue!Chain
<1>2. CASE \E s \in Strings : Queue!Push(s)
  BY <1>2, QueuePush
<1> QED  BY <1>1, <1>2, QueuePop, QueueDestroy DEF Queue!Next

-----------------------------------------------------------------------------
(***************************************************************************)
(* ProductionLine: v1 is main, v2 running, v3 sems, v4 pc, v5 cancelled.   *)
(***************************************************************************)
LineStates == {"none", "test", "first", "second", "post", "end"}

LEMMA LineInit ==
  ASSUME Line!Init
  PROVE  Line!TypeOK
<1>1. v1 = "create" /\ v5 = {}
  BY DEF Line!Init
<1>2. v3 \in [Line!Kinds -> Nat]
  BY DEF Line!Init
<1>3. v4 \in [Line!Kinds -> LineStates]
  BY DEF Line!Init, LineStates
<1> QED  BY <1>1, <1>2, <1>3 DEF Line!TypeOK, LineStates

LEMMA LineThread ==
  ASSUME Line!TypeOK, NEW k \in Line!Kinds, Line!Thread(k)
  PROVE  Line!TypeOK'
<1>1. v3 \in [Line!Kinds -> Nat] /\ v4 \in [Line!Kinds -> LineStates]
  BY DEF Line!TypeOK, LineStates
<1>2. ASSUME NEW j \in Line!Kinds, NEW l \in LineStates, v4' = [v4 EXCEPT ![j] = l],
             UNCHANGED <<v1, v5>>, v3' \in [Line!Kinds -> Nat]
      PROVE  Line!TypeOK'
  <2>1. v4' \in [Line!Kinds -> LineStates]
    BY <1>1, <1>2
  <2> QED  BY <1>2, <2>1 DEF Line!TypeOK, LineStates, Line!Kinds
<1>3. ASSUME NEW j \in Line!Kinds, Line!Test(j)
      PROVE  Line!TypeOK'
  <2>1. UNCHANGED <<v1, v3, v5>>
        /\ v4' = [v4 EXCEPT ![j] = CASE ~v2 -> "end" [] v2 /\ j \in Line!Parts -> "post"
                                     [] v2 /\ j \notin Line!Parts -> "first"]
    BY <1>3 DEF Line!Test, Line!Goto
  <2>2. (CASE ~v2 -> "end" [] v2 /\ j \in Line!Parts -> "post"
           [] v2 /\ j \notin Line!Parts -> "first") \in LineStates
    BY DEF LineStates
  <2>3. v3' \in [Line!Kinds -> Nat]
    BY <1>1, <2>1
  <2> QED  BY <1>2, <2>1, <2>2, <2>3
<1>4. ASSUME NEW j \in Line!Kinds, NEW from, NEW to \in Line!Kinds, NEW then \in LineStates,
             Line!Take(j, from, to, then)
      PROVE  Line!TypeOK'
  <2>1. /\ v3[to] > 0 /\ v3' = [v3 EXCEPT ![to] = v3[to] - 1]
        /\ v4' = [v4 EXCEPT ![j] = then] /\ UNCHANGED <<v1, v5>>
    BY <1>4 DEF Line!Take, Line!Goto
  <2>2. v3[to] - 1 \in Nat
    BY <1>1, <2>1
  <2>3. v3' \in [Line!Kinds -> Nat]
    BY <1>1, <2>1, <2>2
  <2> QED  BY <1>2, <2>1, <2>3
<1>5. ASSUME NEW j \in Line!Kinds, Line!Post(j)
      PROVE  Line!TypeOK'
  <2>1. /\ v3' = v3 \/ v3' = [v3 EXCEPT ![j] = v3[j] + 1]
        /\ v4' = [v4 EXCEPT ![j] = "test"] /\ UNCHANGED <<v1, v5>>
    BY <1>5 DEF Line!Post, Line!Goto
  <2>2. v3[j] + 1 \in Nat
    BY <1>1
  <2>3. v3' \in [Line!Kinds -> Nat]
    BY <1>1, <2>1, <2>2
  <2>4. "test" \in LineStates
    BY DEF LineStates
  <2> QED  BY <1>2, <2>1, <2>3, <2>4
<1>6. ASSUME NEW j \in {"module", "widget"}, Line!Assemble(j)
      PROVE  Line!TypeOK'
  <2>1. /\ j \in Line!Kinds /\ Line!First[j] \in Line!Kinds /\ Line!Second[j] \in Line!Kinds
        /\ {"second", "post"} \subseteq LineStates
    BY DEF Line!Kinds, Line!First, Line!Second, LineStates
  <2> QED  BY <1>3, <1>4, <1>5, <1>6, <2>1 DEF Line!Assemble
<1>7. CASE Line!rybalkoThread(k)
  <2>1. \/ Line!CreateA \/ Line!CreateB \/ Line!CreateC \/ Line!CreateModule \/ Line!CreateWidget
    BY <1>7 DEF Line!rybalkoThread, Line!Kinds
  <2>2. {"A", "B", "C"} \subseteq Line!Kinds
    BY DEF Line!Kinds
  <2> QED
    BY <1>3, <1>5, <1>6, <2>1, <2>2 DEF Line!CreateA, Line!CreateB, Line!CreateC,
       Line!CreateModule, Line!CreateWidget
<1>8. CASE Line!detailRoutine(k)
  <2>1. k \in Line!Parts \/ k \in {"module", "widget"}
    BY DEF Line!Kinds, Line!Parts
  <2>2. Line!Test(k) \/ Line!Post(k) \/ (k \in {"module", "widget"} /\ Line!Assemble(k))
    BY <1>8, <2>1 DEF Line!detailRoutine
  <2> QED  BY <1>3, <1>5, <1>6, <2>2
<1>9. CASE Line!Cancelled(k)
  <2>1. CASE Line!Undefined
    <3>1. v1' = "crashed" /\ v5' = {}
      BY <2>1 DEF Line!Undefined
    <3>2. v3' \in [Line!Kinds -> Nat]
      BY <2>1 DEF Line!Undefined
    <3>3. v4' \in [Line!Kinds -> LineStates]
      BY <2>1 DEF Line!Undefined, LineStates
    <3> QED  BY <3>1, <3>2, <3>3 DEF Line!TypeOK, LineStates, Line!Kinds
  <2>2. CASE Line!Goto(k, "end") /\ UNCHANGED <<v1, v3, v5>>
    <3>1. "end" \in LineStates /\ v4' = [v4 EXCEPT ![k] = "end"] /\ v3' \in [Line!Kinds -> Nat]
      BY <1>1, <2>2 DEF LineStates, Line!Goto
    <3> QED  BY <1>2, <2>2, <3>1
  <2> QED  BY <1>9, <2>1, <2>2 DEF Line!Cancelled
<1> QED  BY <1>7, <1>8, <1>9 DEF Line!Thread

LEMMA LineNext ==
  ASSUME Line!TypeOK, [Line!Next]_Line!vars
  PROVE  Line!TypeOK'
<1>1. v3 \in [Line!Kinds -> Nat] /\ v4 \in [Line!Kinds -> LineStates]
      /\ v1 \in {"create", "join", "left", "cleanup", "exited", "crashed"}
      /\ v5 \subseteq Line!Kinds
  BY DEF Line!TypeOK, LineStates
<1>2. ASSUME v3' \in [Line!Kinds -> Nat], v4' \in [Line!Kinds -> LineStates],
             v1' \in {"create", "join", "left", "cleanup", "exited", "crashed"},
             v5' \subseteq Line!Kinds
      PROVE  Line!TypeOK'
  BY <1>2 DEF Line!TypeOK, LineStates, Line!Kinds
<1>3. CASE UNCHANGED Line!vars
  <2>1. UNCHANGED <<v1, v3, v4, v5>>
    BY <1>3 DEF Line!vars
  <2> QED  BY <1>1, <1>2, <2>1
<1>4. ASSUME NEW count \in Int, NEW then \in {"join", "left", "cleanup", "crashed"},
             Line!create(count, then)
      PROVE  Line!TypeOK'
  <2>1. v1' = then /\ UNCHANGED <<v3, v5>>
    BY <1>4 DEF Line!create
  <2>2. v4' \in [Line!Kinds -> LineStates]
    BY <1>4 DEF Line!create, LineStates
  <2> QED  BY <1>1, <1>2, <2>1, <2>2
<1>5. CASE Line!joinAll \/ Line!watch \/ Line!cleanup
  <2>1. UNCHANGED <<v3, v4>> /\ v1' \in {"exited", "cleanup"} /\ v5' \subseteq Line!Kinds
    BY <1>1, <1>5 DEF Line!joinAll, Line!watch, Line!cleanup, Line!Created
  <2> QED  BY <1>1, <1>2, <2>1
<1>6. CASE Line!SigintHandle
  <2>1. v3' = [v3 EXCEPT !["A"] = v3["A"] + 2, !["B"] = v3["B"] + 1, !["C"] = v3["C"] + 1]
        /\ UNCHANGED <<v1, v4, v5>>
    BY <1>6 DEF Line!SigintHandle
  <2>2. v3["A"] + 2 \in Nat /\ v3["B"] + 1 \in Nat /\ v3["C"] + 1 \in Nat
    BY <1>1 DEF Line!Kinds
  <2>3. v3' \in [Line!Kinds -> Nat]
    BY <1>1, <2>1, <2>2
  <2> QED  BY <1>1, <1>2, <2>1, <2>3
<1>7. CASE \E k \in Line!Kinds : Line!Thread(k)
  BY <1>7, LineThread
<1>8. CASE Line!rybalkoMain
  <2>1. 5 \in Int /\ \A count \in 0 .. 4 : count \in Int
    OBVIOUS
  <2> QED  BY <1>4, <1>5, <1>8, <2>1 DEF Line!rybalkoMain
<1>9. CASE Line!tamplonMain
  <2>1. 5 \in Int /\ \A count \in 0 .. 4 : count \in Int
    OBVIOUS
  <2> QED  BY <1>4, <1>5, <1>9, <2>1 DEF Line!tamplonMain
<1> QED  BY <1>3, <1>6, <1>7, <1>8, <1>9 DEF Line!Next, Line!Work

-----------------------------------------------------------------------------
(***************************************************************************)
(* The run of all programs.  A step of one family leaves `family' alone    *)
(* and is a step of that family's module.                                  *)
(***************************************************************************)
Inv ==
  /\ family = "ring" => Ring!IInv
  /\ family = "lists" => Lists!IInv
  /\ family = "sum" => Sum!IInv
  /\ family = "stop" => Stop!IInv
  /\ family = "sort" => Sort!IInv
  /\ family = "line" => Line!TypeOK
  /\ family = "queue" => Queue!IInv

LEMMA Constants ==
  /\ Ring!OutputConstants /\ SumConstants /\ StopConstants
  /\ ListConstants /\ SortConstants /\ Queue!QueueConstants
BY ExerciseConstants DEF SumConstants, StopConstants, ListConstants, SortConstants

LEMMA InvInit ==
  ASSUME Init
  PROVE  Inv
<1>1. Ring!Init => Ring!IInv
  BY Constants, RingInit
<1>2. Lists!Init => Lists!IInv
  BY Constants, ListInit
<1>3. Sum!Init => Sum!IInv
  BY Constants, SumInit
<1>4. Stop!Init => Stop!IInv
  BY Constants, StopInit
<1>5. Sort!Init => Sort!IInv
  BY Constants, SortInit
<1>6. Queue!Init => Queue!IInv
  BY Constants, QueueInit
<1>7. /\ family = "ring" => Ring!Init
      /\ family = "lists" => Lists!Init
      /\ family = "sum" => Sum!Init
      /\ family = "stop" => Stop!Init
      /\ family = "sort" => Sort!Init
      /\ family = "line" => Line!Init
      /\ family = "queue" => Queue!Init
  BY DEF Init
<1> QED  BY <1>1, <1>2, <1>3, <1>4, <1>5, <1>6, <1>7, LineInit DEF Inv

\* A step of the run is a step of the module it is in, or leaves it alone.
LEMMA FamilySteps ==
  ASSUME [Next]_vars
  PROVE  /\ family' = family
         /\ family = "ring" => [Ring!Next]_Ring!vars
         /\ family = "lists" => [Lists!Next]_Lists!vars
         /\ family = "sum" => [Sum!Next]_Sum!vars
         /\ family = "stop" => [Stop!Next]_Stop!vars
         /\ family = "sort" => [Sort!Next]_Sort!vars
         /\ family = "line" => [Line!Next]_Line!vars
         /\ family = "queue" => [Queue!Next]_Queue!vars
<1>1. CASE Next
  BY <1>1 DEF Next, Only
<1>2. CASE UNCHANGED vars
  BY <1>2 DEF vars, Ring!vars, Lists!vars, Sum!vars, Stop!vars, Sort!vars, Line!vars, Queue!vars
<1> QED  BY <1>1, <1>2

LEMMA InvNext ==
  ASSUME Inv, [Next]_vars
  PROVE  Inv'
<1>1. family = "ring" => Ring!IInv'
  BY Constants, FamilySteps, RingNext DEF Inv
<1>2. family = "lists" => Lists!IInv'
  BY Constants, FamilySteps, ListNext DEF Inv
<1>3. family = "sum" => Sum!IInv'
  BY Constants, FamilySteps, SumNext DEF Inv
<1>4. family = "stop" => Stop!IInv'
  BY Constants, FamilySteps, StopNext DEF Inv
<1>5. family = "sort" => Sort!IInv'
  BY Constants, FamilySteps, SortNext DEF Inv
<1>6. family = "line" => Line!TypeOK'
  BY FamilySteps, LineNext DEF Inv
<1>7. family = "queue" => Queue!IInv'
  BY Constants, FamilySteps, QueueNext DEF Inv
<1> QED  BY <1>1, <1>2, <1>3, <1>4, <1>5, <1>6, <1>7, FamilySteps DEF Inv

\* Every reachable state satisfies the inductive invariants: whoever prints has the
\* turn (OrderedOutput), a sorter holds the mutexes of the nodes it compares
\* (SortedList), main has added the parts it has joined (PiSum), what the threads
\* have agreed on covers what each has done (PiStop), no thread sleeps longer than
\* its line is (SleepSort), and the nodes form one chain (ListQueue).
THEOREM Invariance == Spec => []Inv
BY InvInit, InvNext, PTL DEF Spec

\* Threads at work together lose and double nothing: the list holds the lines that
\* were read while others add and sort, main of PiSum reports every term once,
\* however the terms are divided, and all lines whose thread exists come out.
THEOREM EverythingKept == Spec => []NothingLost
<1>1. Inv => NothingLost
  BY Constants, SumSafe, SortSafe DEF Inv, NothingLost, Lists!IInv
<1> QED  BY <1>1, Invariance, PTL

\* The threads of PiSum that wait for a common start begin when all of them exist,
\* and no byte is left over; those of PiStop stop where the others do after SIGINT,
\* as near as each program promises.
THEOREM StartedAndStopped == Spec => []StartAndStopTogether
<1>1. Inv => StartAndStopTogether
  BY Constants, SumSafe, StopSafe DEF Inv, StartAndStopTogether
<1> QED  BY <1>1, Invariance, PTL

\* Whatever step of a sorter changes the list leaves fewer pairs of lines in the
\* wrong order, and none where it sorts under the list's mutex, for any lines and
\* however many; the number of blocks the threads of PiStop agree on only grows.
THEOREM OnlyForward == Spec => NeverBackwards
<1>1. Inv /\ [Next]_vars => [/\ family = "lists" => Lists!SortStep
                             /\ family = "stop" => Stop!LastStep]_vars
  BY Constants, FamilySteps, ListSorts, StopGrows DEF Inv
<1> QED  BY <1>1, Invariance, PTL DEF Spec, NeverBackwards

\* Types, and no undefined behaviour, in all programs but those of PrintTurns:
\* releaseMutex and exercise 13 unlock mutexes that the thread owns, however late or
\* early the threads start (OrderedOutput), muratov's sort follows a null pointer
\* only when more lines came during a walk than the walk leaves out (SortedList), and
\* push never writes through a freed tail (ListQueue).
THEOREM Defined == Spec => [](family # "turns" => WellDefined)
<1>1. Inv => (family # "turns" => WellDefined)
  <2>1. Inv /\ family = "ring" => Ring!TypeOK /\ Ring!UnlocksItsOwn
    BY Constants, RingSafe DEF Inv, Ring!IInv
  <2>2. Inv /\ family = "lists" => Lists!TypeOK /\ Lists!CrashNeedsLateLines
    BY DEF Inv, Lists!IInv
  <2>3. Inv /\ family = "sum" => Sum!TypeOK
    BY DEF Inv, Sum!IInv
  <2>4. Inv /\ family = "stop" => Stop!TypeOK
    BY DEF Inv, Stop!IInv
  <2>5. Inv /\ family = "sort" => Sort!TypeOK
    BY DEF Inv, Sort!IInv, Sort!StateOK
  <2>6. Inv /\ family = "line" => Line!TypeOK
    BY DEF Inv
  <2>7. Inv /\ family = "queue" => Queue!ListIsHeap
    BY Constants, QueueSafe DEF Inv
  <2> QED  BY <2>1, <2>2, <2>3, <2>4, <2>5, <2>6, <2>7 DEF WellDefined
<1> QED  BY <1>1, Invariance, PTL

\* What comes out comes in order, in all programs but those of PrintTurns: the lines
\* of printFunc and childFunc in turn, for any number of threads and lines (with the
\* mutexes when the children exist and usleep was long enough); the sleepers' lines by
\* length, exactly with the pipe and up to the time the creation of all threads took
\* without it; the strings of the linked list as they were pushed, although the
\* memory of a popped node is used again.
THEOREM Ordered == Spec => [](family # "turns" => InTurn)
<1>1. Inv => (family # "turns" => InTurn)
  BY Constants, RingSafe, SortSafe, QueueSafe DEF Inv, InTurn
<1> QED  BY <1>1, Invariance, PTL
=============================================================================
