--------------------------- MODULE MyQueueProofs ---------------------------
(***************************************************************************)
(* Proofs about MyQueue for every set of producers and consumers, every    *)
(* capacity and every set of messages: the token accounting of the two     *)
(* semaphores and what follows from it, and the refinement of the channel. *)
(***************************************************************************)
EXTENDS MyQueue, FiniteSetTheorems, TLAPS

-----------------------------------------------------------------------------
(* The destroyed queue and the new one are empty sequences of messages.    *)
LEMMA EmptySeqType == <<>> \in Seq(Msgs)
OBVIOUS

(* The sets of token holders are finite.                                   *)
LEMMA TokenSetsFinite ==
  /\ IsFiniteSet(PutTokens) /\ Cardinality(PutTokens) \in Nat
  /\ IsFiniteSet(GetTokens) /\ Cardinality(GetTokens) \in Nat
<1>1. PutTokens \in SUBSET Producers /\ GetTokens \in SUBSET Consumers
  BY DEF PutTokens, GetTokens
<1> QED  BY <1>1, ThreadsAssumption, FS_Subset, FS_CardinalityType

(* The initial state satisfies the inductive invariant.                    *)
LEMMA InitIInv == Init => IInv
<1> SUFFICES ASSUME Init PROVE IInv
  OBVIOUS
<1> USE DEF Init
<1>1. TypeOK
  <2>1. queue \in Seq(Msgs)  BY EmptySeqType
  <2>2. full_sem \in Nat /\ empty_sem \in Nat  BY CapacityAssumption
  <2>3. dropped \in BOOLEAN /\ alive \in BOOLEAN  OBVIOUS
  <2>4. /\ mutex \in Threads \cup {Main, Nobody}
        /\ pc \in [Threads -> ThreadPCs]
        /\ mpc \in MainPCs
        /\ msg \in [Threads -> Msgs \cup {NoMsg}]
    BY DEF ThreadPCs, MainPCs
  <2> QED  BY <2>1, <2>2, <2>3, <2>4 DEF TypeOK
<1>2. PhaseOK /\ MutualExclusion /\ ExitOnlyWhenDropped /\ DestroyedUnused
      /\ GetFindsMessage /\ CapacityBound
  BY CapacityAssumption, ThreadsAssumption
     DEF PhaseOK, MutualExclusion, ExitOnlyWhenDropped, DestroyedUnused,
         GetFindsMessage, CapacityBound, Threads, Main, Nobody
<1>3. PutTokens = {} /\ GetTokens = {}
  BY DEF PutTokens, GetTokens, HoldsToken, Threads
<1>4. TokenAccounting
  BY <1>3, FS_EmptySet, CapacityAssumption
     DEF TokenAccounting, DropFullTokens, DropEmptyTokens
<1> QED  BY <1>1, <1>2, <1>4 DEF IInv

-----------------------------------------------------------------------------
(* Every step keeps the types.                                             *)
LEMMA NextTypeOK == IInv /\ [Next]_vars => TypeOK'
<1> SUFFICES ASSUME IInv, [Next]_vars PROVE TypeOK'
  OBVIOUS
<1> USE DEF IInv, TypeOK, ThreadPCs, MainPCs, Goto
<1>1. ASSUME NEW p \in Producers, ProducerStep(p) PROVE TypeOK'
  <2>0. p \in Threads  BY DEF Threads
  <2>1. CASE ProducerLoop(p)  BY <2>0, <2>1 DEF ProducerLoop
  <2>2. CASE PutWait(p)  BY <2>0, <2>2 DEF PutWait
  <2>3. CASE Lock(p)  BY <2>0, <2>3 DEF Lock
  <2>4. CASE PutTest(p)  BY <2>0, <2>4 DEF PutTest
  <2>5. CASE PutPush(p)
    <3>1. msg[p] \in Msgs  BY <2>5 DEF PutPush, PhaseOK
    <3> QED  BY <2>0, <2>5, <3>1 DEF PutPush
  <2>6. CASE Unlock(p)  BY <2>0, <2>6 DEF Unlock
  <2> QED  BY <1>1, <2>1, <2>2, <2>3, <2>4, <2>5, <2>6 DEF ProducerStep
<1>2. ASSUME NEW c \in Consumers, ConsumerStep(c) PROVE TypeOK'
  <2>0. c \in Threads  BY DEF Threads
  <2>1. CASE ConsumerLoop(c)  BY <2>0, <2>1 DEF ConsumerLoop
  <2>2. CASE GetWait(c)  BY <2>0, <2>2 DEF GetWait
  <2>3. CASE Lock(c)  BY <2>0, <2>3 DEF Lock
  <2>4. CASE GetTest(c)  BY <2>0, <2>4 DEF GetTest
  <2>5. CASE GetPop(c)
    <3>1. CASE queue = <<>>  BY <2>0, <2>5, <3>1 DEF GetPop
    <3>2. CASE queue # <<>>
      <4>1. Head(queue) \in Msgs /\ Tail(queue) \in Seq(Msgs)  BY <3>2
      <4>2. queue' \in Seq(Msgs)  BY <2>5, <3>2, <4>1 DEF GetPop
      <4>3. msg' \in [Threads -> Msgs \cup {NoMsg}]
        BY <2>0, <2>5, <3>2, <4>1 DEF GetPop
      <4>4. full_sem' \in Nat /\ empty_sem' \in Nat
        BY <2>5, <3>2 DEF GetPop
      <4>5. pc' \in [Threads -> ThreadPCs]
        BY <2>0, <2>5, <3>2 DEF GetPop
      <4>6. UNCHANGED <<mutex, dropped, alive, mpc>>  BY <2>5 DEF GetPop
      <4> QED  BY <4>2, <4>3, <4>4, <4>5, <4>6
    <3> QED  BY <3>1, <3>2
  <2>6. CASE Unlock(c)  BY <2>0, <2>6 DEF Unlock
  <2> QED  BY <1>2, <2>1, <2>2, <2>3, <2>4, <2>5, <2>6 DEF ConsumerStep
<1>3. CASE MainStep
  <2>1. ASSUME NEW t \in Threads, InitThread(t) PROVE TypeOK'
    BY <2>1 DEF InitThread
  <2>2. CASE JoinAndDestroy  BY <2>2, EmptySeqType DEF JoinAndDestroy
  <2>3. CASE DropLock  BY <2>3 DEF DropLock
  <2>4. CASE DropPostEmpty \/ DropPostFull
    BY <2>4 DEF DropPostEmpty, DropPostFull
  <2>5. CASE DropUnlock  BY <2>5 DEF DropUnlock
  <2>6. CASE InitThreadFails \/ DropSet
    BY <2>6 DEF InitThreadFails, DropSet
  <2>7. CASE AllCreated \/ JoinAfterFailure
    BY <2>7 DEF AllCreated, JoinAfterFailure
  <2> QED
    BY <1>3, <2>1, <2>2, <2>3, <2>4, <2>5, <2>6, <2>7 DEF MainStep
<1>4. CASE UNCHANGED vars  BY <1>4 DEF vars
<1> QED  BY <1>1, <1>2, <1>3, <1>4 DEF Next, Terminated

(* Every step keeps main's phases and the mutex in agreement with the      *)
(* program counters.                                                       *)
LEMMA NextControl ==
  IInv /\ [Next]_vars => /\ PhaseOK' /\ MutualExclusion'
                         /\ ExitOnlyWhenDropped' /\ DestroyedUnused'
<1> SUFFICES ASSUME IInv, [Next]_vars
             PROVE  /\ PhaseOK' /\ MutualExclusion'
                    /\ ExitOnlyWhenDropped' /\ DestroyedUnused'
  OBVIOUS
<1> DEFINE Control == /\ PhaseOK /\ MutualExclusion
                      /\ ExitOnlyWhenDropped /\ DestroyedUnused
<1> USE ThreadsAssumption
    DEF IInv, TypeOK, PhaseOK, MutualExclusion, ExitOnlyWhenDropped,
        DestroyedUnused, GetFindsMessage, Goto, Main, Nobody
<1>1. ASSUME NEW p \in Producers, ProducerStep(p) PROVE Control'
  <2>0. p \in Threads /\ p # Main /\ p # Nobody
    BY DEF Threads
  <2>1. CASE ProducerLoop(p)
    <3>1. /\ pc[p] = "loop"
          /\ UNCHANGED <<queue, mutex, dropped, alive, mpc>>
      BY <2>1 DEF ProducerLoop
    <3>2. CASE dropped
      <4>1. pc' = [pc EXCEPT ![p] = "done"] /\ UNCHANGED msg
        BY <2>1, <3>2 DEF ProducerLoop
      <4> QED  BY <2>0, <3>1, <3>2, <4>1
    <3>3. CASE ~dropped
      <4>1. pc' = [pc EXCEPT ![p] = "wait"]
        BY <2>1, <3>3 DEF ProducerLoop
      <4>2. PICK m \in Msgs : msg' = [msg EXCEPT ![p] = m]
        BY <2>1, <3>3 DEF ProducerLoop
      <4> QED  BY <2>0, <3>1, <3>3, <4>1, <4>2
    <3> QED  BY <3>2, <3>3
  <2>2. CASE PutWait(p)  BY <2>0, <2>2 DEF PutWait
  <2>3. CASE Lock(p)  BY <2>0, <2>3 DEF Lock
  <2>4. CASE PutTest(p)
    <3>1. /\ pc[p] = "test"
          /\ UNCHANGED <<queue, mutex, dropped, alive, mpc, msg>>
      BY <2>4 DEF PutTest
    <3>2. CASE dropped
      <4>1. pc' = [pc EXCEPT ![p] = "unlock0"]  BY <2>4, <3>2 DEF PutTest
      <4> QED  BY <2>0, <3>1, <3>2, <4>1
    <3>3. CASE ~dropped
      <4>1. pc' = [pc EXCEPT ![p] = "access"]  BY <2>4, <3>3 DEF PutTest
      <4> QED  BY <2>0, <3>1, <3>3, <4>1 DEF MainPCs
    <3> QED  BY <3>2, <3>3
  <2>5. CASE PutPush(p)  BY <2>0, <2>5 DEF PutPush
  <2>6. CASE Unlock(p)  BY <2>0, <2>6 DEF Unlock
  <2> QED  BY <1>1, <2>1, <2>2, <2>3, <2>4, <2>5, <2>6 DEF ProducerStep
<1>2. ASSUME NEW c \in Consumers, ConsumerStep(c) PROVE Control'
  <2>0. c \in Threads /\ c # Main /\ c # Nobody /\ c \notin Producers
    BY DEF Threads
  <2>1. CASE ConsumerLoop(c)  BY <2>0, <2>1 DEF ConsumerLoop
  <2>2. CASE GetWait(c)  BY <2>0, <2>2 DEF GetWait
  <2>3. CASE Lock(c)  BY <2>0, <2>3 DEF Lock
  <2>4. CASE GetTest(c)
    <3>1. /\ pc[c] = "test"
          /\ UNCHANGED <<queue, mutex, dropped, alive, mpc, msg>>
      BY <2>4 DEF GetTest
    <3>2. CASE dropped
      <4>1. pc' = [pc EXCEPT ![c] = "unlock0"]  BY <2>4, <3>2 DEF GetTest
      <4> QED  BY <2>0, <3>1, <3>2, <4>1
    <3>3. CASE ~dropped
      <4>1. pc' = [pc EXCEPT ![c] = "access"]  BY <2>4, <3>3 DEF GetTest
      <4> QED  BY <2>0, <3>1, <3>3, <4>1 DEF MainPCs
    <3> QED  BY <3>2, <3>3
  <2>5. CASE GetPop(c)
    <3>1. queue # <<>>  BY <2>5 DEF GetPop
    <3>2. /\ pc[c] = "access"
          /\ UNCHANGED <<mutex, dropped, alive, mpc>>
      BY <2>5 DEF GetPop
    <3>3. pc' = [pc EXCEPT ![c] = "unlock"]  BY <2>5, <3>1 DEF GetPop
    <3>4. \A q \in Producers : msg'[q] = msg[q]
      BY <2>0, <2>5, <3>1 DEF GetPop, Threads
    <3> QED  BY <2>0, <3>2, <3>3, <3>4
  <2>6. CASE Unlock(c)  BY <2>0, <2>6 DEF Unlock
  <2> QED  BY <1>2, <2>1, <2>2, <2>3, <2>4, <2>5, <2>6 DEF ConsumerStep
<1>3. CASE MainStep
  <2>1. ASSUME NEW t \in Threads, InitThread(t) PROVE Control'
    BY <2>1 DEF InitThread
  <2>2. CASE InitThreadFails  BY <2>2 DEF InitThreadFails
  <2>3. CASE AllCreated  BY <2>3 DEF AllCreated
  <2>4. CASE DropLock  BY <2>4 DEF DropLock
  <2>5. CASE DropSet  BY <2>5 DEF DropSet
  <2>6. CASE DropPostEmpty  BY <2>6 DEF DropPostEmpty
  <2>7. CASE DropPostFull  BY <2>7 DEF DropPostFull
  <2>8. CASE DropUnlock  BY <2>8 DEF DropUnlock
  <2>9. CASE JoinAndDestroy  BY <2>9 DEF JoinAndDestroy
  <2>10. CASE JoinAfterFailure  BY <2>10 DEF JoinAfterFailure
  <2> QED
    BY <1>3, <2>1, <2>2, <2>3, <2>4, <2>5, <2>6, <2>7, <2>8, <2>9, <2>10
       DEF MainStep
<1>4. CASE UNCHANGED vars  BY <1>4 DEF vars
<1> QED  BY <1>1, <1>2, <1>3, <1>4 DEF Next, Terminated

-----------------------------------------------------------------------------
(* Cardinalities after one element joins or leaves a finite set.           *)
LEMMA AddOne ==
  ASSUME NEW S, IsFiniteSet(S), NEW x, x \notin S
  PROVE  Cardinality(S \cup {x}) = Cardinality(S) + 1
BY FS_AddElement, Zenon

(* The opposite direction.                                                 *)
LEMMA RemoveOne ==
  ASSUME NEW S, IsFiniteSet(S), NEW x, x \in S
  PROVE  Cardinality(S \ {x}) = Cardinality(S) - 1
BY FS_RemoveElement, Zenon

(* Every step keeps the accounts of both semaphores: one case per action,  *)
(* each giving the change of the token holders, of the semaphores and of   *)
(* the list.  A push needs the place the producer holds, a pop the message *)
(* the consumer's token stands for.                                        *)
LEMMA NextAccounts ==
  IInv /\ [Next]_vars => TokenAccounting' /\ CapacityBound' /\ GetFindsMessage'
<1> SUFFICES ASSUME IInv, [Next]_vars
             PROVE  TokenAccounting' /\ CapacityBound' /\ GetFindsMessage'
  OBVIOUS
<1> DEFINE Accounts == TokenAccounting /\ CapacityBound /\ GetFindsMessage
<1> DEFINE P == Cardinality(PutTokens)
<1> DEFINE G == Cardinality(GetTokens)
<1>a. /\ TypeOK /\ PhaseOK /\ MutualExclusion /\ TokenAccounting
      /\ CapacityBound /\ GetFindsMessage /\ DestroyedUnused
  BY DEF IInv
<1>b. /\ IsFiniteSet(PutTokens) /\ P \in Nat
      /\ IsFiniteSet(GetTokens) /\ G \in Nat
  BY TokenSetsFinite
<1>c. /\ DropFullTokens \in {0, 1} /\ DropEmptyTokens \in {0, 1}
      /\ UNCHANGED <<mpc, alive>> =>
           UNCHANGED <<DropFullTokens, DropEmptyTokens>>
  BY DEF DropFullTokens, DropEmptyTokens
<1>d. Len(queue) \in Nat /\ full_sem \in Nat /\ empty_sem \in Nat /\ Capacity \in Nat
  BY <1>a, CapacityAssumption DEF TypeOK
<1>1. ASSUME NEW p \in Producers, ProducerStep(p) PROVE Accounts'
  <2>a. p \in Threads /\ p \notin Consumers /\ UNCHANGED <<mpc, alive>>
    BY <1>1, ThreadsAssumption
       DEF Threads, ProducerStep, ProducerLoop, PutWait, Lock, PutTest,
           PutPush, Unlock
  <2>b. GetTokens' = GetTokens /\ \A c \in Consumers : pc'[c] = pc[c]
    BY <1>a, <1>1, <2>a
       DEF ProducerStep, ProducerLoop, PutWait, Lock, PutTest, PutPush,
           Unlock, GetTokens, HoldsToken, TypeOK, Goto, Threads
  <2>c. ASSUME UNCHANGED <<queue, full_sem, empty_sem, PutTokens>>
        PROVE  Accounts'
    BY <1>a, <1>c, <2>a, <2>b, <2>c
       DEF TokenAccounting, CapacityBound, GetFindsMessage
  <2>1. CASE ProducerLoop(p) \/ Lock(p) \/ Unlock(p)
    <3>1. UNCHANGED PutTokens
      BY <1>a, <2>1, <2>a
         DEF ProducerLoop, Lock, Unlock, Goto, PutTokens, HoldsToken,
             TypeOK, Threads
    <3> QED  BY <2>1, <2>c, <3>1 DEF ProducerLoop, Lock, Unlock
  <2>2. CASE PutWait(p)
    <3>1. PutTokens' = PutTokens \cup {p} /\ p \notin PutTokens
      BY <1>a, <2>2, <2>a
         DEF PutWait, Goto, PutTokens, HoldsToken, TypeOK, Threads
    <3>2. P' = P + 1  BY <1>b, <3>1, AddOne
    <3>3. full_sem' = full_sem - 1 /\ UNCHANGED <<queue, empty_sem>>
      BY <2>2 DEF PutWait
    <3> QED
      BY <1>a, <1>b, <1>c, <1>d, <2>a, <2>b, <3>2, <3>3
         DEF TokenAccounting, CapacityBound, GetFindsMessage
  <2>3. CASE PutTest(p)
    <3>1. CASE dropped
      <4>1. PutTokens' = PutTokens \ {p} /\ p \in PutTokens
        BY <1>a, <2>3, <2>a, <3>1
           DEF PutTest, Goto, PutTokens, HoldsToken, TypeOK, Threads
      <4>2. P' = P - 1  BY <1>b, <4>1, RemoveOne
      <4>3. full_sem' = full_sem + 1 /\ UNCHANGED <<queue, empty_sem>>
        BY <2>3, <3>1 DEF PutTest
      <4> QED
        BY <1>a, <1>b, <1>c, <1>d, <2>a, <2>b, <4>2, <4>3
           DEF TokenAccounting, CapacityBound, GetFindsMessage
    <3>2. CASE ~dropped
      <4>1. UNCHANGED PutTokens
        BY <1>a, <2>3, <2>a, <3>2
           DEF PutTest, Goto, PutTokens, HoldsToken, TypeOK, Threads
      <4> QED  BY <2>3, <2>c, <3>2, <4>1 DEF PutTest
    <3> QED  BY <3>1, <3>2
  <2>4. CASE PutPush(p)
    <3>1. PutTokens' = PutTokens \ {p} /\ p \in PutTokens
      BY <1>a, <2>4, <2>a
         DEF PutPush, Goto, PutTokens, HoldsToken, TypeOK, Threads
    <3>2. P' = P - 1 /\ P >= 1
      <4>1. P # 0  BY <1>b, <3>1, FS_EmptySet
      <4> QED  BY <1>b, <3>1, <4>1, RemoveOne
    <3>3. /\ empty_sem' = empty_sem + 1 /\ UNCHANGED full_sem
          /\ Len(queue') = Len(queue) + 1 /\ queue' # <<>>
      <4>1. queue' = Append(queue, msg[p]) /\ queue \in Seq(Msgs) /\ msg[p] \in Msgs
        BY <1>a, <2>4 DEF PutPush, PhaseOK, TypeOK
      <4> QED  BY <2>4, <4>1 DEF PutPush
    <3>4. alive /\ DropFullTokens = 0
      BY <1>a, <2>4, <2>a
         DEF PutPush, PhaseOK, DestroyedUnused, DropFullTokens, TypeOK
    <3> QED
      BY <1>a, <1>b, <1>c, <1>d, <2>a, <2>b, <3>2, <3>3, <3>4
         DEF TokenAccounting, CapacityBound, GetFindsMessage
  <2> QED  BY <1>1, <2>1, <2>2, <2>3, <2>4 DEF ProducerStep
<1>2. ASSUME NEW c \in Consumers, ConsumerStep(c) PROVE Accounts'
  <2>a. c \in Threads /\ c \notin Producers /\ UNCHANGED <<mpc, alive>>
    BY <1>2, ThreadsAssumption
       DEF Threads, ConsumerStep, ConsumerLoop, GetWait, Lock, GetTest,
           GetPop, Unlock
  <2>b. PutTokens' = PutTokens
    BY <1>a, <1>2, <2>a
       DEF ConsumerStep, ConsumerLoop, GetWait, Lock, GetTest, GetPop,
           Unlock, PutTokens, HoldsToken, TypeOK, Goto, Threads
  <2>c. ASSUME UNCHANGED <<queue, full_sem, empty_sem, GetTokens>>
        PROVE  TokenAccounting' /\ CapacityBound'
    BY <1>a, <1>c, <2>a, <2>b, <2>c
       DEF TokenAccounting, CapacityBound
  <2>1. CASE ConsumerLoop(c) \/ Lock(c) \/ Unlock(c)
    <3>1. UNCHANGED GetTokens
      BY <1>a, <2>1, <2>a
         DEF ConsumerLoop, Lock, Unlock, Goto, GetTokens, HoldsToken,
             TypeOK, Threads
    <3>2. GetFindsMessage'
      BY <1>a, <2>1, <2>a
         DEF ConsumerLoop, Lock, Unlock, Goto, GetFindsMessage, TypeOK,
             Threads
    <3> QED  BY <2>1, <2>c, <3>1, <3>2 DEF ConsumerLoop, Lock, Unlock
  <2>2. CASE GetWait(c)
    <3>1. GetTokens' = GetTokens \cup {c} /\ c \notin GetTokens
      BY <1>a, <2>2, <2>a
         DEF GetWait, Goto, GetTokens, HoldsToken, TypeOK, Threads
    <3>2. G' = G + 1  BY <1>b, <3>1, AddOne
    <3>3. empty_sem' = empty_sem - 1 /\ UNCHANGED <<queue, full_sem>>
      BY <2>2 DEF GetWait
    <3>4. GetFindsMessage'
      BY <1>a, <2>2, <2>a DEF GetWait, Goto, GetFindsMessage, TypeOK, Threads
    <3> QED
      BY <1>a, <1>b, <1>c, <1>d, <2>a, <2>b, <3>2, <3>3, <3>4
         DEF TokenAccounting, CapacityBound
  <2>3. CASE GetTest(c)
    <3>1. CASE dropped
      <4>1. GetTokens' = GetTokens \ {c} /\ c \in GetTokens
        BY <1>a, <2>3, <2>a, <3>1
           DEF GetTest, Goto, GetTokens, HoldsToken, TypeOK, Threads
      <4>2. G' = G - 1  BY <1>b, <4>1, RemoveOne
      <4>3. empty_sem' = empty_sem + 1 /\ UNCHANGED <<queue, full_sem>>
        BY <2>3, <3>1 DEF GetTest
      <4>4. GetFindsMessage'
        BY <1>a, <2>3, <2>a, <3>1
           DEF GetTest, Goto, GetFindsMessage, TypeOK, Threads
      <4> QED
        BY <1>a, <1>b, <1>c, <1>d, <2>a, <2>b, <4>2, <4>3, <4>4
           DEF TokenAccounting, CapacityBound
    <3>2. CASE ~dropped
      <4>1. UNCHANGED GetTokens /\ c \in GetTokens
        BY <1>a, <2>3, <2>a, <3>2
           DEF GetTest, Goto, GetTokens, HoldsToken, TypeOK, Threads
      <4>2. G >= 1
        <5>1. G # 0  BY <1>b, <4>1, FS_EmptySet
        <5> QED  BY <1>b, <5>1
      <4>3. alive /\ DropEmptyTokens = 0
        BY <1>a, <2>3, <2>a, <3>2
           DEF GetTest, PhaseOK, DestroyedUnused, DropEmptyTokens, TypeOK
      <4>4. queue # <<>>
        <5>1. Len(queue) # 0
          BY <1>a, <1>b, <1>d, <4>2, <4>3 DEF TokenAccounting
        <5> QED  BY <5>1
      <4>5. GetFindsMessage'
        BY <2>3, <4>4 DEF GetTest, GetFindsMessage
      <4> QED  BY <2>3, <2>c, <3>2, <4>1, <4>5 DEF GetTest
    <3> QED  BY <3>1, <3>2
  <2>4. CASE GetPop(c)
    <3>0. queue # <<>>  BY <1>a, <2>4 DEF GetPop, GetFindsMessage
    <3>1. GetTokens' = GetTokens \ {c} /\ c \in GetTokens
      <4>1. pc[c] = "access" /\ pc' = [pc EXCEPT ![c] = "unlock"]
        BY <2>4, <3>0 DEF GetPop, Goto
      <4> QED
        BY <1>a, <2>a, <4>1 DEF GetTokens, HoldsToken, TypeOK, Threads
    <3>2. G' = G - 1  BY <1>b, <3>1, RemoveOne
    <3>3. full_sem' = full_sem + 1 /\ UNCHANGED empty_sem
          /\ Len(queue') = Len(queue) - 1
      <4>1. queue' = Tail(queue) /\ queue \in Seq(Msgs)
        BY <1>a, <2>4, <3>0 DEF GetPop, TypeOK
      <4> QED  BY <2>4, <3>0, <4>1 DEF GetPop
    <3>4. GetFindsMessage'
      <4>1. pc[c] = "access" /\ pc' = [pc EXCEPT ![c] = "unlock"]
        BY <2>4, <3>0 DEF GetPop, Goto
      <4>2. \A d \in Consumers : pc[d] = "access" => d = c
        BY <1>a, <2>a, <4>1 DEF MutualExclusion, Threads
      <4> QED
        BY <1>a, <2>a, <4>1, <4>2 DEF GetFindsMessage, TypeOK, Threads
    <3> QED
      BY <1>a, <1>b, <1>c, <1>d, <2>a, <2>b, <3>2, <3>3, <3>4
         DEF TokenAccounting, CapacityBound
  <2> QED  BY <1>2, <2>1, <2>2, <2>3, <2>4 DEF ConsumerStep
<1>3. CASE MainStep
  <2>1. UNCHANGED <<PutTokens, GetTokens>> /\ GetFindsMessage'
    <3>1. ASSUME NEW t \in Threads, InitThread(t)
          PROVE  UNCHANGED <<PutTokens, GetTokens>> /\ GetFindsMessage'
      BY <1>a, <3>1
         DEF InitThread, Goto, PutTokens, GetTokens, HoldsToken,
             GetFindsMessage, TypeOK, Threads
    <3>2. CASE UNCHANGED <<pc, queue>>
      BY <1>a, <3>2 DEF PutTokens, GetTokens, HoldsToken, GetFindsMessage
    <3>3. CASE JoinAndDestroy
      BY <3>3 DEF JoinAndDestroy, PutTokens, GetTokens, HoldsToken,
                  GetFindsMessage, Threads
    <3> QED
      BY <1>3, <3>1, <3>2, <3>3
         DEF MainStep, InitThreadFails, AllCreated, DropLock, DropSet,
             DropPostEmpty, DropPostFull, DropUnlock, JoinAfterFailure
  <2>2. CASE \E t \in Threads : InitThread(t)
    BY <1>a, <1>c, <2>1, <2>2 DEF InitThread, TokenAccounting, CapacityBound
  <2>3. CASE DropPostEmpty
    <3>1. /\ empty_sem' = empty_sem + 1
          /\ DropEmptyTokens = 0 /\ DropEmptyTokens' = 1
          /\ UNCHANGED <<alive, queue, full_sem, DropFullTokens>>
      BY <1>a, <2>3
         DEF DropPostEmpty, DropEmptyTokens, DropFullTokens, PhaseOK
    <3> QED
      BY <1>a, <1>b, <1>c, <1>d, <2>1, <3>1 DEF TokenAccounting, CapacityBound
  <2>4. CASE DropPostFull
    <3>1. /\ full_sem' = full_sem + 1
          /\ DropFullTokens = 0 /\ DropFullTokens' = 1
          /\ UNCHANGED <<alive, queue, empty_sem, DropEmptyTokens>>
      BY <1>a, <2>4
         DEF DropPostFull, DropEmptyTokens, DropFullTokens, PhaseOK
    <3> QED
      BY <1>a, <1>b, <1>c, <1>d, <2>1, <3>1 DEF TokenAccounting, CapacityBound
  <2>5. CASE JoinAndDestroy
    <3>1. ~alive' /\ queue' = <<>>  BY <2>5 DEF JoinAndDestroy
    <3> QED  BY <1>d, <2>1, <3>1 DEF TokenAccounting, CapacityBound
  <2>6. CASE InitThreadFails \/ AllCreated \/ DropLock \/ DropSet
             \/ DropUnlock \/ JoinAfterFailure
    <3>1. /\ UNCHANGED <<alive, queue, full_sem, empty_sem>>
          /\ UNCHANGED <<DropFullTokens, DropEmptyTokens>>
      BY <1>a, <2>6
         DEF InitThreadFails, AllCreated, DropLock, DropSet, DropUnlock,
             JoinAfterFailure, DropFullTokens, DropEmptyTokens, PhaseOK
    <3> QED  BY <1>a, <2>1, <3>1 DEF TokenAccounting, CapacityBound
  <2> QED
    BY <1>3, <2>2, <2>3, <2>4, <2>5, <2>6 DEF MainStep
<1>4. CASE UNCHANGED vars
  BY <1>a, <1>4
     DEF vars, TokenAccounting, CapacityBound, GetFindsMessage, PutTokens,
         GetTokens, HoldsToken, DropFullTokens, DropEmptyTokens
<1> QED  BY <1>1, <1>2, <1>3, <1>4 DEF Next, Terminated

-----------------------------------------------------------------------------
(* Every reachable state satisfies the inductive invariant.                *)
THEOREM Inductive == Spec => []IInv
<1>1. IInv /\ [Next]_vars => IInv'
  BY NextTypeOK, NextControl, NextAccounts DEF IInv
<1> QED  BY InitIInv, <1>1, PTL DEF Spec

(* The variables of the message queue keep their types: neither semaphore  *)
(* goes below zero and the list holds only messages that were put.         *)
THEOREM TypeCorrect == Spec => []TypeOK
<1>1. IInv => TypeOK  BY DEF IInv
<1> QED  BY Inductive, <1>1, PTL

(* The semaphores of my_msg_put and my_msg_get count the free places and   *)
(* the stored messages exactly, for any number of threads and any capacity.*)
THEOREM AccountingCorrect == Spec => []TokenAccounting
<1>1. IInv => TokenAccounting  BY DEF IInv
<1> QED  BY Inductive, <1>1, PTL

(* The list never holds more messages than full_sem was initialised to.    *)
THEOREM CapacityCorrect == Spec => []CapacityBound
<1>1. IInv => CapacityBound  BY DEF IInv
<1> QED  BY Inductive, <1>1, PTL

(* No routine ends before the queue is dropped, and the pop of my_msg_get  *)
(* never finds the list empty.                                             *)
THEOREM ExitCorrect == Spec => [](GetFindsMessage /\ ExitOnlyWhenDropped)
<1>1. IInv => GetFindsMessage /\ ExitOnlyWhenDropped  BY DEF IInv
<1> QED  BY Inductive, <1>1, PTL

(* The semaphore tokens that my_msg_get waits for are never more than the    *)
(* messages in the list: its pop finds one.                                *)
THEOREM GetFinds == Spec => []GetFindsMessage
<1>1. IInv => GetFindsMessage  BY DEF IInv
<1> QED  BY Inductive, <1>1, PTL

(* my_msg_destroy runs only when no thread uses the queue any more.        *)
THEOREM DestroyCorrect == Spec => []DestroyedUnused
<1>1. IInv => DestroyedUnused  BY DEF IInv
<1> QED  BY Inductive, <1>1, PTL

-----------------------------------------------------------------------------
(* A producer's push is a Send of the channel, and a consumer's pop a      *)
(* Receive; closing happens under the mutex, so neither overlaps it.       *)
LEMMA PushIsSend ==
  ASSUME IInv, ~CreateMayFail, NEW p \in Producers, PutPush(p)
  PROVE  Channel!Send(msg[p]) /\ msg[p] \in Msgs
<1>1. p \in Threads /\ pc[p] = "access" /\ msg[p] \in Msgs
  BY DEF PutPush, IInv, PhaseOK, Threads
<1>2. mpc \in {"create", "sleep"} /\ ~dropped
  BY <1>1 DEF IInv, PhaseOK
<1>3. Len(queue) < Capacity
  <2>1. p \in PutTokens  BY <1>1 DEF PutTokens, HoldsToken
  <2>2. Cardinality(PutTokens) \in Nat /\ Cardinality(PutTokens) # 0
    BY <2>1, TokenSetsFinite, FS_EmptySet
  <2>3. alive /\ DropFullTokens = 0
    BY <1>2 DEF IInv, PhaseOK, DropFullTokens
  <2>4. full_sem \in Nat /\ Len(queue) \in Nat /\ Capacity \in Nat
    BY CapacityAssumption DEF IInv, TypeOK
  <2> QED  BY <2>2, <2>3, <2>4 DEF IInv, TokenAccounting
<1>4. queue' = Append(queue, msg[p]) /\ UNCHANGED <<dropped, msg>>
  BY DEF PutPush
<1> QED  BY <1>1, <1>2, <1>3, <1>4 DEF Channel!Send

(* The same for a consumer.                                                *)
LEMMA PopIsReceive ==
  ASSUME IInv, ~CreateMayFail, NEW c \in Consumers, GetPop(c)
  PROVE  Channel!Receive(c)
<1>1. c \in Threads /\ pc[c] = "access" /\ queue # <<>>
  BY DEF GetPop, IInv, GetFindsMessage, Threads
<1>2. ~dropped
  BY <1>1 DEF IInv, PhaseOK
<1>3. /\ queue' = Tail(queue) /\ UNCHANGED dropped
      /\ msg' = [msg EXCEPT ![c] = Head(queue)]
  BY <1>1 DEF GetPop
<1>4. [d \in Consumers |-> msg[d]]' =
        [[d \in Consumers |-> msg[d]] EXCEPT ![c] = Head(queue)]
  BY <1>1, <1>3 DEF IInv, TypeOK, Threads
<1> QED  BY <1>1, <1>2, <1>3, <1>4 DEF Channel!Receive

(* Every other step leaves the channel alone, closes it or, in             *)
(* my_msg_destroy, throws away what is left.                               *)
LEMMA StepSimulation ==
  ASSUME IInv, ~CreateMayFail, [Next]_vars
  PROVE  [Channel!Next]_<<queue, dropped, [c \in Consumers |-> msg[c]]>>
<1> DEFINE received == [c \in Consumers |-> msg[c]]
<1>1. ASSUME NEW p \in Producers, ProducerStep(p)
      PROVE  Channel!Next \/ UNCHANGED <<queue, dropped, received>>
  <2>1. CASE PutPush(p)  BY <2>1, PushIsSend DEF Channel!Next
  <2>2. CASE ProducerLoop(p)
    <3>1. UNCHANGED <<queue, dropped>> /\ p \in Threads /\ p \notin Consumers
      BY <2>2, ThreadsAssumption DEF ProducerLoop, Threads
    <3>2. \A c \in Consumers : msg'[c] = msg[c]
      BY <2>2, <3>1 DEF ProducerLoop, IInv, TypeOK, Threads
    <3> QED  BY <3>1, <3>2
  <2>3. CASE PutWait(p) \/ Lock(p) \/ PutTest(p) \/ Unlock(p)
    BY <2>3 DEF PutWait, Lock, PutTest, Unlock
  <2> QED  BY <1>1, <2>1, <2>2, <2>3 DEF ProducerStep
<1>2. ASSUME NEW c \in Consumers, ConsumerStep(c)
      PROVE  Channel!Next \/ UNCHANGED <<queue, dropped, received>>
  <2>1. CASE GetPop(c)  BY <2>1, PopIsReceive DEF Channel!Next
  <2>2. CASE ConsumerLoop(c) \/ GetWait(c) \/ Lock(c) \/ GetTest(c) \/ Unlock(c)
    BY <2>2 DEF ConsumerLoop, GetWait, Lock, GetTest, Unlock
  <2> QED  BY <1>2, <2>1, <2>2 DEF ConsumerStep
<1>3. CASE MainStep
  <2>1. CASE InitThreadFails  BY <2>1 DEF InitThreadFails
  <2>2. CASE DropSet  BY <2>2 DEF DropSet, Channel!Next, Channel!Close
  <2>3. CASE JoinAndDestroy
    <3>1. dropped  BY <2>3 DEF JoinAndDestroy, IInv, PhaseOK
    <3>2. queue' = <<>> /\ UNCHANGED <<dropped, msg>>
      BY <2>3 DEF JoinAndDestroy
    <3> QED  BY <3>1, <3>2 DEF Channel!Next, Channel!Discard
  <2> QED
    BY <1>3, <2>1, <2>2, <2>3
       DEF MainStep, InitThread, AllCreated, DropLock, DropPostEmpty,
           DropPostFull, DropUnlock, JoinAfterFailure
<1>4. CASE UNCHANGED vars  BY <1>4 DEF vars
<1> QED  BY <1>1, <1>2, <1>3, <1>4 DEF Next, Terminated

(* As long as pthread_create does not fail, the queue of lab 25 is a       *)
(* bounded FIFO channel that accepts and delivers nothing once dropped.    *)
THEOREM Refinement == ~CreateMayFail => (Spec => ImplementsChannel)
<1> SUFFICES ASSUME ~CreateMayFail PROVE Spec => ImplementsChannel
  OBVIOUS
<1>1. Init => Channel!Init
  BY DEF Init, Channel!Init, Threads
<1>2. IInv /\ [Next]_vars
        => [Channel!Next]_<<queue, dropped, [c \in Consumers |-> msg[c]]>>
  BY StepSimulation
<1> QED
  BY Inductive, <1>1, <1>2, PTL DEF Spec, ImplementsChannel, Channel!Spec
=============================================================================
