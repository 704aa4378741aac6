------------------------------ MODULE MyQueue ------------------------------
(***************************************************************************)
(* The System-V-like message queue of korneshchuk/25: two counting         *)
(* semaphores, one mutex and a `dropped' flag around an unbounded list     *)
(* (myQueue.c), driven by producer and consumer threads and by a main      *)
(* thread that creates them, sleeps, drops the queue, joins everybody and  *)
(* destroys the queue (main.c).                                            *)
(*                                                                         *)
(* The inner list (thread_safe_queue.c) is only ever touched while         *)
(* myQueue->mutex is held, so here it is a sequence; module ListQueue      *)
(* shows that its pointer code behaves as one.                             *)
(***************************************************************************)
EXTENDS Integers, Sequences, FiniteSets

CONSTANTS Producers,      \* threads running producer_routine
          Consumers,      \* threads running consumer_routine
          Msgs,           \* message texts
          Capacity,       \* initial value of full_sem (10 in the code)
          CreateMayFail   \* whether pthread_create is allowed to fail

Threads == Producers \cup Consumers
Main == "main"
Nobody == "nobody"
NoMsg == "no message"

ASSUME ThreadsAssumption ==
  /\ IsFiniteSet(Producers) /\ IsFiniteSet(Consumers)
  /\ Producers \cap Consumers = {}
  /\ Main \notin Threads /\ Nobody \notin Threads
ASSUME MsgsAssumption == NoMsg \notin Msgs
ASSUME CapacityAssumption == Capacity \in Nat \ {0}
ASSUME CreateAssumption == CreateMayFail \in BOOLEAN

VARIABLES
  queue,      \* myQueue->queue as the sequence of its values
  full_sem,   \* number of free places
  empty_sem,  \* number of messages to take
  mutex,      \* owner of myQueue->mutex
  dropped,    \* myQueue->dropped
  alive,      \* my_msg_init has run and my_msg_destroy has not
  pc,         \* where each worker thread is
  mpc,        \* where the main thread is
  msg         \* a producer's str, a consumer's chr

vars == <<queue, full_sem, empty_sem, mutex, dropped, alive, pc, mpc, msg>>

ThreadPCs == {"new", "loop", "wait", "lock", "test", "access",
              "unlock", "unlock0", "done"}
MainPCs == {"create", "sleep", "dropSet", "dropEmpty", "dropFull",
            "dropUnlock", "join", "joinFail", "exit"}

\* my_msg_init, called by main before the first thread is created.
Init ==
  /\ queue = <<>>
  /\ full_sem = Capacity
  /\ empty_sem = 0
  /\ mutex = Nobody
  /\ dropped = FALSE
  /\ alive = TRUE
  /\ pc = [t \in Threads |-> "new"]
  /\ mpc = "create"
  /\ msg = [t \in Threads |-> NoMsg]

Goto(t, l) == pc' = [pc EXCEPT ![t] = l]

-----------------------------------------------------------------------------
(***************************************************************************)
(* Both routines: while (!queue->dropped), an unlocked read, and the       *)
(* return from put or get: pthread_exit after a result of 0.               *)
(***************************************************************************)
ProducerLoop(p) ==
  /\ pc[p] = "loop"
  /\ IF dropped
     THEN Goto(p, "done") /\ UNCHANGED msg
     ELSE /\ Goto(p, "wait")
          /\ \E m \in Msgs : msg' = [msg EXCEPT ![p] = m]
  /\ UNCHANGED <<queue, full_sem, empty_sem, mutex, dropped, alive, mpc>>

ConsumerLoop(c) ==
  /\ pc[c] = "loop"
  /\ Goto(c, IF dropped THEN "done" ELSE "wait")
  /\ UNCHANGED <<queue, full_sem, empty_sem, mutex, dropped, alive, mpc, msg>>

Lock(t) ==
  /\ pc[t] = "lock"
  /\ mutex = Nobody
  /\ mutex' = t
  /\ Goto(t, "test")
  /\ UNCHANGED <<queue, full_sem, empty_sem, dropped, alive, mpc, msg>>

\* pthread_mutex_unlock and the return: 0 ends the routine.
Unlock(t) ==
  /\ pc[t] \in {"unlock", "unlock0"}
  /\ mutex' = Nobody
  /\ Goto(t, IF pc[t] = "unlock0" THEN "done" ELSE "loop")
  /\ UNCHANGED <<queue, full_sem, empty_sem, dropped, alive, mpc, msg>>

(***************************************************************************)
(* my_msg_put: wait for a place, lock, give the place back if the queue    *)
(* was dropped, otherwise push and announce the message.                   *)
(***************************************************************************)
PutWait(p) ==
  /\ pc[p] = "wait"
  /\ full_sem > 0
  /\ full_sem' = full_sem - 1
  /\ Goto(p, "lock")
  /\ UNCHANGED <<queue, empty_sem, mutex, dropped, alive, mpc, msg>>

\* Mutant: a put that meets a dropped queue keeps its place.
PutTestKeepsToken(p) ==
  /\ pc[p] = "test"
  /\ Goto(p, IF dropped THEN "unlock0" ELSE "access")
  /\ UNCHANGED <<queue, full_sem, empty_sem, mutex, dropped, alive, mpc, msg>>

\* Mutant: put does not look at `dropped' again under the mutex.
PutTestIgnoresDrop(p) ==
  /\ pc[p] = "test"
  /\ Goto(p, "access")
  /\ UNCHANGED <<queue, full_sem, empty_sem, mutex, dropped, alive, mpc, msg>>

PutTest(p) ==
  /\ pc[p] = "test"
  /\ IF dropped
     THEN full_sem' = full_sem + 1 /\ Goto(p, "unlock0")
     ELSE full_sem' = full_sem /\ Goto(p, "access")
  /\ UNCHANGED <<queue, empty_sem, mutex, dropped, alive, mpc, msg>>

\* Mutant: push inserts at the head of the list.
PutPushFront(p) ==
  /\ pc[p] = "access"
  /\ queue' = <<msg[p]>> \o queue
  /\ empty_sem' = empty_sem + 1
  /\ Goto(p, "unlock")
  /\ UNCHANGED <<full_sem, mutex, dropped, alive, mpc, msg>>

PutPush(p) ==
  /\ pc[p] = "access"
  /\ queue' = Append(queue, msg[p])
  /\ empty_sem' = empty_sem + 1
  /\ Goto(p, "unlock")
  /\ UNCHANGED <<full_sem, mutex, dropped, alive, mpc, msg>>

(***************************************************************************)
(* my_msg_get: wait for a message, lock, and if the queue is not dropped   *)
(* pop.  A dropped queue, and a pop that finds nothing, both pass the      *)
(* token on and return 0.                                                  *)
(***************************************************************************)
\* Mutant: sem_trywait instead of sem_wait, its failure taken for success.
GetWaitUnderflow(c) ==
  /\ pc[c] = "wait"
  /\ empty_sem' = empty_sem - 1
  /\ Goto(c, "lock")
  /\ UNCHANGED <<queue, full_sem, mutex, dropped, alive, mpc, msg>>

\* Mutant: get does not wait for a message.
GetWaitSkipped(c) ==
  /\ pc[c] = "wait"
  /\ Goto(c, "lock")
  /\ UNCHANGED <<queue, full_sem, empty_sem, mutex, dropped, alive, mpc, msg>>


GetWait(c) ==
  /\ pc[c] = "wait"
  /\ empty_sem > 0
  /\ empty_sem' = empty_sem - 1
  /\ Goto(c, "lock")
  /\ UNCHANGED <<queue, full_sem, mutex, dropped, alive, mpc, msg>>

\* Mutant: get does not look at `dropped' again under the mutex.
GetTestIgnoresDrop(c) ==
  /\ pc[c] = "test"
  /\ Goto(c, "access")
  /\ UNCHANGED <<queue, full_sem, empty_sem, mutex, dropped, alive, mpc, msg>>

GetTest(c) ==
  /\ pc[c] = "test"
  /\ IF dropped
     THEN empty_sem' = empty_sem + 1 /\ Goto(c, "unlock0")
     ELSE empty_sem' = empty_sem /\ Goto(c, "access")
  /\ UNCHANGED <<queue, full_sem, mutex, dropped, alive, mpc, msg>>

GetPop(c) ==
  /\ pc[c] = "access"
  /\ IF queue = <<>>
     THEN /\ empty_sem' = empty_sem + 1
          /\ Goto(c, "unlock0")
          /\ UNCHANGED <<queue, full_sem, msg>>
     ELSE /\ msg' = [msg EXCEPT ![c] = Head(queue)]
          /\ queue' = Tail(queue)
          /\ full_sem' = full_sem + 1
          /\ Goto(c, "unlock")
          /\ UNCHANGED empty_sem
  /\ UNCHANGED <<mutex, dropped, alive, mpc>>

-----------------------------------------------------------------------------
(***************************************************************************)
(* main.  init_all_threads starts the producers, then the consumers.  A    *)
(* failing pthread_create sets `dropped' without the mutex and without any *)
(* sem_post, then joins the threads created so far and leaves main.        *)
(***************************************************************************)
InitThread(t) ==
  /\ mpc = "create"
  /\ pc[t] = "new"
  /\ t \in Consumers => \A p \in Producers : pc[p] # "new"
  /\ Goto(t, "loop")
  /\ UNCHANGED <<queue, full_sem, empty_sem, mutex, dropped, alive, mpc, msg>>

InitThreadFails ==
  /\ CreateMayFail
  /\ mpc = "create"
  /\ \E t \in Threads : pc[t] = "new"
  /\ dropped' = TRUE
  /\ mpc' = "joinFail"
  /\ UNCHANGED <<queue, full_sem, empty_sem, mutex, alive, pc, msg>>

AllCreated ==
  /\ mpc = "create"
  /\ \A t \in Threads : pc[t] # "new"
  /\ mpc' = "sleep"
  /\ UNCHANGED <<queue, full_sem, empty_sem, mutex, dropped, alive, pc, msg>>

\* my_msg_drop, step by step, after the sleep.
DropLock ==
  /\ mpc = "sleep"
  /\ mutex = Nobody
  /\ mutex' = Main
  /\ mpc' = "dropSet"
  /\ UNCHANGED <<queue, full_sem, empty_sem, dropped, alive, pc, msg>>

DropSet ==
  /\ mpc = "dropSet"
  /\ dropped' = TRUE
  /\ mpc' = "dropEmpty"
  /\ UNCHANGED <<queue, full_sem, empty_sem, mutex, alive, pc, msg>>

DropPostEmpty ==
  /\ mpc = "dropEmpty"
  /\ empty_sem' = empty_sem + 1
  /\ mpc' = "dropFull"
  /\ UNCHANGED <<queue, full_sem, mutex, dropped, alive, pc, msg>>

DropPostFull ==
  /\ mpc = "dropFull"
  /\ full_sem' = full_sem + 1
  /\ mpc' = "dropUnlock"
  /\ UNCHANGED <<queue, empty_sem, mutex, dropped, alive, pc, msg>>

DropUnlock ==
  /\ mpc = "dropUnlock"
  /\ mutex' = Nobody
  /\ mpc' = "join"
  /\ UNCHANGED <<queue, full_sem, empty_sem, dropped, alive, pc, msg>>

\* Mutant: main joins the producers only.
JoinProducersAndDestroy ==
  /\ mpc = "join"
  /\ \A t \in Producers : pc[t] = "done"
  /\ alive' = FALSE
  /\ queue' = <<>>
  /\ mpc' = "exit"
  /\ UNCHANGED <<full_sem, empty_sem, mutex, dropped, pc, msg>>

\* join_threads on every created thread, then my_msg_destroy.
JoinAndDestroy ==
  /\ mpc = "join"
  /\ \A t \in Threads : pc[t] = "done"
  /\ alive' = FALSE
  /\ queue' = <<>>
  /\ mpc' = "exit"
  /\ UNCHANGED <<full_sem, empty_sem, mutex, dropped, pc, msg>>

\* join_threads of init_all_threads, then pthread_exit.
JoinAfterFailure ==
  /\ mpc = "joinFail"
  /\ \A t \in Threads : pc[t] \in {"new", "done"}
  /\ mpc' = "exit"
  /\ UNCHANGED <<queue, full_sem, empty_sem, mutex, dropped, alive, pc, msg>>

-----------------------------------------------------------------------------
ProducerStep(p) ==
  \/ ProducerLoop(p) \/ PutWait(p) \/ Lock(p)
  \/ PutTest(p) \/ PutPush(p) \/ Unlock(p)

ConsumerStep(c) ==
  \/ ConsumerLoop(c) \/ GetWait(c) \/ Lock(c)
  \/ GetTest(c) \/ GetPop(c) \/ Unlock(c)

MainStep ==
  \/ \E t \in Threads : InitThread(t)
  \/ InitThreadFails \/ AllCreated
  \/ DropLock \/ DropSet \/ DropPostEmpty \/ DropPostFull \/ DropUnlock
  \/ JoinAndDestroy \/ JoinAfterFailure

Terminated == mpc = "exit" /\ UNCHANGED vars

Next ==
  \/ \E p \in Producers : ProducerStep(p)
  \/ \E c \in Consumers : ConsumerStep(c)
  \/ MainStep
  \/ Terminated

\* The scheduler runs every thread that can continue.
Fairness ==
  /\ \A p \in Producers : WF_vars(ProducerStep(p))
  /\ \A c \in Consumers : WF_vars(ConsumerStep(c))
  /\ WF_vars(MainStep)

Spec == Init /\ [][Next]_vars
FairSpec == Spec /\ Fairness

-----------------------------------------------------------------------------
(***************************************************************************)
(* Properties.                                                             *)
(***************************************************************************)
TypeOK ==
  /\ queue \in Seq(Msgs)
  /\ full_sem \in Nat
  /\ empty_sem \in Nat
  /\ mutex \in Threads \cup {Main, Nobody}
  /\ dropped \in BOOLEAN
  /\ alive \in BOOLEAN
  /\ pc \in [Threads -> ThreadPCs]
  /\ mpc \in MainPCs
  /\ msg \in [Threads -> Msgs \cup {NoMsg}]

\* Threads that have taken a token from their semaphore and not yet used it.
HoldsToken(t) == pc[t] \in {"lock", "test", "access"}
PutTokens == {p \in Producers : HoldsToken(p)}
GetTokens == {c \in Consumers : HoldsToken(c)}

\* The extra tokens my_msg_drop has put into each semaphore.
DropEmptyTokens ==
  IF mpc \in {"dropFull", "dropUnlock", "join"} \/ ~alive THEN 1 ELSE 0
DropFullTokens ==
  IF mpc \in {"dropUnlock", "join"} \/ ~alive THEN 1 ELSE 0

\* The semaphores count what they stand for: while the queue exists, every
\* free place is in full_sem or with a producer on its way to the mutex, every
\* stored message is in empty_sem or with a consumer, and my_msg_drop adds
\* exactly one token to each, which nobody ever loses (sem_wait, sem_post and
\* push/pop of my_msg_put, my_msg_get and my_msg_drop).
TokenAccounting ==
  alive =>
    /\ full_sem + Len(queue) + Cardinality(PutTokens)
         = Capacity + DropFullTokens
    /\ empty_sem + Cardinality(GetTokens) = Len(queue) + DropEmptyTokens

\* my_msg_put never stores more than the initial value of full_sem, not even
\* with the extra token that my_msg_drop posts.
CapacityBound == Len(queue) <= Capacity

\* The pop of my_msg_get always finds a message: the branch that treats an
\* empty list like a dropped queue, and would end the consumer, is dead.
GetFindsMessage ==
  \A c \in Consumers : pc[c] = "access" => queue # <<>>

\* A routine ends only because the queue was dropped: no put or get of a live
\* queue returns 0.
ExitOnlyWhenDropped ==
  \A t \in Threads : pc[t] \in {"unlock0", "done"} => dropped

\* my_msg_destroy frees the semaphores, the mutex and the list only when no
\* thread can touch them any more, and the mutex is free when it is destroyed.
DestroyedUnused ==
  ~alive => mutex = Nobody /\ \A t \in Threads : pc[t] = "done"

\* myQueue->mutex protects the list: at most one thread is between lock and
\* unlock of it, and main's my_msg_drop excludes all of them.
MutualExclusion ==
  /\ \A t \in Threads :
       pc[t] \in {"test", "access", "unlock", "unlock0"} <=> mutex = t
  /\ mpc \in {"dropSet", "dropEmpty", "dropFull", "dropUnlock"}
       <=> mutex = Main

(***************************************************************************)
(* What makes the invariants above inductive: how far main is tells        *)
(* whether the queue is dropped, destroyed or may be accessed, and a       *)
(* producer beyond its loop head carries a message.                        *)
(***************************************************************************)
PhaseOK ==
  /\ mpc \in {"dropEmpty", "dropFull", "dropUnlock", "join", "joinFail", "exit"}
       <=> dropped
  /\ ~alive => mpc = "exit"
  /\ mpc = "joinFail" => CreateMayFail
  /\ mpc = "exit" => \A t \in Threads : pc[t] \in {"new", "done"}
  /\ \A t \in Threads :
       pc[t] = "access" => mpc \in {"create", "sleep", "joinFail"}
  /\ \A p \in Producers :
       pc[p] \in {"wait", "lock", "test", "access"} => msg[p] \in Msgs

IInv ==
  /\ TypeOK
  /\ PhaseOK
  /\ MutualExclusion
  /\ TokenAccounting
  /\ CapacityBound
  /\ GetFindsMessage
  /\ ExitOnlyWhenDropped
  /\ DestroyedUnused

\* Once the queue is dropped every thread leaves its routine and main gets
\* through its joins: the single token my_msg_drop posts to each semaphore
\* wakes all blocked threads one after another.
DropTerminates == dropped ~> mpc = "exit"

\* What users of the queue may rely on: a bounded FIFO channel that can be
\* closed once and accepts and delivers nothing afterwards.
Channel == INSTANCE BoundedChannel WITH
  Receivers <- Consumers,
  chan <- queue,
  closed <- dropped,
  received <- [c \in Consumers |-> msg[c]]

\* my_msg_put, my_msg_get and my_msg_drop implement that channel.
ImplementsChannel == Channel!Spec
=============================================================================
