-------------------------- MODULE ThreadPoolProofs --------------------------
(***************************************************************************)
(* Proofs about ThreadPool for any number of pooled threads and clients:   *)
(* who owns a client, that no client is forgotten, that the pipe holds a   *)
(* byte for every queued task, and that cleanUp runs alone.                *)
(***************************************************************************)
EXTENDS ThreadPool, FiniteSetTheorems, TLAPS

-----------------------------------------------------------------------------
(* submitTask adds one element to the queue, popTask takes one out.        *)
LEMMA AppendElems ==
  ASSUME NEW S, NEW q \in Seq(S), NEW x \in S
  PROVE  /\ Append(q, x) \in Seq(S)
         /\ Len(Append(q, x)) = Len(q) + 1
         /\ Elems(Append(q, x)) = Elems(q) \cup {x}
         /\ NoRepeats(q) /\ x \notin Elems(q) => NoRepeats(Append(q, x))
<1>1. /\ Append(q, x) \in Seq(S) /\ Len(Append(q, x)) = Len(q) + 1
      /\ \A i \in 1 .. Len(q) : Append(q, x)[i] = q[i]
      /\ Append(q, x)[Len(q) + 1] = x
      /\ Len(q) \in Nat
  OBVIOUS
<1> DEFINE a == Append(q, x)
<1> HIDE DEF a
<1>2. \A i \in 1 .. Len(q) + 1 : i \in 1 .. Len(q) \/ i = Len(q) + 1
  BY <1>1
<1>3. Elems(a) = Elems(q) \cup {x}
  BY <1>1, <1>2 DEF Elems, a
<1>4. ASSUME NoRepeats(q), x \notin Elems(q) PROVE NoRepeats(a)
  BY <1>1, <1>2, <1>4 DEF NoRepeats, Elems, a
<1> QED  BY <1>1, <1>3, <1>4 DEF a

(* The same for taking the head.                                           *)
LEMMA TailElems ==
  ASSUME NEW S, NEW q \in Seq(S), q # <<>>, NoRepeats(q)
  PROVE  /\ Tail(q) \in Seq(S) /\ Head(q) \in S
         /\ Len(Tail(q)) = Len(q) - 1
         /\ Elems(q) = Elems(Tail(q)) \cup {Head(q)}
         /\ Head(q) \notin Elems(Tail(q))
         /\ NoRepeats(Tail(q))
<1>1. /\ Tail(q) \in Seq(S) /\ Head(q) \in S /\ Head(q) = q[1]
      /\ Len(Tail(q)) = Len(q) - 1
      /\ Len(q) \in Nat /\ Len(q) > 0
      /\ \A i \in 1 .. Len(q) - 1 : Tail(q)[i] = q[i + 1]
  OBVIOUS
<1> DEFINE t == Tail(q)
<1> DEFINE h == Head(q)
<1> HIDE DEF t, h
<1>2. \A i \in 1 .. Len(q) : i = 1 \/ i - 1 \in 1 .. Len(q) - 1
  BY <1>1
<1>3. /\ \A i \in 1 .. Len(q) - 1 : i + 1 \in 1 .. Len(q) /\ t[i] = q[i + 1]
      /\ Len(t) = Len(q) - 1 /\ h = q[1] /\ 1 \in 1 .. Len(q)
  BY <1>1 DEF t, h
<1>4. Elems(q) = Elems(t) \cup {h}
  <2>1. ASSUME NEW y \in Elems(q) PROVE y \in Elems(t) \cup {h}
    <3>1. PICK i \in 1 .. Len(q) : y = q[i]  BY DEF Elems
    <3>2. CASE i = 1  BY <1>3, <3>1, <3>2
    <3>3. CASE i # 1
      <4>1. i - 1 \in 1 .. Len(t) /\ t[i - 1] = q[i]
        BY <1>1, <1>2, <1>3, <3>3
      <4> QED  BY <3>1, <4>1 DEF Elems
    <3> QED  BY <3>2, <3>3
  <2>2. ASSUME NEW y \in Elems(t) \cup {h} PROVE y \in Elems(q)
    BY <1>3, <2>2 DEF Elems
  <2> QED  BY <2>1, <2>2
<1>5. h \notin Elems(t)
  <2> SUFFICES ASSUME h \in Elems(t) PROVE FALSE
    OBVIOUS
  <2>1. PICK i \in 1 .. Len(t) : h = t[i]  BY DEF Elems
  <2>2. q[1] = q[i + 1] /\ i + 1 \in 1 .. Len(q) /\ i \in Nat /\ i > 0
    BY <1>1, <1>3, <2>1
  <2> QED  BY <1>3, <2>2 DEF NoRepeats
<1>6. NoRepeats(t)
  <2> SUFFICES ASSUME NEW i \in 1 .. Len(t), NEW j \in 1 .. Len(t), t[i] = t[j]
               PROVE  i = j
    BY DEF NoRepeats
  <2>1. i + 1 = j + 1  BY <1>1, <1>3 DEF NoRepeats
  <2> QED  BY <1>1, <1>3, <2>1
<1> QED  BY <1>1, <1>4, <1>5, <1>6 DEF t, h

(* The threads between their read and their pop.                           *)
LEMMA PendingFinite ==
  IsFiniteSet(PopPending) /\ Cardinality(PopPending) \in Nat
<1>1. PopPending \in SUBSET Workers  BY DEF PopPending
<1> QED  BY <1>1, PoolAssumption, FS_Subset, FS_CardinalityType

-----------------------------------------------------------------------------
(* The initial state satisfies the inductive invariant.                    *)
LEMMA InitIInv == Init => IInv
<1> SUFFICES ASSUME Init PROVE IInv
  OBVIOUS
<1> USE PoolAssumption DEF Init
<1>1. TypeOK
  <2>1. task_queue \in Seq(Clients)  OBVIOUS
  <2>2. start_fd \in BOOLEAN /\ is_stop \in BOOLEAN  OBVIOUS
  <2> QED  BY <2>1, <2>2 DEF TypeOK, MainPCs, WorkerPCs
<1>2. Queued = {} /\ Owned = {} /\ NoRepeats(task_queue)
  BY DEF Queued, Elems, Owned, NoRepeats
<1>3. PoolPhases /\ SingleOwner /\ NoClientForgotten /\ CleanUpAlone
  BY <1>2 DEF PoolPhases, SingleOwner, NoClientForgotten, CleanUpAlone
<1>4. PopPending = {} /\ NotifyPending = 0 /\ Len(task_queue) = 0
  BY DEF PopPending, NotifyPending
<1>5. ByteForTask
  BY <1>4, FS_EmptySet DEF ByteForTask
<1> QED  BY <1>1, <1>3, <1>5 DEF IInv

(* Every step keeps the types.                                             *)
LEMMA NextTypeOK == IInv /\ [Next]_vars => TypeOK'
<1> SUFFICES ASSUME IInv, [Next]_vars PROVE TypeOK'
  OBVIOUS
<1> USE PoolAssumption DEF IInv, TypeOK, WorkerPCs, MainPCs, WGoto
<1>0. task_queue # <<>> =>
        Head(task_queue) \in Clients /\ Tail(task_queue) \in Seq(Clients)
  OBVIOUS
<1>1. ASSUME NEW w \in Workers, WorkerStep(w) PROVE TypeOK'
  <2>1. CASE InitSucceeds(w) \/ InitFails(w)
    <3>1. CASE InitSucceeds(w)  BY <3>1 DEF InitSucceeds
    <3>2. CASE InitFails(w)
      <4>1. start_fd' \in BOOLEAN
        <5>1. start_fd' = start_fd \/ start_fd' = FALSE
          BY <3>2 DEF InitFails
        <5>2. start_fd \in BOOLEAN  OBVIOUS
        <5> QED  BY <5>1, <5>2
      <4>2. real_size' \in Int /\ wpc' \in [Workers -> WorkerPCs]
        BY <3>2 DEF InitFails
      <4>3. UNCHANGED <<mpc, hand, waiting, task_queue, pipe, is_stop,
                        polling, own, gone>>
        BY <3>2 DEF InitFails
      <4> QED  BY <4>1, <4>2, <4>3
    <3> QED  BY <2>1, <3>1, <3>2
  <2>2. CASE EnterPoll(w)  BY <2>2 DEF EnterPoll
  <2>3. CASE PollPipe(w) \/ PollInvalid(w) \/ PollTimeout(w)
    BY <2>3 DEF PollPipe, PollInvalid, PollTimeout, LeavePoll
  <2>4. CASE PollClient(w)
    <3>1. PICK c \in own[w] :
            \/ LeavePoll(w, "stop") /\ UNCHANGED <<own, gone>>
            \/ LeavePoll(w, "loop") /\ UNCHANGED <<own, gone>>
            \/ /\ LeavePoll(w, "loop")
               /\ own' = [own EXCEPT ![w] = @ \ {c}]
               /\ gone' = gone \cup {c}
      BY <2>4 DEF PollClient
    <3>2. c \in Clients  OBVIOUS
    <3> QED  BY <3>1, <3>2 DEF LeavePoll
  <2>5. CASE ReadPipe(w)  BY <2>5 DEF ReadPipe
  <2>6. CASE PopTask(w)  BY <1>0, <2>6 DEF PopTask
  <2>7. CASE StopWorker(w)  BY <2>7 DEF StopWorker
  <2> QED
    BY <1>1, <2>1, <2>2, <2>3, <2>4, <2>5, <2>6, <2>7 DEF WorkerStep
<1>2. CASE MainStep
  <2>1. ASSUME NEW w \in Workers, CreateThread(w) \/ CreateFails(w)
        PROVE  TypeOK'
    BY <2>1 DEF CreateThread, CreateFails
  <2>2. CASE CountThread \/ InitListener \/ StopMain \/ Sigpipe
    BY <2>2 DEF CountThread, InitListener, StopMain, Sigpipe
  <2>3. CASE SubmitTask
    <3>1. hand \in Clients  BY <2>3 DEF SubmitTask, PoolPhases
    <3>2. Append(task_queue, hand) \in Seq(Clients)  BY <3>1
    <3> QED  BY <2>3, <3>1, <3>2 DEF SubmitTask
  <2>4. CASE NotifyWorkers \/ StopNotify
    BY <2>4 DEF NotifyWorkers, StopNotify
  <2>5. CASE CleanUpSetStop  BY <2>5 DEF CleanUpSetStop
  <2>6. CASE CleanUp
    <3>1. <<>> \in Seq(Clients)  OBVIOUS
    <3>2. Queued \subseteq Clients  BY DEF Queued, Elems
    <3> QED  BY <2>6, <3>1, <3>2 DEF CleanUp
  <2>7. ASSUME NEW c \in Clients, AcceptNewClient(c) \/ AcceptFails(c)
        PROVE  TypeOK'
    BY <2>7 DEF AcceptNewClient, AcceptFails
  <2> QED
    BY <1>2, <2>1, <2>2, <2>3, <2>4, <2>5, <2>6, <2>7 DEF MainStep, MainWork
<1>3. CASE UNCHANGED vars  BY <1>3 DEF vars
<1> QED  BY <1>1, <1>2, <1>3 DEF Next, Ended

-----------------------------------------------------------------------------
(* Every step keeps what main's position says, and cleanUp ends alone.     *)
LEMMA NextPhases == IInv /\ [Next]_vars => PoolPhases' /\ CleanUpAlone'
<1> SUFFICES ASSUME IInv, [Next]_vars PROVE PoolPhases' /\ CleanUpAlone'
  OBVIOUS
<1> USE PoolAssumption DEF IInv, TypeOK, PoolPhases, CleanUpAlone, WGoto
<1>1. ASSUME NEW w \in Workers, WorkerStep(w)
      PROVE  PoolPhases' /\ CleanUpAlone'
  <2>0. UNCHANGED <<mpc, hand, is_stop>>
    BY <1>1
       DEF WorkerStep, InitSucceeds, InitFails, EnterPoll, PollPipe,
           PollInvalid, PollClient, PollTimeout, LeavePoll, ReadPipe,
           PopTask, StopWorker
  <2>1. /\ wpc[w] \notin {"none", "done"}
        /\ \A v \in Workers \ {w} : wpc'[v] = wpc[v] /\ own'[v] = own[v]
        /\ wpc'[w] \in {"none", "init", "done"} => own'[w] = {}
    <3>1. CASE InitSucceeds(w) \/ InitFails(w) \/ EnterPoll(w) \/ ReadPipe(w)
      BY <3>1 DEF InitSucceeds, InitFails, EnterPoll, ReadPipe
    <3>2. CASE PollPipe(w) \/ PollInvalid(w) \/ PollTimeout(w)
      BY <3>2 DEF PollPipe, PollInvalid, PollTimeout, LeavePoll
    <3>3. CASE PollClient(w)  BY <3>3 DEF PollClient, LeavePoll
    <3>4. CASE PopTask(w)  BY <3>4 DEF PopTask
    <3>5. CASE StopWorker(w)  BY <3>5 DEF StopWorker
    <3> QED  BY <1>1, <3>1, <3>2, <3>3, <3>4, <3>5 DEF WorkerStep
  <2> QED  BY <2>0, <2>1
<1>2. CASE MainStep
  <2>1. ASSUME NEW w \in Workers, CreateThread(w) \/ CreateFails(w)
        PROVE  PoolPhases' /\ CleanUpAlone'
    BY <2>1 DEF CreateThread, CreateFails
  <2>2. CASE CountThread \/ InitListener \/ StopMain \/ Sigpipe
    BY <2>2 DEF CountThread, InitListener, StopMain, Sigpipe
  <2>3. CASE SubmitTask  BY <2>3 DEF SubmitTask
  <2>4. CASE NotifyWorkers \/ StopNotify
    BY <2>4 DEF NotifyWorkers, StopNotify
  <2>5. CASE CleanUpSetStop  BY <2>5 DEF CleanUpSetStop
  <2>6. CASE CleanUp  BY <2>6 DEF CleanUp
  <2>7. ASSUME NEW c \in Clients, AcceptNewClient(c) \/ AcceptFails(c)
        PROVE  PoolPhases' /\ CleanUpAlone'
    BY <2>7 DEF AcceptNewClient, AcceptFails
  <2> QED
    BY <1>2, <2>1, <2>2, <2>3, <2>4, <2>5, <2>6, <2>7 DEF MainStep, MainWork
<1>3. CASE UNCHANGED vars  BY <1>3 DEF vars
<1> QED  BY <1>1, <1>2, <1>3 DEF Next, Ended

(* Every step keeps the clients apart and loses none of them.              *)
LEMMA NextOwners ==
  IInv /\ [Next]_vars => SingleOwner' /\ NoClientForgotten'
<1> SUFFICES ASSUME IInv, [Next]_vars PROVE SingleOwner' /\ NoClientForgotten'
  OBVIOUS
<1>a. TypeOK /\ PoolPhases /\ SingleOwner /\ NoClientForgotten
  BY DEF IInv
<1> USE PoolAssumption, <1>a
    DEF TypeOK, PoolPhases, SingleOwner, NoClientForgotten, Queued, Owned, WGoto
<1>0. ASSUME UNCHANGED <<task_queue, own, hand, waiting, gone>>
      PROVE  SingleOwner' /\ NoClientForgotten'
  BY <1>0
<1>1. ASSUME NEW w \in Workers, WorkerStep(w)
      PROVE  SingleOwner' /\ NoClientForgotten'
  <2>1. CASE PollClient(w)
    <3>1. UNCHANGED <<task_queue, hand, waiting>>
      BY <2>1 DEF PollClient, LeavePoll
    <3>2. PICK c \in own[w] :
            \/ UNCHANGED <<own, gone>>
            \/ own' = [own EXCEPT ![w] = @ \ {c}] /\ gone' = gone \cup {c}
      BY <2>1 DEF PollClient
    <3>3. CASE UNCHANGED <<own, gone>>  BY <1>0, <3>1, <3>3
    <3>4. CASE own' = [own EXCEPT ![w] = @ \ {c}] /\ gone' = gone \cup {c}
      <4>1. c \in Clients /\ Owned' = Owned \ {c} /\ c \in Owned
        BY <3>4
      <4>2. \A u, v \in Workers : u # v => own'[u] \cap own'[v] = {}
        BY <3>1, <3>4
      <4> QED  BY <3>1, <3>4, <4>1, <4>2
    <3> QED  BY <3>2, <3>3, <3>4
  <2>2. CASE PopTask(w)
    <3>1. CASE task_queue = <<>>  BY <1>0, <2>2, <3>1 DEF PopTask
    <3>2. CASE task_queue # <<>>
      <4> DEFINE h == Head(task_queue)
      <4>1. /\ Elems(task_queue) = Elems(Tail(task_queue)) \cup {h}
            /\ h \notin Elems(Tail(task_queue)) /\ h \in Clients
            /\ NoRepeats(Tail(task_queue))
        BY <3>2, TailElems
      <4>2. /\ task_queue' = Tail(task_queue)
            /\ own' = [own EXCEPT ![w] = @ \cup {h}]
            /\ UNCHANGED <<hand, waiting, gone>>
        BY <2>2, <3>2 DEF PopTask
      <4> HIDE DEF h
      <4>3. Owned' = Owned \cup {h} /\ h \notin Owned
        BY <4>1, <4>2
      <4>4. \A u, v \in Workers : u # v => own'[u] \cap own'[v] = {}
        BY <4>1, <4>2, <4>3
      <4> QED  BY <4>1, <4>2, <4>3, <4>4
    <3> QED  BY <3>1, <3>2
  <2>3. CASE StopWorker(w)
    <3>1. /\ gone' = gone \cup own[w] /\ own' = [own EXCEPT ![w] = {}]
          /\ UNCHANGED <<task_queue, hand, waiting>>
      BY <2>3 DEF StopWorker
    <3>2. Owned' = Owned \ own[w] /\ own[w] \subseteq Owned
      BY <3>1
    <3>3. \A u, v \in Workers : u # v => own'[u] \cap own'[v] = {}
      BY <3>1
    <3> QED  BY <3>1, <3>2, <3>3
  <2>4. CASE \/ InitSucceeds(w) \/ InitFails(w) \/ EnterPoll(w) \/ ReadPipe(w)
             \/ PollPipe(w) \/ PollInvalid(w) \/ PollTimeout(w)
    BY <1>0, <2>4
       DEF InitSucceeds, InitFails, EnterPoll, ReadPipe, PollPipe,
           PollInvalid, PollTimeout, LeavePoll
  <2> QED  BY <1>1, <2>1, <2>2, <2>3, <2>4 DEF WorkerStep
<1>2. CASE MainStep
  <2>1. ASSUME NEW w \in Workers, CreateThread(w) \/ CreateFails(w)
        PROVE  SingleOwner' /\ NoClientForgotten'
    BY <1>0, <2>1 DEF CreateThread, CreateFails
  <2>2. CASE \/ CountThread \/ InitListener \/ StopMain \/ Sigpipe
             \/ NotifyWorkers \/ StopNotify \/ CleanUpSetStop
    BY <1>0, <2>2
       DEF CountThread, InitListener, StopMain, Sigpipe, NotifyWorkers,
           StopNotify, CleanUpSetStop
  <2>3. CASE SubmitTask
    <3>1. /\ hand \in Clients /\ hand' = NoClient
          /\ UNCHANGED <<waiting, own>>
      BY <2>3 DEF SubmitTask
    <3>2. CASE task_queue' = Append(task_queue, hand) /\ UNCHANGED gone
      <4>1. /\ Elems(task_queue') = Elems(task_queue) \cup {hand}
            /\ NoRepeats(task_queue')
        BY <3>1, <3>2, AppendElems
      <4>2. NoClient \notin Elems(task_queue') \cup Owned'
        <5>1. NoClient \notin Elems(task_queue)  BY DEF Elems
        <5> QED  BY <3>1, <4>1, <5>1
      <4> QED  BY <3>1, <3>2, <4>1, <4>2
    <3>3. CASE gone' = gone \cup {hand} /\ UNCHANGED task_queue
      <4>1. NoClient \notin Elems(task_queue) \cup Owned
        BY DEF Elems
      <4> QED  BY <3>1, <3>3, <4>1
    <3> QED  BY <2>3, <3>2, <3>3 DEF SubmitTask
  <2>4. CASE CleanUp
    <3>1. /\ task_queue' = <<>> /\ gone' = gone \cup Elems(task_queue)
          /\ UNCHANGED <<hand, waiting, own>> /\ mpc = "join"
      BY <2>4 DEF CleanUp
    <3>2. Elems(<<>>) = {} /\ NoRepeats(<<>>)
      BY DEF Elems, NoRepeats
    <3>3. hand = NoClient  BY <3>1
    <3>4. NoClient \notin Elems(task_queue)  BY DEF Elems
    <3> QED  BY <3>1, <3>2, <3>3, <3>4
  <2>5. ASSUME NEW c \in Clients, AcceptNewClient(c)
        PROVE  SingleOwner' /\ NoClientForgotten'
    <3>1. /\ hand = NoClient /\ c \in waiting /\ waiting' = waiting \ {c}
          /\ hand' = c /\ UNCHANGED <<task_queue, own, gone>>
      BY <2>5 DEF AcceptNewClient
    <3>2. c \notin gone
      BY <3>1
    <3> QED  BY <3>1, <3>2
  <2>6. ASSUME NEW c \in Clients, AcceptFails(c)
        PROVE  SingleOwner' /\ NoClientForgotten'
    BY <2>6 DEF AcceptFails
  <2> QED
    BY <1>2, <2>1, <2>2, <2>3, <2>4, <2>5, <2>6 DEF MainStep, MainWork
<1>3. CASE UNCHANGED vars  BY <1>0, <1>3 DEF vars
<1> QED  BY <1>1, <1>2, <1>3 DEF Next, Ended

-----------------------------------------------------------------------------
(* Cardinalities after one thread reaches or leaves its pop.               *)
LEMMA OnePendingMore ==
  ASSUME NEW S, IsFiniteSet(S), NEW x, x \notin S
  PROVE  Cardinality(S \cup {x}) = Cardinality(S) + 1
BY FS_AddElement, Zenon

(* The opposite direction.                                                 *)
LEMMA OnePendingLess ==
  ASSUME NEW S, IsFiniteSet(S), NEW x, x \in S
  PROVE  Cardinality(S \ {x}) = Cardinality(S) - 1
BY FS_RemoveElement, Zenon

(* Every step keeps a byte for every task: a read moves one from the pipe  *)
(* to the reading thread, a pop uses it up together with a task, a submit  *)
(* creates both.                                                           *)
LEMMA NextBytes == IInv /\ [Next]_vars => ByteForTask'
<1> SUFFICES ASSUME IInv, [Next]_vars PROVE ByteForTask'
  OBVIOUS
<1> DEFINE P == Cardinality(PopPending)
<1>a. TypeOK /\ PoolPhases /\ SingleOwner /\ ByteForTask
  BY DEF IInv
<1>b. IsFiniteSet(PopPending) /\ P \in Nat
  BY PendingFinite
<1>c. pipe \in Nat /\ Len(task_queue) \in Nat /\ NotifyPending \in {0, 1}
  BY <1>a DEF TypeOK, NotifyPending
<1>0. ASSUME UNCHANGED <<task_queue, pipe, is_stop, PopPending, NotifyPending>>,
             mpc' # "killed" => mpc # "killed"
      PROVE  ByteForTask'
  BY <1>a, <1>0 DEF ByteForTask
<1>1. ASSUME NEW w \in Workers, WorkerStep(w) PROVE ByteForTask'
  <2>0. UNCHANGED <<mpc, NotifyPending, is_stop>>
    BY <1>1
       DEF WorkerStep, InitSucceeds, InitFails, EnterPoll, PollPipe,
           PollInvalid, PollClient, PollTimeout, LeavePoll, ReadPipe,
           PopTask, StopWorker, NotifyPending
  <2>1. CASE ReadPipe(w)
    <3>1. CASE pipe > 0 /\ start_fd
      <4>1. pipe' = pipe - 1 /\ UNCHANGED task_queue
        BY <2>1, <3>1 DEF ReadPipe
      <4>2. PopPending' = PopPending \cup {w} /\ w \notin PopPending
        <5>1. wpc[w] = "read" /\ wpc' = [wpc EXCEPT ![w] = "pop"]
          BY <2>1, <3>1 DEF ReadPipe, WGoto
        <5> QED  BY <1>a, <5>1 DEF PopPending, TypeOK
      <4>3. P' = P + 1  BY <1>b, <4>2, OnePendingMore
      <4> QED
        BY <1>a, <1>b, <1>c, <2>0, <4>1, <4>3 DEF ByteForTask
    <3>2. CASE ~(pipe > 0 /\ start_fd)
      <4>1. UNCHANGED <<pipe, task_queue>>
        BY <2>1, <3>2 DEF ReadPipe
      <4>2. PopPending' = PopPending
        <5>1. wpc[w] = "read" /\ wpc' = [wpc EXCEPT ![w] = "loop"]
          BY <2>1, <3>2 DEF ReadPipe, WGoto
        <5> QED  BY <1>a, <5>1 DEF PopPending, TypeOK
      <4> QED  BY <1>0, <2>0, <4>1, <4>2
    <3> QED  BY <3>1, <3>2
  <2>2. CASE PopTask(w)
    <3>1. PopPending' = PopPending \ {w} /\ w \in PopPending /\ UNCHANGED pipe
      <4>1. wpc[w] = "pop" /\ wpc' = [wpc EXCEPT ![w] = "loop"]
        BY <2>2 DEF PopTask, WGoto
      <4> QED  BY <1>a, <2>2, <4>1 DEF PopPending, TypeOK, PopTask
    <3>2. P' = P - 1 /\ P >= 1
      <4>1. P # 0  BY <1>b, <3>1, FS_EmptySet
      <4> QED  BY <1>b, <3>1, <4>1, OnePendingLess
    <3>3. CASE task_queue = <<>>
      <4>1. Len(task_queue) = 0 /\ Len(task_queue') = 0
        BY <2>2, <3>3 DEF PopTask
      <4> QED  BY <1>a, <1>b, <1>c, <2>0, <3>1, <3>2, <4>1 DEF ByteForTask
    <3>4. CASE task_queue # <<>>
      <4>1. Len(task_queue') = Len(task_queue) - 1
        <5>1. task_queue' = Tail(task_queue) /\ task_queue \in Seq(Clients)
          BY <1>a, <2>2, <3>4 DEF PopTask, TypeOK
        <5> QED  BY <3>4, <5>1
      <4> QED  BY <1>a, <1>b, <1>c, <2>0, <3>1, <3>2, <4>1 DEF ByteForTask
    <3> QED  BY <3>3, <3>4
  <2>3. CASE \/ InitSucceeds(w) \/ InitFails(w) \/ EnterPoll(w)
             \/ PollPipe(w) \/ PollInvalid(w) \/ PollClient(w)
             \/ PollTimeout(w) \/ StopWorker(w)
    <3>1. UNCHANGED <<task_queue, pipe>>
      BY <2>3
         DEF InitSucceeds, InitFails, EnterPoll, PollPipe, PollInvalid,
             PollClient, PollTimeout, LeavePoll, StopWorker
    <3>2. PopPending' = PopPending
      <4>1. \E l \in WorkerPCs \ {"pop"} :
              wpc[w] # "pop" /\ wpc' = [wpc EXCEPT ![w] = l]
        BY <2>3
           DEF InitSucceeds, InitFails, EnterPoll, PollPipe, PollInvalid,
               PollClient, PollTimeout, LeavePoll, StopWorker, WGoto,
               WorkerPCs
      <4> QED  BY <1>a, <4>1 DEF PopPending, TypeOK
    <3> QED  BY <1>0, <2>0, <3>1, <3>2
  <2> QED  BY <1>1, <2>1, <2>2, <2>3 DEF WorkerStep
<1>2. CASE MainStep
  <2>0. PopPending' = PopPending
    <3>1. ASSUME NEW w \in Workers, CreateThread(w) \/ CreateFails(w)
          PROVE  PopPending' = PopPending
      BY <1>a, <3>1 DEF CreateThread, CreateFails, WGoto, PopPending, TypeOK
    <3>2. CASE UNCHANGED wpc  BY <3>2 DEF PopPending
    <3> QED
      BY <1>2, <3>1, <3>2
         DEF MainStep, MainWork, CountThread, InitListener, SubmitTask,
             NotifyWorkers, CleanUpSetStop, StopNotify, Sigpipe, CleanUp,
             AcceptNewClient, AcceptFails, StopMain
  <2>1. CASE SubmitTask
    <3>1. /\ NotifyPending = 0 /\ NotifyPending' = 1
          /\ UNCHANGED <<pipe, is_stop>> /\ mpc # "killed" /\ hand \in Clients
      BY <1>a, <2>1 DEF SubmitTask, NotifyPending, PoolPhases, TypeOK
    <3>2. CASE task_queue' = Append(task_queue, hand)
      <4>1. Len(task_queue') = Len(task_queue) + 1
        BY <1>a, <3>1, <3>2 DEF TypeOK
      <4> QED  BY <1>a, <1>b, <1>c, <2>0, <3>1, <4>1 DEF ByteForTask
    <3>3. CASE InitMayFail /\ UNCHANGED task_queue
      BY <1>a, <1>b, <1>c, <2>0, <3>1, <3>3 DEF ByteForTask
    <3> QED  BY <2>1, <3>2, <3>3 DEF SubmitTask
  <2>2. CASE NotifyWorkers
    <3>1. /\ NotifyPending = 1 /\ NotifyPending' = 0
          /\ pipe' = pipe + 1 /\ UNCHANGED <<task_queue, is_stop>>
          /\ mpc # "killed"
      BY <2>2 DEF NotifyWorkers, NotifyPending
    <3> QED  BY <1>a, <1>b, <1>c, <2>0, <3>1 DEF ByteForTask
  <2>3. CASE StopNotify
    <3>1. /\ NotifyPending' = NotifyPending /\ UNCHANGED <<task_queue, is_stop>>
          /\ mpc = "stopNotify" /\ pipe' \in Nat /\ pipe' >= pipe
      <4>1. real_size \in Int  BY <1>a DEF TypeOK
      <4> QED  BY <1>c, <2>3, <4>1 DEF StopNotify, NotifyPending
    <3>2. Len(task_queue) <= pipe' + P + NotifyPending
      BY <1>a, <1>b, <1>c, <3>1 DEF ByteForTask
    <3>3. CASE is_stop
      BY <2>0, <3>1, <3>2, <3>3 DEF ByteForTask
    <3>4. CASE ~is_stop
      BY <1>a, <2>3, <3>4 DEF PoolPhases, StopNotify
    <3> QED  BY <3>3, <3>4
  <2>4. CASE CleanUpSetStop
    <3>1. /\ UNCHANGED <<task_queue, pipe, NotifyPending>> /\ is_stop'
          /\ mpc # "killed"
      BY <2>4 DEF CleanUpSetStop, NotifyPending
    <3> QED  BY <1>a, <2>0, <3>1 DEF ByteForTask
  <2>5. CASE CleanUp
    <3>1. Len(task_queue') = 0 /\ UNCHANGED <<pipe, is_stop>> /\ mpc = "join"
      BY <2>5 DEF CleanUp
    <3>2. NotifyPending' = 0  BY <2>5 DEF CleanUp, NotifyPending
    <3>3. is_stop  BY <1>a, <3>1 DEF PoolPhases
    <3> QED  BY <1>b, <1>c, <2>0, <3>1, <3>2, <3>3 DEF ByteForTask
  <2>6. CASE Sigpipe  BY <2>6 DEF Sigpipe, ByteForTask
  <2>7. CASE \/ \E w \in Workers : CreateThread(w) \/ CreateFails(w)
             \/ CountThread \/ InitListener \/ StopMain
             \/ \E c \in Clients : AcceptNewClient(c) \/ AcceptFails(c)
    <3>1. UNCHANGED <<task_queue, pipe, is_stop, NotifyPending>>
          /\ mpc # "killed"
      BY <2>7
         DEF CreateThread, CreateFails, CountThread, InitListener, StopMain,
             AcceptNewClient, AcceptFails, NotifyPending
    <3> QED  BY <1>0, <2>0, <3>1
  <2> QED
    BY <1>2, <2>1, <2>2, <2>3, <2>4, <2>5, <2>6, <2>7 DEF MainStep, MainWork
<1>3. CASE UNCHANGED vars
  BY <1>0, <1>3 DEF vars, PopPending, NotifyPending
<1> QED  BY <1>1, <1>2, <1>3 DEF Next, Ended

-----------------------------------------------------------------------------
(* Every reachable state satisfies the inductive invariant.                *)
THEOREM Inductive == Spec => []IInv
<1>1. IInv /\ [Next]_vars => IInv'
  BY NextTypeOK, NextPhases, NextOwners, NextBytes DEF IInv
<1> QED  BY InitIInv, <1>1, PTL DEF Spec

(* The variables of the pool keep their types: the sync pipe never loses    *)
(* more bytes than it holds and the queue holds clients only.               *)
THEOREM TypeCorrect == Spec => []TypeOK
<1>1. IInv => TypeOK  BY DEF IInv
<1> QED  BY Inductive, <1>1, PTL

(* A client descriptor that goes through submitTask and popTask ends up    *)
(* with one thread only, whatever the number of threads that wake up.      *)
THEOREM OneOwner == Spec => []SingleOwner
<1>1. IInv => SingleOwner  BY DEF IInv
<1> QED  BY Inductive, <1>1, PTL

(* Between acceptNewClient and disconnectClient a client is never lost.    *)
THEOREM NoneForgotten == Spec => []NoClientForgotten
<1>1. IInv => NoClientForgotten  BY DEF IInv
<1> QED  BY Inductive, <1>1, PTL

(* The sync pipe holds, or a thread has just read, a byte for every task   *)
(* in the queue; without allocation failures there are exactly as many     *)
(* until the proxy stops.                                                  *)
THEOREM BytesSuffice == Spec => []ByteForTask
<1>1. IInv => ByteForTask  BY DEF IInv
<1> QED  BY Inductive, <1>1, PTL

(* cleanUp frees the shared structures only when every pooled thread has   *)
(* ended.                                                                  *)
THEOREM CleanUpIsLast == Spec => []CleanUpAlone
<1>1. IInv => CleanUpAlone  BY DEF IInv
<1> QED  BY Inductive, <1>1, PTL
=============================================================================
