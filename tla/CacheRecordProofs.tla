------------------------- MODULE CacheRecordProofs --------------------------
(***************************************************************************)
(* Proofs about CacheRecord for any number of threads, clients, URLs and   *)
(* records: the list of records stays a list, a URL has one live record    *)
(* that a walk comes by, no wake-up is lost, and a proxy in which nothing  *)
(* fails never throws a record away.                                       *)
(***************************************************************************)
EXTENDS CacheRecord, FiniteSetTheorems, WellFoundedInduction, TLAPS

-----------------------------------------------------------------------------
(* Sets of numbers: what findFreeServer and the walks along the list need. *)
LEMMA Least ==
  ASSUME NEW T \in SUBSET Nat, T # {}
  PROVE  \E x \in T : \A y \in T : x <= y
<1> DEFINE R == OpToRel(<, Nat)
<1>1. IsWellFoundedOn(R, Nat)
  BY NatLessThanWellFounded
<1>2. \A x, y \in Nat : y < x => <<y, x>> \in R
  BY DEF OpToRel
<1> HIDE DEF R
<1>3. PICK x \in T : \A y \in T : ~(<<y, x>> \in R)
  BY <1>1, WFMin
<1>4. \A y \in T : ~(y < x)
  BY <1>2, <1>3, Zenon
<1> QED  BY <1>4

LEMMA Greatest ==
  ASSUME NEW n \in Nat, NEW T \in SUBSET (0 .. n), T # {}
  PROVE  \E x \in T : \A y \in T : y <= x
<1> DEFINE U == {n - x : x \in T}
<1>1. U \in SUBSET Nat
  OBVIOUS
<1>5. U # {}
  <2>1. PICK x \in T : TRUE  OBVIOUS
  <2>2. n - x \in U  BY <2>1
  <2> QED  BY <2>2
<1>2. PICK u \in U : \A v \in U : u <= v
  BY <1>1, <1>5, Least, Zenon
<1>3. PICK x \in T : u = n - x
  OBVIOUS
<1>4. \A y \in T : n - x <= n - y
  BY <1>2, <1>3
<1> QED  BY <1>4

(* A table of MaxRecords + 1 entries always has a free one for the servers  *)
(* of a thread: FreeSlot is an index.                                      *)
LEMMA FreeSlotIndex ==
  ASSUME TypeOK, NEW w \in Workers
  PROVE  FreeSlot(w) \in Nat
<1> DEFINE Q == {q \in Records : rec[q].server = w}
           S == {rec[q].slot : q \in Q}
           T == (0 .. MaxRecords) \ S
<1>1. MaxRecords \in Nat
  BY CacheAssumption
<1>2. /\ IsFiniteSet(Records) /\ Cardinality(Records) = MaxRecords
      /\ IsFiniteSet(0 .. MaxRecords) /\ Cardinality(0 .. MaxRecords) = MaxRecords + 1
  BY <1>1, FS_Interval DEF Records
<1>3. IsFiniteSet(Q) /\ Cardinality(Q) <= MaxRecords /\ Cardinality(Q) \in Nat
  BY <1>2, FS_Subset, FS_CardinalityType
<1>4. IsFiniteSet(S) /\ Cardinality(S) <= Cardinality(Q) /\ Cardinality(S) \in Nat
  <2> DEFINE f == [q \in Q |-> rec[q].slot]
  <2>1. f \in Surjection(Q, S)
    BY DEF Surjection
  <2> HIDE DEF f, Q, S
  <2> QED  BY <1>3, <2>1, FS_Surjection, FS_CardinalityType
<1>5. T # {}
  <2>1. SUFFICES ASSUME (0 .. MaxRecords) \subseteq S PROVE FALSE
    BY DEF T
  <2> HIDE DEF S
  <2>2. Cardinality(0 .. MaxRecords) <= Cardinality(S)
    BY <1>4, <2>1, FS_Subset
  <2> QED  BY <1>1, <1>2, <1>3, <1>4, <2>2
<1>6. PICK i \in T : \A j \in T : i <= j
  <2>1. T \in SUBSET Nat
    OBVIOUS
  <2> HIDE DEF T
  <2> QED  BY <1>5, <2>1, Least
<1>7. \A q \in Records : rec[q].server = w => rec[q].slot # i
  BY <1>6
<1>8. \A j \in 0 .. (i - 1) : j \in S
  BY <1>1, <1>6
<1>9. \A j \in 0 .. (i - 1) : \E q \in Records : rec[q].server = w /\ rec[q].slot = j
  BY <1>8
<1>10. FreeSlot(w) \in 0 .. MaxRecords
  BY <1>7, <1>9 DEF FreeSlot
<1> QED  BY <1>10

-----------------------------------------------------------------------------
(* A step of a thread.                                                     *)
Act(w) == Scan(w) \/ Serve(w) \/ Environment(w)

(* A handler that meets undefined behaviour changes nothing else.          *)
LEMMA BadStep ==
  ASSUME NEW w \in Workers, Act(w), bad' # "none"
  PROVE  UNCHANGED <<head, mutex, rec, cl, thr, event>> /\ bad' \in {"freed", "null"}
<1>1. ASSUME Scan(w) PROVE UNCHANGED <<head, mutex, rec, cl, thr, event>> /\ bad' = "freed"
  BY <1>1 DEF Scan, At, UsesFreed, LockList, ReapNode, PassNode, NextNode,
     AttachClient, CheckAttached, PublishRecord, ConnectServer
<1>2. ASSUME Serve(w) PROVE UNCHANGED <<head, mutex, rec, cl, thr, event>> /\ bad' = "freed"
  <2>1. ASSUME NEW r \in Records, WriteToServer(w, r) \/ ReadFromServer(w, r) \/ ServerEof(w, r)
        PROVE  UsesFreed(w, r)
    BY <2>1 DEF Serving, At, WriteToServer, ReadFromServer, ServerEof
  <2>2. ASSUME NEW c \in Clients, TestRecord(w, c)
        PROVE  UsesFreed(w, cl[c].record)
    BY <2>2 DEF At, TestRecord
  <2>3. ASSUME WakeClient(w)
        PROVE  \E r : UsesFreed(w, r)
    BY <2>3 DEF At, WakeClient
  <2>4. ASSUME \/ NotifySubscribers(w) \/ DisconnectServer(w)
               \/ FreeFailedRecord(w) \/ WriteToClient(w) \/ ClearPollout(w)
        PROVE  UsesFreed(w, thr[w].at)
    BY <2>4 DEF At, NotifySubscribers, DisconnectServer, FreeFailedRecord,
       WriteToClient, ClearPollout
  <2>5. ~ReadEvent(w) /\ ~WakeDone(w)
    BY DEF At, ReadEvent, WakeDone
  <2> QED  BY <1>2, <2>1, <2>2, <2>3, <2>4, <2>5 DEF Serve, UsesFreed
<1>3. ASSUME Environment(w) PROVE UNCHANGED <<head, mutex, rec, cl, thr, event>> /\ bad' = "null"
  BY <1>3 DEF Environment, Serving, At, ClientCloses, ReadRequest,
     WriteToServerFails, ReadFromServerFails, PublishFails, ConnectFails
<1> QED  BY <1>1, <1>2, <1>3 DEF Act

(* The thread's own variables and its own clients are all that it changes  *)
(* besides the shared state.                                               *)
Local(w) ==
  /\ \A v \in Workers : v # w => thr'[v] = thr[v]
  /\ \A c \in Clients : Owner[c] # w => cl'[c] = cl[c]

(* The links, URLs and allocation of the records stay as they are; a record *)
(* may be thrown away.                                                     *)
Unmoved ==
  /\ head' = head
  /\ \A r \in Records :
       /\ rec'[r].next = rec[r].next /\ rec'[r].url = rec[r].url
       /\ rec'[r].mem = "none" <=> rec[r].mem = "none"
       /\ rec'[r].mem = "live" => rec[r].mem = "live"
       /\ rec[r].mem = "freed" => rec'[r].mem = "freed"

(* freeCacheRecord takes records out of a servers table and throws one away. *)
LEMMA FreedRecord ==
  ASSUME TypeOK, NEW w \in Workers, NEW r \in Alloc,
         NEW m \in {"invalid", "freed"}, ~Freed(r), FreeCacheRecord(w, r, m),
         head' = head
  PROVE  /\ rec' \in [Records -> RecordType]
         /\ event' \subseteq Workers /\ event \subseteq event'
         /\ Unmoved
         /\ rec'[r].mem = m
         /\ \A q \in Records :
              /\ q # r => /\ rec'[q].mem = rec[q].mem /\ rec'[q].len = rec[q].len
                         /\ rec'[q].subs = rec[q].subs
              /\ rec'[q].server \in {rec[q].server, Nobody}
              /\ rec'[q].len \in {rec[q].len, 0}
              /\ rec'[q].full = rec[q].full
<1>1. r \in Records /\ rec \in [Records -> RecordType] /\ event \subseteq Workers
  BY DEF TypeOK, Alloc
<1>2. 0 \in 0 .. RespLen
  BY CacheAssumption
<1>3. \A q \in Records : rec[q].subs \subseteq Workers
  BY <1>1 DEF RecordType
<1> DEFINE server(q) == IF q \in Victims(w, r) THEN Nobody ELSE rec[q].server
<1>4. rec' = [q \in Records |->
         IF q = r
         THEN [rec[q] EXCEPT !.mem = m, !.len = 0, !.subs = {}, !.server = server(q)]
         ELSE [rec[q] EXCEPT !.server = server(q)]]
  BY DEF FreeCacheRecord
<1>5. \A q \in Records : server(q) \in {rec[q].server, Nobody}
  OBVIOUS
<1> HIDE DEF server
<1>6. rec' \in [Records -> RecordType]
  <2>1. ASSUME NEW q \in Records PROVE rec'[q] \in RecordType
    <3>1. rec[q] \in RecordType /\ server(q) \in Workers \cup {Nobody}
      BY <1>1, <1>5 DEF RecordType
    <3>2. CASE q = r
      <4>1. rec'[q] = [rec[q] EXCEPT !.mem = m, !.len = 0, !.subs = {},
                                     !.server = server(q)]
        BY <1>4, <3>2
      <4> QED  BY <1>2, <3>1, <4>1 DEF RecordType
    <3>3. CASE q # r
      <4>1. rec'[q] = [rec[q] EXCEPT !.server = server(q)]
        BY <1>4, <3>3
      <4> QED  BY <3>1, <4>1 DEF RecordType
    <3> QED  BY <3>2, <3>3
  <2> QED  BY <1>4, <2>1
<1>7. event' \subseteq Workers /\ event \subseteq event'
  <2>1. Victims(w, r) \subseteq Records
    BY DEF Victims
  <2> QED  BY <1>1, <1>3, <2>1 DEF FreeCacheRecord
<1>8. \A q \in Records :
        /\ rec'[q].next = rec[q].next /\ rec'[q].url = rec[q].url
        /\ rec'[q].full = rec[q].full
        /\ q # r => /\ rec'[q].mem = rec[q].mem /\ rec'[q].len = rec[q].len
                   /\ rec'[q].subs = rec[q].subs
        /\ rec'[q].server \in {rec[q].server, Nobody}
        /\ rec'[q].len \in {rec[q].len, 0}
  BY <1>1, <1>4, <1>5 DEF RecordType
<1>9. rec'[r].mem = m
  BY <1>1, <1>4 DEF RecordType
<1> QED  BY <1>6, <1>7, <1>8, <1>9 DEF Unmoved, Alloc, Freed

-----------------------------------------------------------------------------
(* Type correctness.                                                       *)
LEMMA MoveTypes ==
  ASSUME TypeOK, NEW w \in Workers
  PROVE  /\ Return(w) => thr' \in [Workers -> ThreadType]
         /\ \A l \in ThreadPCs : Goto(w, l) => thr' \in [Workers -> ThreadType]
         /\ \A l \in ThreadPCs, r \in Records \cup {Nil} :
              GotoWith(w, l, r) => thr' \in [Workers -> ThreadType]
         /\ \A c \in Clients : Disconnect(c) => cl' \in [Clients -> ClientType]
<1>1. thr \in [Workers -> ThreadType] /\ cl \in [Clients -> ClientType]
  BY DEF TypeOK
<1>2. Polling \in ThreadType
  BY DEF Polling, ThreadType, ThreadPCs
<1>3. Return(w) => thr' \in [Workers -> ThreadType]
  BY <1>1, <1>2 DEF Return
<1>4. ASSUME NEW l \in ThreadPCs, Goto(w, l) PROVE thr' \in [Workers -> ThreadType]
  <2>1. [thr[w] EXCEPT !.pc = l] \in ThreadType
    BY <1>1 DEF ThreadType
  <2> QED  BY <1>1, <1>4, <2>1 DEF Goto
<1>5. ASSUME NEW l \in ThreadPCs, NEW r \in Records \cup {Nil}, GotoWith(w, l, r)
      PROVE  thr' \in [Workers -> ThreadType]
  <2>1. [thr[w] EXCEPT !.pc = l, !.at = r] \in ThreadType
    BY <1>1 DEF ThreadType
  <2> QED  BY <1>1, <1>5, <2>1 DEF GotoWith
<1>6. ASSUME NEW c \in Clients, Disconnect(c) PROVE cl' \in [Clients -> ClientType]
  <2>1. 0 \in 0 .. RespLen /\ cl[c] \in ClientType
    BY <1>1, CacheAssumption
  <2>2. [cl[c] EXCEPT !.fd = FALSE, !.record = Nil, !.idx = 0, !.out = FALSE]
          \in ClientType
    BY <2>1 DEF ClientType
  <2> QED  BY <1>1, <1>6, <2>2 DEF Disconnect
<1> QED  BY <1>3, <1>4, <1>5, <1>6

(* What the shorthands for the control flow and a disconnection assign.     *)
LEMMA MoveEffects ==
  ASSUME TypeOK, NEW w \in Workers
  PROVE  /\ Return(w) => thr'[w] = Polling /\ thr'[w].pc = "poll"
         /\ \A l : Goto(w, l) => /\ thr'[w].pc = l /\ thr'[w].at = thr[w].at
                                 /\ thr'[w].c = thr[w].c
         /\ \A l, r : GotoWith(w, l, r) => /\ thr'[w].pc = l /\ thr'[w].at = r
                                           /\ thr'[w].c = thr[w].c
         /\ \A c \in Clients : Disconnect(c) =>
              /\ \A d \in Clients : d # c => cl'[d] = cl[d]
              /\ cl'[c].record = Nil /\ cl'[c].idx = 0 /\ cl'[c].out = FALSE
<1>1. /\ cl \in [Clients -> ClientType] /\ thr \in [Workers -> ThreadType]
      /\ thr[w] \in ThreadType
  BY DEF TypeOK
<1>2. Return(w) => thr'[w] = Polling /\ thr'[w].pc = "poll"
  BY <1>1 DEF Return, Polling
<1>3. ASSUME NEW l, Goto(w, l)
      PROVE  thr'[w].pc = l /\ thr'[w].at = thr[w].at /\ thr'[w].c = thr[w].c
  BY <1>1, <1>3 DEF Goto, ThreadType
<1>4. ASSUME NEW l, NEW r, GotoWith(w, l, r)
      PROVE  thr'[w].pc = l /\ thr'[w].at = r /\ thr'[w].c = thr[w].c
  BY <1>1, <1>4 DEF GotoWith, ThreadType
<1>5. ASSUME NEW c \in Clients, Disconnect(c)
      PROVE  /\ \A d \in Clients : d # c => cl'[d] = cl[d]
             /\ cl'[c].record = Nil /\ cl'[c].idx = 0 /\ cl'[c].out = FALSE
  <2>1. cl' = [cl EXCEPT ![c] = [cl[c] EXCEPT !.fd = FALSE, !.record = Nil, !.idx = 0,
                                              !.out = FALSE]]
    BY <1>1, <1>5 DEF Disconnect
  <2>2. cl'[c] = [cl[c] EXCEPT !.fd = FALSE, !.record = Nil, !.idx = 0, !.out = FALSE]
    BY <1>1, <2>1
  <2>3. cl[c] \in ClientType
    BY <1>1
  <2>4. cl'[c].record = Nil /\ cl'[c].idx = 0 /\ cl'[c].out = FALSE
    BY <2>2, <2>3 DEF ClientType
  <2> QED  BY <1>1, <2>1, <2>4
<1> QED  BY <1>2, <1>3, <1>4, <1>5

LEMMA TypeScan ==
  ASSUME TypeOK, ThreadsOK, NEW w \in Workers, Scan(w), bad' = "none"
  PROVE  TypeOK'
<1> USE DEF At
<1>1. /\ head \in Records \cup {Nil} /\ mutex \in Workers \cup {Nobody}
      /\ rec \in [Records -> RecordType] /\ cl \in [Clients -> ClientType]
      /\ thr \in [Workers -> ThreadType] /\ event \subseteq Workers
  BY DEF TypeOK
<1>2. /\ thr[w].c \in Clients \cup {NoClient} /\ thr[w].url \in Urls \cup {NoUrl}
      /\ thr[w].at \in Records \cup {Nil} /\ thr[w].prev \in Records \cup {Nil}
      /\ ThreadPCs = {"poll", "lock", "visit", "relock", "attach", "connect",
             "notify", "eof", "drop", "dropNotify", "free", "write", "clear", "wake"}
  BY <1>1 DEF ThreadType, ThreadPCs
<1>3. \A r \in Records : rec[r].next \in Records \cup {Nil}
  BY <1>1 DEF RecordType
<1>4. 0 \in 0 .. RespLen /\ Nil \notin Records
  BY CacheAssumption DEF Nil, Records
<1>5. thr[w].pc \in {"visit", "attach", "connect"} => thr[w].c \in Clients
  BY DEF ThreadsOK, ThreadOK
<1>6. CASE LockList(w)
  <2>1. [thr[w] EXCEPT !.pc = "visit", !.at = head, !.prev = Nil] \in ThreadType
    BY <1>1, <1>2 DEF ThreadType
  <2> QED  BY <1>1, <1>6, <2>1 DEF LockList, TypeOK
<1>7. CASE ReapNode(w)
  <2>1. thr[w].at \in Records /\ ~Freed(thr[w].at) /\ head' = head
    BY <1>2, <1>7 DEF ReapNode, UsesFreed, Freed
  <2>2. thr[w].at \in Alloc
    BY <1>7, <2>1 DEF ReapNode, Alloc, UsesFreed
  <2>3. FreeCacheRecord(w, thr[w].at, "freed")
    BY <1>7, <2>1 DEF ReapNode, UsesFreed
  <2>4. rec' \in [Records -> RecordType] /\ event' \subseteq Workers
    BY <2>1, <2>2, <2>3, FreedRecord
  <2>5. thr' \in [Workers -> ThreadType]
    BY <1>2, <1>3, <1>7, <2>1, MoveTypes DEF ReapNode, UsesFreed
  <2> QED  BY <1>1, <1>7, <2>1, <2>4, <2>5 DEF ReapNode, UsesFreed, TypeOK
<1>8. CASE PassNode(w)
  <2>1. thr' \in [Workers -> ThreadType]
    BY <1>2, <1>8, MoveTypes DEF PassNode
  <2> QED  BY <1>1, <1>8, <2>1 DEF PassNode, TypeOK
<1>9. CASE NextNode(w)
  <2>1. thr[w].at \in Records
    BY <1>9 DEF NextNode, ThreadsOK, ThreadOK, Alloc
  <2>2. [thr[w] EXCEPT !.pc = "visit", !.prev = thr[w].at, !.at = rec[thr[w].at].next]
          \in ThreadType
    BY <1>1, <1>2, <1>3, <2>1 DEF ThreadType
  <2> QED  BY <1>1, <1>9, <2>2 DEF NextNode, UsesFreed, TypeOK
<1>10. CASE AttachClient(w)
  <2>1. thr' \in [Workers -> ThreadType]
    BY <1>2, <1>10, MoveTypes DEF AttachClient
  <2>2. thr[w].at \in Records /\ thr[w].c \in Clients
    BY <1>2, <1>5, <1>10 DEF AttachClient
  <2>3. [cl[thr[w].c] EXCEPT !.record = thr[w].at, !.idx = 0] \in ClientType
    BY <1>1, <1>4, <2>2 DEF ClientType
  <2>4. [rec[thr[w].at] EXCEPT !.subs = @ \cup {w}] \in RecordType
    BY <1>1, <2>2 DEF RecordType
  <2> QED  BY <1>1, <1>10, <2>1, <2>2, <2>3, <2>4 DEF AttachClient, TypeOK
<1>11. CASE CheckAttached(w)
  <2>1. thr' \in [Workers -> ThreadType]
    BY <1>11, MoveTypes DEF CheckAttached
  <2>2. thr[w].at \in Records /\ thr[w].c \in Clients
    BY <1>11 DEF CheckAttached, ThreadsOK, ThreadOK, Alloc
  <2>3. [cl[thr[w].c] EXCEPT !.out = @ \/ rec[thr[w].at].len # 0] \in ClientType
    BY <1>1, <2>2 DEF ClientType
  <2> QED  BY <1>1, <1>11, <2>1, <2>2, <2>3 DEF CheckAttached, TypeOK
<1>12. CASE PublishRecord(w)
  <2>1. PICK r \in Records :
          /\ rec' = [q \in Records |->
               IF q = r THEN [EmptyRecord EXCEPT !.mem = "live", !.url = thr[w].url]
               ELSE IF q = thr[w].prev THEN [rec[q] EXCEPT !.next = r]
               ELSE rec[q]]
          /\ head' = IF thr[w].prev = Nil THEN r ELSE head
          /\ GotoWith(w, "connect", r)
    BY <1>12 DEF PublishRecord
  <2>2. [EmptyRecord EXCEPT !.mem = "live", !.url = thr[w].url] \in RecordType
    BY <1>2, <1>4 DEF EmptyRecord, RecordType
  <2>3. \A q \in Records : [rec[q] EXCEPT !.next = r] \in RecordType
    BY <1>1 DEF RecordType
  <2>4. rec' \in [Records -> RecordType]
    BY <1>1, <2>1, <2>2, <2>3
  <2>5. thr' \in [Workers -> ThreadType]
    BY <1>2, <2>1, MoveTypes
  <2> QED  BY <1>1, <1>12, <2>1, <2>4, <2>5 DEF PublishRecord, TypeOK
<1>13. CASE ConnectServer(w)
  <2>1. thr' \in [Workers -> ThreadType]
    BY <1>13, MoveTypes DEF ConnectServer, UsesFreed
  <2>2. thr[w].at \in Records /\ thr[w].c \in Clients
    BY <1>13 DEF ConnectServer, ThreadsOK, ThreadOK, Alloc
  <2>3. [cl[thr[w].c] EXCEPT !.record = thr[w].at, !.idx = 0] \in ClientType
    BY <1>1, <1>4, <2>2 DEF ClientType
  <2>4. PICK i \in Nat, U \in SUBSET Workers :
          rec' = [rec EXCEPT ![thr[w].at].server = w, ![thr[w].at].slot = i,
                             ![thr[w].at].subs = U]
    <3>1. FreeSlot(w) \in Nat
      BY FreeSlotIndex
    <3>2. rec[thr[w].at].subs \cup {w} \in SUBSET Workers /\ rec[thr[w].at].subs \in SUBSET Workers
      BY <1>1, <2>2 DEF RecordType
    <3>3. rec' = [rec EXCEPT ![thr[w].at].server = w, ![thr[w].at].slot = FreeSlot(w),
                    ![thr[w].at].subs = IF rec[thr[w].at].mem = "live"
                                        THEN @ \cup {w} ELSE @]
      BY <1>13 DEF ConnectServer, UsesFreed
    <3>4. CASE rec[thr[w].at].mem = "live"
      BY <3>1, <3>2, <3>3, <3>4
    <3>5. CASE rec[thr[w].at].mem # "live"
      BY <3>1, <3>2, <3>3, <3>5
    <3> QED  BY <3>4, <3>5
  <2>5. [rec[thr[w].at] EXCEPT !.server = w, !.slot = i, !.subs = U] \in RecordType
    <3>1. rec[thr[w].at] \in RecordType
      BY <1>1, <2>2
    <3> QED  BY <3>1 DEF RecordType
  <2>6. rec' \in [Records -> RecordType]
    BY <1>1, <2>2, <2>4, <2>5
  <2>7. cl' \in [Clients -> ClientType]
    BY <1>1, <1>13, <2>2, <2>3 DEF ConnectServer, UsesFreed
  <2> QED  BY <1>1, <1>13, <2>1, <2>6, <2>7 DEF ConnectServer, UsesFreed, TypeOK
<1> QED  BY <1>6, <1>7, <1>8, <1>9, <1>10, <1>11, <1>12, <1>13 DEF Scan

LEMMA TypeServe ==
  ASSUME TypeOK, ThreadsOK, NEW w \in Workers, Serve(w), bad' = "none"
  PROVE  TypeOK'
<1> USE DEF At
<1>1. /\ head \in Records \cup {Nil} /\ mutex \in Workers \cup {Nobody}
      /\ rec \in [Records -> RecordType] /\ cl \in [Clients -> ClientType]
      /\ thr \in [Workers -> ThreadType] /\ event \subseteq Workers
  BY DEF TypeOK
<1>2. /\ thr[w].c \in Clients \cup {NoClient} /\ thr[w].at \in Records \cup {Nil}
      /\ ThreadPCs = {"poll", "lock", "visit", "relock", "attach", "connect",
             "notify", "eof", "drop", "dropNotify", "free", "write", "clear", "wake"}
  BY <1>1 DEF ThreadType, ThreadPCs
<1>3. /\ thr[w].pc \in {"free", "write", "clear"} => thr[w].c \in Clients
      /\ thr[w].pc \in {"notify", "eof", "drop", "dropNotify", "free", "write", "clear"}
           => thr[w].at \in Records
  BY DEF ThreadsOK, ThreadOK, Alloc
<1>4. CASE \E r \in Records :
             WriteToServer(w, r) \/ ReadFromServer(w, r) \/ ServerEof(w, r)
  <2>1. PICK r \in Records :
          WriteToServer(w, r) \/ ReadFromServer(w, r) \/ ServerEof(w, r)
    BY <1>4
  <2>2. rec[r] \in RecordType
    BY <1>1
  <2>3. /\ [rec[r] EXCEPT !.sent = TRUE] \in RecordType
        /\ [rec[r] EXCEPT !.full = TRUE] \in RecordType
        /\ rec[r].len < RespLen => [rec[r] EXCEPT !.len = @ + 1] \in RecordType
    <3>1. rec[r].len < RespLen => rec[r].len + 1 \in 0 .. RespLen
      BY <2>2, CacheAssumption DEF RecordType
    <3> QED  BY <2>2, <3>1 DEF RecordType
  <2>4. CASE WriteToServer(w, r)
    BY <1>1, <2>3, <2>4 DEF WriteToServer, UsesFreed, TypeOK
  <2>5. CASE ReadFromServer(w, r)
    <3>1. thr' \in [Workers -> ThreadType]
      BY <1>2, <2>5, MoveTypes DEF ReadFromServer, UsesFreed
    <3> QED  BY <1>1, <2>3, <2>5, <3>1 DEF ReadFromServer, UsesFreed, TypeOK
  <2>6. CASE ServerEof(w, r)
    <3>1. thr' \in [Workers -> ThreadType]
      BY <1>2, <2>6, MoveTypes DEF ServerEof, UsesFreed
    <3> QED  BY <1>1, <2>3, <2>6, <3>1 DEF ServerEof, UsesFreed, TypeOK
  <2> QED  BY <2>1, <2>4, <2>5, <2>6
<1>5. CASE NotifySubscribers(w)
  <2>1. thr' \in [Workers -> ThreadType]
    BY <1>2, <1>5, MoveTypes DEF NotifySubscribers, UsesFreed
  <2>2. rec[thr[w].at].subs \subseteq Workers
    BY <1>1, <1>3, <1>5 DEF NotifySubscribers, RecordType
  <2> QED  BY <1>1, <1>5, <2>1, <2>2 DEF NotifySubscribers, UsesFreed, TypeOK
<1>6. CASE DisconnectServer(w)
  <2>1. thr' \in [Workers -> ThreadType]
    BY <1>2, <1>6, MoveTypes DEF DisconnectServer, UsesFreed
  <2>2. rec[thr[w].at] \in RecordType
    BY <1>1, <1>3, <1>6 DEF DisconnectServer
  <2>3. [rec[thr[w].at] EXCEPT !.server = Nobody] \in RecordType
    BY <2>2 DEF RecordType
  <2> QED  BY <1>1, <1>6, <2>1, <2>3 DEF DisconnectServer, UsesFreed, TypeOK
<1>7. CASE \E c \in Clients : TestRecord(w, c)
  <2>1. PICK c \in Clients : TestRecord(w, c)
    BY <1>7
  <2>2. CASE cl[c].record = Nil
    <3>1. cl' \in [Clients -> ClientType]
      BY <2>1, <2>2, MoveTypes DEF TestRecord
    <3> QED  BY <1>1, <2>1, <2>2, <3>1 DEF TestRecord, TypeOK
  <2>3. CASE cl[c].record # Nil
    <3>1. cl[c].record \in Records
      BY <1>1, <2>3 DEF ClientType
    <3>2. PICK l \in {"free", "write"} :
            thr' = [thr EXCEPT ![w].c = c, ![w].at = cl[c].record, ![w].pc = l]
      BY <2>1, <2>3 DEF TestRecord, UsesFreed
    <3>3. [thr[w] EXCEPT !.c = c, !.at = cl[c].record, !.pc = l] \in ThreadType
      <4>1. thr[w] \in ThreadType
        BY <1>1
      <4> QED  BY <1>2, <3>1, <4>1 DEF ThreadType
    <3>4. thr' \in [Workers -> ThreadType]
      BY <1>1, <3>2, <3>3
    <3> QED  BY <1>1, <2>1, <2>3, <3>4 DEF TestRecord, UsesFreed, TypeOK
  <2> QED  BY <2>2, <2>3
<1>8. CASE FreeFailedRecord(w)
  <2>1. /\ thr[w].at \in Alloc /\ ~Freed(thr[w].at) /\ head' = head
        /\ FreeCacheRecord(w, thr[w].at, "invalid")
    BY <1>8 DEF FreeFailedRecord, ThreadsOK, ThreadOK, UsesFreed
  <2>2. rec' \in [Records -> RecordType] /\ event' \subseteq Workers
    BY <2>1, FreedRecord
  <2>3. cl' \in [Clients -> ClientType] /\ thr' \in [Workers -> ThreadType]
    BY <1>3, <1>8, MoveTypes DEF FreeFailedRecord, UsesFreed
  <2> QED  BY <1>1, <1>8, <2>2, <2>3 DEF FreeFailedRecord, UsesFreed, TypeOK
<1>9. CASE WriteToClient(w)
  <2>1. thr[w].at \in Records /\ thr[w].c \in Clients
    BY <1>3, <1>9 DEF WriteToClient
  <2>2. thr' \in [Workers -> ThreadType]
    BY <1>2, <1>9, MoveTypes DEF WriteToClient, UsesFreed
  <2>3. CASE Disconnect(thr[w].c)
    <3>1. cl' \in [Clients -> ClientType]
      BY <2>1, <2>3, MoveTypes
    <3> QED  BY <1>1, <1>9, <2>2, <3>1 DEF WriteToClient, UsesFreed, TypeOK
  <2>4. CASE \E i \in cl[thr[w].c].idx .. rec[thr[w].at].len :
               cl' = [cl EXCEPT ![thr[w].c].idx = i]
    <3>1. PICK i \in cl[thr[w].c].idx .. rec[thr[w].at].len :
               cl' = [cl EXCEPT ![thr[w].c].idx = i]
      BY <2>4
    <3>2. cl[thr[w].c] \in ClientType /\ rec[thr[w].at] \in RecordType
      BY <1>1, <2>1
    <3>3. i \in 0 .. RespLen
      BY <3>1, <3>2, CacheAssumption DEF ClientType, RecordType
    <3>4. [cl[thr[w].c] EXCEPT !.idx = i] \in ClientType
      BY <3>2, <3>3 DEF ClientType
    <3>5. cl' \in [Clients -> ClientType]
      BY <1>1, <3>1, <3>4
    <3> QED  BY <1>1, <1>9, <2>2, <3>5 DEF WriteToClient, UsesFreed, TypeOK
  <2> QED  BY <1>9, <2>3, <2>4 DEF WriteToClient, UsesFreed
<1>10. CASE ClearPollout(w)
  <2>1. thr' \in [Workers -> ThreadType]
    BY <1>10, MoveTypes DEF ClearPollout, UsesFreed
  <2>2. cl[thr[w].c] \in ClientType
    BY <1>1, <1>3, <1>10 DEF ClearPollout
  <2>3. [cl[thr[w].c] EXCEPT !.out = @ /\ cl[thr[w].c].idx # rec[thr[w].at].len]
          \in ClientType
    BY <2>2 DEF ClientType
  <2> QED  BY <1>1, <1>10, <2>1, <2>3 DEF ClearPollout, UsesFreed, TypeOK
<1>11. CASE ReadEvent(w)
  <2>1. [thr[w] EXCEPT !.pc = "wake", !.todo = {c \in Clients : Owner[c] = w}]
          \in ThreadType
    BY <1>1, <1>2 DEF ThreadType
  <2> QED  BY <1>1, <1>11, <2>1 DEF ReadEvent, TypeOK
<1>12. CASE WakeClient(w)
  <2>1. PICK c \in thr[w].todo :
          /\ cl' = [cl EXCEPT ![c].out = @ \/ (cl[c].record # Nil /\ rec[cl[c].record].len > cl[c].idx)]
          /\ thr' = [thr EXCEPT ![w].todo = @ \ {c}]
          /\ UNCHANGED <<head, mutex, rec, event, bad>>
    BY <1>12 DEF WakeClient, UsesFreed
  <2>2. thr[w] \in ThreadType
    BY <1>1
  <2>3. c \in Clients /\ cl[c] \in ClientType
    BY <1>1, <2>1, <2>2 DEF ThreadType
  <2>4. [thr[w] EXCEPT !.todo = @ \ {c}] \in ThreadType
    BY <2>2 DEF ThreadType
  <2>5. [cl[c] EXCEPT !.out = @ \/ (cl[c].record # Nil /\ rec[cl[c].record].len > cl[c].idx)]
          \in ClientType
    BY <2>3 DEF ClientType
  <2> QED  BY <1>1, <2>1, <2>3, <2>4, <2>5 DEF TypeOK
<1>13. CASE WakeDone(w)
  <2>1. thr' \in [Workers -> ThreadType]
    BY <1>13, MoveTypes DEF WakeDone
  <2> QED  BY <1>1, <1>13, <2>1 DEF WakeDone, TypeOK
<1> QED  BY <1>4, <1>5, <1>6, <1>7, <1>8, <1>9, <1>10, <1>11, <1>12, <1>13,
            Zenon DEF Serve

LEMMA TypeEnvironment ==
  ASSUME TypeOK, ThreadsOK, NEW w \in Workers, Environment(w), bad' = "none"
  PROVE  TypeOK'
<1> USE DEF At
<1>1. /\ head \in Records \cup {Nil} /\ mutex \in Workers \cup {Nobody}
      /\ rec \in [Records -> RecordType] /\ cl \in [Clients -> ClientType]
      /\ thr \in [Workers -> ThreadType] /\ event \subseteq Workers
  BY DEF TypeOK
<1>2. thr[w] \in ThreadType
  BY <1>1
<1>3. CASE \E c \in Clients : ClientCloses(w, c)
  <2>1. cl' \in [Clients -> ClientType]
    BY <1>3, MoveTypes DEF ClientCloses
  <2> QED  BY <1>1, <1>3, <2>1 DEF ClientCloses, TypeOK
<1>4. CASE \E c \in Clients, u \in Urls : ReadRequest(w, c, u)
  <2>1. PICK c \in Clients, u \in Urls : ReadRequest(w, c, u)
    BY <1>4
  <2>2. cl[c].left - 1 \in 0 .. MaxRequests /\ cl[c] \in ClientType
    BY <1>1, <2>1, CacheAssumption DEF ReadRequest, ClientType
  <2>3. [cl[c] EXCEPT !.left = @ - 1] \in ClientType
    BY <2>2 DEF ClientType
  <2>4. [thr[w] EXCEPT !.pc = "lock", !.c = c, !.url = u] \in ThreadType
    BY <1>2 DEF ThreadType, ThreadPCs
  <2> QED  BY <1>1, <2>1, <2>3, <2>4 DEF ReadRequest, TypeOK
<1>5. CASE \E r \in Records : WriteToServerFails(w, r)
  <2>1. thr' \in [Workers -> ThreadType]
    BY <1>5, MoveTypes DEF WriteToServerFails, ThreadPCs
  <2> QED  BY <1>1, <1>5, <2>1 DEF WriteToServerFails, TypeOK
<1>6. ~ \E r \in Records : ReadFromServerFails(w, r)
  BY DEF ReadFromServerFails
<1>7. CASE PublishFails(w)
  <2>1. thr[w].c \in Clients
    BY <1>7 DEF PublishFails, ThreadsOK, ThreadOK
  <2>2. cl' \in [Clients -> ClientType] /\ thr' \in [Workers -> ThreadType]
    BY <1>7, <2>1, MoveTypes DEF PublishFails
  <2> QED  BY <1>1, <1>7, <2>2 DEF PublishFails, TypeOK
<1>8. CASE ConnectFails(w)
  <2>1. /\ thr[w].at \in Alloc /\ ~Freed(thr[w].at) /\ head' = head
        /\ FreeCacheRecord(w, thr[w].at, "invalid") /\ thr[w].c \in Clients
    BY <1>8 DEF ConnectFails, ThreadsOK, ThreadOK
  <2>2. rec' \in [Records -> RecordType] /\ event' \subseteq Workers
    BY <2>1, FreedRecord
  <2>3. cl' \in [Clients -> ClientType] /\ thr' \in [Workers -> ThreadType]
    BY <1>8, <2>1, MoveTypes DEF ConnectFails
  <2> QED  BY <1>1, <1>8, <2>2, <2>3 DEF ConnectFails, TypeOK
<1> QED  BY <1>3, <1>4, <1>5, <1>6, <1>7, <1>8 DEF Environment

LEMMA TypeStep ==
  ASSUME TypeOK, ThreadsOK, NEW w \in Workers, Act(w), bad' = "none"
  PROVE  TypeOK'
BY TypeScan, TypeServe, TypeEnvironment DEF Act

-----------------------------------------------------------------------------
(* Steps that leave the list alone keep what is true of it.                *)
LEMMA UnmovedKeeps ==
  ASSUME TypeOK, TypeOK', Unmoved
  PROVE  /\ Alloc' = Alloc /\ Live' \subseteq Live
         /\ ListOK => ListOK'
         /\ UrlsUnique => UrlsUnique'
<1>1. Alloc' = Alloc /\ Live' \subseteq Live
  BY DEF Alloc, Live, Unmoved
<1>2. \A r \in Records : Freed(r) => Freed(r)'
  BY DEF Freed, Unmoved
<1>3. \A r \in Records : rec'[r].next = rec[r].next
  BY DEF Unmoved
<1>4. \A r \in Records : PassedOver(r)' = PassedOver(r)
  BY <1>3 DEF PassedOver, Unmoved
<1>5. Alloc \subseteq Records /\ head' = head
  BY DEF Alloc, Unmoved
<1>6. ListOK => ListOK'
  BY <1>1, <1>2, <1>3, <1>4, <1>5 DEF ListOK
<1>7. UrlsUnique => UrlsUnique'
  BY <1>1 DEF UrlsUnique, Unmoved, Live
<1> QED  BY <1>1, <1>6, <1>7

LEMMA UnmovedWalks ==
  ASSUME TypeOK, TypeOK', Unmoved, NEW v \in Workers, thr'[v] = thr[v], WalkOf(v),
         thr[v].pc = "visit" => \A r \in Records : Freed(r)' => Freed(r)
  PROVE  WalkOf(v)'
<1>1. Alloc' = Alloc /\ Live' \subseteq Live
  BY UnmovedKeeps
<1>2. \A r \in Records : (Freed(r) => Freed(r)') /\ rec'[r].url = rec[r].url
  BY DEF Freed, Unmoved
<1>3. Alloc \subseteq Records /\ Live \subseteq Records
  BY DEF Alloc, Live
<1> QED  BY <1>1, <1>2, <1>3 DEF WalkOf, Behind

(* What a step of a thread can reach: its own clients, and of the list only *)
(* what PublishRecord appends and ReapNode frees.                          *)
LEMMA ScanShape ==
  ASSUME TypeOK, ThreadsOK, NEW w \in Workers, Scan(w), bad' = "none"
  PROVE  /\ Local(w)
         /\ PublishRecord(w) \/ Unmoved
         /\ ReapNode(w) \/ \A r \in Records : Freed(r)' => Freed(r)
<1> USE DEF At, Local
<1>1. /\ rec \in [Records -> RecordType] /\ cl \in [Clients -> ClientType]
      /\ thr \in [Workers -> ThreadType]
  BY DEF TypeOK
<1>2. /\ thr[w].pc \in {"visit", "attach", "connect"} => thr[w].c \in Clients /\ Owner[thr[w].c] = w
      /\ thr[w].pc = "connect" => thr[w].at \in Records
      /\ thr[w].at \in Records \cup {Nil}
  BY <1>1 DEF ThreadsOK, ThreadOK, Alloc, ThreadType
<1>3. CASE LockList(w)
  BY <1>1, <1>3 DEF LockList, Unmoved, Freed
<1>4. CASE ReapNode(w)
  <2>1. /\ thr[w].at \in Alloc /\ ~Freed(thr[w].at) /\ head' = head
        /\ FreeCacheRecord(w, thr[w].at, "freed")
    BY <1>2, <1>4 DEF ReapNode, UsesFreed, Freed, Alloc
  <2>2. Unmoved
    BY <2>1, FreedRecord
  <2> QED  BY <1>1, <1>4, <2>2 DEF ReapNode, UsesFreed, GotoWith
<1>5. CASE PassNode(w)
  BY <1>1, <1>5 DEF PassNode, Goto, Unmoved, Freed
<1>6. CASE NextNode(w)
  BY <1>1, <1>6 DEF NextNode, UsesFreed, Unmoved, Freed
<1>7. CASE AttachClient(w)
  <2>1. rec' = [rec EXCEPT ![thr[w].at].subs = @ \cup {w}] /\ head' = head
    BY <1>7 DEF AttachClient
  <2>2. \A r \in Records : /\ rec'[r].next = rec[r].next /\ rec'[r].url = rec[r].url
                           /\ rec'[r].mem = rec[r].mem
    BY <1>1, <2>1 DEF RecordType
  <2>3. \A v \in Workers : v # w => thr'[v] = thr[v]
    BY <1>1, <1>7 DEF AttachClient, Goto
  <2>4. \A c \in Clients : Owner[c] # w => cl'[c] = cl[c]
    BY <1>1, <1>2, <1>7 DEF AttachClient
  <2> QED  BY <2>1, <2>2, <2>3, <2>4 DEF Unmoved, Freed
<1>8. CASE CheckAttached(w)
  <2>1. \A v \in Workers : v # w => thr'[v] = thr[v]
    BY <1>1, <1>8 DEF CheckAttached, Return
  <2>2. \A c \in Clients : Owner[c] # w => cl'[c] = cl[c]
    BY <1>1, <1>2, <1>8 DEF CheckAttached
  <2> QED  BY <1>8, <2>1, <2>2 DEF CheckAttached, Unmoved, Freed
<1>9. CASE PublishRecord(w)
  <2>1. PICK r \in Records :
          /\ rec[r].mem = "none"
          /\ rec' = [q \in Records |->
               IF q = r THEN [EmptyRecord EXCEPT !.mem = "live", !.url = thr[w].url]
               ELSE IF q = thr[w].prev THEN [rec[q] EXCEPT !.next = r]
               ELSE rec[q]]
          /\ GotoWith(w, "connect", r)
    BY <1>9 DEF PublishRecord
  <2>2. \A q \in Records : Freed(q)' => Freed(q)
    BY <1>1, <2>1 DEF Freed, EmptyRecord, RecordType
  <2> QED  BY <1>1, <1>9, <2>1, <2>2 DEF PublishRecord, GotoWith
<1>10. CASE ConnectServer(w)
  <2>1. /\ rec' = [rec EXCEPT ![thr[w].at] =
              [rec[thr[w].at] EXCEPT !.server = w, !.slot = FreeSlot(w),
                 !.subs = IF rec[thr[w].at].mem = "live" THEN @ \cup {w} ELSE @]]
        /\ head' = head
    BY <1>1, <1>10 DEF ConnectServer, UsesFreed
  <2>2. \A r \in Records : /\ rec'[r].next = rec[r].next /\ rec'[r].url = rec[r].url
                           /\ rec'[r].mem = rec[r].mem
    BY <1>1, <2>1 DEF RecordType
  <2>3. \A v \in Workers : v # w => thr'[v] = thr[v]
    BY <1>1, <1>10 DEF ConnectServer, UsesFreed, Return
  <2>4. \A c \in Clients : Owner[c] # w => cl'[c] = cl[c]
    BY <1>1, <1>2, <1>10 DEF ConnectServer, UsesFreed
  <2> QED  BY <2>1, <2>2, <2>3, <2>4 DEF Unmoved, Freed
<1> QED  BY <1>3, <1>4, <1>5, <1>6, <1>7, <1>8, <1>9, <1>10 DEF Scan

LEMMA ServeShape ==
  ASSUME TypeOK, ThreadsOK, NEW w \in Workers, Serve(w) \/ Environment(w), bad' = "none"
  PROVE  Local(w) /\ Unmoved /\ \A r \in Records : Freed(r)' => Freed(r)
<1> USE DEF At, Local
<1>1. /\ rec \in [Records -> RecordType] /\ cl \in [Clients -> ClientType]
      /\ thr \in [Workers -> ThreadType]
  BY DEF TypeOK
<1>2. /\ thr[w].pc \in {"visit", "free", "write", "clear", "connect"}
           => thr[w].c \in Clients /\ Owner[thr[w].c] = w
      /\ thr[w].pc \in {"drop", "free", "connect"} => thr[w].at \in Alloc
      /\ thr[w].at \in Records \cup {Nil}
  BY <1>1 DEF ThreadsOK, ThreadOK, ThreadType
<1>3. /\ \A l : Goto(w, l) => \A v \in Workers : v # w => thr'[v] = thr[v]
      /\ \A l, r : GotoWith(w, l, r) => \A v \in Workers : v # w => thr'[v] = thr[v]
      /\ Return(w) => \A v \in Workers : v # w => thr'[v] = thr[v]
      /\ \A c \in Clients : Owner[c] = w /\ Disconnect(c) =>
           \A d \in Clients : Owner[d] # w => cl'[d] = cl[d]
  BY <1>1 DEF Goto, GotoWith, Return, Disconnect
<1>4. ASSUME UNCHANGED <<head, rec>>
      PROVE  Unmoved /\ \A r \in Records : Freed(r)' => Freed(r)
  BY <1>4 DEF Unmoved, Freed
<1>5. ASSUME NEW r \in Records, WriteToServer(w, r) \/ ReadFromServer(w, r) \/ ServerEof(w, r)
      PROVE  Local(w) /\ Unmoved /\ \A q \in Records : Freed(q)' => Freed(q)
  <2>1. \/ rec' = [rec EXCEPT ![r].sent = TRUE] /\ UNCHANGED <<head, cl, thr>>
        \/ rec' = [rec EXCEPT ![r].len = @ + 1] /\ UNCHANGED <<head, cl>> /\ GotoWith(w, "notify", r)
        \/ rec' = [rec EXCEPT ![r].full = TRUE] /\ UNCHANGED <<head, cl>> /\ GotoWith(w, "eof", r)
    BY <1>5 DEF WriteToServer, ReadFromServer, ServerEof, UsesFreed
  <2>2. \A q \in Records : /\ rec'[q].next = rec[q].next /\ rec'[q].url = rec[q].url
                           /\ rec'[q].mem = rec[q].mem
    BY <1>1, <2>1 DEF RecordType
  <2> QED  BY <1>3, <2>1, <2>2 DEF Unmoved, Freed
<1>6. CASE NotifySubscribers(w)
  BY <1>3, <1>4, <1>6 DEF NotifySubscribers, UsesFreed
<1>7. CASE DisconnectServer(w)
  <2>1. \A q \in Records : /\ rec'[q].next = rec[q].next /\ rec'[q].url = rec[q].url
                           /\ rec'[q].mem = rec[q].mem
    BY <1>1, <1>7 DEF DisconnectServer, UsesFreed, RecordType
  <2> QED  BY <1>3, <1>7, <2>1 DEF DisconnectServer, UsesFreed, Unmoved, Freed
<1>8. ASSUME NEW c \in Clients, TestRecord(w, c)
      PROVE  Local(w) /\ Unmoved /\ \A q \in Records : Freed(q)' => Freed(q)
  <2>1. CASE cl[c].record = Nil
    BY <1>3, <1>4, <1>8, <2>1 DEF TestRecord
  <2>2. CASE cl[c].record # Nil
    BY <1>1, <1>4, <1>8, <2>2 DEF TestRecord, UsesFreed
  <2> QED  BY <2>1, <2>2
<1>9. CASE FreeFailedRecord(w) \/ ConnectFails(w)
  <2>1. /\ thr[w].at \in Alloc /\ ~Freed(thr[w].at) /\ head' = head
        /\ FreeCacheRecord(w, thr[w].at, "invalid")
    BY <1>2, <1>9 DEF FreeFailedRecord, ConnectFails, UsesFreed
  <2>2. Unmoved
    BY <2>1, FreedRecord
  <2>3. /\ rec'[thr[w].at].mem = "invalid"
        /\ \A q \in Records : q # thr[w].at => rec'[q].mem = rec[q].mem
    BY <2>1, FreedRecord
  <2>4. Return(w) /\ Disconnect(thr[w].c) /\ thr[w].c \in Clients /\ Owner[thr[w].c] = w
    BY <1>2, <1>9 DEF FreeFailedRecord, ConnectFails, UsesFreed
  <2> QED  BY <1>3, <2>2, <2>3, <2>4 DEF Freed
<1>10. CASE WriteToClient(w)
  <2>1. Goto(w, "clear") \/ Return(w)
    BY <1>10 DEF WriteToClient, UsesFreed
  <2>2. \A d \in Clients : Owner[d] # w => cl'[d] = cl[d]
    BY <1>1, <1>2, <1>3, <1>10 DEF WriteToClient, UsesFreed
  <2> QED  BY <1>3, <1>4, <1>10, <2>1, <2>2 DEF WriteToClient, UsesFreed
<1>11. CASE ClearPollout(w)
  <2>1. \A d \in Clients : Owner[d] # w => cl'[d] = cl[d]
    BY <1>1, <1>2, <1>11 DEF ClearPollout, UsesFreed
  <2> QED  BY <1>3, <1>4, <1>11, <2>1 DEF ClearPollout, UsesFreed
<1>12. CASE ReadEvent(w)
  BY <1>1, <1>4, <1>12 DEF ReadEvent
<1>13. CASE WakeClient(w)
  <2>1. PICK c \in thr[w].todo :
          /\ cl' = [cl EXCEPT ![c].out = @ \/ (cl[c].record # Nil /\ rec[cl[c].record].len > cl[c].idx)]
          /\ thr' = [thr EXCEPT ![w].todo = @ \ {c}]
          /\ UNCHANGED <<head, mutex, rec, event, bad>>
    BY <1>13 DEF WakeClient, UsesFreed
  <2>2. Owner[c] = w
    BY <1>13, <2>1 DEF WakeClient, ThreadsOK, ThreadOK
  <2> QED  BY <1>1, <1>4, <2>1, <2>2
<1>14. CASE WakeDone(w)
  BY <1>3, <1>4, <1>14 DEF WakeDone
<1>15. CASE Environment(w) /\ ~ConnectFails(w)
  <2>1. ASSUME NEW c \in Clients, ClientCloses(w, c)
        PROVE  Local(w) /\ UNCHANGED <<head, rec>>
    BY <1>3, <2>1 DEF ClientCloses
  <2>2. ASSUME NEW c \in Clients, NEW u \in Urls, ReadRequest(w, c, u)
        PROVE  Local(w) /\ UNCHANGED <<head, rec>>
    BY <1>1, <2>2 DEF ReadRequest
  <2>3. ASSUME NEW r \in Records, WriteToServerFails(w, r) \/ ReadFromServerFails(w, r)
        PROVE  Local(w) /\ UNCHANGED <<head, rec>>
    BY <1>3, <2>3 DEF WriteToServerFails, ReadFromServerFails
  <2>4. ASSUME PublishFails(w)
        PROVE  Local(w) /\ UNCHANGED <<head, rec>>
    BY <1>2, <1>3, <2>4 DEF PublishFails
  <2> QED  BY <1>4, <1>15, <2>1, <2>2, <2>3, <2>4 DEF Environment
<1>16. Serve(w) \/ ConnectFails(w) \/ (Environment(w) /\ ~ConnectFails(w))
  OBVIOUS
<1> QED  BY <1>5, <1>6, <1>7, <1>8, <1>9, <1>10, <1>11, <1>12, <1>13, <1>14,
            <1>15, <1>16 DEF Serve

-----------------------------------------------------------------------------
(* The threads' local variables.                                           *)
LEMMA AllocGrows ==
  ASSUME TypeOK, TypeOK', ThreadsOK, NEW w \in Workers, Act(w), bad' = "none"
  PROVE  Alloc \subseteq Alloc'
<1>1. CASE Unmoved
  BY <1>1, UnmovedKeeps
<1>2. CASE PublishRecord(w)
  <2>1. rec \in [Records -> RecordType]
    BY DEF TypeOK
  <2>2. PICK r \in Records :
          /\ rec[r].mem = "none"
          /\ rec' = [q \in Records |->
               IF q = r THEN [EmptyRecord EXCEPT !.mem = "live", !.url = thr[w].url]
               ELSE IF q = thr[w].prev THEN [rec[q] EXCEPT !.next = r]
               ELSE rec[q]]
    BY <1>2 DEF PublishRecord
  <2> QED  BY <2>1, <2>2 DEF Alloc, RecordType
<1> QED  BY <1>1, <1>2, ScanShape, ServeShape DEF Act

LEMMA ThreadOthers ==
  ASSUME TypeOK, ThreadsOK, NEW w \in Workers, NEW v \in Workers, v # w, Local(w),
         Alloc \subseteq Alloc', mutex' = v <=> mutex = v
  PROVE  ThreadOK(v)'
<1>1. thr'[v] = thr[v] /\ ThreadOK(v)
  BY DEF Local, ThreadsOK
<1>2. thr[v].pc \in {"lock", "visit", "relock", "attach", "connect", "free",
                     "write", "clear"}
        => cl'[thr[v].c] = cl[thr[v].c]
  BY <1>1 DEF ThreadOK, Local
<1> QED  BY <1>1, <1>2 DEF ThreadOK

LEMMA ThreadSelfScan ==
  ASSUME TypeOK, TypeOK', ThreadsOK, ListOK, NEW w \in Workers, Scan(w), bad' = "none",
         Alloc \subseteq Alloc'
  PROVE  /\ ThreadOK(w)'
         /\ \A v \in Workers : v # w => (mutex' = v <=> mutex = v)
<1> USE DEF At
<1>1. /\ cl \in [Clients -> ClientType] /\ thr \in [Workers -> ThreadType]
      /\ rec \in [Records -> RecordType]
  BY DEF TypeOK
<1>2. ThreadOK(w) /\ w # Nobody /\ Nobody \notin Workers
  BY CacheAssumption DEF ThreadsOK
<1>3. thr[w] \in ThreadType
  BY <1>1
<1>4. Return(w) /\ mutex' # w => ThreadOK(w)'
  BY <1>1 DEF Return, Polling, ThreadOK
<1>5. \A r \in Alloc : rec[r].next \in Alloc \cup {Nil}
  BY DEF ListOK
<1>6. head \in Alloc \cup {Nil}
  BY DEF ListOK
<1>7. CASE LockList(w)
  <2>1. /\ thr'[w].pc = "visit" /\ thr'[w].at = head /\ thr'[w].c = thr[w].c /\ mutex' = w
        /\ mutex = Nobody
    BY <1>1, <1>7 DEF LockList
  <2> QED  BY <1>2, <1>6, <1>7, <2>1 DEF ThreadOK, LockList
<1>8. CASE ReapNode(w)
  <2>1. thr[w].at \in Alloc
    BY <1>2, <1>8 DEF ReapNode, ThreadOK
  <2>2. /\ thr'[w].pc = "visit" /\ thr'[w].at = rec[thr[w].at].next
        /\ thr'[w].c = thr[w].c /\ mutex' = mutex
    BY <1>1, <1>3, <1>8 DEF ReapNode, UsesFreed, GotoWith, ThreadType
  <2> QED  BY <1>2, <1>5, <1>8, <2>1, <2>2 DEF ThreadOK, ReapNode
<1>9. CASE PassNode(w)
  <2>1. thr[w].at \in Alloc /\ mutex = w
    BY <1>2, <1>9 DEF PassNode, ThreadOK
  <2>2. /\ thr'[w].pc = "relock" /\ thr'[w].at = thr[w].at
        /\ thr'[w].c = thr[w].c /\ mutex' = Nobody
    BY <1>1, <1>9 DEF PassNode, Goto
  <2> QED  BY <1>2, <1>9, <2>1, <2>2 DEF ThreadOK, PassNode
<1>10. CASE NextNode(w)
  <2>1. thr[w].at \in Alloc
    BY <1>2, <1>10 DEF NextNode, ThreadOK
  <2>2. /\ thr'[w].pc = "visit" /\ thr'[w].at = rec[thr[w].at].next
        /\ thr'[w].c = thr[w].c /\ mutex' = w /\ mutex = Nobody
    BY <1>1, <1>3, <1>10 DEF NextNode, UsesFreed, ThreadType
  <2> QED  BY <1>2, <1>5, <1>10, <2>1, <2>2 DEF ThreadOK, NextNode
<1>11. CASE AttachClient(w)
  <2>1. thr[w].at \in Alloc /\ thr[w].c \in Clients
    BY <1>2, <1>11 DEF AttachClient, ThreadOK
  <2>2. /\ thr'[w].pc = "attach" /\ thr'[w].at = thr[w].at
        /\ thr'[w].c = thr[w].c /\ mutex' = mutex
    BY <1>1, <1>11 DEF AttachClient, Goto
  <2>3. cl'[thr[w].c].record = thr[w].at /\ cl'[thr[w].c].idx = 0
    <3>1. cl' = [cl EXCEPT ![thr[w].c] = [cl[thr[w].c] EXCEPT !.record = thr[w].at, !.idx = 0]]
      BY <1>1, <1>11 DEF AttachClient
    <3>2. cl'[thr[w].c] = [cl[thr[w].c] EXCEPT !.record = thr[w].at, !.idx = 0]
      BY <1>1, <2>1, <3>1
    <3>3. cl[thr[w].c] \in ClientType
      BY <1>1, <2>1
    <3> QED  BY <3>2, <3>3 DEF ClientType
  <2> QED  BY <1>2, <1>11, <2>1, <2>2, <2>3 DEF ThreadOK, AttachClient
<1>12. CASE CheckAttached(w)
  BY <1>2, <1>4, <1>12 DEF CheckAttached, ThreadOK
<1>13. CASE PublishRecord(w)
  <2>1. PICK r \in Records :
          /\ rec' = [q \in Records |->
               IF q = r THEN [EmptyRecord EXCEPT !.mem = "live", !.url = thr[w].url]
               ELSE IF q = thr[w].prev THEN [rec[q] EXCEPT !.next = r]
               ELSE rec[q]]
          /\ GotoWith(w, "connect", r)
    BY <1>13 DEF PublishRecord
  <2>2. r \in Alloc'
    <3>1. rec'[r] = [EmptyRecord EXCEPT !.mem = "live", !.url = thr[w].url]
      BY <2>1
    <3> QED  BY <3>1 DEF EmptyRecord, Alloc
  <2>3. thr'[w].pc = "connect" /\ thr'[w].at = r /\ thr'[w].c = thr[w].c
    BY <1>1, <2>1 DEF GotoWith
  <2> QED  BY <1>2, <1>13, <2>2, <2>3 DEF PublishRecord, ThreadOK
<1>14. CASE ConnectServer(w)
  BY <1>2, <1>4, <1>14 DEF ConnectServer, UsesFreed, ThreadOK
<1> QED  BY <1>7, <1>8, <1>9, <1>10, <1>11, <1>12, <1>13, <1>14 DEF Scan

LEMMA ThreadSelfServe ==
  ASSUME TypeOK, TypeOK', ThreadsOK, RecordsOK, NEW w \in Workers,
         Serve(w) \/ Environment(w), bad' = "none", Alloc' = Alloc
  PROVE  /\ ThreadOK(w)'
         /\ \A v \in Workers : v # w => (mutex' = v <=> mutex = v)
<1> USE DEF At
<1>1. /\ cl \in [Clients -> ClientType] /\ thr \in [Workers -> ThreadType]
      /\ rec \in [Records -> RecordType]
  BY DEF TypeOK
<1>2. ThreadOK(w) /\ w # Nobody /\ Nobody \notin Workers
  BY CacheAssumption DEF ThreadsOK
<1>3. thr[w] \in ThreadType
  BY <1>1
<1>4. Return(w) /\ mutex' # w => ThreadOK(w)'
  BY <1>1 DEF Return, Polling, ThreadOK
<1>5. \A r \in Records : rec[r].server # Nobody => r \in Alloc
  BY DEF RecordsOK
<1>6. ASSUME mutex' = mutex PROVE \A v \in Workers : v # w => (mutex' = v <=> mutex = v)
  BY <1>6
<1>7. ASSUME NEW l \in {"notify", "eof", "drop", "dropNotify"}, NEW r \in Alloc,
             GotoWith(w, l, r) \/ (Goto(w, l) /\ thr[w].at = r),
             mutex' = mutex, thr[w].pc \notin {"visit", "attach"}
      PROVE  ThreadOK(w)'
  <2>1. thr'[w].pc = l /\ thr'[w].at = r
    BY <1>1, <1>3, <1>7 DEF GotoWith, Goto, ThreadType
  <2> QED  BY <1>2, <1>7, <2>1 DEF ThreadOK
<1>8. ASSUME NEW r \in Records, WriteToServer(w, r) PROVE ThreadOK(w)' /\ mutex' = mutex
  <2>1. UNCHANGED <<mutex, thr, cl>> /\ thr[w].pc = "poll"
    BY <1>8 DEF WriteToServer, Serving, UsesFreed
  <2> QED  BY <1>2, <2>1 DEF ThreadOK
<1>9. ASSUME NEW r \in Records,
             \/ ReadFromServer(w, r) \/ ServerEof(w, r) \/ WriteToServerFails(w, r)
      PROVE  ThreadOK(w)' /\ mutex' = mutex
  <2>1. \/ GotoWith(w, "notify", r) \/ GotoWith(w, "eof", r) \/ GotoWith(w, "drop", r)
    BY <1>9 DEF ReadFromServer, ServerEof, WriteToServerFails, UsesFreed
  <2>2. rec[r].server = w /\ thr[w].pc = "poll" /\ mutex' = mutex
    BY <1>9 DEF ReadFromServer, ServerEof, WriteToServerFails, UsesFreed, Serving
  <2> QED  BY <1>2, <1>5, <1>7, <2>1, <2>2
<1>10. CASE NotifySubscribers(w)
  <2>1. thr[w].pc \in {"notify", "eof", "dropNotify"} /\ mutex' = mutex
    BY <1>10 DEF NotifySubscribers, UsesFreed
  <2>2. thr[w].at \in Alloc /\ mutex # w
    BY <1>2, <2>1 DEF ThreadOK
  <2>3. Return(w) \/ Goto(w, "drop")
    BY <1>10 DEF NotifySubscribers, UsesFreed
  <2> QED  BY <1>4, <1>6, <1>7, <2>1, <2>2, <2>3
<1>11. CASE DisconnectServer(w)
  <2>1. thr[w].pc = "drop" /\ mutex' = mutex /\ Goto(w, "dropNotify")
    BY <1>11 DEF DisconnectServer, UsesFreed
  <2>2. thr[w].at \in Alloc
    BY <1>2, <2>1 DEF ThreadOK
  <2> QED  BY <1>6, <1>7, <2>1, <2>2
<1>12. ASSUME NEW c \in Clients, TestRecord(w, c) \/ ClientCloses(w, c)
       PROVE  ThreadOK(w)' /\ mutex' = mutex
  <2>1. thr[w].pc = "poll" /\ mutex' = mutex /\ Owner[c] = w
    BY <1>12 DEF TestRecord, ClientCloses, UsesFreed
  <2>2. CASE thr' = thr
    BY <1>2, <2>1, <2>2 DEF ThreadOK
  <2>3. CASE thr' # thr
    <3>1. /\ cl' = cl /\ cl[c].record # Nil
          /\ \E l \in {"free", "write"} :
               thr' = [thr EXCEPT ![w].c = c, ![w].at = cl[c].record, ![w].pc = l]
      BY <1>12, <2>3 DEF TestRecord, ClientCloses, UsesFreed
    <3>2. PICK l \in {"free", "write"} :
               thr' = [thr EXCEPT ![w].c = c, ![w].at = cl[c].record, ![w].pc = l]
      BY <3>1
    <3>3. thr'[w].c = c /\ thr'[w].at = cl[c].record /\ thr'[w].pc = l
      BY <1>1, <1>3, <3>2 DEF ThreadType
    <3>4. cl[c].record \in Alloc
      BY <3>1 DEF RecordsOK
    <3> QED  BY <1>2, <2>1, <3>1, <3>3, <3>4 DEF ThreadOK
  <2> QED  BY <2>2, <2>3
<1>13. CASE FreeFailedRecord(w) \/ ConnectFails(w) \/ ClearPollout(w) \/ WakeDone(w)
  <2>1. /\ thr[w].pc \in {"free", "connect", "clear", "wake"} /\ mutex' = mutex
        /\ Return(w)
    BY <1>13 DEF FreeFailedRecord, ConnectFails, ClearPollout, WakeDone, UsesFreed
  <2> QED  BY <1>2, <1>4, <1>6, <2>1 DEF ThreadOK
<1>14. CASE WriteToClient(w)
  <2>1. thr[w].pc = "write" /\ mutex' = mutex
    BY <1>14 DEF WriteToClient, UsesFreed
  <2>2. CASE Return(w)
    BY <1>2, <1>4, <1>6, <2>1, <2>2 DEF ThreadOK
  <2>3. CASE ~Return(w)
    <3>1. thr'[w].pc = "clear" /\ thr'[w].at = thr[w].at /\ thr'[w].c = thr[w].c
      <4>1. Goto(w, "clear")
        BY <1>14, <2>3 DEF WriteToClient, UsesFreed
      <4> QED  BY <1>1, <1>3, <4>1 DEF Goto, ThreadType
    <3>2. PICK i \in cl[thr[w].c].idx .. rec[thr[w].at].len :
             cl' = [cl EXCEPT ![thr[w].c].idx = i]
      BY <1>14, <2>3 DEF WriteToClient, UsesFreed
    <3>3. \A c \in Clients : cl'[c].record = cl[c].record
      BY <1>1, <3>2 DEF ClientType
    <3> QED  BY <1>2, <1>6, <2>1, <3>1, <3>3 DEF ThreadOK
  <2> QED  BY <2>2, <2>3
<1>15. CASE ReadEvent(w)
  <2>1. thr'[w].pc = "wake" /\ thr'[w].todo = {c \in Clients : Owner[c] = w}
    BY <1>1, <1>3, <1>15 DEF ReadEvent, ThreadType
  <2> QED  BY <1>2, <1>15, <2>1 DEF ReadEvent, ThreadOK
<1>16. CASE WakeClient(w)
  <2>1. PICK c \in thr[w].todo : thr' = [thr EXCEPT ![w].todo = @ \ {c}] /\ mutex' = mutex
    BY <1>16 DEF WakeClient, UsesFreed
  <2>2. thr[w].pc = "wake"
    BY <1>16 DEF WakeClient
  <2>3. thr'[w].pc = "wake" /\ thr'[w].todo \subseteq thr[w].todo
    BY <1>1, <1>3, <2>1, <2>2 DEF ThreadType
  <2> QED  BY <1>2, <2>1, <2>2, <2>3 DEF ThreadOK
<1>17. ASSUME NEW c \in Clients, NEW u \in Urls, ReadRequest(w, c, u)
       PROVE  ThreadOK(w)' /\ mutex' = mutex
  <2>1. thr'[w].pc = "lock" /\ thr'[w].c = c /\ mutex' = mutex /\ thr[w].pc = "poll"
    BY <1>1, <1>3, <1>17 DEF ReadRequest, ThreadType
  <2>2. Owner[c] = w
    BY <1>17 DEF ReadRequest
  <2> QED  BY <1>2, <2>1, <2>2 DEF ThreadOK
<1>18. CASE PublishFails(w)
  BY <1>2, <1>4, <1>18 DEF PublishFails, ThreadOK
<1>19. \A r \in Records : ~ReadFromServerFails(w, r)
  BY DEF ReadFromServerFails
<1>20. CASE Serve(w)
  BY <1>6, <1>8, <1>9, <1>10, <1>11, <1>12, <1>13, <1>14, <1>15, <1>16, <1>20 DEF Serve
<1>21. CASE Environment(w)
  BY <1>6, <1>9, <1>12, <1>13, <1>17, <1>18, <1>19, <1>21 DEF Environment
<1> QED  BY <1>20, <1>21

LEMMA ThreadStep ==
  ASSUME TypeOK, TypeOK', ThreadsOK, RecordsOK, ListOK, NEW w \in Workers, Act(w),
         bad' = "none"
  PROVE  ThreadsOK'
<1>1. Alloc \subseteq Alloc' /\ Local(w)
  BY AllocGrows, ScanShape, ServeShape DEF Act
<1>2. /\ ThreadOK(w)'
      /\ \A v \in Workers : v # w => (mutex' = v <=> mutex = v)
  <2>1. CASE Scan(w)
    BY <1>1, <2>1, ThreadSelfScan
  <2>2. CASE Serve(w) \/ Environment(w)
    <3>1. Alloc' = Alloc
      BY <2>2, ServeShape, UnmovedKeeps
    <3> QED  BY <2>2, <3>1, ThreadSelfServe
  <2> QED  BY <2>1, <2>2 DEF Act
<1>3. \A v \in Workers : v # w => ThreadOK(v)'
  BY <1>1, <1>2, ThreadOthers
<1> QED  BY <1>2, <1>3 DEF ThreadsOK

-----------------------------------------------------------------------------
(* The list.  PublishRecord appends a record that no thread has seen yet    *)
(* behind the last one in use.                                             *)
Published(w, r) ==
  /\ r \notin Alloc /\ \A q \in Alloc : q < r
  /\ head' = IF thr[w].prev = Nil THEN r ELSE head
  /\ GotoWith(w, "connect", r)
  /\ rec'[r].mem = "live" /\ rec'[r].url = thr[w].url /\ rec'[r].next = Nil
  /\ rec'[r].len = 0 /\ rec'[r].server = Nobody /\ rec'[r].full = FALSE
  /\ \A q \in Records : q # r =>
       /\ rec'[q].mem = rec[q].mem /\ rec'[q].url = rec[q].url
       /\ rec'[q].len = rec[q].len /\ rec'[q].server = rec[q].server
       /\ rec'[q].full = rec[q].full /\ rec'[q].subs = rec[q].subs
       /\ rec'[q].next = IF q = thr[w].prev THEN r ELSE rec[q].next
  /\ thr[w].prev # Nil => thr[w].prev \in Alloc /\ ~Freed(thr[w].prev)
  /\ \A q \in Alloc : thr[w].prev < q => Freed(q)
  /\ \A q \in Live : rec[q].url # thr[w].url
  /\ thr[w].prev \in Records \cup {Nil}
  /\ cl' = cl /\ event' = event /\ thr[w].pc = "visit" /\ mutex = w

LEMMA PublishEffect ==
  ASSUME TypeOK, RecordsOK, ThreadsOK, WalkOK, NEW w \in Workers, PublishRecord(w)
  PROVE  \E r \in Records : Published(w, r)
<1>1. rec \in [Records -> RecordType] /\ thr[w] \in ThreadType
  BY DEF TypeOK
<1>2. PICK r \in Records :
          /\ rec[r].mem = "none"
          /\ \A q \in Records : q < r => rec[q].mem # "none"
          /\ rec' = [q \in Records |->
               IF q = r THEN [EmptyRecord EXCEPT !.mem = "live", !.url = thr[w].url]
               ELSE IF q = thr[w].prev THEN [rec[q] EXCEPT !.next = r]
               ELSE rec[q]]
          /\ head' = IF thr[w].prev = Nil THEN r ELSE head
          /\ GotoWith(w, "connect", r)
  BY DEF PublishRecord
<1>3. r \notin Alloc /\ \A q \in Alloc : q < r
  <2>1. r \notin Alloc
    BY <1>2 DEF Alloc
  <2>2. ASSUME NEW q \in Alloc, ~(q < r) PROVE FALSE
    <3>1. q \in Records
      BY DEF Alloc
    <3>2. q = r \/ r < q
      BY <2>2, <3>1 DEF Records
    <3> QED  BY <2>1, <3>2 DEF RecordsOK
  <2> QED  BY <2>1, <2>2
<1>4. /\ rec'[r].mem = "live" /\ rec'[r].url = thr[w].url /\ rec'[r].next = Nil
      /\ rec'[r].len = 0 /\ rec'[r].server = Nobody /\ rec'[r].full = FALSE
  <2>1. rec'[r] = [EmptyRecord EXCEPT !.mem = "live", !.url = thr[w].url]
    BY <1>2
  <2> QED  BY <2>1 DEF EmptyRecord
<1>5. ASSUME NEW q \in Records, q # r
      PROVE  /\ rec'[q].mem = rec[q].mem /\ rec'[q].url = rec[q].url
             /\ rec'[q].len = rec[q].len /\ rec'[q].server = rec[q].server
             /\ rec'[q].full = rec[q].full /\ rec'[q].subs = rec[q].subs
             /\ rec'[q].next = IF q = thr[w].prev THEN r ELSE rec[q].next
  <2>1. rec[q] \in RecordType
    BY <1>1
  <2>2. rec'[q] = IF q = thr[w].prev THEN [rec[q] EXCEPT !.next = r] ELSE rec[q]
    BY <1>2, <1>5
  <2> QED  BY <2>1, <2>2 DEF RecordType
<1>6. thr[w].pc = "visit" /\ thr[w].at = Nil /\ cl' = cl /\ event' = event
  BY DEF PublishRecord, At
<1>7. /\ thr[w].prev # Nil => thr[w].prev \in Alloc /\ ~Freed(thr[w].prev)
      /\ \A q \in Alloc : thr[w].prev < q => Freed(q)
      /\ \A q \in Live : rec[q].url # thr[w].url
      /\ mutex = w
  BY <1>6 DEF WalkOK, WalkOf, Behind, ThreadsOK, ThreadOK
<1>8. thr[w].prev \in Records \cup {Nil}
  BY <1>1 DEF ThreadType
<1> QED  BY <1>2, <1>3, <1>4, <1>5, <1>6, <1>7, <1>8 DEF Published

LEMMA PublishList ==
  ASSUME TypeOK, TypeOK', RecordsOK, ThreadsOK, ListOK, WalkOK, UrlsUnique,
         NEW w \in Workers, PublishRecord(w)
  PROVE  ListOK' /\ UrlsUnique'
<1> DEFINE prev == thr[w].prev
<1>0. PICK r \in Records : Published(w, r)
  BY PublishEffect
<1>1. /\ r \notin Alloc /\ \A q \in Alloc : q < r
      /\ head' = IF prev = Nil THEN r ELSE head
      /\ rec'[r].mem = "live" /\ rec'[r].url = thr[w].url /\ rec'[r].next = Nil
      /\ \A q \in Records : q # r =>
           /\ rec'[q].mem = rec[q].mem /\ rec'[q].url = rec[q].url
           /\ rec'[q].next = IF q = prev THEN r ELSE rec[q].next
      /\ prev # Nil => prev \in Alloc /\ ~Freed(prev)
      /\ \A q \in Alloc : prev < q => Freed(q)
      /\ \A q \in Live : rec[q].url # thr[w].url
      /\ prev \in Records \cup {Nil}
  BY <1>0 DEF Published
<1> HIDE DEF prev
<1>2. Alloc' = Alloc \cup {r} /\ Alloc \subseteq Records
  BY <1>1 DEF Alloc
<1>3. Live' = Live \cup {r}
  BY <1>1 DEF Live
<1>4. \A q \in Alloc : q \in Records /\ q # r /\ q < r /\ (Freed(q)' <=> Freed(q))
  BY <1>1, <1>2 DEF Freed
<1>5. /\ r \in Records /\ Nil = 0 /\ \A q \in Records : q \in Int /\ 0 < q
      /\ head \in Records \cup {Nil}
      /\ \A q \in Records : rec[q].next \in Records \cup {Nil}
  BY DEF Records, Nil, TypeOK, RecordType
<1>6. /\ head \in Alloc \cup {Nil}
      /\ \A q \in Alloc : rec[q].next \in Alloc \cup {Nil}
      /\ \A q \in Records \ Alloc : rec[q].next = Nil
  BY DEF ListOK
<1>7. \A q \in Alloc : rec[q].next < r
  BY <1>4, <1>5, <1>6
<1>8. \A q \in Alloc : Freed(q) => rec'[q].next = rec[q].next
  BY <1>1, <1>2, <1>4, <1>5
<1>9. head' \in Alloc' \cup {Nil} /\ (head' = Nil => Alloc' = {})
  <2>1. CASE prev = Nil
    BY <1>1, <1>2, <1>5, <2>1
  <2>2. CASE prev # Nil
    BY <1>1, <1>2, <1>6, <2>2 DEF ListOK
  <2> QED  BY <2>1, <2>2
<1>10. ASSUME NEW q \in Alloc', q < head' PROVE Freed(q)' /\ rec'[q].next < head'
  <2>1. CASE prev = Nil
    <3>1. head' = r
      BY <1>1, <2>1
    <3>2. q \in Alloc
      BY <1>2, <1>5, <1>10, <3>1
    <3>3. Freed(q)
      BY <1>1, <1>4, <1>5, <2>1, <3>2
    <3> QED  BY <1>4, <1>7, <1>8, <3>1, <3>2, <3>3
  <2>2. CASE prev # Nil
    <3>1. head' = head
      BY <1>1, <2>2
    <3>2. q # r
      BY <1>4, <1>5, <1>6, <1>10, <3>1
    <3>3. q \in Alloc /\ Freed(q) /\ rec[q].next < head
      BY <1>2, <1>10, <3>1, <3>2 DEF ListOK
    <3> QED  BY <1>4, <1>8, <3>1, <3>3
  <2> QED  BY <2>1, <2>2
<1>11. \A q \in Records \ Alloc' : rec'[q].next = Nil
  BY <1>1, <1>2, <1>5, <1>6
<1>12. ASSUME NEW p \in Alloc', rec'[p].next # Nil
       PROVE  /\ rec'[p].next \in Alloc' /\ p < rec'[p].next
              /\ \A q \in Alloc' : p < q /\ q < rec'[p].next
                   => Freed(q)' /\ rec'[q].next < rec'[p].next
  <2>1. p \in Alloc
    BY <1>1, <1>2, <1>12
  <2>2. CASE p = prev
    <3>1. rec'[p].next = r
      BY <1>1, <1>4, <2>1, <2>2
    <3>2. ASSUME NEW q \in Alloc', p < q, q < r PROVE Freed(q)' /\ rec'[q].next < r
      <4>1. q \in Alloc /\ Freed(q)
        BY <1>1, <1>2, <1>5, <2>2, <3>2
      <4> QED  BY <1>4, <1>7, <1>8, <4>1
    <3> QED  BY <1>2, <1>4, <2>1, <3>1, <3>2
  <2>3. CASE p # prev
    <3>1. rec'[p].next = rec[p].next
      BY <1>1, <1>4, <2>1, <2>3
    <3>2. rec[p].next \in Alloc /\ p < rec[p].next
      BY <1>12, <2>1, <3>1 DEF ListOK
    <3>3. ASSUME NEW q \in Alloc', p < q, q < rec[p].next
          PROVE  Freed(q)' /\ rec'[q].next < rec[p].next
      <4>1. q # r
        BY <1>1, <1>2, <1>4, <1>5, <3>2, <3>3
      <4>2. q \in Alloc /\ Freed(q) /\ rec[q].next < rec[p].next
        BY <1>2, <2>1, <3>3, <4>1 DEF ListOK
      <4> QED  BY <1>4, <1>8, <4>2
    <3> QED  BY <1>2, <3>1, <3>2, <3>3
  <2> QED  BY <2>2, <2>3
<1>13. ASSUME NEW p \in Alloc', NEW q \in Alloc', p < q, q < Nil PROVE FALSE
  BY <1>1, <1>2, <1>5, <1>13
<1>14. ASSUME NEW p \in Alloc', rec'[p].next = Nil
       PROVE  PassedOver(p)' \/ \A q \in Alloc' : p < q => Freed(q)'
  <2>1. CASE p = r
    BY <1>2, <1>4, <1>5, <2>1
  <2>2. CASE p # r
    <3>1. p \in Alloc /\ p # prev /\ rec[p].next = Nil
      <4>1. p \in Alloc
        BY <1>2, <2>2
      <4>2. p # prev
        BY <1>1, <1>4, <1>5, <1>14, <4>1
      <4> QED  BY <1>1, <1>4, <1>14, <4>1, <4>2
    <3>2. CASE prev = Nil
      BY <1>1, <1>4, <3>1, <3>2 DEF PassedOver
    <3>3. CASE prev # Nil /\ prev < p
      <4>1. prev \in Records /\ rec'[prev].next = r
        BY <1>1, <1>2, <1>4, <3>3
      <4> QED  BY <1>4, <3>1, <3>3, <4>1 DEF PassedOver
    <3>4. CASE prev # Nil /\ p < prev
      <4>1. PassedOver(p)
        BY <1>1, <3>1, <3>4 DEF ListOK
      <4>2. CASE head > p
        BY <1>1, <3>4, <4>2 DEF PassedOver
      <4>3. CASE \E s \in Records : s < p /\ rec[s].next > p
        <5>1. PICK s \in Records : s < p /\ rec[s].next > p
          BY <4>3
        <5>2. s # r /\ s # prev
          BY <1>1, <1>2, <1>4, <1>5, <3>1, <3>4, <5>1
        <5>3. rec'[s].next = rec[s].next
          BY <1>1, <5>2
        <5> QED  BY <5>1, <5>3 DEF PassedOver
      <4> QED  BY <4>1, <4>2, <4>3 DEF PassedOver
    <3> QED  BY <1>1, <1>2, <1>5, <3>1, <3>2, <3>3, <3>4
  <2> QED  BY <2>1, <2>2
<1>15. ListOK'
  BY <1>9, <1>10, <1>11, <1>12, <1>13, <1>14 DEF ListOK
<1>16. UrlsUnique'
  <2>1. \A q \in Live : q # r /\ q \in Records /\ rec'[q].url = rec[q].url
    BY <1>1 DEF Live, Alloc
  <2> QED  BY <1>1, <1>3, <2>1 DEF UrlsUnique
<1> QED  BY <1>15, <1>16

(* Only the search of findAndAddCacheRecord leads on in the list.           *)
LEMMA OffTheList ==
  ASSUME TypeOK, NEW w \in Workers, Act(w), bad' = "none",
         ~LockList(w), ~ReapNode(w), ~PassNode(w), ~NextNode(w)
  PROVE  thr'[w].pc \notin {"visit", "relock"}
<1> USE DEF At
<1>1. thr \in [Workers -> ThreadType] /\ thr[w] \in ThreadType
  BY DEF TypeOK
<1>2. /\ Return(w) => thr'[w].pc = "poll"
      /\ \A l : Goto(w, l) => thr'[w].pc = l
      /\ \A l, r : GotoWith(w, l, r) => thr'[w].pc = l
  BY <1>1 DEF Return, Polling, Goto, GotoWith, ThreadType
<1>3. CASE AttachClient(w) \/ CheckAttached(w) \/ PublishRecord(w) \/ ConnectServer(w)
  BY <1>2, <1>3 DEF AttachClient, CheckAttached, PublishRecord, ConnectServer, UsesFreed
<1>4. ASSUME NEW r \in Records, WriteToServer(w, r) \/ ReadFromServer(w, r) \/ ServerEof(w, r)
      PROVE  thr'[w].pc \notin {"visit", "relock"}
  BY <1>2, <1>4 DEF WriteToServer, ReadFromServer, ServerEof, Serving, UsesFreed
<1>5. ASSUME NEW c \in Clients, TestRecord(w, c)
      PROVE  thr'[w].pc \notin {"visit", "relock"}
  BY <1>1, <1>5 DEF TestRecord, UsesFreed, ThreadType
<1>6. CASE \/ NotifySubscribers(w) \/ DisconnectServer(w) \/ FreeFailedRecord(w)
           \/ WriteToClient(w) \/ ClearPollout(w) \/ WakeDone(w)
  BY <1>2, <1>6 DEF NotifySubscribers, DisconnectServer, FreeFailedRecord,
     WriteToClient, ClearPollout, WakeDone, UsesFreed
<1>7. CASE ReadEvent(w) \/ WakeClient(w)
  BY <1>1, <1>7 DEF ReadEvent, WakeClient, ThreadType, UsesFreed
<1>8. CASE Environment(w)
  <2>1. ASSUME NEW c \in Clients, NEW u \in Urls, ReadRequest(w, c, u)
        PROVE  thr'[w].pc \notin {"visit", "relock"}
    BY <1>1, <2>1 DEF ReadRequest, ThreadType
  <2>2. ASSUME NEW c \in Clients, ClientCloses(w, c)
        PROVE  thr'[w].pc \notin {"visit", "relock"}
    BY <2>2 DEF ClientCloses
  <2>3. ASSUME NEW r \in Records, WriteToServerFails(w, r) \/ ReadFromServerFails(w, r)
        PROVE  thr'[w].pc \notin {"visit", "relock"}
    BY <1>2, <2>3 DEF WriteToServerFails, ReadFromServerFails
  <2>4. ASSUME PublishFails(w) \/ ConnectFails(w)
        PROVE  thr'[w].pc \notin {"visit", "relock"}
    BY <1>2, <2>4 DEF PublishFails, ConnectFails
  <2> QED  BY <1>8, <2>1, <2>2, <2>3, <2>4 DEF Environment
<1> QED  BY <1>3, <1>4, <1>5, <1>6, <1>7, <1>8 DEF Act, Scan, Serve

(* A node that has not been reaped is not passed over, so what follows it   *)
(* without being linked from it has been reaped.                           *)
LEMMA NextInUse ==
  ASSUME TypeOK, ListOK, NEW r \in Alloc
  PROVE  /\ rec[r].next # Nil => r < rec[r].next
         /\ ~Freed(r) =>
              \A q \in Alloc : r < q /\ (rec[r].next = Nil \/ q < rec[r].next) => Freed(q)
<1>1. rec[r].next # Nil => r < rec[r].next
  BY DEF ListOK
<1>2. ASSUME ~Freed(r), NEW q \in Alloc, r < q, rec[r].next = Nil \/ q < rec[r].next
      PROVE  Freed(q)
  <2>1. CASE rec[r].next # Nil
    BY <1>2, <2>1 DEF ListOK
  <2>2. CASE rec[r].next = Nil
    <3>1. ~PassedOver(r)
      <4>1. SUFFICES ASSUME PassedOver(r) PROVE FALSE
        OBVIOUS
      <4>2. r \in Records /\ r \in Int /\ head \in Int
        BY DEF Alloc, Records, TypeOK, Nil
      <4>3. CASE head > r
        BY <1>2, <4>2, <4>3 DEF ListOK
      <4>4. CASE \E p \in Records : p < r /\ rec[p].next > r
        <5>1. PICK p \in Records : p < r /\ rec[p].next > r
          BY <4>4
        <5>2. p \in Alloc
          BY <4>2, <5>1 DEF ListOK, Nil, Records
        <5>3. r < rec[p].next
          BY <4>2, <5>1 DEF TypeOK, RecordType, Records, Nil
        <5> QED  BY <1>2, <5>1, <5>2, <5>3 DEF ListOK
      <4> QED  BY <4>1, <4>3, <4>4 DEF PassedOver
    <3> QED  BY <1>2, <2>2, <3>1 DEF ListOK
  <2> QED  BY <2>1, <2>2
<1> QED  BY <1>1, <1>2

LEMMA WalkOthers ==
  ASSUME TypeOK, TypeOK', ThreadsOK, RecordsOK, WalkOK, NEW w \in Workers, Act(w),
         bad' = "none", NEW v \in Workers, v # w
  PROVE  WalkOf(v)'
<1>1. Local(w) /\ thr'[v] = thr[v] /\ WalkOf(v)
  BY ScanShape, ServeShape DEF Act, Local, WalkOK
<1>2. mutex = w => thr[v].pc # "visit"
  BY DEF ThreadsOK, ThreadOK
<1>3. CASE Unmoved
  <2>1. CASE \A r \in Records : Freed(r)' => Freed(r)
    BY <1>1, <1>3, <2>1, UnmovedWalks
  <2>2. CASE ReapNode(w)
    <3>1. mutex = w
      BY <2>2 DEF ReapNode, At, ThreadsOK, ThreadOK
    <3> QED  BY <1>1, <1>2, <1>3, <3>1, UnmovedWalks
  <2> QED  BY <2>1, <2>2, ScanShape, ServeShape DEF Act
<1>4. CASE PublishRecord(w)
  <2>1. PICK r \in Records : Published(w, r)
    BY <1>4, PublishEffect
  <2>2. thr[v].pc # "visit"
    BY <1>2, <2>1 DEF Published
  <2>3. ASSUME thr[v].pc = "relock", NEW q \in Live', q <= thr[v].at
        PROVE  rec'[q].url # thr[v].url
    <3>1. thr[v].at \in Alloc /\ r \in Int /\ thr[v].at \in Int
      BY <2>3 DEF ThreadsOK, ThreadOK, Alloc, Records
    <3>2. q # r
      BY <2>1, <2>3, <3>1 DEF Published
    <3>3. q \in Live /\ rec'[q].url = rec[q].url
      BY <2>1, <3>2 DEF Published, Live
    <3> QED  BY <1>1, <2>3, <3>3 DEF WalkOf
  <2> QED  BY <1>1, <2>2, <2>3 DEF WalkOf
<1> QED  BY <1>3, <1>4, ScanShape, ServeShape DEF Act

LEMMA WalkSelf ==
  ASSUME TypeOK, TypeOK', ThreadsOK, ListOK, WalkOK, NEW w \in Workers, Act(w),
         bad' = "none"
  PROVE  WalkOf(w)'
<1> USE DEF At
<1>1. /\ thr \in [Workers -> ThreadType] /\ thr[w] \in ThreadType
      /\ rec \in [Records -> RecordType]
  BY DEF TypeOK
<1>2. /\ Alloc \subseteq Records /\ Live \subseteq Alloc /\ Nil = 0
      /\ \A r \in Records : r \in Int /\ 0 < r
      /\ head \in Alloc \cup {Nil}
      /\ \A r \in Alloc : rec[r].next \in Alloc \cup {Nil}
      /\ \A r \in Live : ~Freed(r)
  BY DEF Alloc, Live, Records, Nil, ListOK, Freed
<1>3. WalkOf(w) /\ ThreadOK(w)
  BY DEF WalkOK, ThreadsOK
<1>4. CASE LockList(w)
  <2>1. /\ thr'[w].pc = "visit" /\ thr'[w].at = head /\ thr'[w].prev = Nil
        /\ rec' = rec
    BY <1>1, <1>4 DEF LockList, ThreadType
  <2>2. \A q \in Alloc : head = Nil \/ q < head => Freed(q)
    BY DEF ListOK
  <2>3. Alloc' = Alloc /\ Live' = Live /\ \A q : Freed(q)' <=> Freed(q)
    BY <2>1 DEF Alloc, Live, Freed
  <2> QED  BY <1>2, <2>1, <2>2, <2>3 DEF WalkOf, Behind
<1>5. CASE ReapNode(w)
  <2> DEFINE r == thr[w].at
  <2>1. r \in Alloc /\ ~Freed(r) /\ head' = head /\ FreeCacheRecord(w, r, "freed")
    BY <1>1, <1>5 DEF ReapNode, UsesFreed, Freed, Alloc, ThreadType
  <2>2. Unmoved /\ rec'[r].mem = "freed" /\ \A q \in Records : q # r => rec'[q].mem = rec[q].mem
    BY <2>1, FreedRecord
  <2>3. /\ thr'[w].pc = "visit" /\ thr'[w].at = rec[r].next /\ thr'[w].prev = thr[w].prev
        /\ thr'[w].url = thr[w].url /\ thr[w].pc = "visit" /\ r # Nil
    BY <1>1, <1>5 DEF ReapNode, UsesFreed, GotoWith, ThreadType
  <2>4. thr[w].prev < r /\ thr[w].prev \in Records \cup {Nil}
    BY <1>1, <1>3, <2>3 DEF WalkOf, ThreadType
  <2>5. Alloc' = Alloc /\ Live' \subseteq Live \ {r}
    BY <2>1, <2>2, UnmovedKeeps DEF Live
  <2>6. \A q \in Alloc : r < q /\ (rec[r].next = Nil \/ q < rec[r].next) => Freed(q)
    BY <2>1, NextInUse
  <2>7. rec[r].next # Nil => r < rec[r].next
    BY <2>1, NextInUse
  <2>8. \A q \in Records : /\ Freed(q) => Freed(q)'
                           /\ q # r => (Freed(q)' <=> Freed(q))
    BY <2>2 DEF Freed, Unmoved
  <2>9. \A q \in Records : rec'[q].url = rec[q].url
    BY <2>2 DEF Unmoved
  <2> HIDE DEF r
  <2>10. thr[w].prev # Nil => thr[w].prev \in Alloc /\ ~Freed(thr[w].prev)'
    BY <1>2, <1>3, <2>1, <2>3, <2>4, <2>8 DEF WalkOf
  <2>11. rec[r].next # Nil => thr[w].prev < rec[r].next
    BY <1>2, <2>1, <2>4, <2>7
  <2>12. ASSUME NEW q \in Alloc, rec[r].next = Nil \/ q < rec[r].next, thr[w].prev < q
         PROVE  Freed(q)'
    <3>1. CASE q = r
      BY <2>2, <3>1 DEF Freed
    <3>2. CASE q < r
      BY <1>2, <1>3, <2>3, <2>8, <2>12, <3>2 DEF WalkOf, Behind, r
    <3>3. CASE r < q
      BY <1>2, <2>6, <2>8, <2>12, <3>3
    <3> QED  BY <1>2, <2>1, <3>1, <3>2, <3>3
  <2>13. ASSUME NEW q \in Live', rec[r].next = Nil \/ q < rec[r].next
         PROVE  rec'[q].url # thr[w].url
    <3>1. q \in Live /\ q \in Alloc /\ q # r /\ ~Freed(q) /\ rec'[q].url = rec[q].url
      BY <1>2, <2>5, <2>9
    <3>2. q < r
      BY <1>2, <2>1, <2>6, <2>13, <3>1
    <3> QED  BY <1>3, <2>3, <3>1, <3>2 DEF WalkOf, Behind, r
  <2> QED  BY <2>3, <2>5, <2>10, <2>11, <2>12, <2>13 DEF WalkOf, Behind
<1>6. CASE PassNode(w)
  <2>1. /\ thr'[w].pc = "relock" /\ thr'[w].at = thr[w].at /\ thr'[w].url = thr[w].url
        /\ rec' = rec /\ thr[w].pc = "visit" /\ thr[w].at # Nil
        /\ rec[thr[w].at].url # thr[w].url
    BY <1>1, <1>6 DEF PassNode, Goto, ThreadType
  <2>2. thr[w].at \in Records
    BY <1>1, <2>1 DEF ThreadType
  <2>3. ASSUME NEW q \in Live, q <= thr[w].at PROVE rec[q].url # thr[w].url
    <3>1. q = thr[w].at \/ q < thr[w].at
      BY <1>2, <2>2, <2>3
    <3> QED  BY <1>3, <2>1, <2>3, <3>1 DEF WalkOf, Behind
  <2> QED  BY <2>1, <2>3 DEF WalkOf, Live
<1>7. CASE NextNode(w)
  <2> DEFINE r == thr[w].at
  <2>1. /\ thr'[w].pc = "visit" /\ thr'[w].at = rec[r].next /\ thr'[w].prev = r
        /\ thr'[w].url = thr[w].url /\ thr[w].pc = "relock" /\ rec' = rec /\ ~Freed(r)
    BY <1>1, <1>7 DEF NextNode, UsesFreed, ThreadType
  <2>2. r \in Alloc
    BY <1>3, <2>1 DEF ThreadOK
  <2>3. /\ rec[r].next # Nil => r < rec[r].next
        /\ \A q \in Alloc : r < q /\ (rec[r].next = Nil \/ q < rec[r].next) => Freed(q)
    BY <2>1, <2>2, NextInUse
  <2>4. ASSUME NEW q \in Live, rec[r].next = Nil \/ q < rec[r].next
        PROVE  rec[q].url # thr[w].url
    <3>1. q <= r
      BY <1>2, <2>2, <2>3, <2>4
    <3> QED  BY <1>3, <2>1, <3>1 DEF WalkOf
  <2>5. Alloc' = Alloc /\ Live' = Live /\ \A q : Freed(q)' <=> Freed(q)
    BY <2>1 DEF Alloc, Live, Freed
  <2> HIDE DEF r
  <2> QED  BY <2>1, <2>2, <2>3, <2>4, <2>5 DEF WalkOf, Behind
<1> QED  BY <1>4, <1>5, <1>6, <1>7, OffTheList DEF WalkOf

LEMMA ListStep ==
  ASSUME TypeOK, TypeOK', ThreadsOK, RecordsOK, ListOK, WalkOK, UrlsUnique,
         NEW w \in Workers, Act(w), bad' = "none"
  PROVE  ListOK' /\ WalkOK' /\ UrlsUnique'
<1>1. WalkOK'
  BY WalkOthers, WalkSelf DEF WalkOK
<1>2. ListOK' /\ UrlsUnique'
  BY ScanShape, ServeShape, UnmovedKeeps, PublishList DEF Act
<1> QED  BY <1>1, <1>2

-----------------------------------------------------------------------------
(* The records.  Most steps subscribe nobody, connect no record and give no *)
(* client another record.                                                  *)
Quiet(w) ==
  /\ \A r \in Records :
       /\ rec'[r].server \in {rec[r].server, Nobody}
       /\ rec'[r].len \in {rec[r].len, 0} \/ ReadFromServer(w, r)
       /\ r \in Live' => /\ rec[r].subs \subseteq rec'[r].subs
                         /\ rec'[r].len = rec[r].len \/ ReadFromServer(w, r)
  /\ \A c \in Clients : cl'[c].record \in {cl[c].record, Nil}
  /\ thr'[w].pc # "connect" \/ UNCHANGED <<rec, thr>>

LEMMA QuietStep ==
  ASSUME TypeOK, ThreadsOK, NEW w \in Workers, Act(w), bad' = "none",
         ~PublishRecord(w), ~AttachClient(w), ~ConnectServer(w)
  PROVE  Quiet(w)
<1> USE DEF At
<1>1. /\ rec \in [Records -> RecordType] /\ cl \in [Clients -> ClientType]
      /\ thr \in [Workers -> ThreadType] /\ thr[w] \in ThreadType
  BY DEF TypeOK
<1>2. /\ Return(w) => thr'[w].pc = "poll"
      /\ \A l : Goto(w, l) => thr'[w].pc = l
      /\ \A l, r : GotoWith(w, l, r) => thr'[w].pc = l
      /\ \A c \in Clients : Disconnect(c) =>
           \A d \in Clients : cl'[d].record \in {cl[d].record, Nil}
  <2>1. \A c \in Clients : Disconnect(c) =>
           \A d \in Clients : cl'[d].record \in {cl[d].record, Nil}
    BY MoveEffects
  <2> QED  BY <2>1, MoveEffects
<1>3. /\ thr[w].pc \in {"visit", "attach", "free", "write", "clear", "connect"}
           => thr[w].c \in Clients
      /\ thr[w].pc \in {"drop", "free", "connect"} => thr[w].at \in Alloc
  BY DEF ThreadsOK, ThreadOK
<1>4. CASE LockList(w) \/ PassNode(w) \/ NextNode(w)
  <2>1. thr'[w].pc \in {"visit", "relock"}
    BY <1>1, <1>2, <1>4 DEF LockList, PassNode, NextNode, UsesFreed, ThreadType
  <2> QED  BY <1>4, <2>1 DEF LockList, PassNode, NextNode, UsesFreed, Quiet
<1>5. CASE CheckAttached(w)
  <2>1. \A c \in Clients : cl'[c].record = cl[c].record
    BY <1>1, <1>3, <1>5 DEF CheckAttached, ClientType
  <2> QED  BY <1>2, <1>5, <2>1 DEF CheckAttached, Quiet
<1>6. CASE ReapNode(w) \/ FreeFailedRecord(w) \/ ConnectFails(w)
  <2> DEFINE r == thr[w].at
  <2>1. /\ r \in Alloc /\ ~Freed(r) /\ head' = head
        /\ \E m \in {"freed", "invalid"} : FreeCacheRecord(w, r, m)
    BY <1>1, <1>3, <1>6 DEF ReapNode, FreeFailedRecord, ConnectFails, UsesFreed,
       Freed, Alloc, ThreadType
  <2>2. /\ rec'[r].mem # "live"
        /\ \A q \in Records :
              /\ q # r => rec'[q].len = rec[q].len /\ rec'[q].subs = rec[q].subs
              /\ rec'[q].server \in {rec[q].server, Nobody}
              /\ rec'[q].len \in {rec[q].len, 0}
    BY <2>1, FreedRecord
  <2>3. \A d \in Clients : cl'[d].record \in {cl[d].record, Nil}
    BY <1>2, <1>3, <1>6 DEF ReapNode, FreeFailedRecord, ConnectFails, UsesFreed
  <2>4. thr'[w].pc # "connect"
    BY <1>2, <1>6 DEF ReapNode, FreeFailedRecord, ConnectFails, UsesFreed
  <2> HIDE DEF r
  <2> QED  BY <2>2, <2>3, <2>4 DEF Quiet, Live
<1>7. ASSUME NEW r \in Records, WriteToServer(w, r) \/ ServerEof(w, r)
      PROVE  Quiet(w)
  <2>1. /\ \/ rec' = [rec EXCEPT ![r].sent = TRUE] /\ thr' = thr
           \/ rec' = [rec EXCEPT ![r].full = TRUE] /\ GotoWith(w, "eof", r)
        /\ cl' = cl /\ thr[w].pc = "poll"
    BY <1>7 DEF WriteToServer, ServerEof, UsesFreed, Serving
  <2>2. \A q \in Records : /\ rec'[q].server = rec[q].server /\ rec'[q].len = rec[q].len
                           /\ rec'[q].subs = rec[q].subs
    BY <1>1, <2>1 DEF RecordType
  <2>3. thr'[w].pc # "connect"
    BY <1>2, <2>1
  <2> QED  BY <2>1, <2>2, <2>3 DEF Quiet
<1>8. ASSUME NEW r \in Records, ReadFromServer(w, r)
      PROVE  Quiet(w)
  <2>1. rec' = [rec EXCEPT ![r].len = @ + 1] /\ GotoWith(w, "notify", r) /\ cl' = cl
    BY <1>8 DEF ReadFromServer, UsesFreed
  <2>2. \A q \in Records : /\ rec'[q].server = rec[q].server
                           /\ q # r => rec'[q].len = rec[q].len
                           /\ rec'[q].subs = rec[q].subs
    BY <1>1, <2>1 DEF RecordType
  <2> QED  BY <1>2, <1>8, <2>1, <2>2 DEF Quiet
<1>9. CASE NotifySubscribers(w) \/ WakeDone(w)
  BY <1>2, <1>9 DEF NotifySubscribers, WakeDone, UsesFreed, Quiet
<1>10. CASE DisconnectServer(w)
  <2>1. \A q \in Records : /\ rec'[q].server \in {rec[q].server, Nobody}
                           /\ rec'[q].len = rec[q].len /\ rec'[q].subs = rec[q].subs
    BY <1>1, <1>10 DEF DisconnectServer, UsesFreed, RecordType
  <2> QED  BY <1>2, <1>10, <2>1 DEF DisconnectServer, UsesFreed, Quiet
<1>11. ASSUME NEW c \in Clients, TestRecord(w, c) PROVE Quiet(w)
  <2>1. thr'[w].pc # "connect"
    BY <1>1, <1>11 DEF TestRecord, UsesFreed, ThreadType
  <2>2. \A d \in Clients : cl'[d].record \in {cl[d].record, Nil}
    BY <1>2, <1>11 DEF TestRecord, UsesFreed
  <2> QED  BY <1>11, <2>1, <2>2 DEF TestRecord, UsesFreed, Quiet
<1>12. CASE WriteToClient(w)
  <2>1. CASE Disconnect(thr[w].c) /\ Return(w)
    BY <1>2, <1>3, <1>12, <2>1 DEF WriteToClient, UsesFreed, Quiet
  <2>2. CASE ~(Disconnect(thr[w].c) /\ Return(w))
    <3>1. /\ Goto(w, "clear")
          /\ \E i \in cl[thr[w].c].idx .. rec[thr[w].at].len : cl' = [cl EXCEPT ![thr[w].c].idx = i]
      BY <1>12, <2>2 DEF WriteToClient, UsesFreed
    <3>2. \A d \in Clients : cl'[d].record = cl[d].record
      BY <1>1, <3>1 DEF ClientType
    <3> QED  BY <1>2, <1>12, <3>1, <3>2 DEF WriteToClient, UsesFreed, Quiet
  <2> QED  BY <2>1, <2>2
<1>13. CASE ClearPollout(w)
  <2>1. \A d \in Clients : cl'[d].record = cl[d].record
    BY <1>1, <1>13 DEF ClearPollout, UsesFreed, ClientType
  <2> QED  BY <1>2, <1>13, <2>1 DEF ClearPollout, UsesFreed, Quiet
<1>14. CASE ReadEvent(w)
  BY <1>1, <1>14 DEF ReadEvent, Quiet, ThreadType
<1>15. CASE WakeClient(w)
  <2>1. PICK c \in thr[w].todo :
          /\ cl' = [cl EXCEPT ![c].out = @ \/ (cl[c].record # Nil /\ rec[cl[c].record].len > cl[c].idx)]
          /\ thr' = [thr EXCEPT ![w].todo = @ \ {c}]
          /\ UNCHANGED <<head, mutex, rec, event, bad>>
    BY <1>15 DEF WakeClient, UsesFreed
  <2>2. \A d \in Clients : cl'[d].record = cl[d].record
    BY <1>1, <2>1 DEF ClientType
  <2>3. thr'[w].pc = "wake"
    BY <1>1, <1>15, <2>1 DEF WakeClient, ThreadType
  <2> QED  BY <2>1, <2>2, <2>3 DEF Quiet
<1>16. CASE Environment(w)
  <2>1. ASSUME NEW c \in Clients, NEW u \in Urls, ReadRequest(w, c, u) PROVE Quiet(w)
    <3>1. \A d \in Clients : cl'[d].record = cl[d].record
      BY <1>1, <2>1 DEF ReadRequest, ClientType
    <3>2. thr'[w].pc = "lock"
      BY <1>1, <2>1 DEF ReadRequest, ThreadType
    <3> QED  BY <2>1, <3>1, <3>2 DEF ReadRequest, Quiet
  <2>2. ASSUME NEW c \in Clients, ClientCloses(w, c) PROVE Quiet(w)
    BY <1>2, <2>2 DEF ClientCloses, Quiet
  <2>3. ASSUME NEW r \in Records, WriteToServerFails(w, r) \/ ReadFromServerFails(w, r)
        PROVE  Quiet(w)
    BY <1>2, <2>3 DEF WriteToServerFails, ReadFromServerFails, Quiet
  <2>4. ASSUME PublishFails(w) PROVE Quiet(w)
    BY <1>2, <1>3, <2>4 DEF PublishFails, Quiet
  <2> QED  BY <1>6, <1>16, <2>1, <2>2, <2>3, <2>4 DEF Environment
<1>17. CASE Scan(w)
  BY <1>4, <1>5, <1>6, <1>17 DEF Scan
<1>18. CASE Serve(w)
  BY <1>6, <1>7, <1>8, <1>9, <1>10, <1>11, <1>12, <1>13, <1>14, <1>15, <1>18 DEF Serve
<1> QED  BY <1>16, <1>17, <1>18 DEF Act

LEMMA RecordsQuiet ==
  ASSUME TypeOK, TypeOK', ThreadsOK, RecordsOK, NEW w \in Workers, Unmoved, Local(w),
         Quiet(w)
  PROVE  RecordsOK'
<1>1. Alloc' = Alloc /\ Live' \subseteq Live /\ Alloc \subseteq Records /\ Live \subseteq Records
  BY UnmovedKeeps DEF Alloc, Live
<1>2. \A r \in Records \ Alloc' : rec'[r].server = Nobody
  BY <1>1 DEF RecordsOK, Quiet
<1>3. \A q \in Records, r \in Alloc' : q < r => q \in Alloc'
  BY <1>1 DEF RecordsOK
<1>4. ASSUME NEW c \in Clients
      PROVE  /\ cl'[c].record \in Alloc' \cup {Nil}
             /\ cl'[c].record \in Live' => Owner[c] \in rec'[cl'[c].record].subs
  <2>1. cl[c].record \in Alloc \cup {Nil} /\ cl'[c].record \in {cl[c].record, Nil}
    BY DEF RecordsOK, Quiet
  <2>2. Nil \notin Live'
    BY <1>1 DEF Nil, Records
  <2>3. ASSUME cl'[c].record \in Live' PROVE Owner[c] \in rec'[cl'[c].record].subs
    <3>1. cl'[c].record = cl[c].record /\ cl[c].record \in Live
      BY <1>1, <2>1, <2>2, <2>3
    <3> QED  BY <1>1, <2>3, <3>1 DEF RecordsOK, Quiet
  <2> QED  BY <1>1, <2>1, <2>3
<1>5. ASSUME NEW v \in Workers, thr'[v].pc = "connect"
      PROVE  /\ rec'[thr'[v].at].server = Nobody /\ rec'[thr'[v].at].len = 0
             /\ \A u \in Workers :
                  thr'[u].pc = "connect" /\ thr'[u].at = thr'[v].at => u = v
  <2>1. CASE UNCHANGED <<rec, thr>>
    BY <1>5, <2>1 DEF RecordsOK
  <2>2. CASE ~UNCHANGED <<rec, thr>>
    <3>1. \A u \in Workers : thr'[u].pc = "connect" => u # w /\ thr'[u] = thr[u]
      BY <2>2 DEF Quiet, Local
    <3>2. thr[v].pc = "connect" /\ thr'[v] = thr[v] /\ v # w
      BY <1>5, <3>1
    <3>3. thr[v].at \in Records
      BY <1>1, <3>2 DEF ThreadsOK, ThreadOK
    <3>4. rec[thr[v].at].server = Nobody /\ rec[thr[v].at].len = 0
      BY <3>2 DEF RecordsOK
    <3>5. ~ReadFromServer(w, thr[v].at)
      BY <3>4, CacheAssumption DEF ReadFromServer, Serving
    <3>6. rec'[thr[v].at].server = Nobody /\ rec'[thr[v].at].len = 0
      BY <3>3, <3>4, <3>5 DEF Quiet
    <3> QED  BY <3>1, <3>2, <3>6 DEF RecordsOK
  <2> QED  BY <2>1, <2>2
<1> QED  BY <1>2, <1>3, <1>4, <1>5 DEF RecordsOK

LEMMA RecordsStep ==
  ASSUME TypeOK, TypeOK', ThreadsOK, RecordsOK, WalkOK, NEW w \in Workers, Act(w),
         bad' = "none"
  PROVE  RecordsOK'
<1> USE DEF At
<1>1. /\ rec \in [Records -> RecordType] /\ cl \in [Clients -> ClientType]
      /\ thr \in [Workers -> ThreadType] /\ thr[w] \in ThreadType
  BY DEF TypeOK
<1>2. Local(w)
  BY ScanShape, ServeShape DEF Act
<1>3. ThreadOK(w) /\ Alloc \subseteq Records /\ Live \subseteq Alloc /\ Nil \notin Records
  BY DEF ThreadsOK, Alloc, Live, Nil, Records
<1>4. \A v \in Workers : thr[v].pc = "connect" => thr[v].at \in Alloc
  BY DEF ThreadsOK, ThreadOK
<1>5. CASE PublishRecord(w)
  <2>1. PICK r \in Records : Published(w, r)
    BY <1>5, PublishEffect
  <2>2. Alloc' = Alloc \cup {r} /\ Live' = Live \cup {r}
    BY <2>1 DEF Published, Alloc, Live
  <2>3. \A q \in Records : q < r => q \in Alloc
    <3>1. PICK s \in Records :
            /\ rec[s].mem = "none" /\ \A q \in Records : q < s => rec[q].mem # "none"
            /\ GotoWith(w, "connect", s)
      BY <1>5 DEF PublishRecord
    <3>2. s = thr'[w].at /\ r = thr'[w].at
      BY <1>1, <2>1, <3>1 DEF GotoWith, Published, ThreadType
    <3> QED  BY <3>1, <3>2 DEF Alloc
  <2>4. thr'[w].pc = "connect" /\ thr'[w].at = r
    BY <1>1, <2>1 DEF Published, GotoWith, ThreadType
  <2>5. \A q \in Records \ Alloc' : rec'[q].server = Nobody
    BY <2>1, <2>2 DEF Published, RecordsOK
  <2>6. \A q \in Records, s \in Alloc' : q < s => q \in Alloc'
    BY <2>2, <2>3 DEF RecordsOK
  <2>7. \A c \in Clients :
          /\ cl'[c].record \in Alloc' \cup {Nil}
          /\ cl'[c].record \in Live' => Owner[c] \in rec'[cl'[c].record].subs
    BY <1>3, <2>1, <2>2 DEF Published, RecordsOK
  <2>8. ASSUME NEW v \in Workers, thr'[v].pc = "connect"
        PROVE  /\ rec'[thr'[v].at].server = Nobody /\ rec'[thr'[v].at].len = 0
               /\ \A u \in Workers :
                    thr'[u].pc = "connect" /\ thr'[u].at = thr'[v].at => u = v
    <3>1. \A u \in Workers : u # w /\ thr'[u].pc = "connect" =>
             /\ thr'[u] = thr[u] /\ thr[u].at \in Alloc /\ thr[u].at # r
      BY <1>2, <1>4, <2>1 DEF Local, Published
    <3>2. CASE v = w
      BY <2>1, <2>4, <3>1, <3>2 DEF Published
    <3>3. CASE v # w
      BY <1>3, <2>1, <2>4, <2>8, <3>1, <3>3 DEF Published, RecordsOK
    <3> QED  BY <3>2, <3>3
  <2> QED  BY <2>5, <2>6, <2>7, <2>8 DEF RecordsOK
<1>6. CASE ConnectServer(w) \/ AttachClient(w)
  <2> DEFINE r == thr[w].at
             c == thr[w].c
  <2>1. Unmoved /\ r \in Alloc /\ c \in Clients /\ Owner[c] = w
    BY <1>1, <1>3, <1>6, ScanShape DEF AttachClient, ConnectServer, PublishRecord, ThreadOK,
       Alloc, Scan
  <2>2. /\ cl' = [cl EXCEPT ![c] = [cl[c] EXCEPT !.record = r, !.idx = 0]]
        /\ \/ rec' = [rec EXCEPT ![r] = [rec[r] EXCEPT !.subs = @ \cup {w}]]
           \/ /\ rec' = [rec EXCEPT ![r] = [rec[r] EXCEPT !.server = w, !.slot = FreeSlot(w),
                           !.subs = IF rec[r].mem = "live" THEN @ \cup {w} ELSE @]]
              /\ thr[w].pc = "connect"
    BY <1>1, <1>6 DEF AttachClient, ConnectServer, UsesFreed
  <2>3. thr'[w].pc # "connect"
    <3>1. Goto(w, "attach") \/ Return(w)
      BY <1>6 DEF AttachClient, ConnectServer, UsesFreed
    <3>2. thr'[w].pc \in {"attach", "poll"}
      BY <3>1, MoveEffects
    <3> QED  BY <3>2
  <2> HIDE DEF r, c
  <2>4. /\ cl'[c].record = r
        /\ \A d \in Clients : d # c => cl'[d] = cl[d]
    BY <1>1, <2>1, <2>2 DEF ClientType
  <2>5. /\ \A q \in Records : q # r => rec'[q] = rec[q]
        /\ rec[r].subs \subseteq rec'[r].subs
        /\ rec[r].mem = "live" => w \in rec'[r].subs
        /\ rec'[r].len = rec[r].len
        /\ thr[w].pc # "connect" => rec'[r].server = rec[r].server
    <3>1. \A q \in Records : q # r => rec'[q] = rec[q]
      BY <1>1, <2>2
    <3>2. rec[r] \in RecordType /\ r \in Records
      BY <1>1, <1>3, <2>1
    <3>3. \/ rec'[r] = [rec[r] EXCEPT !.subs = @ \cup {w}]
          \/ /\ rec'[r] = [rec[r] EXCEPT !.server = w, !.slot = FreeSlot(w),
                             !.subs = IF rec[r].mem = "live" THEN @ \cup {w} ELSE @]
             /\ thr[w].pc = "connect"
      BY <1>1, <2>2, <3>2
    <3>4. CASE rec'[r] = [rec[r] EXCEPT !.subs = @ \cup {w}]
      BY <3>1, <3>2, <3>4 DEF RecordType
    <3>5. CASE /\ rec'[r] = [rec[r] EXCEPT !.server = w, !.slot = FreeSlot(w),
                               !.subs = IF rec[r].mem = "live" THEN @ \cup {w} ELSE @]
               /\ thr[w].pc = "connect"
      <4>1. rec'[r].subs = IF rec[r].mem = "live" THEN rec[r].subs \cup {w} ELSE rec[r].subs
        BY <3>2, <3>5 DEF RecordType
      <4>2. rec'[r].len = rec[r].len
        BY <3>2, <3>5 DEF RecordType
      <4> QED  BY <3>1, <3>5, <4>1, <4>2
    <3> QED  BY <3>3, <3>4, <3>5
  <2>6. Alloc' = Alloc /\ Live' \subseteq Live
    BY <2>1, UnmovedKeeps
  <2>7. \A q \in Records \ Alloc' : rec'[q].server = Nobody
    BY <2>1, <2>5, <2>6 DEF RecordsOK
  <2>8. \A q \in Records, s \in Alloc' : q < s => q \in Alloc'
    BY <2>6 DEF RecordsOK
  <2>9. ASSUME NEW d \in Clients
        PROVE  /\ cl'[d].record \in Alloc' \cup {Nil}
               /\ cl'[d].record \in Live' => Owner[d] \in rec'[cl'[d].record].subs
    <3>1. CASE d = c
      BY <2>1, <2>4, <2>5, <2>6, <3>1 DEF Live
    <3>2. CASE d # c
      BY <1>3, <2>4, <2>5, <2>6, <3>2 DEF RecordsOK
    <3> QED  BY <3>1, <3>2
  <2>10. ASSUME NEW v \in Workers, thr'[v].pc = "connect"
        PROVE  /\ rec'[thr'[v].at].server = Nobody /\ rec'[thr'[v].at].len = 0
               /\ \A u \in Workers :
                    thr'[u].pc = "connect" /\ thr'[u].at = thr'[v].at => u = v
    <3>1. \A u \in Workers : thr'[u].pc = "connect" => u # w /\ thr'[u] = thr[u]
      BY <1>2, <2>3 DEF Local
    <3>2. /\ v # w /\ thr'[v] = thr[v] /\ thr[v].pc = "connect"
          /\ thr[v].at \in Records
      BY <1>3, <1>4, <2>10, <3>1
    <3>3. rec'[thr[v].at].server = Nobody /\ rec'[thr[v].at].len = 0
      <4>1. rec[thr[v].at].server = Nobody /\ rec[thr[v].at].len = 0
        BY <3>2 DEF RecordsOK
      <4>2. thr[w].pc = "connect" => thr[v].at # r
        BY <3>2 DEF RecordsOK, r
      <4> QED  BY <2>5, <3>2, <4>1, <4>2
    <3> QED  BY <3>1, <3>2, <3>3 DEF RecordsOK
  <2> QED  BY <2>7, <2>8, <2>9, <2>10 DEF RecordsOK
<1>7. CASE ~PublishRecord(w) /\ ~AttachClient(w) /\ ~ConnectServer(w)
  <2>1. Unmoved
    BY <1>7, ScanShape, ServeShape DEF Act
  <2> QED  BY <1>2, <1>7, <2>1, QuietStep, RecordsQuiet
<1> QED  BY <1>5, <1>6, <1>7

-----------------------------------------------------------------------------
(* The wake-ups.  A client stays informed when its record, what it has of it *)
(* and its events are kept and its thread was not about to look at it.      *)
Tells(w) ==
  \/ NotifySubscribers(w) \/ CheckAttached(w) \/ ReadEvent(w) \/ WakeClient(w)
  \/ WakeDone(w) \/ ClearPollout(w) \/ \E r \in Records : ReadFromServer(w, r)

KeepsClient(c) ==
  cl'[c].record # Nil =>
    /\ cl'[c].record = cl[c].record /\ cl'[c].idx >= cl[c].idx
    /\ cl[c].out => cl'[c].out

LEMMA WakeUpKept ==
  ASSUME NEW w \in Workers, Local(w), NEW c \in Clients, WakeUpOf(c),
         thr[w].pc \notin {"wake", "attach", "notify", "eof"}, event \subseteq event',
         cl'[c].record \in Live' /\ rec'[cl'[c].record].len > cl'[c].idx =>
           /\ cl'[c].record = cl[c].record /\ cl[c].record \in Live
           /\ rec[cl[c].record].len > cl[c].idx
           /\ cl[c].out => cl'[c].out
           /\ rec[cl[c].record].subs \subseteq rec'[cl[c].record].subs
  PROVE  WakeUpOf(c)'
<1>1. SUFFICES ASSUME cl'[c].record \in Live', rec'[cl'[c].record].len > cl'[c].idx
               PROVE  cl'[c].out \/ WakeUpComing(c)'
  BY DEF WakeUpOf
<1>2. cl[c].out \/ WakeUpComing(c)
  BY <1>1 DEF WakeUpOf
<1>3. CASE cl[c].out
  BY <1>1, <1>3
<1>4. CASE WakeUpComing(c)
  <2>1. \A v \in Workers : thr[v].pc \in {"wake", "attach", "notify", "eof"} => thr'[v] = thr[v]
    BY DEF Local
  <2>2. Owner[c] \in Workers
    BY CacheAssumption
  <2>3. CASE Owner[c] \in event
    BY <2>3 DEF WakeUpComing
  <2>4. CASE \/ thr[Owner[c]].pc = "wake" /\ c \in thr[Owner[c]].todo
             \/ thr[Owner[c]].pc = "attach" /\ thr[Owner[c]].c = c
    BY <2>1, <2>2, <2>4 DEF WakeUpComing
  <2>5. CASE Owner[c] \in rec[cl[c].record].subs /\ \E v \in Workers :
               thr[v].pc \in {"notify", "eof"} /\ thr[v].at = cl[c].record
    BY <1>1, <2>1, <2>5 DEF WakeUpComing
  <2> QED  BY <1>4, <2>3, <2>4, <2>5 DEF WakeUpComing
<1> QED  BY <1>2, <1>3, <1>4

LEMMA Undisturbed ==
  ASSUME TypeOK, ThreadsOK, NEW w \in Workers, Act(w), bad' = "none",
         ~PublishRecord(w), ~AttachClient(w), ~ConnectServer(w), ~Tells(w)
  PROVE  /\ thr[w].pc \notin {"wake", "attach", "notify", "eof"}
         /\ event \subseteq event'
         /\ \A c \in Clients : KeepsClient(c)
<1> USE DEF At
<1>1. cl \in [Clients -> ClientType] /\ \A c \in Clients : cl[c].idx \in Int
  BY CacheAssumption DEF TypeOK, ClientType
<1>2. /\ thr[w].pc \in {"visit", "attach", "free", "write", "clear", "connect"}
           => thr[w].c \in Clients
      /\ thr[w].pc \in {"free", "connect"} => thr[w].at \in Alloc
  BY DEF ThreadsOK, ThreadOK
<1>3. cl' = cl => \A c \in Clients : KeepsClient(c)
  BY <1>1 DEF KeepsClient
<1>4. \A c \in Clients : Disconnect(c) => \A d \in Clients : KeepsClient(d)
  <2>1. SUFFICES ASSUME NEW c \in Clients, Disconnect(c), NEW d \in Clients
                 PROVE  KeepsClient(d)
    OBVIOUS
  <2>2. CASE d = c
    BY <2>1, <2>2, MoveEffects DEF KeepsClient
  <2>3. CASE d # c
    <3>1. cl'[d] = cl[d]
      BY <2>1, <2>3, MoveEffects
    <3> QED  BY <1>1, <3>1 DEF KeepsClient
  <2> QED  BY <2>2, <2>3
<1>5. CASE LockList(w) \/ PassNode(w) \/ NextNode(w)
  BY <1>3, <1>5 DEF LockList, PassNode, NextNode, UsesFreed
<1>6. CASE ReapNode(w) \/ FreeFailedRecord(w) \/ ConnectFails(w)
  <2>1. thr[w].pc \in {"visit", "free", "connect"} /\ event \subseteq event'
    BY <1>6 DEF ReapNode, FreeFailedRecord, ConnectFails, UsesFreed, FreeCacheRecord
  <2>2. \A c \in Clients : KeepsClient(c)
    BY <1>2, <1>3, <1>4, <1>6 DEF ReapNode, FreeFailedRecord, ConnectFails, UsesFreed
  <2> QED  BY <2>1, <2>2
<1>7. ASSUME NEW r \in Records,
             \/ WriteToServer(w, r) \/ ServerEof(w, r) \/ WriteToServerFails(w, r)
      PROVE  thr[w].pc = "poll" /\ event' = event /\ cl' = cl
  BY <1>7 DEF WriteToServer, ServerEof, WriteToServerFails, Serving, UsesFreed
<1>8. CASE DisconnectServer(w)
  BY <1>3, <1>8 DEF DisconnectServer, UsesFreed
<1>9. ASSUME NEW c \in Clients, TestRecord(w, c)
      PROVE  thr[w].pc = "poll" /\ event' = event /\ \A d \in Clients : KeepsClient(d)
  BY <1>3, <1>4, <1>9 DEF TestRecord, UsesFreed
<1>10. CASE WriteToClient(w)
  <2>1. CASE Disconnect(thr[w].c)
    BY <1>2, <1>4, <1>10, <2>1 DEF WriteToClient, UsesFreed
  <2>2. CASE ~Disconnect(thr[w].c)
    <3>1. PICK i \in cl[thr[w].c].idx .. rec[thr[w].at].len : cl' = [cl EXCEPT ![thr[w].c].idx = i]
      BY <1>10, <2>2 DEF WriteToClient, UsesFreed
    <3>2. thr[w].c \in Clients
      BY <1>2, <1>10 DEF WriteToClient
    <3>3. i >= cl[thr[w].c].idx
      BY <1>1, <3>1, <3>2
    <3>4. \A d \in Clients : KeepsClient(d)
      BY <1>1, <3>1, <3>2, <3>3 DEF KeepsClient, ClientType
    <3> QED  BY <1>10, <3>4 DEF WriteToClient, UsesFreed
  <2> QED  BY <2>1, <2>2
<1>11. CASE Environment(w)
  <2>1. ASSUME NEW c \in Clients, NEW u \in Urls, ReadRequest(w, c, u)
        PROVE  thr[w].pc = "poll" /\ event' = event /\ \A d \in Clients : KeepsClient(d)
    <3>1. \A d \in Clients : /\ cl'[d].record = cl[d].record /\ cl'[d].idx = cl[d].idx
                             /\ cl'[d].out = cl[d].out
      BY <1>1, <2>1 DEF ReadRequest, ClientType
    <3> QED  BY <1>1, <2>1, <3>1 DEF ReadRequest, KeepsClient
  <2>2. ASSUME NEW c \in Clients, ClientCloses(w, c)
        PROVE  thr[w].pc = "poll" /\ event' = event /\ \A d \in Clients : KeepsClient(d)
    BY <1>4, <2>2 DEF ClientCloses
  <2>3. ~ \E r \in Records : ReadFromServerFails(w, r)
    BY DEF ReadFromServerFails
  <2>4. ASSUME PublishFails(w)
        PROVE  thr[w].pc = "visit" /\ event' = event /\ \A d \in Clients : KeepsClient(d)
    BY <1>2, <1>4, <2>4 DEF PublishFails
  <2> QED  BY <1>3, <1>6, <1>7, <1>11, <2>1, <2>2, <2>3, <2>4 DEF Environment
<1>12. CASE Scan(w)
  BY <1>5, <1>6, <1>12 DEF Scan, Tells
<1>13. CASE Serve(w)
  BY <1>3, <1>6, <1>7, <1>8, <1>9, <1>10, <1>13 DEF Serve, Tells
<1> QED  BY <1>11, <1>12, <1>13 DEF Act

LEMMA WakeUpsTold ==
  ASSUME TypeOK, ThreadsOK, NEW w \in Workers, Local(w), bad' = "none",
         \/ NotifySubscribers(w) \/ CheckAttached(w) \/ ReadEvent(w)
         \/ WakeClient(w) \/ WakeDone(w) \/ ClearPollout(w),
         NEW c \in Clients, WakeUpOf(c)
  PROVE  WakeUpOf(c)'
<1> USE DEF At
<1>1. /\ rec \in [Records -> RecordType] /\ cl \in [Clients -> ClientType]
      /\ thr \in [Workers -> ThreadType] /\ thr[w] \in ThreadType
  BY DEF TypeOK
<1>2. ThreadOK(w) /\ Owner[c] \in Workers
  BY CacheAssumption DEF ThreadsOK
<1>3. rec' = rec /\ Live' = Live
  BY DEF NotifySubscribers, CheckAttached, ReadEvent, WakeClient, WakeDone,
     ClearPollout, UsesFreed, Live
<1>4. cl'[c].record = cl[c].record /\ cl'[c].idx = cl[c].idx
  BY <1>1 DEF NotifySubscribers, CheckAttached, ReadEvent, WakeClient, WakeDone,
     ClearPollout, UsesFreed, ClientType
<1>5. SUFFICES ASSUME cl[c].record \in Live, rec[cl[c].record].len > cl[c].idx
               PROVE  cl'[c].out \/ WakeUpComing(c)'
  BY <1>3, <1>4 DEF WakeUpOf
<1>6. cl[c].out \/ WakeUpComing(c)
  BY <1>5 DEF WakeUpOf
<1> DEFINE v == Owner[c]
           r == cl[c].record
<1>7. \/ cl[c].out \/ v \in event
      \/ thr[v].pc = "wake" /\ c \in thr[v].todo
      \/ thr[v].pc = "attach" /\ thr[v].c = c
      \/ v \in rec[r].subs /\ \E u \in Workers : thr[u].pc \in {"notify", "eof"} /\ thr[u].at = r
  BY <1>6 DEF WakeUpComing
<1>8. SUFFICES \/ cl'[c].out \/ v \in event'
               \/ thr'[v].pc = "wake" /\ c \in thr'[v].todo
               \/ thr'[v].pc = "attach" /\ thr'[v].c = c
               \/ v \in rec[r].subs /\ \E u \in Workers : thr'[u].pc \in {"notify", "eof"} /\ thr'[u].at = r
  BY <1>3, <1>4 DEF WakeUpComing
<1>9. /\ \A u \in Workers : u # w => thr'[u] = thr[u]
      /\ v # w => cl'[c] = cl[c]
  BY DEF Local
<1>10. cl[c].record \in Records /\ cl[c] \in ClientType /\ Nil \notin Records
  BY <1>1, <1>5 DEF Live, Nil, Records
<1> HIDE DEF v, r
<1>11. CASE NotifySubscribers(w)
  <2>1. /\ event' = event \cup rec[thr[w].at].subs /\ cl' = cl
        /\ thr[w].pc \in {"notify", "eof", "dropNotify"}
    BY <1>11 DEF NotifySubscribers, UsesFreed
  <2>2. CASE v \in rec[r].subs /\ \E u \in Workers : thr[u].pc \in {"notify", "eof"} /\ thr[u].at = r
    BY <1>9, <2>1, <2>2
  <2> QED  BY <1>2, <1>7, <1>9, <2>1, <2>2 DEF v
<1>12. CASE CheckAttached(w)
  <2>1. /\ event' = event /\ thr[w].pc = "attach" /\ Return(w) /\ thr[w].c \in Clients
        /\ cl' = [cl EXCEPT ![thr[w].c].out = @ \/ rec[thr[w].at].len # 0]
        /\ cl[thr[w].c].idx = 0 /\ cl[thr[w].c].record = thr[w].at
    BY <1>2, <1>12 DEF CheckAttached, ThreadOK
  <2>2. CASE c = thr[w].c
    <3>1. cl'[c].out = (cl[c].out \/ rec[r].len # 0)
      BY <1>1, <2>1, <2>2 DEF ClientType, r
    <3>2. rec[r].len # 0
      BY <1>5, <2>1, <2>2 DEF r
    <3> QED  BY <3>1, <3>2
  <2>3. CASE c # thr[w].c
    <3>1. cl'[c] = cl[c]
      BY <1>1, <2>1, <2>3
    <3> QED  BY <1>2, <1>7, <1>9, <2>1, <2>3, <3>1 DEF v
  <2> QED  BY <2>2, <2>3
<1>13. CASE ReadEvent(w)
  <2>1. /\ event' = event \ {w} /\ cl' = cl /\ thr[w].pc = "poll"
        /\ thr'[w].pc = "wake" /\ thr'[w].todo = {d \in Clients : Owner[d] = w}
    BY <1>1, <1>13 DEF ReadEvent, ThreadType
  <2>2. CASE v = w
    BY <2>1, <2>2 DEF v
  <2>3. CASE v # w
    BY <1>2, <1>7, <1>9, <2>1, <2>3 DEF v
  <2> QED  BY <2>2, <2>3
<1>14. CASE WakeClient(w)
  <2>1. PICK d \in thr[w].todo :
          /\ cl' = [cl EXCEPT ![d].out = @ \/ (cl[d].record # Nil /\ rec[cl[d].record].len > cl[d].idx)]
          /\ thr' = [thr EXCEPT ![w].todo = @ \ {d}]
          /\ UNCHANGED <<head, mutex, rec, event, bad>>
    BY <1>14 DEF WakeClient, UsesFreed
  <2>2. thr[w].pc = "wake" /\ thr'[w].pc = "wake" /\ thr'[w].todo = thr[w].todo \ {d}
    BY <1>1, <1>14, <2>1 DEF WakeClient, ThreadType
  <2>3. CASE c = d
    <3>1. cl'[c].out = (cl[c].out \/ (cl[c].record # Nil /\ rec[cl[c].record].len > cl[c].idx))
      BY <1>1, <2>1, <2>3 DEF ClientType
    <3> QED  BY <1>5, <1>10, <3>1
  <2>4. CASE c # d
    <3>1. cl'[c] = cl[c]
      BY <1>1, <2>1, <2>4
    <3> QED  BY <1>2, <1>7, <1>9, <2>1, <2>2, <2>4, <3>1 DEF v
  <2> QED  BY <2>3, <2>4
<1>15. CASE WakeDone(w)
  <2>1. event' = event /\ cl' = cl /\ thr[w].pc = "wake" /\ thr[w].todo = {}
    BY <1>15 DEF WakeDone
  <2> QED  BY <1>2, <1>7, <1>9, <2>1 DEF v
<1>16. CASE ClearPollout(w)
  <2>1. /\ event' = event /\ thr[w].pc = "clear" /\ thr[w].c \in Clients
        /\ cl' = [cl EXCEPT ![thr[w].c].out = @ /\ cl[thr[w].c].idx # rec[thr[w].at].len]
        /\ cl[thr[w].c].record = thr[w].at
    BY <1>2, <1>16 DEF ClearPollout, UsesFreed, ThreadOK
  <2>2. cl[c].out => cl'[c].out
    <3>1. CASE c = thr[w].c
      <4>1. cl'[c].out = (cl[c].out /\ cl[c].idx # rec[cl[c].record].len)
        BY <1>1, <2>1, <3>1 DEF ClientType
      <4>2. cl[c].idx # rec[cl[c].record].len
        BY <1>1, <1>5, <1>10, CacheAssumption DEF ClientType, RecordType
      <4> QED  BY <4>1, <4>2
    <3>2. CASE c # thr[w].c
      BY <1>1, <2>1, <3>2
    <3> QED  BY <3>1, <3>2
  <2> QED  BY <1>2, <1>7, <1>9, <2>1, <2>2 DEF v
<1> QED  BY <1>11, <1>12, <1>13, <1>14, <1>15, <1>16

LEMMA WakeUpsStep ==
  ASSUME TypeOK, TypeOK', ThreadsOK, ThreadsOK', RecordsOK, WalkOK, WakeUpsOK,
         NEW w \in Workers, Act(w), bad' = "none"
  PROVE  WakeUpsOK'
<1> USE DEF At
<1>1. /\ rec \in [Records -> RecordType] /\ cl \in [Clients -> ClientType]
      /\ thr \in [Workers -> ThreadType] /\ thr[w] \in ThreadType
  BY DEF TypeOK
<1>2. Local(w) /\ ThreadOK(w)
  BY ScanShape, ServeShape DEF Act, ThreadsOK
<1>3. /\ \A c \in Clients : cl[c].idx \in Int /\ cl'[c].idx \in Int
      /\ \A r \in Records : rec[r].len \in Int /\ rec'[r].len \in Int
      /\ Alloc \subseteq Records /\ Live \subseteq Alloc /\ Nil \notin Records
      /\ \A c \in Clients : Owner[c] \in Workers
  BY CacheAssumption DEF TypeOK, ClientType, RecordType, Alloc, Live, Nil, Records
<1>4. SUFFICES ASSUME NEW c \in Clients PROVE WakeUpOf(c)'
  BY DEF WakeUpsOK
<1>5. WakeUpOf(c)
  BY DEF WakeUpsOK
<1>6. ~PublishRecord(w) => Unmoved /\ Live' \subseteq Live
  BY ScanShape, ServeShape, UnmovedKeeps DEF Act
<1>7. CASE PublishRecord(w)
  <2>1. PICK r \in Records : Published(w, r)
    BY <1>7, PublishEffect
  <2>2. cl' = cl /\ event' = event /\ thr[w].pc = "visit"
    BY <2>1 DEF Published
  <2>3. cl[c].record \in Alloc \cup {Nil} /\ r \notin Alloc
    BY <2>1 DEF RecordsOK, Published
  <2>4. cl[c].record \in Live' =>
          /\ cl[c].record \in Live
          /\ rec'[cl[c].record].len = rec[cl[c].record].len
          /\ rec'[cl[c].record].subs = rec[cl[c].record].subs
    BY <1>3, <2>1, <2>3 DEF Published, Live
  <2> QED  BY <1>2, <1>5, <2>2, <2>4, WakeUpKept
<1>8. CASE AttachClient(w)
  <2>1. /\ thr[w].c \in Clients /\ thr[w].pc = "visit" /\ event' = event
        /\ Goto(w, "attach") /\ Owner[thr[w].c] = w
        /\ cl' = [cl EXCEPT ![thr[w].c].record = thr[w].at, ![thr[w].c].idx = 0]
        /\ rec' = [rec EXCEPT ![thr[w].at].subs = @ \cup {w}]
    BY <1>2, <1>8 DEF AttachClient, ThreadOK
  <2>2. \A r \in Records : rec'[r].len = rec[r].len /\ rec[r].subs \subseteq rec'[r].subs
    BY <1>1, <2>1 DEF RecordType
  <2>3. CASE c = thr[w].c
    <3>1. thr'[w].pc = "attach" /\ thr'[w].c = c /\ Owner[c] = w
      BY <2>1, <2>3, MoveEffects
    <3> QED  BY <3>1 DEF WakeUpOf, WakeUpComing
  <2>4. CASE c # thr[w].c
    <3>1. cl'[c] = cl[c]
      BY <1>1, <2>1, <2>4
    <3>2. cl[c].record \in Live' => cl[c].record \in Live
      BY <1>6, <1>8 DEF PublishRecord, AttachClient
    <3> QED  BY <1>2, <1>3, <1>5, <2>1, <2>2, <3>1, <3>2, WakeUpKept
  <2> QED  BY <2>3, <2>4
<1>9. CASE ConnectServer(w)
  <2> DEFINE r == thr[w].at
  <2>1. /\ thr[w].c \in Clients /\ thr[w].pc = "connect" /\ event' = event
        /\ cl' = [cl EXCEPT ![thr[w].c].record = r, ![thr[w].c].idx = 0]
        /\ rec' = [rec EXCEPT ![r] =
              [rec[r] EXCEPT !.server = w, !.slot = FreeSlot(w),
                 !.subs = IF rec[r].mem = "live" THEN @ \cup {w} ELSE @]]
    <3>1. thr[w].c \in Clients /\ thr[w].pc = "connect"
      BY <1>2, <1>9 DEF ConnectServer, ThreadOK
    <3>2. /\ event' = event
          /\ cl' = [cl EXCEPT ![thr[w].c].record = r, ![thr[w].c].idx = 0]
      BY <1>9 DEF ConnectServer, UsesFreed
    <3>3. rec' = [rec EXCEPT ![r] =
              [rec[r] EXCEPT !.server = w, !.slot = FreeSlot(w),
                 !.subs = IF rec[r].mem = "live" THEN @ \cup {w} ELSE @]]
      BY <1>1, <1>9 DEF ConnectServer, UsesFreed
    <3> QED  BY <3>1, <3>2, <3>3
  <2>2. r \in Records /\ rec[r].len = 0
    BY <1>2, <1>3, <2>1 DEF ThreadOK, RecordsOK
  <2> HIDE DEF r
  <2>3. /\ rec'[r].len = rec[r].len /\ rec[r].subs \subseteq rec'[r].subs
        /\ \A q \in Records : q # r => rec'[q] = rec[q]
    <3>1. rec'[r] = [rec[r] EXCEPT !.server = w, !.slot = FreeSlot(w),
                       !.subs = IF rec[r].mem = "live" THEN @ \cup {w} ELSE @]
      BY <1>1, <2>1, <2>2
    <3>2. rec[r] \in RecordType
      BY <1>1, <2>2
    <3>3. /\ rec'[r].subs = IF rec[r].mem = "live" THEN rec[r].subs \cup {w} ELSE rec[r].subs
          /\ rec'[r].len = rec[r].len
      BY <3>1, <3>2 DEF RecordType
    <3> QED  BY <1>1, <2>1, <3>3
  <2>4. CASE c = thr[w].c
    <3>1. cl'[c].record = r /\ cl'[c].idx = 0
      <4>1. cl' = [cl EXCEPT ![c] = [cl[c] EXCEPT !.record = r, !.idx = 0]]
        BY <1>1, <2>1, <2>4
      <4>2. cl'[c] = [cl[c] EXCEPT !.record = r, !.idx = 0] /\ cl[c] \in ClientType
        BY <1>1, <4>1
      <4> QED  BY <4>2 DEF ClientType
    <3> QED  BY <2>2, <2>3, <3>1 DEF WakeUpOf
  <2>5. CASE c # thr[w].c
    <3>1. cl'[c] = cl[c]
      BY <1>1, <2>1, <2>5
    <3>2. cl[c].record \in Live' => cl[c].record \in Live
      BY <1>6, <1>9 DEF PublishRecord, ConnectServer
    <3> QED  BY <1>2, <1>3, <1>5, <2>1, <2>2, <2>3, <3>1, <3>2, WakeUpKept
  <2> QED  BY <2>4, <2>5
<1>10. ASSUME NEW r \in Records, ReadFromServer(w, r)
       PROVE  WakeUpOf(c)'
  <2>1. /\ rec' = [rec EXCEPT ![r].len = @ + 1] /\ GotoWith(w, "notify", r)
        /\ cl' = cl /\ event' = event /\ thr[w].pc = "poll"
    BY <1>10 DEF ReadFromServer, Serving, UsesFreed
  <2>2. \A q \in Records : /\ q # r => rec'[q].len = rec[q].len
                           /\ rec'[q].subs = rec[q].subs /\ rec'[q].mem = rec[q].mem
    BY <1>1, <2>1 DEF RecordType
  <2>3. Live' = Live
    BY <2>2 DEF Live
  <2>4. CASE cl[c].record = r /\ r \in Live
    <3>1. Owner[c] \in rec'[r].subs
      BY <2>2, <2>4 DEF RecordsOK
    <3>2. thr'[w].pc = "notify" /\ thr'[w].at = r
      BY <2>1, MoveEffects
    <3> QED  BY <2>1, <2>4, <3>1, <3>2 DEF WakeUpOf, WakeUpComing
  <2>5. CASE ~(cl[c].record = r /\ r \in Live)
    BY <1>2, <1>3, <1>5, <2>1, <2>2, <2>3, <2>5, WakeUpKept
  <2> QED  BY <2>4, <2>5
<1>11. CASE ~PublishRecord(w) /\ ~AttachClient(w) /\ ~ConnectServer(w) /\ ~Tells(w)
  <2>1. Quiet(w)
    BY <1>11, QuietStep
  <2>2. /\ thr[w].pc \notin {"wake", "attach", "notify", "eof"}
        /\ event \subseteq event' /\ KeepsClient(c)
    BY <1>11, Undisturbed
  <2>3. \A r \in Live' : /\ rec'[r].len = rec[r].len /\ rec[r].subs \subseteq rec'[r].subs
                         /\ r \in Live /\ r # Nil /\ r \in Records
    BY <1>3, <1>6, <1>11, <2>1 DEF Quiet, Tells
  <2> QED  BY <1>2, <1>3, <1>5, <2>2, <2>3, WakeUpKept DEF KeepsClient
<1> QED  BY <1>7, <1>8, <1>9, <1>10, <1>11, <1>2, <1>5, WakeUpsTold DEF Tells

-----------------------------------------------------------------------------
(* The inductive invariant.                                                *)
LEMMA InitIInv == ASSUME Init PROVE IInv
<1> USE DEF Init
<1>1. 0 \in 0 .. RespLen /\ MaxRequests \in 0 .. MaxRequests
  BY CacheAssumption
<1>2. TypeOK
  <2>1. EmptyRecord \in RecordType
    BY <1>1 DEF EmptyRecord, RecordType
  <2>2. [fd |-> TRUE, record |-> Nil, idx |-> 0, out |-> FALSE, left |-> MaxRequests]
           \in ClientType
    BY <1>1 DEF ClientType
  <2>3. Polling \in ThreadType
    BY DEF Polling, ThreadType, ThreadPCs
  <2> QED  BY <2>1, <2>2, <2>3 DEF TypeOK
<1>3. /\ Alloc = {} /\ Live = {}
      /\ \A r \in Records : rec[r].server = Nobody /\ rec[r].next = Nil
  BY DEF Alloc, Live, EmptyRecord
<1>4. \A w \in Workers : thr[w].pc = "poll" /\ w # mutex
  BY CacheAssumption DEF Polling
<1>5. \A c \in Clients : cl[c].record = Nil
  OBVIOUS
<1>6. Nil \notin Records
  BY DEF Nil, Records
<1>7. ThreadsOK
  BY <1>4 DEF ThreadsOK, ThreadOK
<1>8. RecordsOK
  BY <1>3, <1>4, <1>5 DEF RecordsOK
<1>9. ListOK
  BY <1>3 DEF ListOK
<1>10. WalkOK
  BY <1>4 DEF WalkOK, WalkOf
<1>11. UrlsUnique /\ WakeUpsOK
  BY <1>3 DEF UrlsUnique, WakeUpsOK, WakeUpOf
<1> QED  BY <1>2, <1>7, <1>8, <1>9, <1>10, <1>11 DEF IInv

LEMMA SameStateIInv ==
  ASSUME IInv, UNCHANGED <<head, mutex, rec, cl, thr, event>>,
         bad' \in {"none", "freed", "null"}
  PROVE  IInv'
<1>1. TypeOK'
  BY DEF IInv, TypeOK
<1>2. Alloc' = Alloc /\ Live' = Live
  BY DEF Alloc, Live
<1>3. ThreadsOK' /\ RecordsOK'
  BY <1>2 DEF IInv, ThreadsOK, ThreadOK, RecordsOK
<1>4. ListOK' /\ WalkOK'
  BY <1>2 DEF IInv, ListOK, PassedOver, WalkOK, WalkOf, Behind, Freed
<1>5. UrlsUnique' /\ WakeUpsOK'
  BY <1>2 DEF IInv, UrlsUnique, WakeUpsOK, WakeUpOf, WakeUpComing
<1> QED  BY <1>1, <1>3, <1>4, <1>5 DEF IInv

LEMMA NextIInv ==
  ASSUME IInv, [Next]_vars
  PROVE  IInv'
<1>1. CASE UNCHANGED vars
  BY <1>1, SameStateIInv DEF vars, IInv, TypeOK
<1>2. ASSUME NEW w \in Workers, Act(w)
      PROVE  IInv'
  <2>1. CASE bad' # "none"
    BY <1>2, <2>1, BadStep, SameStateIInv
  <2>2. CASE bad' = "none"
    <3> USE DEF IInv
    <3>1. TypeOK'
      BY <1>2, <2>2, TypeStep
    <3>2. ThreadsOK'
      BY <1>2, <2>2, <3>1, ThreadStep
    <3>3. RecordsOK'
      BY <1>2, <2>2, <3>1, RecordsStep
    <3>4. ListOK' /\ WalkOK' /\ UrlsUnique'
      BY <1>2, <2>2, <3>1, ListStep
    <3>5. WakeUpsOK'
      BY <1>2, <2>2, <3>1, <3>2, WakeUpsStep
    <3> QED  BY <3>1, <3>2, <3>3, <3>4, <3>5
  <2> QED  BY <2>1, <2>2
<1> QED  BY <1>1, <1>2 DEF Next, Undefined, Act

(* Every reachable state satisfies the inductive invariant.                *)
THEOREM Invariance == Spec => []IInv
<1>1. Init => IInv
  BY InitIInv
<1>2. IInv /\ [Next]_vars => IInv'
  BY NextIInv
<1> QED  BY <1>1, <1>2, PTL DEF Spec

(* Type correctness, the index of a new server in the table of its thread  *)
(* and the number of chunks read and sent included.                        *)
THEOREM TypeCorrect == Spec => []TypeOK
<1>1. IInv => TypeOK
  BY DEF IInv
<1> QED  BY <1>1, Invariance, PTL

(* No lost wake-up: however the threads' reads, appends, subscriptions and  *)
(* notifications interleave, a client that has not been sent all the data   *)
(* of its record waits for POLLOUT or is about to be made to.               *)
THEOREM WakeUpsNotLost == Spec => []NoLostWakeUp
<1>1. IInv => NoLostWakeUp
  <2>1. \A c \in Clients :
          cl[c].record # Nil /\ rec[cl[c].record].mem = "live" => cl[c].record \in Records \/ ~IInv
    BY DEF IInv, TypeOK, ClientType
  <2> QED  BY <2>1 DEF IInv, WakeUpsOK, WakeUpOf, NoLostWakeUp, Live
<1> QED  BY <1>1, Invariance, PTL

(* From any node that is not reaped a walk along the list comes by all live  *)
(* records behind it: S keeps the greatest node before r that has not been   *)
(* passed over, and its successor cannot be beyond r.                        *)
LEMMA ListReachesLive ==
  ASSUME IInv, NEW S \in SUBSET Records, HoldsList(S), NEW r \in Live
  PROVE  r \in S
<1>1. SUFFICES ASSUME r \notin S PROVE FALSE
  OBVIOUS
<1>2. TypeOK /\ ListOK
  BY DEF IInv
<1>3. /\ r \in Alloc /\ r \in Records /\ ~Freed(r)
      /\ Nil = 0 /\ MaxRecords \in Nat /\ Records = 1 .. MaxRecords
      /\ Alloc \subseteq Records
  BY CacheAssumption DEF Live, Alloc, Freed, Nil, Records
<1>4. \A q \in Records : q \in Int /\ 0 < q /\ rec[q].next \in Records \cup {Nil}
  BY <1>2, <1>3 DEF TypeOK, RecordType
<1>5. head \in Alloc /\ head \in S
  BY <1>2, <1>3, <1>4 DEF ListOK, HoldsList
<1> DEFINE T == {x \in S : x < r /\ x \in Alloc /\ ~PassedOver(x)}
<1>6. head <= r
  <2>1. ~(r < head)
    BY <1>2, <1>3 DEF ListOK
  <2> QED  BY <1>3, <1>4, <1>5, <2>1
<1>7. head < r
  BY <1>1, <1>3, <1>4, <1>5, <1>6
<1>8. ~PassedOver(head)
  <2>1. ASSUME NEW p \in Records, p < head, rec[p].next > head PROVE FALSE
    <3>1. p \in Alloc
      BY <1>2, <1>3, <1>4, <1>5, <2>1 DEF ListOK
    <3>2. rec[p].next < head
      BY <1>2, <2>1, <3>1 DEF ListOK
    <3> QED  BY <1>3, <1>4, <1>5, <2>1, <3>2
  <2> QED  BY <1>3, <1>4, <1>5, <2>1 DEF PassedOver
<1>9. T \in SUBSET (0 .. MaxRecords) /\ head \in T
  <2>1. ASSUME NEW y \in Records PROVE y \in 0 .. MaxRecords
    BY <1>3
  <2>2. T \subseteq Records
    OBVIOUS
  <2>3. head \in T
    BY <1>5, <1>7, <1>8
  <2> HIDE DEF T
  <2> QED  BY <2>1, <2>2, <2>3
<1>10. PICK x \in T : \A y \in T : y <= x
  <2> HIDE DEF T
  <2> QED  BY <1>3, <1>9, Greatest
<1> DEFINE n == rec[x].next
<1>11. x \in S /\ x < r /\ x \in Alloc /\ x \in Records /\ ~PassedOver(x)
  BY <1>3, <1>10
<1>12. CASE n = Nil
  BY <1>2, <1>3, <1>11, <1>12 DEF ListOK
<1>13. CASE n # Nil
  <2>1. n \in Alloc /\ n \in S /\ x < n /\ n \in Records
    BY <1>2, <1>3, <1>11, <1>13 DEF ListOK, HoldsList
  <2>2. CASE r < n
    BY <1>2, <1>3, <1>11, <2>1, <2>2 DEF ListOK
  <2>3. CASE n < r
    <3>1. PassedOver(n)
      <4>1. ~(n <= x)
        BY <1>3, <1>4, <1>11, <2>1
      <4>2. n \notin T
        BY <1>10, <4>1
      <4> QED  BY <2>1, <2>3, <4>2
    <3>2. CASE head > n
      BY <1>3, <1>4, <1>5, <1>11, <2>1, <3>2 DEF PassedOver
    <3>3. CASE \E p \in Records : p < n /\ rec[p].next > n
      <4>1. PICK p \in Records : p < n /\ rec[p].next > n
        BY <3>3
      <4>2. p \in Alloc
        BY <1>2, <1>3, <1>4, <2>1, <4>1 DEF ListOK
      <4>3. CASE p < x
        BY <1>3, <1>4, <1>11, <2>1, <4>1, <4>3 DEF PassedOver
      <4>4. CASE p = x
        BY <1>3, <1>4, <2>1, <4>1, <4>4
      <4>5. CASE x < p
        <5>1. Freed(p) /\ rec[p].next < n
          BY <1>2, <1>11, <2>1, <4>1, <4>2, <4>5 DEF ListOK
        <5> QED  BY <1>3, <1>4, <2>1, <4>1, <5>1
      <4> QED  BY <1>4, <1>11, <4>1, <4>3, <4>4, <4>5
    <3> QED  BY <3>1, <3>2, <3>3 DEF PassedOver
  <2> QED  BY <1>1, <1>3, <1>4, <2>1, <2>2, <2>3
<1> QED  BY <1>12, <1>13

(* findAndAddCacheRecord keeps one live record for a URL, and every live    *)
(* record on the list, although it releases the mutex between two nodes and  *)
(* leaves the nodes that it frees linked.                                   *)
THEOREM RecordsOnceAndListed == Spec => []OneRecordPerUrl
<1>1. IInv => OneRecordPerUrl
  BY ListReachesLive DEF IInv, UrlsUnique, OneRecordPerUrl
<1> QED  BY <1>1, Invariance, PTL

-----------------------------------------------------------------------------
(* A proxy in which nothing fails.                                         *)
Grown ==
  \A r \in Alloc : /\ rec[r].full => rec'[r].full
                   /\ rec'[r].len >= rec[r].len

LEMMA ClientFineKept ==
  ASSUME TypeOK, RecordsOK, NothingFailed, NEW w \in Workers, Local(w), Grown,
         thr[w].pc # "clear", NEW c \in Clients, cl'[c] = cl[c], TypeOK'
  PROVE  ClientFine(c)'
<1>1. ClientFine(c) /\ Owner[c] \in Workers
  BY CacheAssumption DEF NothingFailed
<1>2. /\ cl[c].record \in Alloc \cup {Nil} /\ Alloc \subseteq Records
      /\ cl[c].idx \in Int /\ \A r \in Records : rec[r].len \in Int /\ rec'[r].len \in Int
  BY CacheAssumption DEF RecordsOK, Alloc, TypeOK, ClientType, RecordType
<1>3. thr[Owner[c]].pc = "clear" => thr'[Owner[c]] = thr[Owner[c]]
  BY <1>1 DEF Local
<1>4. cl[c].record # Nil => rec'[cl[c].record].len >= rec[cl[c].record].len
  BY <1>2 DEF Grown
<1> QED  BY <1>1, <1>2, <1>3, <1>4 DEF ClientFine

LEMMA ThreadFineKept ==
  ASSUME TypeOK, ThreadsOK, NothingFailed, NEW w \in Workers, Local(w), Grown,
         NEW v \in Workers, v # w
  PROVE  ThreadFine(v)'
<1>1. thr'[v] = thr[v] /\ ThreadFine(v) /\ ThreadOK(v)
  BY DEF NothingFailed, Local, ThreadsOK
<1>2. thr[v].pc \in {"lock", "visit", "relock", "attach", "connect"}
        => cl'[thr[v].c] = cl[thr[v].c]
  BY <1>1 DEF ThreadOK, Local
<1>3. thr[v].pc \in {"eof", "drop", "dropNotify"} => rec'[thr[v].at].full
  BY <1>1 DEF ThreadOK, ThreadFine, Grown, Alloc
<1> QED  BY <1>1, <1>2, <1>3 DEF ThreadFine

LEMMA ScanFine ==
  ASSUME NothingFails, IInv, IInv', NothingFailed, NEW w \in Workers, Scan(w),
         bad' = "none", Local(w)
  PROVE  NothingFailed'
<1> USE DEF At
<1>1. /\ rec \in [Records -> RecordType] /\ cl \in [Clients -> ClientType]
      /\ thr \in [Workers -> ThreadType] /\ thr[w] \in ThreadType
      /\ TypeOK /\ TypeOK' /\ ThreadsOK /\ RecordsOK /\ WalkOK
      /\ Nil \notin Records /\ Alloc \subseteq Records
      /\ RespLen \in Nat \ {0} /\ \A r \in Records : rec[r].len \in Nat
  BY CacheAssumption DEF IInv, TypeOK, Nil, Records, Alloc, RecordType
<1>2. ThreadOK(w) /\ ThreadFine(w)
  BY <1>1 DEF ThreadsOK, NothingFailed
<1>3. \A r \in Records : rec[r].mem \in {"none", "live"} /\ ~Freed(r)
  BY DEF NothingFailed, RecordFine, Freed
<1>4. ~ReapNode(w)
  BY <1>1, <1>3 DEF ReapNode, UsesFreed, ThreadType
<1>5. ASSUME Grown, \A r \in Records : RecordFine(r)', ThreadFine(w)',
             thr[w].pc # "clear",
             \A c \in Clients : cl'[c] = cl[c] \/ ClientFine(c)'
      PROVE  NothingFailed'
  BY <1>1, <1>5, ClientFineKept, ThreadFineKept DEF NothingFailed
<1>6. rec' = rec => Grown /\ \A r \in Records : RecordFine(r)'
  BY <1>1 DEF Grown, NothingFailed, RecordFine
<1>7. CASE LockList(w) \/ PassNode(w) \/ NextNode(w)
  <2>1. /\ rec' = rec /\ cl' = cl
        /\ thr[w].pc \in {"lock", "visit", "relock"} /\ thr'[w].pc \in {"visit", "relock"}
    BY <1>1, <1>7 DEF LockList, PassNode, NextNode, UsesFreed, Goto, ThreadType
  <2>2. thr'[w].c = thr[w].c
    BY <1>1, <1>7 DEF LockList, PassNode, NextNode, UsesFreed, Goto, ThreadType
  <2>3. ThreadFine(w)'
    BY <1>2, <2>1, <2>2 DEF ThreadFine
  <2> QED  BY <1>5, <1>6, <2>1, <2>3
<1>8. CASE AttachClient(w)
  <2>0. PICK c \in Clients, r \in Records : c = thr[w].c /\ r = thr[w].at
    BY <1>1, <1>2, <1>8 DEF AttachClient, ThreadOK
  <2>1. /\ thr[w].pc = "visit" /\ Goto(w, "attach")
        /\ cl' = [cl EXCEPT ![c] = [cl[c] EXCEPT !.record = r, !.idx = 0]]
        /\ rec' = [rec EXCEPT ![r].subs = @ \cup {w}]
        /\ ~cl[c].out
    BY <1>1, <1>2, <1>8, <2>0 DEF AttachClient, ThreadFine
  <2>2. \A q \in Records : /\ rec'[q].len = rec[q].len /\ rec'[q].mem = rec[q].mem
                           /\ rec'[q].full = rec[q].full /\ rec'[q].server = rec[q].server
    BY <1>1, <2>1 DEF RecordType
  <2>3. Grown /\ \A q \in Records : RecordFine(q)'
    BY <1>1, <2>2 DEF Grown, NothingFailed, RecordFine
  <2>4. cl'[c].record = r /\ cl'[c].idx = 0 /\ ~cl'[c].out
    <3>1. cl'[c] = [cl[c] EXCEPT !.record = r, !.idx = 0] /\ cl[c] \in ClientType
      BY <1>1, <2>1
    <3> QED  BY <2>1, <3>1 DEF ClientType
  <2>5. ClientFine(c)'
    BY <1>1, <2>1, <2>2, <2>4 DEF ClientFine
  <2>6. \A d \in Clients : d # c => cl'[d] = cl[d]
    BY <1>1, <2>1
  <2>7. thr'[w].pc = "attach" /\ thr'[w].c = c
    BY <1>1, <2>1, <2>0, MoveEffects
  <2>8. ThreadFine(w)'
    BY <2>4, <2>7 DEF ThreadFine
  <2> QED  BY <1>5, <2>1, <2>3, <2>5, <2>6, <2>8
<1>9. CASE CheckAttached(w)
  <2>0. PICK c \in Clients, r \in Records : c = thr[w].c /\ r = thr[w].at
    BY <1>1, <1>2, <1>9 DEF CheckAttached, ThreadOK
  <2>1. /\ thr[w].pc = "attach" /\ Return(w)
        /\ cl' = [cl EXCEPT ![c] = [cl[c] EXCEPT !.out = @ \/ rec[r].len # 0]]
        /\ rec' = rec /\ cl[c].record = r /\ cl[c].idx = 0
        /\ ~cl[c].out
    BY <1>1, <1>2, <1>9, <2>0 DEF CheckAttached, ThreadOK, ThreadFine
  <2>2. cl'[c].record = r /\ cl'[c].idx = 0 /\ (cl'[c].out => rec[r].len # 0)
    <3>1. cl'[c] = [cl[c] EXCEPT !.out = @ \/ rec[r].len # 0] /\ cl[c] \in ClientType
      BY <1>1, <2>1
    <3> QED  BY <2>1, <3>1 DEF ClientType
  <2>3. ClientFine(c)'
    BY <1>1, <2>1, <2>2 DEF ClientFine
  <2>4. \A d \in Clients : d # c => cl'[d] = cl[d]
    BY <1>1, <2>1
  <2>5. ThreadFine(w)'
    BY <1>1, <2>1, MoveEffects DEF ThreadFine
  <2> QED  BY <1>5, <1>6, <2>1, <2>3, <2>4, <2>5
<1>10. CASE PublishRecord(w)
  <2>1. PICK r \in Records : Published(w, r)
    BY <1>1, <1>10, PublishEffect
  <2>2. Grown /\ \A q \in Records : RecordFine(q)'
    <3>1. Grown
      BY <1>1, <2>1 DEF Grown, Published, NothingFailed, RecordsOK
    <3>2. \A q \in Records : q # r => RecordFine(q)'
      BY <2>1 DEF Published, NothingFailed, RecordFine
    <3>3. RecordFine(r)'
      BY <2>1 DEF Published, RecordFine
    <3> QED  BY <3>1, <3>2, <3>3
  <2>3. /\ cl' = cl /\ thr[w].pc = "visit" /\ GotoWith(w, "connect", r)
    BY <2>1 DEF Published
  <2>4. thr'[w].pc = "connect" /\ thr'[w].c = thr[w].c
    BY <1>1, <2>3, MoveEffects
  <2>5. ThreadFine(w)'
    BY <1>2, <2>3, <2>4 DEF ThreadFine
  <2> QED  BY <1>5, <2>2, <2>3, <2>5
<1>11. CASE ConnectServer(w)
  <2>0. PICK c \in Clients, r \in Records : c = thr[w].c /\ r = thr[w].at
    BY <1>1, <1>2, <1>11 DEF ConnectServer, ThreadOK
  <2>1. thr[w].pc = "connect" /\ ~cl[c].out /\ Return(w)
    BY <1>2, <1>11, <2>0 DEF ConnectServer, UsesFreed, ThreadFine
  <2>2. cl' = [cl EXCEPT ![c] = [cl[c] EXCEPT !.record = r, !.idx = 0]]
    BY <1>1, <1>11, <2>0 DEF ConnectServer, UsesFreed
  <2>3. rec' = [rec EXCEPT ![r] =
              [rec[r] EXCEPT !.server = w, !.slot = FreeSlot(w),
                 !.subs = IF rec[r].mem = "live" THEN @ \cup {w} ELSE @]]
    BY <1>1, <1>11, <2>0 DEF ConnectServer, UsesFreed
  <2>4. w # Nobody
    BY CacheAssumption
  <2>5. /\ \A q \in Records : q # r => rec'[q] = rec[q]
        /\ rec'[r].len = rec[r].len /\ rec'[r].mem = rec[r].mem
        /\ rec'[r].full = rec[r].full /\ rec'[r].server = w
    <3>1. rec'[r] = [rec[r] EXCEPT !.server = w, !.slot = FreeSlot(w),
                       !.subs = IF rec[r].mem = "live" THEN @ \cup {w} ELSE @]
      BY <1>1, <2>1, <2>3
    <3>2. rec[r] \in RecordType
      BY <1>1, <2>1
    <3>3. /\ rec'[r].len = rec[r].len /\ rec'[r].mem = rec[r].mem
          /\ rec'[r].full = rec[r].full /\ rec'[r].server = w
      BY <3>1, <3>2 DEF RecordType
    <3> QED  BY <1>1, <2>3, <3>3
  <2>6. Grown /\ \A q \in Records : RecordFine(q)'
    <3>1. Grown
      BY <1>1, <2>5 DEF Grown
    <3>2. RecordFine(r)'
      BY <2>1, <2>4, <2>5 DEF NothingFailed, RecordFine
    <3>3. \A q \in Records : q # r => RecordFine(q)'
      BY <2>5 DEF NothingFailed, RecordFine
    <3> QED  BY <3>1, <3>2, <3>3
  <2>7. cl'[c].record = r /\ cl'[c].idx = 0 /\ ~cl'[c].out
    <3>1. cl'[c] = [cl[c] EXCEPT !.record = r, !.idx = 0] /\ cl[c] \in ClientType
      BY <1>1, <2>1, <2>2
    <3> QED  BY <2>1, <3>1 DEF ClientType
  <2>8. ClientFine(c)'
    BY <1>1, <2>1, <2>5, <2>7 DEF ClientFine
  <2>9. \A d \in Clients : d # c => cl'[d] = cl[d]
    BY <1>1, <2>2
  <2>10. ThreadFine(w)'
    BY <1>1, <2>1, MoveEffects DEF ThreadFine
  <2> QED  BY <1>5, <2>1, <2>6, <2>8, <2>9, <2>10
<1> QED  BY <1>4, <1>7, <1>8, <1>9, <1>10, <1>11 DEF Scan

LEMMA ServeFine ==
  ASSUME NothingFails, IInv, IInv', NothingFailed, NEW w \in Workers, Serve(w),
         bad' = "none", Local(w)
  PROVE  NothingFailed'
<1> USE DEF At
<1>1. /\ rec \in [Records -> RecordType] /\ cl \in [Clients -> ClientType]
      /\ thr \in [Workers -> ThreadType] /\ thr[w] \in ThreadType
      /\ TypeOK /\ TypeOK' /\ ThreadsOK /\ RecordsOK
      /\ Nil \notin Records /\ Alloc \subseteq Records
      /\ RespLen \in Nat \ {0}
      /\ \A r \in Records : rec[r].len \in Nat /\ rec[r].len <= RespLen
      /\ \A c \in Clients : cl[c].idx \in Nat /\ cl[c].idx <= RespLen
                            /\ cl[c].out \in BOOLEAN
  <2>1. /\ rec \in [Records -> RecordType] /\ cl \in [Clients -> ClientType]
        /\ thr \in [Workers -> ThreadType] /\ thr[w] \in ThreadType
        /\ TypeOK /\ TypeOK' /\ ThreadsOK /\ RecordsOK
        /\ RespLen \in Nat \ {0}
    BY CacheAssumption DEF IInv, TypeOK
  <2>2. Nil \notin Records /\ Alloc \subseteq Records
    BY DEF Nil, Records, Alloc
  <2>3. \A r \in Records : rec[r].len \in Nat /\ rec[r].len <= RespLen
    BY <2>1 DEF RecordType
  <2>4. \A c \in Clients : cl[c].idx \in Nat /\ cl[c].idx <= RespLen
                            /\ cl[c].out \in BOOLEAN
    BY <2>1 DEF ClientType
  <2> QED  BY <2>1, <2>2, <2>3, <2>4
<1>2. ThreadOK(w) /\ ThreadFine(w)
  BY <1>1 DEF ThreadsOK, NothingFailed
<1>3. \A c \in Clients : ClientFine(c)
  BY DEF NothingFailed
<1>4. ASSUME Grown, \A r \in Records : RecordFine(r)', ThreadFine(w)',
             \A c \in Clients : ClientFine(c)' \/ (cl'[c] = cl[c] /\ thr[w].pc # "clear")
      PROVE  NothingFailed'
  BY <1>1, <1>4, ClientFineKept, ThreadFineKept DEF NothingFailed
<1>5. rec' = rec => Grown /\ \A r \in Records : RecordFine(r)'
  BY <1>1 DEF Grown, NothingFailed, RecordFine
<1>6. Return(w) => ThreadFine(w)'
  BY <1>1, MoveEffects DEF ThreadFine
<1>7. ASSUME NEW c \in Clients, Owner[c] = w, Disconnect(c), rec' = rec, ThreadFine(w)',
             thr[w].pc # "clear"
      PROVE  NothingFailed'
  <2>1. ClientFine(c)'
    BY <1>1, <1>7, MoveEffects DEF ClientFine
  <2>2. \A d \in Clients : d # c => cl'[d] = cl[d]
    BY <1>1, <1>7, MoveEffects
  <2> QED  BY <1>4, <1>5, <1>7, <2>1, <2>2
<1>8. ASSUME NEW r \in Records, WriteToServer(w, r) \/ ReadFromServer(w, r) \/ ServerEof(w, r)
      PROVE  NothingFailed'
  <2>1. rec[r].server = w /\ cl' = cl /\ thr[w].pc = "poll"
    BY <1>8 DEF WriteToServer, ReadFromServer, ServerEof, Serving, UsesFreed
  <2>2. \/ rec' = [rec EXCEPT ![r].sent = TRUE] /\ thr' = thr
        \/ rec' = [rec EXCEPT ![r].len = @ + 1] /\ GotoWith(w, "notify", r)
        \/ rec' = [rec EXCEPT ![r].full = TRUE] /\ GotoWith(w, "eof", r)
    BY <1>8 DEF WriteToServer, ReadFromServer, ServerEof, UsesFreed
  <2>3. \A q \in Records :
          /\ rec'[q].mem = rec[q].mem /\ rec'[q].server = rec[q].server
          /\ rec'[q].len = rec[q].len \/ (q = r /\ rec'[q].len = rec[q].len + 1)
          /\ rec'[q].full = rec[q].full \/ (q = r /\ rec'[q].full = TRUE)
    BY <1>1, <2>2 DEF RecordType
  <2>4. Grown
    BY <1>1, <2>3 DEF Grown
  <2>5. w # Nobody
    BY CacheAssumption
  <2>6. \A q \in Records : RecordFine(q)'
    BY <2>1, <2>3, <2>5 DEF NothingFailed, RecordFine
  <2>7. ThreadFine(w)'
    <3>1. CASE thr' = thr
      BY <1>2, <2>1, <3>1 DEF ThreadFine
    <3>2. CASE GotoWith(w, "notify", r)
      <4>1. TypeOK
        BY <1>1
      <4>2. thr'[w].pc = "notify"
        BY <3>2, <4>1, MoveEffects
      <4> QED  BY <4>2 DEF ThreadFine
    <3>3. CASE rec' = [rec EXCEPT ![r].full = TRUE] /\ GotoWith(w, "eof", r)
      <4>3. TypeOK
        BY <1>1
      <4>1. thr'[w].pc = "eof" /\ thr'[w].at = r
        BY <3>3, <4>3, MoveEffects
      <4>2. rec'[r].full = TRUE
        BY <1>1, <3>3 DEF RecordType
      <4> QED  BY <4>1, <4>2 DEF ThreadFine
    <3> QED  BY <2>2, <3>1, <3>2, <3>3
  <2> QED  BY <1>4, <2>1, <2>4, <2>6, <2>7
<1>9. CASE NotifySubscribers(w)
  <2>1. /\ rec' = rec /\ cl' = cl /\ thr[w].pc \in {"notify", "eof", "dropNotify"}
        /\ IF thr[w].pc = "eof" THEN Goto(w, "drop") ELSE Return(w)
    BY <1>9 DEF NotifySubscribers, UsesFreed
  <2>2. ThreadFine(w)'
    <3>1. CASE thr[w].pc = "eof"
      <4>1. thr'[w].pc = "drop" /\ thr'[w].at = thr[w].at
        BY <1>1, <2>1, <3>1, MoveEffects
      <4> QED  BY <1>2, <2>1, <3>1, <4>1 DEF ThreadFine
    <3>2. CASE thr[w].pc # "eof"
      BY <1>6, <2>1, <3>2
    <3> QED  BY <3>1, <3>2
  <2> QED  BY <1>4, <1>5, <2>1, <2>2
<1>10. CASE DisconnectServer(w)
  <2>0. PICK r \in Records : r = thr[w].at
    BY <1>1, <1>2, <1>10 DEF DisconnectServer, ThreadOK
  <2>1. /\ rec' = [rec EXCEPT ![r].server = Nobody] /\ cl' = cl
        /\ thr[w].pc = "drop" /\ Goto(w, "dropNotify") /\ rec[r].full
    BY <1>2, <1>10, <2>0 DEF DisconnectServer, UsesFreed, ThreadFine
  <2>2. \A q \in Records :
          /\ rec'[q].mem = rec[q].mem /\ rec'[q].len = rec[q].len
          /\ rec'[q].full = rec[q].full
          /\ q # r => rec'[q].server = rec[q].server
    BY <1>1, <2>1 DEF RecordType
  <2>3. Grown
    BY <1>1, <2>2 DEF Grown
  <2>4. \A q \in Records : RecordFine(q)'
    BY <2>1, <2>2 DEF NothingFailed, RecordFine
  <2>5. ThreadFine(w)'
    <3>1. thr'[w].pc = "dropNotify" /\ thr'[w].at = r
      BY <1>1, <2>0, <2>1, MoveEffects
    <3> QED  BY <2>1, <2>2, <3>1 DEF ThreadFine
  <2> QED  BY <1>4, <2>1, <2>3, <2>4, <2>5
<1>11. ASSUME NEW c \in Clients, TestRecord(w, c)
       PROVE  NothingFailed'
  <2>1. rec' = rec /\ thr[w].pc = "poll" /\ Owner[c] = w /\ cl[c].out
    BY <1>11 DEF TestRecord, UsesFreed
  <2>2. cl[c].record \in Records /\ rec[cl[c].record].len > 0
    BY <1>1, <1>3, <2>1 DEF ClientFine, ClientType
  <2>3. ~(rec[cl[c].record].server = Nobody /\ ~rec[cl[c].record].full)
    BY <2>2 DEF NothingFailed, RecordFine
  <2>4. cl' = cl /\ thr' = [thr EXCEPT ![w].c = c, ![w].at = cl[c].record, ![w].pc = "write"]
    BY <1>1, <1>11, <2>2, <2>3 DEF TestRecord, UsesFreed
  <2>5. thr'[w].pc = "write"
    BY <1>1, <2>4 DEF ThreadType
  <2>6. ThreadFine(w)'
    BY <2>5 DEF ThreadFine
  <2> QED  BY <1>4, <1>5, <2>1, <2>4, <2>6
<1>12. ~FreeFailedRecord(w)
  BY <1>2 DEF FreeFailedRecord, ThreadFine
<1>13. CASE WriteToClient(w)
  <2>0. PICK c \in Clients, r \in Records : c = thr[w].c /\ r = thr[w].at
    BY <1>1, <1>2, <1>13 DEF WriteToClient, ThreadOK
  <2>1. rec' = rec /\ thr[w].pc = "write" /\ Owner[c] = w /\ cl[c].record = r
    BY <1>2, <1>13, <2>0 DEF WriteToClient, UsesFreed, ThreadOK
  <2>2. CASE Disconnect(c) /\ Return(w)
    BY <1>6, <1>7, <2>1, <2>2
  <2>3. CASE ~(Disconnect(c) /\ Return(w))
    <3>1. PICK i \in cl[c].idx .. rec[r].len : cl' = [cl EXCEPT ![c].idx = i]
      BY <1>13, <2>0, <2>3 DEF WriteToClient, UsesFreed
    <3>2. Goto(w, "clear")
      BY <1>13, <2>0, <2>3 DEF WriteToClient, UsesFreed
    <3>3. thr'[w].pc = "clear" /\ thr'[w].c = c
      BY <1>1, <2>0, <3>2, MoveEffects
    <3>4. /\ cl'[c].record = r /\ cl'[c].idx = i /\ cl'[c].out = cl[c].out
          /\ \A d \in Clients : d # c => cl'[d] = cl[d]
      BY <1>1, <2>1, <3>1 DEF ClientType
    <3>5. i <= rec[r].len
      BY <1>1, <3>1
    <3>6. ClientFine(c)'
      BY <1>3, <2>1, <3>3, <3>4, <3>5 DEF ClientFine
    <3>7. ThreadFine(w)'
      BY <3>3 DEF ThreadFine
    <3> QED  BY <1>4, <1>5, <2>1, <3>4, <3>6, <3>7
  <2> QED  BY <2>2, <2>3
<1>14. CASE ClearPollout(w)
  <2>0. PICK c \in Clients, r \in Records : c = thr[w].c /\ r = thr[w].at
    BY <1>1, <1>2, <1>14 DEF ClearPollout, ThreadOK
  <2>1. /\ rec' = rec /\ thr[w].pc = "clear" /\ Owner[c] = w /\ cl[c].record = r
        /\ cl' = [cl EXCEPT ![c].out = @ /\ cl[c].idx # rec[r].len] /\ Return(w)
    BY <1>2, <1>14, <2>0 DEF ClearPollout, UsesFreed, ThreadOK
  <2>2. /\ cl'[c].record = r /\ cl'[c].idx = cl[c].idx
        /\ cl'[c].out = (cl[c].out /\ cl[c].idx # rec[r].len)
        /\ \A d \in Clients : d # c => cl'[d] = cl[d]
    BY <1>1, <2>1 DEF ClientType
  <2>3. cl[c].idx <= rec[r].len
    BY <1>1, <1>3, <2>1 DEF ClientFine
  <2>4. ClientFine(c)'
    <3>1. rec[r].len \in Nat /\ rec[r].len <= RespLen /\ cl[c].idx \in Nat
      BY <1>1
    <3>2. cl[c].idx = RespLen => cl'[c].out = FALSE
      <4>1. RespLen \in Nat
        BY <1>1
      <4>2. cl[c].idx = RespLen => cl[c].idx = rec[r].len
        BY <2>3, <3>1, <4>1
      <4> QED  BY <2>2, <4>2
    <3>3. ClientFine(c)
      BY <1>3
    <3> QED  BY <2>1, <2>2, <2>3, <3>2, <3>3 DEF ClientFine
  <2>5. ASSUME NEW d \in Clients, d # c PROVE ClientFine(d)'
    <3>1. Owner[d] \in Workers
      BY CacheAssumption
    <3>2. thr[Owner[d]].pc = "clear" /\ thr[Owner[d]].c = d => Owner[d] # w
      BY <2>0, <2>5
    <3>3. Owner[d] # w => thr'[Owner[d]] = thr[Owner[d]]
      BY <3>1 DEF Local
    <3>4. cl'[d] = cl[d] /\ ClientFine(d)
      BY <1>3, <2>2, <2>5
    <3> QED  BY <2>1, <3>2, <3>3, <3>4 DEF ClientFine
  <2> QED  BY <1>4, <1>5, <1>6, <2>1, <2>4, <2>5
<1>15. CASE ReadEvent(w)
  <2>1. rec' = rec /\ cl' = cl /\ thr[w].pc = "poll" /\ thr'[w].pc = "wake"
    BY <1>1, <1>15 DEF ReadEvent, ThreadType
  <2>2. ThreadFine(w)'
    BY <2>1 DEF ThreadFine
  <2> QED  BY <1>4, <1>5, <2>1, <2>2
<1>16. CASE WakeClient(w)
  <2>1. PICK c \in thr[w].todo :
          /\ cl' = [cl EXCEPT ![c].out = @ \/ (cl[c].record # Nil /\ rec[cl[c].record].len > cl[c].idx)]
          /\ thr' = [thr EXCEPT ![w].todo = @ \ {c}]
          /\ UNCHANGED <<head, mutex, rec, event, bad>>
    BY <1>16 DEF WakeClient, UsesFreed
  <2>2. thr[w].pc = "wake" /\ thr'[w].pc = "wake" /\ c \in Clients /\ Owner[c] = w
    BY <1>1, <1>2, <1>16, <2>1 DEF WakeClient, ThreadType, ThreadOK
  <2>3. /\ cl'[c].record = cl[c].record /\ cl'[c].idx = cl[c].idx
        /\ cl'[c].out = (cl[c].out \/ (cl[c].record # Nil /\ rec[cl[c].record].len > cl[c].idx))
        /\ \A d \in Clients : d # c => cl'[d] = cl[d]
    BY <1>1, <2>1, <2>2 DEF ClientType
  <2>4. ClientFine(c)'
    <3>1. ClientFine(c) /\ cl[c].record \in Records \cup {Nil}
      BY <1>1, <1>3, <2>2 DEF ClientType
    <3>2. ~(cl[c].idx = RespLen /\ cl[c].out)
      BY <2>2, <3>1 DEF ClientFine
    <3> QED  BY <1>1, <2>1, <2>2, <2>3, <3>1, <3>2 DEF ClientFine
  <2>5. ThreadFine(w)'
    BY <2>2 DEF ThreadFine
  <2> QED  BY <1>4, <1>5, <2>1, <2>2, <2>3, <2>4, <2>5
<1>17. CASE WakeDone(w)
  <2>1. rec' = rec /\ cl' = cl /\ thr[w].pc = "wake" /\ Return(w)
    BY <1>17 DEF WakeDone
  <2> QED  BY <1>4, <1>5, <1>6, <2>1
<1> QED  BY <1>8, <1>9, <1>10, <1>11, <1>12, <1>13, <1>14, <1>15, <1>16, <1>17 DEF Serve

LEMMA EnvironmentFine ==
  ASSUME NothingFails, IInv, IInv', NothingFailed, NEW w \in Workers, Environment(w),
         Local(w)
  PROVE  NothingFailed'
<1> USE DEF At
<1>1. /\ cl \in [Clients -> ClientType] /\ thr \in [Workers -> ThreadType]
      /\ thr[w] \in ThreadType /\ TypeOK /\ TypeOK' /\ ThreadsOK /\ RecordsOK
      /\ RespLen \in Nat \ {0} /\ \A r \in Records : rec[r].len \in Nat
  BY CacheAssumption DEF IInv, TypeOK, RecordType
<1>2. \A c \in Clients : ClientFine(c)
  BY DEF NothingFailed
<1>3. ASSUME rec' = rec, ThreadFine(w)', thr[w].pc # "clear",
             \A c \in Clients : ClientFine(c)' \/ cl'[c] = cl[c]
      PROVE  NothingFailed'
  <2>1. Grown /\ \A r \in Records : RecordFine(r)'
    BY <1>1, <1>3 DEF Grown, NothingFailed, RecordFine, Alloc
  <2> QED  BY <1>1, <1>3, <2>1, ClientFineKept, ThreadFineKept DEF NothingFailed
<1>4. ASSUME NEW c \in Clients, ClientCloses(w, c) PROVE NothingFailed'
  <2>1. rec' = rec /\ thr' = thr /\ thr[w].pc = "poll" /\ Disconnect(c)
    BY <1>4 DEF ClientCloses
  <2>2. ClientFine(c)' /\ \A d \in Clients : d # c => cl'[d] = cl[d]
    BY <1>1, <2>1, MoveEffects DEF ClientFine
  <2>3. ThreadFine(w)'
    BY <2>1 DEF ThreadFine
  <2> QED  BY <1>3, <2>1, <2>2, <2>3
<1>5. ASSUME NEW c \in Clients, NEW u \in Urls, ReadRequest(w, c, u) PROVE NothingFailed'
  <2>1. /\ rec' = rec /\ thr[w].pc = "poll" /\ Answered(c) /\ Owner[c] = w
        /\ cl' = [cl EXCEPT ![c].left = @ - 1]
        /\ thr' = [thr EXCEPT ![w].pc = "lock", ![w].c = c, ![w].url = u]
    BY <1>5 DEF ReadRequest, NothingFails
  <2>2. /\ cl'[c].record = cl[c].record /\ cl'[c].idx = cl[c].idx /\ cl'[c].out = cl[c].out
        /\ \A d \in Clients : d # c => cl'[d] = cl[d]
    BY <1>1, <2>1 DEF ClientType
  <2>3. ~cl[c].out
    BY <1>2, <2>1 DEF Answered, ClientFine
  <2>4. thr'[w].pc = "lock" /\ thr'[w].c = c
    BY <1>1, <2>1 DEF ThreadType
  <2>5. ThreadFine(w)'
    BY <2>2, <2>3, <2>4 DEF ThreadFine
  <2>6. ClientFine(c)'
    BY <1>2, <2>1, <2>2, <2>3 DEF ClientFine
  <2> QED  BY <1>3, <2>1, <2>2, <2>5, <2>6
<1>6. /\ \A r \in Records : ~WriteToServerFails(w, r) /\ ~ReadFromServerFails(w, r)
      /\ ~PublishFails(w) /\ ~ConnectFails(w)
  BY DEF NothingFails, WriteToServerFails, ReadFromServerFails, PublishFails, ConnectFails
<1> QED  BY <1>4, <1>5, <1>6 DEF Environment

(* writeToClient throws a record away only if some connection, write or     *)
(* allocation can fail, as long as a client waits for its response before it *)
(* asks again: a record that has no server yet is not taken for a failed one. *)
THEOREM OnlyFailures ==
  ASSUME ~Pipelining
  PROVE  Spec => []OnlyFailedDiscarded
<1>1. CASE Failures # {}
  <2>1. OnlyFailedDiscarded
    BY <1>1 DEF OnlyFailedDiscarded
  <2> QED  BY <2>1, PTL
<1>2. CASE Failures = {}
  <2>1. NothingFails
    BY <1>2 DEF NothingFails
  <2>2. Init => NothingFailed
    <3>1. SUFFICES ASSUME Init PROVE NothingFailed
      OBVIOUS
    <3>2. /\ \A r \in Records : rec[r].mem = "none" /\ rec[r].len = 0
          /\ \A c \in Clients : cl[c].record = Nil /\ cl[c].out = FALSE
          /\ \A w \in Workers : thr[w].pc = "poll"
      BY <3>1 DEF Init, EmptyRecord, Polling
    <3> QED  BY <3>2 DEF NothingFailed, RecordFine, ClientFine, ThreadFine
  <2>3. IInv /\ IInv' /\ NothingFailed /\ [Next]_vars => NothingFailed'
    <3>1. SUFFICES ASSUME IInv, IInv', NothingFailed, [Next]_vars PROVE NothingFailed'
      OBVIOUS
    <3>2. CASE UNCHANGED <<head, mutex, rec, cl, thr, event>>
      BY <3>1, <3>2 DEF NothingFailed, RecordFine, ClientFine, ThreadFine
    <3>3. ASSUME NEW w \in Workers, Act(w) PROVE NothingFailed'
      <4>1. CASE bad' # "none"
        BY <3>2, <3>3, <4>1, BadStep
      <4>2. CASE bad' = "none"
        <5>1. Local(w)
          BY <3>1, <3>3, <4>2, ScanShape, ServeShape DEF IInv, Act
        <5> QED  BY <2>1, <3>1, <3>3, <4>2, <5>1, ScanFine, ServeFine, EnvironmentFine DEF Act
      <4> QED  BY <4>1, <4>2
    <3> QED  BY <3>1, <3>2, <3>3 DEF Next, Undefined, Act, vars
  <2>4. NothingFailed => OnlyFailedDiscarded
    BY DEF NothingFailed, RecordFine, OnlyFailedDiscarded
  <2> QED  BY <2>2, <2>3, <2>4, Invariance, PTL DEF Spec
<1> QED  BY <1>1, <1>2
=============================================================================
