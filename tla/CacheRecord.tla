----------------------------- MODULE CacheRecord -----------------------------
(***************************************************************************)
(* The cache that the pooled threads of matsko/33_proxy_with_thread_pool   *)
(* share: a list of records (cache.c), each with a response that one       *)
(* thread fills from its server connection and that the clients of all     *)
(* threads read (proxy.c).  A client belongs to the thread that popped it  *)
(* (module ThreadPool); a thread handles one descriptor at a time.         *)
(*                                                                         *)
(* A response is a number of chunks; poll()'s events for a client are      *)
(* POLLIN always and POLLOUT while cl[c].out.  Locks on a record that has  *)
(* been freed by freeCacheRecord still work, as they do in glibc, where    *)
(* destroying an rwlock does nothing and locking a destroyed mutex returns *)
(* an error that the code ignores.  An access to memory returned by free() *)
(* or through NULL sets `bad' and ends the behaviour.                      *)
(***************************************************************************)
EXTENDS Integers, FiniteSets

CONSTANTS
  Workers,      \* pooled threads
  Clients,      \* client connections
  Owner,        \* the thread that serves each client
  Urls,
  MaxRecords,   \* records that may ever be allocated
  RespLen,      \* chunks of a complete response
  MaxRequests,  \* requests that a client sends
  Pipelining,   \* whether clients send a request before the last is answered
  Failures      \* what may fail: "connect", "write" (to a server), "alloc"

Nil == 0
Nobody == "nobody"
NoUrl == "no url"
NoClient == "no client"
Records == 1..MaxRecords

ASSUME CacheAssumption ==
  /\ IsFiniteSet(Workers) /\ Nobody \notin Workers
  /\ NoUrl \notin Urls /\ NoClient \notin Clients
  /\ Owner \in [Clients -> Workers]
  /\ MaxRecords \in Nat \ {0} /\ RespLen \in Nat \ {0} /\ MaxRequests \in Nat
  /\ Pipelining \in BOOLEAN
  /\ Failures \subseteq {"connect", "write", "alloc"}

VARIABLES
  head,   \* cache_list->head
  mutex,  \* owner of cache_list->mutex
  rec,    \* the cache records and the list nodes that hold them
  cl,     \* the clients' entries in the threads' tables
  thr,    \* what each thread is doing, and its local variables
  event,  \* threads whose eventfd is readable
  bad     \* undefined behaviour: "freed" memory or a "null" pointer was used

vars == <<head, mutex, rec, cl, thr, event, bad>>

\* rec[r].server is the thread that has the record in its servers table, Nobody
\* for a server_index of -1; slot is the index itself.
RecordType == [
  mem : {"none", "live", "invalid", "freed"}, next : Records \cup {Nil},
  url : Urls \cup {NoUrl}, len : 0..RespLen, full : BOOLEAN, sent : BOOLEAN,
  server : Workers \cup {Nobody}, slot : Nat, subs : SUBSET Workers]

ClientType == [
  fd : BOOLEAN, record : Records \cup {Nil}, idx : 0..RespLen,
  out : BOOLEAN, left : 0..MaxRequests]

ThreadPCs == {"poll", "lock", "visit", "relock", "attach", "connect", "notify",
              "eof", "drop", "dropNotify", "free", "write", "clear", "wake"}
ThreadType == [
  pc : ThreadPCs, c : Clients \cup {NoClient}, url : Urls \cup {NoUrl},
  at : Records \cup {Nil}, prev : Records \cup {Nil}, todo : SUBSET Clients]

\* initEmptyCacheRecord.
EmptyRecord == [
  mem |-> "none", next |-> Nil, url |-> NoUrl, len |-> 0,
  full |-> FALSE, sent |-> FALSE, server |-> Nobody, slot |-> 0, subs |-> {}]

\* A thread between two handlers: their local variables are gone.
Polling == [pc |-> "poll", c |-> NoClient, url |-> NoUrl, at |-> Nil,
            prev |-> Nil, todo |-> {}]

\* initList, initClients, initServers and findFreeClient for every client.
Init ==
  /\ head = Nil
  /\ mutex = Nobody
  /\ rec = [r \in Records |-> EmptyRecord]
  /\ cl = [c \in Clients |->
             [fd |-> TRUE, record |-> Nil, idx |-> 0, out |-> FALSE,
              left |-> MaxRequests]]
  /\ thr = [w \in Workers |-> Polling]
  /\ event = {}
  /\ bad = "none"

At(w, l) == bad = "none" /\ thr[w].pc = l
Goto(w, l) == thr' = [thr EXCEPT ![w].pc = l]
Return(w) == thr' = [thr EXCEPT ![w] = Polling]
GotoWith(w, l, r) == thr' = [thr EXCEPT ![w].pc = l, ![w].at = r]
Freed(r) == rec[r].mem = "freed"

\* disconnectClient: the subscription of the thread stays.
Disconnect(c) ==
  cl' = [cl EXCEPT ![c].fd = FALSE, ![c].record = Nil, ![c].idx = 0,
                   ![c].out = FALSE]

\* A handler that touches memory the program has given back.
UsesFreed(w, r) ==
  /\ Freed(r)
  /\ bad' = "freed"
  /\ UNCHANGED <<head, mutex, rec, cl, thr, event>>

(***************************************************************************)
(* freeCacheRecord and the disconnectServer in it.  The server_index that  *)
(* it finds is looked up in the calling thread's table, whoever set it.    *)
(***************************************************************************)
Victims(w, r) ==
  {q \in Records : /\ rec[r].server # Nobody
                   /\ rec[q].server = w /\ rec[q].slot = rec[r].slot}

FreeCacheRecord(w, r, m) ==
  /\ rec' = [q \in Records |->
       LET server == IF q \in Victims(w, r) THEN Nobody ELSE rec[q].server
       IN  IF q = r
           THEN [rec[q] EXCEPT !.mem = m, !.len = 0, !.subs = {},
                               !.server = server]
           ELSE [rec[q] EXCEPT !.server = server]]
  /\ event' = event \cup UNION {rec[q].subs : q \in Victims(w, r) \ {r}}

-----------------------------------------------------------------------------
(***************************************************************************)
(* readFromClient: a complete GET request starts findAndAddCacheRecord;    *)
(* an error, the end of the connection and every request that is refused   *)
(* disconnect the client.                                                  *)
(***************************************************************************)
Answered(c) == cl[c].record = Nil \/ cl[c].idx = RespLen

ReadRequest(w, c, u) ==
  /\ At(w, "poll")
  /\ Owner[c] = w /\ cl[c].fd /\ cl[c].left > 0
  /\ Pipelining \/ Answered(c)
  /\ cl' = [cl EXCEPT ![c].left = @ - 1]
  /\ thr' = [thr EXCEPT ![w].pc = "lock", ![w].c = c, ![w].url = u]
  /\ UNCHANGED <<head, mutex, rec, event, bad>>

ClientCloses(w, c) ==
  /\ At(w, "poll")
  /\ Owner[c] = w /\ cl[c].fd
  /\ Disconnect(c)
  /\ UNCHANGED <<head, mutex, rec, thr, event, bad>>

(***************************************************************************)
(* findAndAddCacheRecord walks the list; the mutex is released and taken   *)
(* again between two nodes.                                                *)
(***************************************************************************)
LockList(w) ==
  /\ At(w, "lock")
  /\ mutex = Nobody
  /\ mutex' = w
  /\ thr' = [thr EXCEPT ![w].pc = "visit", ![w].at = head, ![w].prev = Nil]
  /\ UNCHANGED <<head, rec, cl, event, bad>>

\* An invalid node is freed, and stays linked.
ReapNode(w) ==
  LET r == thr[w].at IN
  /\ At(w, "visit") /\ r # Nil
  /\ \/ UsesFreed(w, r)
     \/ /\ rec[r].mem = "invalid"
        /\ FreeCacheRecord(w, r, "freed")
        /\ GotoWith(w, "visit", rec[r].next)
        /\ UNCHANGED <<head, mutex, cl, bad>>

\* Mutant: after the last node the mutex is not taken again.
PassNodeUnlocked(w) ==
  LET r == thr[w].at IN
  /\ At(w, "visit") /\ r # Nil
  /\ rec[r].mem = "live" /\ rec[r].url # thr[w].url
  /\ mutex' = Nobody
  /\ thr' = [thr EXCEPT ![w].pc = IF rec[r].next = Nil THEN "visit" ELSE "relock",
                        ![w].prev = r,
                        ![w].at = IF rec[r].next = Nil THEN Nil ELSE r]
  /\ UNCHANGED <<head, rec, cl, event, bad>>

\* Another URL: release the mutex, ...
PassNode(w) ==
  LET r == thr[w].at IN
  /\ At(w, "visit") /\ r # Nil
  /\ rec[r].mem = "live" /\ rec[r].url # thr[w].url
  /\ mutex' = Nobody
  /\ Goto(w, "relock")
  /\ UNCHANGED <<head, rec, cl, event, bad>>

\* ... take it again and go on from the node.
NextNode(w) ==
  LET r == thr[w].at IN
  /\ At(w, "relock")
  /\ mutex = Nobody
  /\ \/ UsesFreed(w, r)
     \/ /\ ~Freed(r)
        /\ mutex' = w
        /\ thr' = [thr EXCEPT ![w].pc = "visit", ![w].prev = r,
                              ![w].at = rec[r].next]
        /\ UNCHANGED <<head, rec, cl, event, bad>>

\* Mutant: write_response_index keeps the -1 of an empty client.
AttachClientNoIndex(w) ==
  LET r == thr[w].at  c == thr[w].c IN
  /\ At(w, "visit") /\ r # Nil
  /\ rec[r].mem = "live" /\ rec[r].url = thr[w].url
  /\ cl' = [cl EXCEPT ![c].record = r, ![c].idx = -1]
  /\ rec' = [rec EXCEPT ![r].subs = @ \cup {w}]
  /\ Goto(w, "attach")
  /\ UNCHANGED <<head, mutex, event, bad>>

\* The record of the URL: subscribe the thread, and then, still under the list's
\* mutex and under the record's read lock, ask for POLLOUT if there are data.
AttachClient(w) ==
  LET r == thr[w].at  c == thr[w].c IN
  /\ At(w, "visit") /\ r # Nil
  /\ rec[r].mem = "live" /\ rec[r].url = thr[w].url
  /\ cl' = [cl EXCEPT ![c].record = r, ![c].idx = 0]
  /\ rec' = [rec EXCEPT ![r].subs = @ \cup {w}]
  /\ Goto(w, "attach")
  /\ UNCHANGED <<head, mutex, event, bad>>

\* Mutant: the client waits for a notification even if there are data.
CheckAttachedWaits(w) ==
  /\ At(w, "attach")
  /\ mutex' = Nobody
  /\ Return(w)
  /\ UNCHANGED <<head, rec, cl, event, bad>>

CheckAttached(w) ==
  LET r == thr[w].at  c == thr[w].c IN
  /\ At(w, "attach")
  /\ cl' = [cl EXCEPT ![c].out = @ \/ rec[r].len # 0]
  /\ mutex' = Nobody
  /\ Return(w)
  /\ UNCHANGED <<head, rec, event, bad>>

\* No record for the URL: a new one is appended and published, and connected
\* only after the mutex has been released.
PublishRecord(w) ==
  /\ At(w, "visit") /\ thr[w].at = Nil
  /\ \E r \in Records :
       /\ rec[r].mem = "none"
       /\ \A q \in Records : q < r => rec[q].mem # "none"
       /\ rec' = [q \in Records |->
            IF q = r THEN [EmptyRecord EXCEPT !.mem = "live", !.url = thr[w].url]
            ELSE IF q = thr[w].prev THEN [rec[q] EXCEPT !.next = r]
            ELSE rec[q]]
       /\ head' = IF thr[w].prev = Nil THEN r ELSE head
       /\ GotoWith(w, "connect", r)
  /\ mutex' = Nobody
  /\ UNCHANGED <<cl, event, bad>>

\* calloc fails for the node or the record.
PublishFails(w) ==
  /\ "alloc" \in Failures
  /\ At(w, "visit") /\ thr[w].at = Nil
  /\ mutex' = Nobody
  /\ Disconnect(thr[w].c)
  /\ Return(w)
  /\ UNCHANGED <<head, rec, event, bad>>

(***************************************************************************)
(* connectToServerHost.  On success the record enters the thread's servers *)
(* table at the first free index and the thread subscribes; addSubscriber  *)
(* refuses a record that is not valid any more.  On failure the record is  *)
(* freed under whoever has found it meanwhile.                             *)
(***************************************************************************)
FreeSlot(w) ==
  CHOOSE i \in 0..MaxRecords :
    /\ \A q \in Records : rec[q].server = w => rec[q].slot # i
    /\ \A j \in 0..(i - 1) : \E q \in Records : rec[q].server = w /\ rec[q].slot = j

ConnectServer(w) ==
  LET r == thr[w].at  c == thr[w].c IN
  /\ At(w, "connect")
  /\ \/ UsesFreed(w, r)
     \/ /\ ~Freed(r)
        /\ rec' = [rec EXCEPT ![r].server = w, ![r].slot = FreeSlot(w),
                              ![r].subs = IF rec[r].mem = "live"
                                          THEN @ \cup {w} ELSE @]
        /\ cl' = [cl EXCEPT ![c].record = r, ![c].idx = 0]
        /\ Return(w)
        /\ UNCHANGED <<head, mutex, event, bad>>

ConnectFails(w) ==
  LET r == thr[w].at IN
  /\ Failures \cap {"connect", "alloc"} # {}
  /\ At(w, "connect") /\ ~Freed(r)
  /\ FreeCacheRecord(w, r, "invalid")
  /\ Disconnect(thr[w].c)
  /\ Return(w)
  /\ UNCHANGED <<head, mutex, bad>>

-----------------------------------------------------------------------------
(***************************************************************************)
(* writeToServer and readFromServer, for a record in the servers table of  *)
(* the thread.                                                             *)
(***************************************************************************)
Serving(w, r) == At(w, "poll") /\ rec[r].server = w

WriteToServer(w, r) ==
  /\ Serving(w, r) /\ ~rec[r].sent
  /\ \/ UsesFreed(w, r)
     \/ /\ ~Freed(r)
        /\ rec' = [rec EXCEPT ![r].sent = TRUE]
        /\ UNCHANGED <<head, mutex, cl, thr, event, bad>>

WriteToServerFails(w, r) ==
  /\ "write" \in Failures
  /\ Serving(w, r) /\ ~rec[r].sent /\ ~Freed(r)
  /\ GotoWith(w, "drop", r)
  /\ UNCHANGED <<head, mutex, rec, cl, event, bad>>

\* A chunk arrives and is appended under the write lock.
ReadFromServer(w, r) ==
  /\ Serving(w, r) /\ rec[r].sent /\ rec[r].len < RespLen
  /\ \/ UsesFreed(w, r)
     \/ /\ ~Freed(r)
        /\ rec' = [rec EXCEPT ![r].len = @ + 1]
        /\ GotoWith(w, "notify", r)
        /\ UNCHANGED <<head, mutex, cl, event, bad>>

\* The buffer cannot be allocated: disconnectServer clears the table entry
\* whose cache_record the next statement unlocks.
ReadFromServerFails(w, r) ==
  /\ "alloc" \in Failures
  /\ Serving(w, r) /\ rec[r].sent /\ rec[r].len = 0 /\ ~Freed(r)
  /\ bad' = "null"
  /\ UNCHANGED <<head, mutex, rec, cl, thr, event>>

\* Mutant: the record is not marked full at the end.
ServerEofNotFull(w, r) ==
  /\ Serving(w, r) /\ rec[r].sent /\ rec[r].len = RespLen /\ ~Freed(r)
  /\ GotoWith(w, "eof", r)
  /\ UNCHANGED <<head, mutex, rec, cl, event, bad>>

\* The server closes the connection: `full' first, ...
ServerEof(w, r) ==
  /\ Serving(w, r) /\ rec[r].sent /\ rec[r].len = RespLen
  /\ \/ UsesFreed(w, r)
     \/ /\ ~Freed(r)
        /\ rec' = [rec EXCEPT ![r].full = TRUE]
        /\ GotoWith(w, "eof", r)
        /\ UNCHANGED <<head, mutex, cl, event, bad>>

\* ... then notifySubscribers: one write to the eventfd of every subscribed
\* thread, after new data, at the end, and in disconnectServer.
NotifySubscribers(w) ==
  LET r == thr[w].at IN
  /\ bad = "none" /\ thr[w].pc \in {"notify", "eof", "dropNotify"}
  /\ \/ UsesFreed(w, r)
     \/ /\ ~Freed(r)
        /\ event' = event \cup rec[r].subs
        /\ IF thr[w].pc = "eof" THEN Goto(w, "drop") ELSE Return(w)
        /\ UNCHANGED <<head, mutex, rec, cl, bad>>

\* disconnectServer: server_index becomes -1 and the subscribers are notified.
DisconnectServer(w) ==
  LET r == thr[w].at IN
  /\ At(w, "drop")
  /\ \/ UsesFreed(w, r)
     \/ /\ ~Freed(r)
        /\ rec' = [rec EXCEPT ![r].server = Nobody]
        /\ Goto(w, "dropNotify")
        /\ UNCHANGED <<head, mutex, cl, event, bad>>

-----------------------------------------------------------------------------
(***************************************************************************)
(* writeToClient: the test for a failed record reads it without a lock,    *)
(* the write holds the read lock, and the test for the end of the data is  *)
(* again without.                                                          *)
(***************************************************************************)
TestRecord(w, c) ==
  LET r == cl[c].record IN
  /\ At(w, "poll")
  /\ Owner[c] = w /\ cl[c].out
  /\ IF r = Nil
     THEN Disconnect(c) /\ UNCHANGED <<head, mutex, rec, thr, event, bad>>
     ELSE \/ UsesFreed(w, r)
          \/ /\ ~Freed(r)
             /\ thr' = [thr EXCEPT ![w].c = c, ![w].at = r,
                  ![w].pc = IF rec[r].server = Nobody /\ ~rec[r].full
                            THEN "free" ELSE "write"]
             /\ UNCHANGED <<head, mutex, rec, cl, event, bad>>

\* A failed record: free it and disconnect.
FreeFailedRecord(w) ==
  LET r == thr[w].at IN
  /\ At(w, "free")
  /\ \/ UsesFreed(w, r)
     \/ /\ ~Freed(r)
        /\ FreeCacheRecord(w, r, "invalid")
        /\ Disconnect(thr[w].c)
        /\ Return(w)
        /\ UNCHANGED <<head, mutex, bad>>

\* write() takes some of the unread chunks, all of none, or fails; a record
\* freed since the test has a length below idx, which write() refuses.
WriteToClient(w) ==
  LET r == thr[w].at  c == thr[w].c IN
  /\ At(w, "write")
  /\ \/ UsesFreed(w, r)
     \/ /\ ~Freed(r)
        /\ \/ \E i \in cl[c].idx..rec[r].len :
                /\ i = cl[c].idx => i = rec[r].len
                /\ cl' = [cl EXCEPT ![c].idx = i]
                /\ Goto(w, "clear")
           \/ Disconnect(c) /\ Return(w)
        /\ UNCHANGED <<head, mutex, rec, event, bad>>

\* Mutant: POLLOUT is switched off after every write.
ClearPolloutAlways(w) ==
  LET r == thr[w].at  c == thr[w].c IN
  /\ At(w, "clear")
  /\ cl' = [cl EXCEPT ![c].out = FALSE]
  /\ Return(w)
  /\ UNCHANGED <<head, mutex, rec, event, bad>>

ClearPollout(w) ==
  LET r == thr[w].at  c == thr[w].c IN
  /\ At(w, "clear")
  /\ \/ UsesFreed(w, r)
     \/ /\ ~Freed(r)
        /\ cl' = [cl EXCEPT ![c].out = @ /\ cl[c].idx # rec[r].len]
        /\ Return(w)
        /\ UNCHANGED <<head, mutex, rec, event, bad>>

-----------------------------------------------------------------------------
(***************************************************************************)
(* threadFunc, the eventfd branch: reset it, then look at every client of  *)
(* the thread under its record's read lock.                                *)
(***************************************************************************)
ReadEvent(w) ==
  /\ At(w, "poll")
  /\ w \in event
  /\ event' = event \ {w}
  /\ thr' = [thr EXCEPT ![w].pc = "wake",
                        ![w].todo = {c \in Clients : Owner[c] = w}]
  /\ UNCHANGED <<head, mutex, rec, cl, bad>>

WakeClient(w) ==
  /\ At(w, "wake")
  /\ \E c \in thr[w].todo :
       LET r == cl[c].record IN
       \/ r # Nil /\ UsesFreed(w, r)
       \/ /\ r # Nil => ~Freed(r)
          /\ cl' = [cl EXCEPT ![c].out = @ \/ (r # Nil /\ rec[r].len > cl[c].idx)]
          /\ thr' = [thr EXCEPT ![w].todo = @ \ {c}]
          /\ UNCHANGED <<head, mutex, rec, event, bad>>

WakeDone(w) ==
  /\ At(w, "wake")
  /\ thr[w].todo = {}
  /\ Return(w)
  /\ UNCHANGED <<head, mutex, rec, cl, event, bad>>

-----------------------------------------------------------------------------
Scan(w) ==
  \/ LockList(w) \/ ReapNode(w) \/ PassNode(w) \/ NextNode(w)
  \/ AttachClient(w) \/ CheckAttached(w) \/ PublishRecord(w) \/ ConnectServer(w)

Serve(w) ==
  \/ \E r \in Records :
       WriteToServer(w, r) \/ ReadFromServer(w, r) \/ ServerEof(w, r)
  \/ NotifySubscribers(w) \/ DisconnectServer(w)
  \/ \E c \in Clients : TestRecord(w, c)
  \/ FreeFailedRecord(w) \/ WriteToClient(w) \/ ClearPollout(w)
  \/ ReadEvent(w) \/ WakeClient(w) \/ WakeDone(w)

\* What clients, servers and the allocator do to the thread.
Environment(w) ==
  \/ \E c \in Clients : ClientCloses(w, c) \/ \E u \in Urls : ReadRequest(w, c, u)
  \/ \E r \in Records : WriteToServerFails(w, r) \/ ReadFromServerFails(w, r)
  \/ PublishFails(w) \/ ConnectFails(w)

\* Nothing is said of a program after undefined behaviour.
Undefined == bad # "none" /\ UNCHANGED vars

Next == (\E w \in Workers : Scan(w) \/ Serve(w) \/ Environment(w)) \/ Undefined

\* Threads run, and servers answer the requests they got.
Fairness == \A w \in Workers : WF_vars(Scan(w) \/ Serve(w))

Spec == Init /\ [][Next]_vars
FairSpec == Spec /\ Fairness

-----------------------------------------------------------------------------
TypeOK ==
  /\ head \in Records \cup {Nil}
  /\ mutex \in Workers \cup {Nobody}
  /\ rec \in [Records -> RecordType]
  /\ cl \in [Clients -> ClientType]
  /\ thr \in [Workers -> ThreadType]
  /\ event \subseteq Workers
  /\ bad \in {"none", "freed", "null"}

\* A walk along the list from the head stays in S.
HoldsList(S) ==
  /\ head \in S \cup {Nil}
  /\ \A r \in S : rec[r].next \in S \cup {Nil}

Live == {r \in Records : rec[r].mem = "live"}

\* findAndAddCacheRecord never leaves two records for one URL, although it
\* releases the mutex between two nodes, so two threads can look for the same
\* URL at once; and no insertion overwrites another: what is valid is listed,
\* so a walk from the head comes by.
OneRecordPerUrl ==
  bad = "none" =>
    /\ \A q, r \in Live : rec[q].url = rec[r].url => q = r
    /\ \A S \in SUBSET Records : HoldsList(S) => Live \subseteq S

\* Thread w is on its way to look at client c again or will be told to: its
\* eventfd is readable, a notification of the record's new data is on its way,
\* or it is about to test the record for data itself.
WakeUpComing(c) ==
  LET w == Owner[c]  r == cl[c].record IN
  \/ w \in event
  \/ thr[w].pc = "wake" /\ c \in thr[w].todo
  \/ thr[w].pc = "attach" /\ thr[w].c = c
  \/ w \in rec[r].subs /\ \E v \in Workers :
       thr[v].pc \in {"notify", "eof"} /\ thr[v].at = r

\* No lost wake-up: a client whose record has data it has not been sent is
\* waiting for POLLOUT, or something that will switch POLLOUT on is under way.
NoLostWakeUp ==
  bad = "none" =>
    \A c \in Clients :
      /\ cl[c].record # Nil
      /\ rec[cl[c].record].mem = "live"
      /\ rec[cl[c].record].len > cl[c].idx
      => cl[c].out \/ WakeUpComing(c)

\* writeToClient takes a record for failed (no server, not full) only if its
\* server did fail: a record that is still being connected, or is complete, is
\* never thrown away.
OnlyFailedDiscarded ==
  \A r \in Records : rec[r].mem \in {"invalid", "freed"} => Failures # {}

\* README rule 9: no handler touches a record or a list node after free().
NoUseAfterFree == bad # "freed"

(***************************************************************************)
(* What makes these invariants inductive, in parts.                        *)
(***************************************************************************)
Alloc == {r \in Records : rec[r].mem # "none"}

\* The handlers' local variables: the mutex is held from lock to unlock of
\* findAndAddCacheRecord, `c' is a client of the thread, `at' has been allocated.
ThreadOK(w) ==
  /\ mutex = w <=> thr[w].pc \in {"visit", "attach"}
  /\ thr[w].pc \in {"lock", "visit", "relock", "attach", "connect", "free",
                    "write", "clear"}
       => thr[w].c \in Clients /\ Owner[thr[w].c] = w
  /\ thr[w].pc \in {"relock", "attach", "connect", "notify", "eof", "drop",
                    "dropNotify", "free", "write", "clear"}
       => thr[w].at \in Alloc
  /\ thr[w].pc = "visit" => thr[w].at \in Alloc \cup {Nil}
  /\ thr[w].pc \in {"attach", "write", "clear"} => cl[thr[w].c].record = thr[w].at
  /\ thr[w].pc = "attach" => cl[thr[w].c].idx = 0
  /\ thr[w].pc = "wake" => \A c \in thr[w].todo : Owner[c] = w

ThreadsOK == \A w \in Workers : ThreadOK(w)

\* Records are allocated in order; one that is not has no server, and while one
\* is being connected it has none either, and no data.  A live record knows the
\* threads of its clients.
RecordsOK ==
  /\ \A r \in Records \ Alloc : rec[r].server = Nobody
  /\ \A q \in Records, r \in Alloc : q < r => q \in Alloc
  /\ \A c \in Clients :
       /\ cl[c].record \in Alloc \cup {Nil}
       /\ cl[c].record \in Live => Owner[c] \in rec[cl[c].record].subs
  /\ \A w \in Workers :
       thr[w].pc = "connect" =>
         /\ rec[thr[w].at].server = Nobody /\ rec[thr[w].at].len = 0
         /\ \A v \in Workers :
              thr[v].pc = "connect" /\ thr[v].at = thr[w].at => v = w

\* A reaped node stays linked until a thread that reaped it appends behind the
\* node before it: links go upwards and do not cross, what they pass over has
\* been reaped, and a node without a successor is the last or has been passed.
PassedOver(r) == head > r \/ \E p \in Records : p < r /\ rec[p].next > r

ListOK ==
  /\ head \in Alloc \cup {Nil}
  /\ head = Nil => Alloc = {}
  /\ \A r \in Alloc : r < head => Freed(r) /\ rec[r].next < head
  /\ \A r \in Records \ Alloc : rec[r].next = Nil
  /\ \A p \in Alloc :
       /\ rec[p].next # Nil => rec[p].next \in Alloc /\ p < rec[p].next
       /\ \A q \in Alloc : p < q /\ q < rec[p].next
                             => Freed(q) /\ rec[q].next < rec[p].next
       /\ rec[p].next = Nil =>
            PassedOver(p) \/ \A q \in Alloc : p < q => Freed(q)

\* The walk of a thread that holds the mutex: `prev' is in use, everything
\* between it and `at' has been reaped, and what is behind has another URL.
Behind(w, r) == thr[w].at = Nil \/ r < thr[w].at

WalkOf(w) ==
  /\ thr[w].pc = "visit" =>
       /\ thr[w].prev # Nil => thr[w].prev \in Alloc /\ ~Freed(thr[w].prev)
       /\ thr[w].at # Nil => thr[w].prev < thr[w].at
       /\ \A q \in Alloc : Behind(w, q) /\ thr[w].prev < q => Freed(q)
       /\ \A q \in Live : Behind(w, q) => rec[q].url # thr[w].url
  /\ thr[w].pc = "relock" =>
       \A q \in Live : q <= thr[w].at => rec[q].url # thr[w].url

WalkOK == \A w \in Workers : WalkOf(w)

UrlsUnique == \A q, r \in Live : rec[q].url = rec[r].url => q = r

\* NoLostWakeUp at every state.
WakeUpOf(c) ==
  cl[c].record \in Live /\ rec[cl[c].record].len > cl[c].idx
    => cl[c].out \/ WakeUpComing(c)

WakeUpsOK == \A c \in Clients : WakeUpOf(c)

IInv ==
  /\ TypeOK /\ ThreadsOK /\ RecordsOK
  /\ ListOK /\ WalkOK /\ UrlsUnique /\ WakeUpsOK

\* Without failures and with a request at a time: data have a server or are
\* complete, POLLOUT is asked for only when there are data, and not by a client
\* that asks for another response.
NothingFails == Failures = {} /\ ~Pipelining

RecordFine(r) ==
  /\ rec[r].mem \in {"none", "live"}
  /\ rec[r].len > 0 => rec[r].server # Nobody \/ rec[r].full

ClientFine(c) ==
  /\ cl[c].out => cl[c].record # Nil /\ rec[cl[c].record].len > 0
  /\ cl[c].record # Nil => cl[c].idx <= rec[cl[c].record].len
  /\ cl[c].idx = RespLen /\ cl[c].out
       => thr[Owner[c]].pc = "clear" /\ thr[Owner[c]].c = c

ThreadFine(w) ==
  /\ thr[w].pc # "free"
  /\ thr[w].pc \in {"eof", "drop", "dropNotify"} => rec[thr[w].at].full
  /\ thr[w].pc \in {"lock", "visit", "relock", "attach", "connect"}
       => ~cl[thr[w].c].out

NothingFailed ==
  /\ \A r \in Records : RecordFine(r)
  /\ \A c \in Clients : ClientFine(c)
  /\ \A w \in Workers : ThreadFine(w)

\* A client that has sent a request gets the whole response, or is disconnected.
Delivered ==
  \A c \in Clients :
    (cl[c].record # Nil) ~> (cl[c].idx = RespLen \/ ~cl[c].fd)

\* The server connection of a published record broke before the end.
Failed(r) ==
  /\ rec[r].mem = "live" /\ rec[r].server = Nobody /\ ~rec[r].full
  /\ \A w \in Workers : ~(thr[w].pc = "connect" /\ thr[w].at = r)

\* README rule 5, every significant error is handled: the clients of a record
\* whose server connection broke are disconnected.
FailureReachesClients ==
  \A c \in Clients :
    (cl[c].record # Nil /\ Failed(cl[c].record)) ~> (~cl[c].fd \/ bad # "none")
=============================================================================
