-------------------------- MODULE ThreadProxyMatsko --------------------------
(***************************************************************************)
(* matsko/32_multithread_proxy: one thread for each client and one for     *)
(* each server connection, and a list of cache records (cache.c) between   *)
(* them.  All subscribers of a record poll one eventfd with semaphore      *)
(* semantics; its counter is records[r].tokens.                            *)
(*                                                                         *)
(* A response is CHUNKS chunks; a client sends one request.  Locks on a    *)
(* record that freeCacheRecord has destroyed still work, as in glibc.  An  *)
(* access to memory returned by free() sets `bad' and ends the behaviour.  *)
(***************************************************************************)
EXTENDS Integers, FiniteSets

CONSTANTS CLIENTS, URLS, RECORDS, CHUNKS,
  FAULTS   \* what may fail: "connect", "server" (its connection), "thread"

Nil == 0
NoUrl == "no url"

\* Threads and records are named by numbers other than Nil; there are finitely
\* many of them.  The theorems of ThreadProxyMatskoProofs assume this.
ProxyConstants ==
  /\ IsFiniteSet(CLIENTS) /\ Nil \notin CLIENTS
  /\ IsFiniteSet(RECORDS) /\ RECORDS \subseteq Nat \ {0}
  /\ CHUNKS \in Nat

VARIABLES
  main,         \* "poll", then "cleanUp", "waiting" and "exited"
  is_stop, num_threads,
  stop_bytes,   \* bytes in the sync pipe
  head,         \* cache_list->head
  list_mutex,   \* the client thread that holds cache_list->mutex, or Nil
  records,      \* cache records with the nodes that hold them
  clients,      \* client threads, and what client_t says
  servers,      \* the thread that serves each record: its control state
  bad

vars == <<main, is_stop, num_threads, stop_bytes, head, list_mutex, records,
          clients, servers, bad>>

\* `overtaken' is history: a client took a token that was not for it.
RecordType == [
  mem : {"none", "live", "invalid", "freed"}, next : RECORDS \cup {Nil},
  url : URLS \cup {NoUrl}, response_index : 0 .. CHUNKS, full : BOOLEAN,
  server_alive : BOOLEAN, subs : 0 .. Cardinality(CLIENTS), tokens : Nat,
  overtaken : BOOLEAN]

\* `due' is history: announcements since the subscription and not taken;
\* `late': the client subscribed to data that had been announced before.
ClientType == [
  pc : {"none", "created", "poll", "lock", "visit", "relock", "check",
        "connect", "attach", "compare", "exit", "gone"},
  url : URLS \cup {NoUrl}, record : RECORDS \cup {Nil},
  at : RECORDS \cup {Nil}, prev : RECORDS \cup {Nil}, events : BOOLEAN,
  write_response_index : 0 .. CHUNKS, due : Nat, late : BOOLEAN]

ServerPCs == {"none", "created", "request", "poll", "announce", "last", "exit",
              "gone"}

\* initEmptyCacheRecord; server_alive is -1, which C takes for true.
initEmptyCacheRecord == [
  mem |-> "none", next |-> Nil, url |-> NoUrl, response_index |-> 0,
  full |-> FALSE, server_alive |-> TRUE, subs |-> 0, tokens |-> 0,
  overtaken |-> FALSE]

\* The client_t that acceptNewClient fills in.
newClient == [
  pc |-> "none", url |-> NoUrl, record |-> Nil, at |-> Nil, prev |-> Nil,
  events |-> FALSE, write_response_index |-> 0, due |-> 0, late |-> FALSE]

\* initList and initStopCond.
Init ==
  /\ main = "poll" /\ is_stop = FALSE /\ num_threads = 0 /\ stop_bytes = 0
  /\ head = Nil /\ list_mutex = Nil
  /\ records = [r \in RECORDS |-> initEmptyCacheRecord]
  /\ clients = [c \in CLIENTS |-> newClient]
  /\ servers = [r \in RECORDS |-> "none"]
  /\ bad = FALSE

Freed(r) == r # Nil /\ records[r].mem = "freed"
At(c, l) == ~bad /\ clients[c].pc = l
ServerAt(r, l) == ~bad /\ servers[r] = l

\* What an access to a record does to the behaviour.
Touch(r) == bad' = Freed(r)

\* freeCacheRecord of cache.c: the record itself stays allocated.
freeCacheRecord(r) ==
  [records EXCEPT ![r].mem = "invalid", ![r].url = NoUrl,
                  ![r].response_index = 0, ![r].subs = 0, ![r].tokens = 0]

-----------------------------------------------------------------------------
(***************************************************************************)
(* main, createThread and the shutdown.  A thread counts itself.           *)
(***************************************************************************)
acceptNewClient(c) ==
  /\ main = "poll" /\ At(c, "none")
  /\ \E started \in {TRUE} \cup {"thread" \notin FAULTS} :
       clients' = [clients EXCEPT ![c].pc = IF started THEN "created" ELSE "gone"]
  /\ UNCHANGED <<main, is_stop, num_threads, stop_bytes, head, list_mutex,
                 records, servers, bad>>

\* sigCatch writes a byte that wakes main; so does main's own timeout.
sigCatch ==
  /\ ~bad /\ main = "poll"
  /\ main' = "cleanUp" /\ is_stop' = TRUE
  /\ UNCHANGED <<num_threads, stop_bytes, head, list_mutex, records, clients,
                 servers, bad>>

\* cleanUp's sync_pipe_notify(num_threads * 2).
cleanUpNotify ==
  /\ ~bad /\ main = "cleanUp"
  /\ stop_bytes' = stop_bytes + 2 * num_threads
  /\ main' = "waiting"
  /\ UNCHANGED <<is_stop, num_threads, head, list_mutex, records, clients,
                 servers, bad>>

\* cleanUp after its wait on stop_cond: destroyList frees every node it finds,
\* a node that is still linked and was freed before once more.
Dangling ==
  \/ Freed(head)
  \/ \E r \in RECORDS : ~Freed(r) /\ Freed(records[r].next)

\* Mutant: the wait ends at the first signal of stop_cond.
cleanUpFirstSignal ==
  /\ ~bad /\ main = "waiting"
  /\ main' = "exited"
  /\ bad' = Dangling
  /\ records' = [r \in RECORDS |->
       IF records[r].mem = "none" THEN records[r]
       ELSE [records[r] EXCEPT !.mem = "freed"]]
  /\ UNCHANGED <<is_stop, num_threads, stop_bytes, head, list_mutex, clients,
                 servers>>

cleanUp ==
  /\ ~bad /\ main = "waiting" /\ num_threads = 0
  /\ main' = "exited"
  /\ bad' = Dangling
  /\ records' = [r \in RECORDS |->
       IF records[r].mem = "none" THEN records[r]
       ELSE [records[r] EXCEPT !.mem = "freed"]]
  /\ UNCHANGED <<is_stop, num_threads, stop_bytes, head, list_mutex, clients,
                 servers>>

\* The loop condition that a thread tests before it calls poll() again.
Loop(next) == IF is_stop THEN "exit" ELSE next

\* clientThread up to its loop.
clientThread(c) ==
  /\ At(c, "created")
  /\ num_threads' = num_threads + 1
  /\ clients' = [clients EXCEPT ![c].pc = Loop("poll")]
  /\ UNCHANGED <<main, is_stop, stop_bytes, head, list_mutex, records, servers, bad>>

\* serverThread up to its loop.
serverThread(r) ==
  /\ ServerAt(r, "created")
  /\ num_threads' = num_threads + 1
  /\ servers' = [servers EXCEPT ![r] = Loop("request")]
  /\ UNCHANGED <<main, is_stop, stop_bytes, head, list_mutex, records, clients, bad>>

\* A byte in the pipe wakes every thread in poll(); is_stop was set before it
\* was written, so that the thread leaves its loop without reading it.
clientStops(c) ==
  /\ At(c, "poll") /\ stop_bytes > 0
  /\ clients' = [clients EXCEPT ![c].pc = "exit"]
  /\ UNCHANGED <<main, is_stop, num_threads, stop_bytes, head, list_mutex,
                 records, servers, bad>>

serverStops(r) ==
  /\ ServerAt(r, "request") \/ ServerAt(r, "poll")
  /\ stop_bytes > 0
  /\ servers' = [servers EXCEPT ![r] = "exit"]
  /\ UNCHANGED <<main, is_stop, num_threads, stop_bytes, head, list_mutex,
                 records, clients, bad>>

\* The end of clientThread: no subscription is taken back.
clientExits(c) ==
  /\ At(c, "exit")
  /\ num_threads' = num_threads - 1
  /\ clients' = [clients EXCEPT ![c] = [newClient EXCEPT !.pc = "gone"]]
  /\ UNCHANGED <<main, is_stop, stop_bytes, head, list_mutex, records, servers, bad>>

\* The end of serverThread.
serverExits(r) ==
  /\ ServerAt(r, "exit")
  /\ Touch(r)
  /\ records' = [records EXCEPT ![r].server_alive = FALSE]
  /\ num_threads' = num_threads - 1
  /\ servers' = [servers EXCEPT ![r] = "gone"]
  /\ UNCHANGED <<main, is_stop, stop_bytes, head, list_mutex, clients>>

-----------------------------------------------------------------------------
(***************************************************************************)
(* readFromClient and findAndAddCacheRecord.                               *)
(***************************************************************************)
\* A complete GET request: the walk begins at the head, under the mutex.
readRequest(c, u) ==
  /\ At(c, "poll") /\ ~is_stop /\ clients[c].record = Nil
  /\ clients' = [clients EXCEPT ![c].pc = "lock", ![c].url = u]
  /\ UNCHANGED <<main, is_stop, num_threads, stop_bytes, head, list_mutex,
                 records, servers, bad>>

\* The end of the connection, an error, a refused request or the timeout.
disconnectClient(c) ==
  /\ At(c, "poll") /\ ~is_stop
  /\ clients' = [clients EXCEPT ![c].pc = "exit"]
  /\ UNCHANGED <<main, is_stop, num_threads, stop_bytes, head, list_mutex,
                 records, servers, bad>>

\* pthread_mutex_lock, and the node to look at: list_nodes->next is read anew.
lockList(c) ==
  /\ At(c, "lock") \/ At(c, "relock")
  /\ list_mutex = Nil
  /\ list_mutex' = c
  /\ LET at == clients[c].at IN
     /\ Touch(at)
     /\ clients' = [clients EXCEPT ![c].pc = "visit", ![c].prev = at,
                      ![c].at = IF at = Nil THEN head ELSE records[at].next]
  /\ UNCHANGED <<main, is_stop, num_threads, stop_bytes, head, records, servers>>

\* An invalid record is freed with its node, which stays linked.
visitInvalid(c) ==
  /\ At(c, "visit") /\ clients[c].at # Nil
  /\ LET at == clients[c].at IN
     /\ records[at].mem \in {"invalid", "freed"}
     /\ Touch(at)
     /\ records' = [records EXCEPT ![at].mem = "freed"]
     /\ clients' = [clients EXCEPT ![c].at = records[at].next]
  /\ UNCHANGED <<main, is_stop, num_threads, stop_bytes, head, list_mutex, servers>>

\* Mutant: the walk goes on without the mutex.
visitOtherUnlocked(c) ==
  /\ At(c, "visit") /\ clients[c].at # Nil
  /\ records[clients[c].at].mem = "live"
  /\ records[clients[c].at].url # clients[c].url
  /\ list_mutex' = Nil
  /\ clients' = [clients EXCEPT ![c].prev = clients[c].at,
                                ![c].at = records[clients[c].at].next]
  /\ UNCHANGED <<main, is_stop, num_threads, stop_bytes, head, records,
                 servers, bad>>

\* Another URL: the mutex is released before the next node.
visitOther(c) ==
  /\ At(c, "visit") /\ clients[c].at # Nil
  /\ records[clients[c].at].mem = "live"
  /\ records[clients[c].at].url # clients[c].url
  /\ list_mutex' = Nil
  /\ clients' = [clients EXCEPT ![c].pc = "relock", ![c].prev = Nil]
  /\ UNCHANGED <<main, is_stop, num_threads, stop_bytes, head, records,
                 servers, bad>>

\* addSubscriber; the mutex stays locked until the response is looked at.
visitFound(c) ==
  /\ At(c, "visit") /\ clients[c].at # Nil
  /\ LET at == clients[c].at IN
     /\ records[at].mem = "live" /\ records[at].url = clients[c].url
     /\ records' = [records EXCEPT ![at].subs = @ + 1]
     /\ clients' = [clients EXCEPT ![c].pc = "check", ![c].record = at,
                                   ![c].at = Nil, ![c].prev = Nil]
  /\ UNCHANGED <<main, is_stop, num_threads, stop_bytes, head, list_mutex,
                 servers, bad>>

\* Mutant: the client waits for the next announcement.
checkNothing(c) ==
  /\ At(c, "check")
  /\ list_mutex' = Nil
  /\ clients' = [clients EXCEPT ![c].pc = Loop("poll")]
  /\ UNCHANGED <<main, is_stop, num_threads, stop_bytes, head, records,
                 servers, bad>>

\* POLLOUT for a response that has begun.
checkResponse(c) ==
  /\ At(c, "check")
  /\ list_mutex' = Nil
  /\ clients' = [clients EXCEPT ![c].pc = Loop("poll"),
       ![c].events = records[clients[c].record].response_index # 0]
  /\ UNCHANGED <<main, is_stop, num_threads, stop_bytes, head, records,
                 servers, bad>>

\* A new record behind the last node that was visited.
addRecord(c, r) ==
  /\ At(c, "visit") /\ clients[c].at = Nil
  /\ records[r].mem = "none" /\ \A q \in RECORDS : q < r => records[q].mem # "none"
  /\ LET prev == clients[c].prev
         new == [initEmptyCacheRecord EXCEPT !.mem = "live", !.url = clients[c].url]
     IN  /\ records' = [q \in RECORDS |->
              IF q = r THEN new
              ELSE IF q = prev THEN [records[q] EXCEPT !.next = r]
              ELSE records[q]]
         /\ head' = IF prev = Nil THEN r ELSE head
  /\ list_mutex' = Nil
  /\ clients' = [clients EXCEPT ![c].pc = "connect", ![c].at = r, ![c].prev = Nil]
  /\ UNCHANGED <<main, is_stop, num_threads, stop_bytes, servers, bad>>

\* connectToServerHost, and createThread for the server.
connectToServerHost(c) ==
  LET r == clients[c].at IN
  /\ At(c, "connect")
  /\ \E connected \in {TRUE} \cup {"connect" \notin FAULTS} :
       /\ records' = IF connected THEN records ELSE freeCacheRecord(r)
       /\ servers' = IF connected THEN [servers EXCEPT ![r] = "created"] ELSE servers
       /\ clients' = [clients EXCEPT ![c].pc = IF connected THEN "attach" ELSE "exit"]
  /\ UNCHANGED <<main, is_stop, num_threads, stop_bytes, head, list_mutex, bad>>

\* The client subscribes when the server's thread already runs.
attach(c) ==
  /\ At(c, "attach")
  /\ LET r == clients[c].at IN
     /\ Touch(r)
     /\ records' = IF records[r].mem = "live"
                   THEN [records EXCEPT ![r].subs = @ + 1] ELSE records
     /\ clients' = [clients EXCEPT ![c].pc = Loop("poll"), ![c].record = r,
                      ![c].at = Nil, ![c].late = records[r].response_index > 0]
  /\ UNCHANGED <<main, is_stop, num_threads, stop_bytes, head, list_mutex, servers>>

-----------------------------------------------------------------------------
(***************************************************************************)
(* The server's thread.  notifySubscribers adds one token per subscriber.  *)
(***************************************************************************)
Subscribed(c, r) == clients[c].record = r /\ clients[c].pc # "gone"

notifySubscribers(r) ==
  /\ records' = [records EXCEPT ![r].tokens = @ + records[r].subs]
  /\ clients' = [c \in CLIENTS |->
       IF Subscribed(c, r) /\ ~records[r].overtaken
       THEN [clients[c] EXCEPT !.due = @ + 1] ELSE clients[c]]

writeToServer(r) ==
  /\ ServerAt(r, "request") /\ ~is_stop
  /\ \E written \in {TRUE} \cup {"server" \notin FAULTS} :
       servers' = [servers EXCEPT ![r] = IF written THEN Loop("poll") ELSE "last"]
  /\ UNCHANGED <<main, is_stop, num_threads, stop_bytes, head, list_mutex,
                 records, clients, bad>>

\* A chunk is appended under the write lock and announced after it.
readFromServer(r) ==
  /\ ServerAt(r, "poll") /\ ~is_stop
  /\ Touch(r)
  /\ records[r].response_index < CHUNKS
  /\ records' = [records EXCEPT ![r].response_index = @ + 1]
  /\ servers' = [servers EXCEPT ![r] = "announce"]
  /\ UNCHANGED <<main, is_stop, num_threads, stop_bytes, head, list_mutex, clients>>

\* read() returns 0 and the record is full, or it fails and the record is not.
serverCloses(r) ==
  /\ ServerAt(r, "poll") /\ ~is_stop
  /\ \E full \in {TRUE} \cup {"server" \notin FAULTS} :
       /\ full => records[r].response_index = CHUNKS \/ "server" \in FAULTS
       /\ records' = [records EXCEPT ![r].full = full]
  /\ Touch(r)
  /\ servers' = [servers EXCEPT ![r] = "last"]
  /\ UNCHANGED <<main, is_stop, num_threads, stop_bytes, head, list_mutex, clients>>

\* The announcement of a chunk, or the last one before the thread ends.
announce(r) ==
  /\ ServerAt(r, "announce") \/ ServerAt(r, "last")
  /\ Touch(r)
  /\ notifySubscribers(r)
  /\ servers' = [servers EXCEPT ![r] = IF @ = "last" THEN "exit" ELSE Loop("poll")]
  /\ UNCHANGED <<main, is_stop, num_threads, stop_bytes, head, list_mutex>>

-----------------------------------------------------------------------------
(***************************************************************************)
(* The client's thread: a token of the eventfd, and writeToClient.         *)
(***************************************************************************)
readToken(c) ==
  LET r == clients[c].record IN
  /\ At(c, "poll") /\ ~is_stop
  /\ r # Nil /\ records[r].tokens > 0
  /\ LET overtakes == records[r].overtaken \/ clients[c].due = 0 IN
     /\ records' = [records EXCEPT ![r].tokens = @ - 1, ![r].overtaken = overtakes]
     /\ clients' = [d \in CLIENTS |->
          [clients[d] EXCEPT
             !.due = IF overtakes /\ clients[d].record = r THEN 0
                     ELSE IF d = c THEN @ - 1 ELSE @,
             !.events = IF d = c
                        THEN @ \/ records[r].response_index > clients[c].write_response_index
                        ELSE @]]
  /\ UNCHANGED <<main, is_stop, num_threads, stop_bytes, head, list_mutex,
                 servers, bad>>

\* A record whose server broke is freed by the first client that finds it; to
\* the others its response is then shorter than what they have written, and
\* write() refuses the negative rest.
writeToClient(c) ==
  LET r == clients[c].record
      broken == ~records[r].server_alive /\ ~records[r].full
      unread == records[r].response_index - clients[c].write_response_index
  IN
  /\ At(c, "poll") /\ ~is_stop /\ clients[c].events
  /\ Touch(r)
  /\ records' = IF broken THEN freeCacheRecord(r) ELSE records
  /\ \E n \in 0 .. CHUNKS :
       /\ IF broken \/ unread < 0 THEN n = 0 ELSE n \in 1 .. unread
       /\ clients' = [clients EXCEPT ![c].pc = IF n = 0 THEN "exit" ELSE "compare",
                                     ![c].write_response_index = @ + n]
  /\ UNCHANGED <<main, is_stop, num_threads, stop_bytes, head, list_mutex, servers>>

\* response_index is compared without the lock, then POLLOUT is switched off.
compareIndex(c) ==
  LET r == clients[c].record IN
  /\ At(c, "compare")
  /\ Touch(r)
  /\ clients' = [clients EXCEPT ![c].pc = Loop("poll"),
       ![c].events = clients[c].write_response_index # records[r].response_index]
  /\ UNCHANGED <<main, is_stop, num_threads, stop_bytes, head, list_mutex,
                 records, servers>>

-----------------------------------------------------------------------------
\* What clients, servers and the user do; poll()'s timeout is theirs too.
Environment ==
  \/ sigCatch
  \/ \E c \in CLIENTS :
       \/ acceptNewClient(c) \/ disconnectClient(c)
       \/ \E u \in URLS : readRequest(c, u)
  \/ \E r \in RECORDS : readFromServer(r) \/ serverCloses(r)

ClientThread(c) ==
  \/ clientThread(c) \/ clientStops(c) \/ clientExits(c)
  \/ lockList(c) \/ visitInvalid(c) \/ visitOther(c) \/ visitFound(c)
  \/ checkResponse(c) \/ \E r \in RECORDS : addRecord(c, r)
  \/ connectToServerHost(c) \/ attach(c)
  \/ readToken(c) \/ writeToClient(c) \/ compareIndex(c)

ServerThread(r) ==
  \/ serverThread(r) \/ serverStops(r) \/ serverExits(r)
  \/ writeToServer(r) \/ announce(r)

Threads ==
  \/ cleanUpNotify \/ cleanUp
  \/ \E c \in CLIENTS : ClientThread(c)
  \/ \E r \in RECORDS : ServerThread(r)

Next == Environment \/ Threads

\* The threads cannot go on for ever without their environment: it is enough
\* that the scheduler runs some thread that can run.
Spec == Init /\ [][Next]_vars /\ WF_vars(Threads)

-----------------------------------------------------------------------------
TypeOK ==
  /\ main \in {"poll", "cleanUp", "waiting", "exited"}
  /\ is_stop \in BOOLEAN /\ num_threads \in Nat /\ stop_bytes \in Nat
  /\ head \in RECORDS \cup {Nil} /\ list_mutex \in CLIENTS \cup {Nil}
  /\ records \in [RECORDS -> RecordType]
  /\ clients \in [CLIENTS -> ClientType]
  /\ servers \in [RECORDS -> ServerPCs]
  /\ bad \in BOOLEAN

\* Two clients that walk the list at once, each pausing without the mutex
\* between two nodes, never append two records for one URL.
OneRecordPerUrl ==
  \A q, r \in RECORDS :
    records[q].mem = "live" /\ records[r].mem = "live" /\ records[q].url = records[r].url
    => q = r

\* A client in poll() with unread data, no POLLOUT and no token to come is left
\* asleep.  That takes one of two things: it subscribed to its new record when
\* the server's thread had announced the data already, or some client took a
\* token of the shared eventfd that was meant for another.
AsleepHasReason ==
  \A c \in CLIENTS : LET r == clients[c].record IN
    /\ clients[c].pc = "poll" /\ r # Nil /\ ~clients[c].events
    /\ clients[c].write_response_index < records[r].response_index
    /\ records[r].tokens = 0
    => servers[r] \in {"announce", "last"} \/ clients[c].late \/ records[r].overtaken

\* `full' and server_alive are written and read without a lock, in this order:
\* while the proxy serves, a complete response is never taken for a broken one.
FullIsKept ==
  \A r \in RECORDS :
    records[r].full /\ main # "exited" => records[r].mem = "live"

\* When cleanUp has destroyed the cache, the only threads left are those that
\* had not counted themselves yet when num_threads was 0, and what they started.
DestroyedAlone ==
  main = "exited" =>
    /\ \A c \in CLIENTS : clients[c].pc \notin {"visit", "check", "connect", "attach"}
    /\ \A r \in RECORDS : servers[r] \notin {"poll", "announce", "last"}

-----------------------------------------------------------------------------
(***************************************************************************)
(* The inductive invariant.                                                *)
(***************************************************************************)
\* cleanUp waits for the threads that have counted themselves.
AtWork == {c \in CLIENTS : clients[c].pc \notin {"none", "created", "gone"}}
Serving == {r \in RECORDS : servers[r] \notin {"none", "created", "gone"}}

ThreadsCounted == num_threads = Cardinality(AtWork) + Cardinality(Serving)

\* What a thread finds that begins after the cache was destroyed: is_stop.
Stopped ==
  /\ main # "poll" => is_stop
  /\ main = "exited" =>
       /\ \A c \in CLIENTS : clients[c].pc \in {"none", "created", "exit", "gone"}
       /\ \A r \in RECORDS : servers[r] \in {"none", "created", "exit", "gone"}

\* What client_t and the walk of a client say at each point of its thread.
ClientOK(c) == LET cl == clients[c] IN
  /\ cl.pc \in {"visit", "check"} <=> list_mutex = c
  /\ cl.record # Nil => cl.pc \in {"poll", "check", "compare", "exit"}
                        /\ records[cl.record].mem # "none"
  /\ cl.record = Nil => ~cl.events /\ cl.due = 0 /\ ~cl.late
                         /\ cl.write_response_index = 0
  /\ cl.pc \in {"check", "compare"} => cl.record # Nil
  /\ cl.pc \in {"none", "created", "poll", "lock", "check", "compare"} => cl.at = Nil
  /\ cl.pc # "visit" => cl.prev = Nil
  /\ cl.pc \in {"relock", "connect", "attach"} => cl.at # Nil /\ records[cl.at].mem # "none"
  /\ cl.pc = "connect" => servers[cl.at] = "none" /\ records[cl.at].mem = "live"

\* Only the client that added a record starts its server.
OneConnector ==
  \A c, d \in CLIENTS :
    clients[c].pc = "connect" /\ clients[d].pc = "connect"
      /\ clients[c].at = clients[d].at => c = d

\* A record stays live as long as its server's thread runs, and is freed only
\* when that thread has left it incomplete.
RecordOK(r) == LET rec == records[r] IN
  /\ rec.mem = "none" => rec = initEmptyCacheRecord /\ servers[r] = "none"
  /\ servers[r] \in {"none", "created", "request", "poll", "announce"} => ~rec.full
  /\ servers[r] = "none" => rec.response_index = 0
  /\ rec.server_alive <=> servers[r] # "gone"
  /\ main # "exited" =>
       /\ servers[r] \notin {"none", "gone"} => rec.mem = "live"
       /\ rec.full => rec.mem = "live"
       /\ rec.mem # "live" => rec.response_index = 0

\* malloc gives the records out in order, so that the list is sorted.
Alloc ==
  \A q, r \in RECORDS : q < r /\ records[r].mem # "none" => records[q].mem # "none"

InUse(r) == records[r].mem \in {"live", "invalid"}

\* The list passes by no record that is in use; nodes that were freed may be
\* linked still or not.
ListOK ==
  /\ \A q \in RECORDS : InUse(q) => head # Nil /\ head <= q
  /\ \A p \in RECORDS : InUse(p) =>
       /\ records[p].next # Nil => p < records[p].next
       /\ \A q \in RECORDS :
            p < q /\ InUse(q) => records[p].next # Nil /\ records[p].next <= q

\* Whoever walks has passed no live record of its URL, and remembers the last
\* node in front of `at' that is in use.
WalkOK(c) == LET cl == clients[c] IN
  /\ cl.pc = "visit" =>
       /\ cl.prev # Nil => InUse(cl.prev)
       /\ cl.at # Nil => cl.prev < cl.at
       /\ \A q \in RECORDS : InUse(q) =>
            /\ q <= cl.prev \/ (cl.at # Nil /\ cl.at <= q)
            /\ records[q].mem = "live" /\ q <= cl.prev => records[q].url # cl.url
  /\ cl.pc = "relock" =>
       \A q \in RECORDS :
         records[q].mem = "live" /\ q <= cl.at => records[q].url # cl.url

Subscribers(r) == {c \in CLIENTS : clients[c].record = r}

\* A client subscribes once; clientExits takes no subscription back.
SubsCounted ==
  \A r \in RECORDS :
    /\ records[r].mem = "live" => Cardinality(Subscribers(r)) <= records[r].subs
    /\ records[r].subs <= Cardinality({c \in CLIENTS : clients[c].pc = "gone"}
                                        \cup Subscribers(r))

\* The announcements that the subscribers of a record have not taken yet.
Owed(r) == UNION {{c} \X (1 .. clients[c].due) : c \in Subscribers(r)}

TokensOwed ==
  \A r \in RECORDS :
    records[r].mem = "live" /\ ~records[r].overtaken =>
      IsFiniteSet(Owed(r)) /\ Cardinality(Owed(r)) <= records[r].tokens

\* Unread data is known, being announced, or announced by a token.
Told(c) == LET cl == clients[c] IN
  cl.pc = "poll" /\ cl.record # Nil
  /\ cl.write_response_index < records[cl.record].response_index
  => \/ cl.events \/ cl.late \/ cl.due > 0
     \/ servers[cl.record] = "announce" \/ records[cl.record].overtaken

IInv ==
  /\ TypeOK /\ ThreadsCounted /\ Stopped
  /\ \A c \in CLIENTS : ClientOK(c) /\ Told(c)
  /\ \A r \in RECORDS : RecordOK(r)
  /\ OneConnector /\ Alloc /\ OneRecordPerUrl
  /\ ~bad => ListOK /\ \A c \in CLIENTS : WalkOK(c)
  /\ SubsCounted /\ TokensOwed

\* SIGINT ends the proxy without the help of a timeout, however late a thread
\* starts or counts itself.
ShutsDown == main = "cleanUp" ~> main = "exited"
=============================================================================
