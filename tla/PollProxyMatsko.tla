-------------------------- MODULE PollProxyMatsko --------------------------
(***************************************************************************)
(* matsko/31_cache_proxy/proxy.c: one thread, poll() and three tables that *)
(* refer to each other by index: clients, servers and cache_table.  Every  *)
(* handler of the poll loop runs to its end, so it is one step; a handler  *)
(* is written as a function of the three tables, because the code's        *)
(* procedures call each other on them.  Bytes are counted in chunks.       *)
(* The outcome of read(), write() and connect() is a choice.               *)
(* Buffers that cannot be allocated are not modelled.                      *)
(***************************************************************************)
EXTENDS Integers, FiniteSets, FiniteSetsExt

CONSTANTS
  CLIENTS,     \* indices of `clients' that may be in use, 0 .. n
  SERVERS,     \* indices of `servers'
  RECORDS,     \* indices of `cache_table'
  URLS,
  CHUNKS,      \* bound: the longest response
  PIPELINING   \* a client may send a second request on its connection

VARIABLES
  running,   \* the poll loop has not been left
  clients, servers, cache

vars == <<running, clients, servers, cache>>

NONE == -1
NoUrl == "no url"

initEmptyClient ==
  [fd |-> FALSE, cache_index |-> NONE, sent |-> NONE, out |-> FALSE,
   url |-> NoUrl]

initEmptyServer == [fd |-> FALSE, cache_index |-> NONE, out |-> FALSE]

initEmptyCache ==
  [valid |-> FALSE, url |-> NoUrl, response_index |-> 0, full |-> FALSE,
   private |-> TRUE, subscribers |-> {}, server_index |-> NONE]

(***************************************************************************)
(* fd: the socket is open and in poll_fds; out: POLLOUT is among its       *)
(* events; sent: write_response_index; url: the last URL asked for.        *)
(***************************************************************************)
Client ==
  [fd : BOOLEAN, cache_index : RECORDS \cup {NONE}, sent : {NONE} \cup 0 .. CHUNKS,
   out : BOOLEAN, url : URLS \cup {NoUrl}]

Server == [fd : BOOLEAN, cache_index : RECORDS \cup {NONE}, out : BOOLEAN]

Record ==
  [valid : BOOLEAN, url : URLS \cup {NoUrl}, response_index : 0 .. CHUNKS,
   full : BOOLEAN, private : BOOLEAN, subscribers : SUBSET CLIENTS,
   server_index : SERVERS \cup {NONE}]

TypeOK ==
  /\ running \in BOOLEAN
  /\ clients \in [CLIENTS -> Client]
  /\ servers \in [SERVERS -> Server]
  /\ cache \in [RECORDS -> Record]

Init ==
  /\ running = TRUE
  /\ clients = [c \in CLIENTS |-> initEmptyClient]
  /\ servers = [s \in SERVERS |-> initEmptyServer]
  /\ cache = [k \in RECORDS |-> initEmptyCache]

Tables == [clients |-> clients, servers |-> servers, cache |-> cache]

Becomes(t) ==
  /\ clients' = t.clients
  /\ servers' = t.servers
  /\ cache' = t.cache
  /\ UNCHANGED running

-----------------------------------------------------------------------------
(***************************************************************************)
(* The procedures on the tables.                                           *)
(***************************************************************************)
removeSubscriber(t, c, k) ==
  [t EXCEPT !.cache[k].subscribers = @ \ {c}]

addSubscriber(t, c, k) ==
  [t EXCEPT !.cache[k].subscribers = @ \cup {c}]

\* Mutant: the slot stays in the subscriber list of its record.
disconnectClientSubscribed(t, c) ==
  [t EXCEPT !.clients[c] = initEmptyClient]

disconnectClient(t, c) ==
  LET k == t.clients[c].cache_index
      u == IF k = NONE THEN t ELSE removeSubscriber(t, c, k)
  IN  [u EXCEPT !.clients[c] = initEmptyClient]

\* Mutant: nobody is told of new data.
notifyNobody(t, k) == t

\* POLLOUT is added to the client's entry of poll_fds, if it has one.
notified(r) ==
  [r EXCEPT !.out = @ \/ r.fd, !.sent = IF @ < 0 THEN 0 ELSE @]

notifySubscribers(t, k) ==
  [t EXCEPT !.clients = [c \in CLIENTS |->
     IF c \in t.cache[k].subscribers THEN notified(t.clients[c]) ELSE t.clients[c]]]

disconnectServer(t, s) ==
  LET k == t.servers[s].cache_index
      u == IF k = NONE THEN t
           ELSE notifySubscribers([t EXCEPT !.cache[k].server_index = NONE], k)
  IN  [u EXCEPT !.servers[s] = initEmptyServer]

\* disconnectClient for every client of C: each leaves the list it is named in
\* by its own cache_index, and no other.
disconnectAll(t, C) ==
  [clients |-> [c \in CLIENTS |-> IF c \in C THEN initEmptyClient ELSE t.clients[c]],
   servers |-> t.servers,
   cache |-> [k \in RECORDS |-> [t.cache[k] EXCEPT !.subscribers =
                @ \ {c \in C : t.clients[c].cache_index = k}]]]

\* `full' keeps its old value.
freeCacheRecord(t, k) ==
  LET u == disconnectAll(t, t.cache[k].subscribers)
      v == [u EXCEPT !.cache[k] = [initEmptyCache EXCEPT !.full = t.cache[k].full,
                             !.server_index = t.cache[k].server_index]]
  IN  IF v.cache[k].server_index = NONE THEN v
      ELSE disconnectServer(v, v.cache[k].server_index)

-----------------------------------------------------------------------------
(***************************************************************************)
(* The handlers.                                                           *)
(***************************************************************************)
\* The first free index is taken; CLIENTS and SERVERS bound the tables.
findFreeClient == {c \in CLIENTS : ~clients[c].fd}
findFreeServer == {s \in SERVERS : ~servers[s].fd}

acceptNewClient ==
  /\ running
  /\ findFreeClient # {}
  /\ Becomes([Tables EXCEPT
       !.clients[Min(findFreeClient)] = [initEmptyClient EXCEPT !.fd = TRUE]])

findAtCache(u) == {k \in RECORDS : cache[k].valid /\ cache[k].url = u}

findFreeRecord == {k \in RECORDS : ~cache[k].valid}

MayAsk(c) == running /\ clients[c].fd /\ (clients[c].url # NoUrl => PIPELINING)

\* readFromClient with a complete request for a URL that is in the cache.
readCachedRequest(c, u) ==
  /\ MayAsk(c)
  /\ findAtCache(u) # {}
  /\ LET k == Min(findAtCache(u))
         t == addSubscriber(Tables, c, k)
     IN  Becomes([t EXCEPT !.clients[c] =
           [@ EXCEPT !.cache_index = k, !.sent = 0, !.url = u,
                     !.out = clients[c].out \/ cache[k].response_index # 0]])

\* ... that is not: the request goes to a new server connection.
readNewRequest(c, u) ==
  /\ MayAsk(c)
  /\ findAtCache(u) = {}
  /\ findFreeRecord # {} /\ findFreeServer # {}
  /\ LET k == Min(findFreeRecord)
         s == Min(findFreeServer)
         t == addSubscriber([Tables EXCEPT !.cache[k] =
                [@ EXCEPT !.valid = TRUE, !.url = u, !.server_index = s]], c, k)
     IN  Becomes([t EXCEPT
           !.servers[s] = [fd |-> TRUE, cache_index |-> k, out |-> TRUE],
           !.clients[c] = [@ EXCEPT !.cache_index = k, !.sent = 0, !.url = u]])

\* connectToServerHost or fcntl fails.
connectFails(c, u) ==
  /\ MayAsk(c)
  /\ findAtCache(u) = {}
  /\ findFreeRecord # {}
  /\ Becomes(freeCacheRecord(disconnectClient(Tables, c), Min(findFreeRecord)))

\* End of file, a read error, a request that cannot be parsed, another method
\* than GET, no Host header.
dropClient(c) ==
  /\ running /\ clients[c].fd
  /\ Becomes(disconnectClient(Tables, c))

\* The whole request has been written (partial writes change nothing else).
writeToServer(s) ==
  /\ running /\ servers[s].fd /\ servers[s].out
  /\ Becomes([Tables EXCEPT !.servers[s].out = FALSE])

writeToServerFails(s) ==
  /\ running /\ servers[s].fd /\ servers[s].out
  /\ Becomes(disconnectServer(Tables, s))

\* A chunk arrives; when the head of the response is complete and its status
\* is 2xx the record is no longer private.
readFromServer(s) ==
  /\ running /\ servers[s].fd
  /\ LET k == servers[s].cache_index
     IN  /\ cache[k].response_index < CHUNKS
         /\ \E private \in {cache[k].private, FALSE} :
              Becomes(notifySubscribers(
                [Tables EXCEPT !.cache[k] =
                  [@ EXCEPT !.response_index = cache[k].response_index + 1,
                            !.private = private]], k))

\* End of file.
serverCloses(s) ==
  /\ running /\ servers[s].fd
  /\ LET k == servers[s].cache_index
         t == [Tables EXCEPT !.cache[k].full = TRUE]
     IN  Becomes(disconnectServer(notifySubscribers(t, k), s))

\* writeToClient.  The record of a broken server, and a private record that is
\* full after this write, are freed with all their subscribers.
writeToClient(c) ==
  /\ running /\ clients[c].fd /\ clients[c].out
  /\ LET k == clients[c].cache_index
         r == cache[k]
         sent(n) == [Tables EXCEPT
           !.clients[c] = [@ EXCEPT !.sent = n, !.out = n # r.response_index]]
     IN  /\ k # NONE
         /\ IF r.server_index = NONE /\ ~r.full
            THEN Becomes(freeCacheRecord(Tables, k))
            ELSE \E n \in clients[c].sent .. r.response_index :
                   /\ n = clients[c].sent => n = r.response_index
                   /\ Becomes(IF r.private /\ r.full
                              THEN freeCacheRecord(sent(n), k) ELSE sent(n))

\* SIGINT or the timeout of poll(): cleanUp closes every socket.
cleanUp ==
  /\ running
  /\ running' = FALSE
  /\ clients' = [c \in CLIENTS |-> initEmptyClient]
  /\ servers' = [s \in SERVERS |-> initEmptyServer]
  /\ cache' = [k \in RECORDS |-> initEmptyCache]

Next ==
  \/ acceptNewClient
  \/ \E c \in CLIENTS, u \in URLS :
       readCachedRequest(c, u) \/ readNewRequest(c, u) \/ connectFails(c, u)
  \/ \E c \in CLIENTS : dropClient(c) \/ writeToClient(c)
  \/ \E s \in SERVERS :
       \/ writeToServer(s) \/ writeToServerFails(s)
       \/ readFromServer(s) \/ serverCloses(s)
  \/ cleanUp

Spec == Init /\ [][Next]_vars

-----------------------------------------------------------------------------
(***************************************************************************)
(* A client that refers to a record is one of its subscribers, and the     *)
(* record is the one of the URL it asked for; a client polled for writing  *)
(* refers to a record (writeToClient indexes cache_table with it).  Slots  *)
(* of all three tables are reused, so the indices must never outlive what  *)
(* they meant.                                                             *)
(***************************************************************************)
IndicesFresh ==
  /\ \A c \in CLIENTS :
       LET k == clients[c].cache_index
       IN  /\ k # NONE => /\ clients[c].fd /\ cache[k].valid
                          /\ c \in cache[k].subscribers
                          /\ cache[k].url = clients[c].url
                          /\ clients[c].sent <= cache[k].response_index
           /\ clients[c].out => k # NONE
  /\ \A k \in RECORDS, s \in SERVERS :
       cache[k].server_index = s <=> (servers[s].fd /\ servers[s].cache_index = k)

(***************************************************************************)
(* findAtCache also finds records that are still filling or private: no    *)
(* URL is fetched into two records.                                        *)
(***************************************************************************)
OneRecordPerUrl ==
  \A k, l \in RECORDS :
    cache[k].valid /\ cache[l].valid /\ cache[k].url = cache[l].url => k = l

(***************************************************************************)
(* A subscriber with unread chunks, and one whose server has gone before   *)
(* the end, is polled for writing: the loop will serve or disconnect it.   *)
(* Records without a single chunk are excepted: readFromClient looks at    *)
(* response_index only, so a client that joins a failed or empty record    *)
(* that nobody reads any more waits for ever.                              *)
(***************************************************************************)
UnreadIsPolled ==
  \A c \in CLIENTS :
    LET r == cache[clients[c].cache_index]
    IN  /\ clients[c].cache_index # NONE
        /\ r.response_index > 0
        /\ clients[c].sent < r.response_index \/ (r.server_index = NONE /\ ~r.full)
        => clients[c].out

-----------------------------------------------------------------------------
(***************************************************************************)
(* The inductive invariant, for clients that send one request.             *)
(***************************************************************************)
\* A client that refers to no record has not asked yet and is not polled.
ClientsOK ==
  \A c \in CLIENTS :
    IF clients[c].cache_index = NONE
    THEN clients[c].url = NoUrl /\ ~clients[c].out
    ELSE /\ clients[c].fd
         /\ cache[clients[c].cache_index].valid
         /\ cache[clients[c].cache_index].url = clients[c].url
         /\ clients[c].sent \in 0 .. cache[clients[c].cache_index].response_index

\* Clients and servers refer to the record that refers to them.
LinksOK ==
  /\ \A k \in RECORDS, c \in CLIENTS :
       c \in cache[k].subscribers <=> clients[c].cache_index = k
  /\ \A k \in RECORDS, s \in SERVERS :
       cache[k].server_index = s <=> servers[s].cache_index = k
  /\ \A s \in SERVERS : servers[s].fd <=> servers[s].cache_index # NONE

\* A record in use is that of a URL; a free one has no chunks and no server.
RecordsOK ==
  \A k \in RECORDS :
    IF cache[k].valid THEN cache[k].url # NoUrl
    ELSE cache[k].response_index = 0 /\ cache[k].server_index = NONE

IInv ==
  /\ TypeOK /\ ClientsOK /\ LinksOK /\ RecordsOK
  /\ OneRecordPerUrl /\ UnreadIsPolled
=============================================================================
