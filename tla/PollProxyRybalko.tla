-------------------------- MODULE PollProxyRybalko -------------------------
(***************************************************************************)
(* rybalko/31/server.c: one thread, poll() and the tables clients, hosts   *)
(* and cache.  The cache has a budget in bytes, MAX_CACHE: the first chunk *)
(* of a response announces its Content-Length, and records are evicted to  *)
(* make room.  Every handler of the poll loop is one step and is written   *)
(* as a function of the tables.  Bytes are counted in chunks; size_t is    *)
(* kept as a residue modulo WORD.  A request arrives in one read, and a    *)
(* response has a Content-Length (the code requires both).  Buffers that   *)
(* cannot be allocated are not modelled.                                   *)
(***************************************************************************)
EXTENDS Integers, FiniteSets, FiniteSetsExt

CONSTANTS
  CLIENTS, HOSTS, RECORDS,   \* indices of the three tables, 0 .. n
  URLS,
  CHUNKS,                    \* bound: the longest response
  LENGTHS,                   \* the Content-Lengths announced
  MAX_CACHE,
  WORD,                      \* size_t holds 0 .. WORD - 1
  DRIFT,                     \* bound: how far below zero the account may drift
  PIPELINING                 \* a client may send a second request

VARIABLES
  running, clients, hosts, cache,
  used     \* CURRENT_CACHE_SIZE

vars == <<running, clients, hosts, cache, used>>

NONE == -1
NoUrl == "no url"
BUFFER == 2     \* BUFSIZ, in chunks

InitClient ==
  [fd |-> FALSE, cache_idx |-> NONE, written |-> NONE, out |-> FALSE,
   url |-> NoUrl]

InitHost ==
  [fd |-> FALSE, cache_idx |-> NONE, out |-> FALSE, header_parsed |-> FALSE]

InitCacheItem ==
  [valid |-> FALSE, url |-> NoUrl, response_idx |-> 0, response_size |-> 0,
   timed |-> FALSE, full |-> FALSE, successful |-> FALSE, subscribers |-> {},
   host_idx |-> NONE, foreign |-> FALSE]

(***************************************************************************)
(* timed: full_time is set, so GetOldestRecord may choose the record.      *)
(* foreign: history, the response holds chunks of another record's host.   *)
(***************************************************************************)
Client ==
  [fd : BOOLEAN, cache_idx : RECORDS \cup {NONE}, written : {NONE} \cup 0 .. CHUNKS + 1,
   out : BOOLEAN, url : URLS \cup {NoUrl}]

Host ==
  [fd : BOOLEAN, cache_idx : RECORDS \cup {NONE}, out : BOOLEAN, header_parsed : BOOLEAN]

Record ==
  [valid : BOOLEAN, url : URLS \cup {NoUrl}, response_idx : 0 .. CHUNKS + 1,
   response_size : 0 .. 4 * (CHUNKS + 1), timed : BOOLEAN, full : BOOLEAN,
   successful : BOOLEAN, subscribers : SUBSET CLIENTS, host_idx : HOSTS \cup {NONE},
   foreign : BOOLEAN]

TypeOK ==
  /\ running \in BOOLEAN
  /\ used \in 0 .. (WORD - 1)
  /\ clients \in [CLIENTS -> Client]
  /\ hosts \in [HOSTS -> Host]
  /\ cache \in [RECORDS -> Record]

Init ==
  /\ running = TRUE
  /\ clients = [c \in CLIENTS |-> InitClient]
  /\ hosts = [h \in HOSTS |-> InitHost]
  /\ cache = [k \in RECORDS |-> InitCacheItem]
  /\ used = 0

Tables == [clients |-> clients, hosts |-> hosts, cache |-> cache]

Becomes(t) ==
  /\ clients' = t.clients
  /\ hosts' = t.hosts
  /\ cache' = t.cache
  /\ UNCHANGED running

-----------------------------------------------------------------------------
(***************************************************************************)
(* The procedures on the tables.                                           *)
(***************************************************************************)
DeleteSub(t, c, k) == [t EXCEPT !.cache[k].subscribers = @ \ {c}]
AddSub(t, c, k) == [t EXCEPT !.cache[k].subscribers = @ \cup {c}]

DisconnectClient(t, c) ==
  LET k == t.clients[c].cache_idx
      u == IF k = NONE THEN t ELSE DeleteSub(t, c, k)
  IN  [u EXCEPT !.clients[c] = InitClient]

Notified(r) ==
  [r EXCEPT !.out = @ \/ r.fd, !.written = IF @ < 0 THEN 0 ELSE @]

NotifySub(t, k) ==
  [t EXCEPT !.clients = [c \in CLIENTS |->
     IF c \in t.cache[k].subscribers THEN Notified(t.clients[c]) ELSE t.clients[c]]]

DisconnectHost(t, h) ==
  LET k == t.hosts[h].cache_idx
      u == IF k = NONE THEN t
           ELSE NotifySub([t EXCEPT !.cache[k].host_idx = NONE], k)
  IN  [u EXCEPT !.hosts[h] = InitHost]

\* CleanCacheItem for every record of K: its host is disconnected, then its
\* subscribers, each of which leaves the list of the record it refers to, then
\* the item is initialised.  (DisconnectHost also notifies the record of the
\* host; its subscribers are the ones that are disconnected next.)
CleanAll(t, K) ==
  LET H == {t.cache[k].host_idx : k \in K}
      S == UNION {t.cache[k].subscribers : k \in K}
  IN  [clients |-> [c \in CLIENTS |-> IF c \in S THEN InitClient ELSE t.clients[c]],
       hosts |-> [h \in HOSTS |-> IF h \in H THEN InitHost ELSE t.hosts[h]],
       cache |-> [k \in RECORDS |->
         IF k \in K THEN InitCacheItem
         ELSE [t.cache[k] EXCEPT !.subscribers =
                 @ \ {c \in S : t.clients[c].cache_idx = k}]]]

CleanCacheItem(t, k) == CleanAll(t, {k})

-----------------------------------------------------------------------------
(***************************************************************************)
(* The budget.                                                             *)
(***************************************************************************)
Left(u) == (MAX_CACHE - u) % WORD

\* The chunks that the records K are charged with.
Charged(K) ==
  {x \in K \X (1 .. 4 * (CHUNKS + 1)) : x[2] <= cache[x[1]].response_size}

\* The account after the eviction of the records K.
UsedWithout(K) == (used - Cardinality(Charged(K))) % WORD

Signed(u) == IF u > WORD \div 2 THEN u - WORD ELSE u

\* GetOldestRecord: the loop of FreeMemoryForNewCacheRecord evicts one timed
\* record after the other until len fits.  Times count seconds: which of the
\* timed records is the oldest, and whether one is older than this second, is
\* a choice.  DRIFT bounds the account.
Evictable(len) ==
  {K \in SUBSET {k \in RECORDS : cache[k].timed} :
     /\ K # {} => \E k \in K : Left(UsedWithout(K \ {k})) < len
     /\ Signed(UsedWithout(K)) >= -DRIFT}

\* Mutant: the result of FreeMemoryForNewCacheRecord is not looked at.
FreedIgnored(K, len) == TRUE

FreeMemoryForNewCacheRecord(K, len) == Left(UsedWithout(K)) > len

-----------------------------------------------------------------------------
(***************************************************************************)
(* The handlers.                                                           *)
(***************************************************************************)
SetForFreeClientId == {c \in CLIENTS : ~clients[c].fd}
SetForFreeHostId == {h \in HOSTS : ~hosts[h].fd}

AcceptClient ==
  /\ running
  /\ SetForFreeClientId # {}
  /\ Becomes([Tables EXCEPT
       !.clients[Min(SetForFreeClientId)] = [InitClient EXCEPT !.fd = TRUE]])
  /\ UNCHANGED used

TryToFindAtCache(u) == {k \in RECORDS : cache[k].valid /\ cache[k].url = u}
FreeItems == {k \in RECORDS : ~cache[k].valid}

MayAsk(c) == running /\ clients[c].fd /\ (clients[c].url # NoUrl => PIPELINING)

\* ReadFromClient, the request is in the cache.  The lookup sets full_time
\* whether or not the record is full.
ReadCachedRequest(c, u) ==
  /\ MayAsk(c)
  /\ TryToFindAtCache(u) # {}
  /\ LET k == Min(TryToFindAtCache(u))
         t == AddSub([Tables EXCEPT !.cache[k].timed = TRUE], c, k)
     IN  Becomes([t EXCEPT !.clients[c] =
           [@ EXCEPT !.cache_idx = k, !.written = 0, !.url = u,
                     !.out = clients[c].out \/ cache[k].response_idx # 0]])
  /\ UNCHANGED used

\* AddToCache: the item keeps whatever its last owner left in response_idx.
AddToCache(t, k, u) ==
  [t EXCEPT !.cache[k] = [@ EXCEPT !.valid = TRUE, !.url = u]]

ReadNewRequest(c, u) ==
  /\ MayAsk(c)
  /\ TryToFindAtCache(u) = {}
  /\ FreeItems # {} /\ SetForFreeHostId # {}
  /\ LET k == Min(FreeItems)
         h == Min(SetForFreeHostId)
         t == AddSub(AddToCache(Tables, k, u), c, k)
     IN  Becomes([t EXCEPT
           !.cache[k].host_idx = h,
           !.hosts[h] = [@ EXCEPT !.fd = TRUE, !.cache_idx = k, !.out = TRUE],
           !.clients[c] = [@ EXCEPT !.cache_idx = k, !.written = 0, !.url = u]])
  /\ UNCHANGED used

ConnectToHostFails(c, u) ==
  /\ MayAsk(c)
  /\ TryToFindAtCache(u) = {}
  /\ FreeItems # {}
  /\ Becomes(CleanCacheItem(DisconnectClient(AddToCache(Tables, Min(FreeItems), u), c),
                            Min(FreeItems)))
  /\ UNCHANGED used

\* End of file, a read error, a method other than GET.
DropClient(c) ==
  /\ running /\ clients[c].fd
  /\ Becomes(DisconnectClient(Tables, c))
  /\ UNCHANGED used

WriteToHost(h) ==
  /\ running /\ hosts[h].fd /\ hosts[h].out
  /\ Becomes([Tables EXCEPT !.hosts[h].out = FALSE])
  /\ UNCHANGED used

WriteToHostFails(h) ==
  /\ running /\ hosts[h].fd /\ hosts[h].out
  /\ Becomes(DisconnectHost(Tables, h))
  /\ UNCHANGED used

\* The record r with a chunk more, the buffer grown; `success' is what its
\* head says, if this is the head.
Stored(r, success) ==
  LET n == r.response_idx + 1
      size == IF r.response_size = 0 THEN BUFFER ELSE r.response_size
  IN  [r EXCEPT !.response_idx = n,
                !.response_size = IF n >= size THEN 2 * size ELSE size,
                !.foreign = @ \/ ~r.valid,
                !.successful = @ \/ success]

\* The end of ReadFromHost.
AppendChunk(t, h, k, success) ==
  NotifySub([t EXCEPT
    !.cache[k] = Stored(t.cache[k], success /\ ~t.hosts[h].header_parsed),
    !.hosts[h].header_parsed = TRUE], k)

ReadNextChunk(h) ==
  /\ running /\ hosts[h].fd
  /\ LET k == hosts[h].cache_idx
     IN  /\ cache[k].response_size > 0
         /\ cache[k].response_idx < CHUNKS
         /\ \E success \in BOOLEAN : Becomes(AppendChunk(Tables, h, k, success))
  /\ UNCHANGED used

\* The first chunk: the record must fit into the budget.  The eviction may
\* choose the record itself.
ReadFirstChunk(h) ==
  /\ running /\ hosts[h].fd
  /\ LET k == hosts[h].cache_idx
     IN  /\ cache[k].response_size = 0
         /\ \E len \in LENGTHS :
              \/ /\ len > MAX_CACHE
                 /\ Becomes(CleanCacheItem(Tables, k))
                 /\ UNCHANGED used
              \/ /\ len <= MAX_CACHE /\ len <= Left(used)
                 /\ \E success \in BOOLEAN : Becomes(AppendChunk(Tables, h, k, success))
                 /\ used' = (used + len) % WORD
              \/ /\ len <= MAX_CACHE /\ len > Left(used)
                 /\ \E K \in Evictable(len) :
                      IF FreeMemoryForNewCacheRecord(K, len)
                      THEN /\ \E success \in BOOLEAN :
                                Becomes(AppendChunk(CleanAll(Tables, K), h, k, success))
                           /\ used' = (UsedWithout(K) + len) % WORD
                      ELSE /\ Becomes(DisconnectHost(CleanAll(Tables, K), h))
                           /\ used' = UsedWithout(K)

\* End of file.
HostCloses(h) ==
  /\ running /\ hosts[h].fd
  /\ LET k == hosts[h].cache_idx
         t == [Tables EXCEPT !.cache[k] =
                [@ EXCEPT !.full = TRUE, !.timed = TRUE,
                          !.response_size = cache[k].response_idx]]
     IN  Becomes(DisconnectHost(NotifySub(t, k), h))
  /\ UNCHANGED used

\* WriteToClient; the item of an unsuccessful request is cleaned once it is full.
WriteToClient(c) ==
  /\ running /\ clients[c].fd /\ clients[c].out
  /\ LET k == clients[c].cache_idx
         r == cache[k]
         sent(n) == [Tables EXCEPT
           !.clients[c] = [@ EXCEPT !.written = n, !.out = n # r.response_idx]]
     IN  /\ k # NONE
         /\ \E n \in clients[c].written .. r.response_idx :
              /\ n = clients[c].written => n = r.response_idx
              /\ Becomes(IF ~r.successful /\ r.full
                         THEN CleanCacheItem(sent(n), k) ELSE sent(n))
  /\ UNCHANGED used

\* SIGINT: CleanUp closes every socket and frees the tables.
CleanUp ==
  /\ running
  /\ running' = FALSE
  /\ clients' = [c \in CLIENTS |-> InitClient]
  /\ hosts' = [h \in HOSTS |-> InitHost]
  /\ cache' = [k \in RECORDS |-> InitCacheItem]
  /\ used' = 0

Next ==
  \/ AcceptClient
  \/ \E c \in CLIENTS, u \in URLS :
       \/ ReadCachedRequest(c, u) \/ ReadNewRequest(c, u)
       \/ ConnectToHostFails(c, u)
  \/ \E c \in CLIENTS : DropClient(c) \/ WriteToClient(c)
  \/ \E h \in HOSTS :
       \/ WriteToHost(h) \/ WriteToHostFails(h)
       \/ ReadFirstChunk(h) \/ ReadNextChunk(h) \/ HostCloses(h)
  \/ CleanUp

Spec == Init /\ [][Next]_vars

-----------------------------------------------------------------------------
(***************************************************************************)
(* A client refers to a valid record of its URL that lists it as a         *)
(* subscriber, a client polled for writing refers to a record, and hosts   *)
(* and records refer to each other: also after an eviction that cleans the *)
(* very record whose host is being read.                                   *)
(***************************************************************************)
IndicesFresh ==
  /\ \A c \in CLIENTS :
       LET k == clients[c].cache_idx
       IN  /\ k # NONE => /\ clients[c].fd /\ cache[k].valid
                          /\ c \in cache[k].subscribers
                          /\ cache[k].url = clients[c].url
                          /\ clients[c].written <= cache[k].response_idx
           /\ clients[c].out => k # NONE
  /\ \A k \in RECORDS, h \in HOSTS :
       cache[k].host_idx = h <=> (hosts[h].fd /\ hosts[h].cache_idx = k)

(***************************************************************************)
(* The account never exceeds the budget, so that the unsigned difference   *)
(* MAX_CACHE - CURRENT_CACHE_SIZE, by which all decisions are made, never  *)
(* wraps to a huge value.  (It may drift below zero: a full record gives   *)
(* back response_idx, which counts the head of the response too.)          *)
(***************************************************************************)
BudgetKept == Signed(used) <= MAX_CACHE

(***************************************************************************)
(* A subscriber with unread chunks is polled for writing.  Items with      *)
(* foreign chunks, left by an eviction of the record being read, are       *)
(* excepted.                                                               *)
(***************************************************************************)
UnreadIsPolled ==
  \A c \in CLIENTS :
    /\ clients[c].cache_idx # NONE
    /\ ~cache[clients[c].cache_idx].foreign
    /\ clients[c].written < cache[clients[c].cache_idx].response_idx
    => clients[c].out

(***************************************************************************)
(* What a record holds came from the host it was opened for, so a download *)
(* through the proxy equals a direct one.  The code violates it: the       *)
(* lookup times a record that is still filling, so it can be evicted to    *)
(* make room for itself; ReadFromHost then stores its chunk in the freed   *)
(* item, and the next URL that gets the item starts with it.               *)
(***************************************************************************)
OwnBytes == \A k \in RECORDS : cache[k].valid => ~cache[k].foreign

-----------------------------------------------------------------------------
(***************************************************************************)
(* The inductive invariant, for clients that send one request.             *)
(***************************************************************************)
\* A client that refers to no record has not asked yet and is not polled.
ClientsOK ==
  \A c \in CLIENTS :
    IF clients[c].cache_idx = NONE
    THEN clients[c].url = NoUrl /\ ~clients[c].out
    ELSE /\ clients[c].fd
         /\ cache[clients[c].cache_idx].valid
         /\ cache[clients[c].cache_idx].url = clients[c].url
         /\ clients[c].written \in 0 .. cache[clients[c].cache_idx].response_idx

\* Clients and hosts refer to the record that refers to them.
LinksOK ==
  /\ \A k \in RECORDS, c \in CLIENTS :
       c \in cache[k].subscribers <=> clients[c].cache_idx = k
  /\ \A k \in RECORDS, h \in HOSTS :
       cache[k].host_idx = h <=> hosts[h].cache_idx = k
  /\ \A h \in HOSTS : hosts[h].fd <=> hosts[h].cache_idx # NONE

\* An item in use is that of a URL; a free one has no host, and chunks only if
\* they came from a host whose own item was evicted.  The buffer is at most
\* twice the response, and there is none as long as the response is empty.
RecordsOK ==
  \A k \in RECORDS :
    /\ IF cache[k].valid THEN cache[k].url # NoUrl
       ELSE /\ cache[k].host_idx = NONE
            /\ cache[k].response_idx = 0 \/ cache[k].foreign
    /\ cache[k].response_size = 0 => cache[k].response_idx = 0
    /\ cache[k].response_size <= 2 * cache[k].response_idx

\* The account is a residue of a number between -DRIFT and MAX_CACHE.
AccountOK == -DRIFT <= Signed(used) /\ Signed(used) <= MAX_CACHE

IInv ==
  TypeOK /\ ClientsOK /\ LinksOK /\ RecordsOK /\ AccountOK /\ UnreadIsPolled
=============================================================================
