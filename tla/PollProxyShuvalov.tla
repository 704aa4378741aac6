------------------------- MODULE PollProxyShuvalov -------------------------
(***************************************************************************)
(* shuvalov/31: one thread, ppoll(), tables of clients and servers, and a  *)
(* fixed array of cache nodes.  Clients and servers hold pointers to the   *)
(* response of a node, a response holds an array of pointers to its        *)
(* subscribers, and a server sends the request straight from the buffer    *)
(* of the client it was opened for.  Every handler of the loop is one      *)
(* step.  Bytes are counted in chunks; a response has CHUNKS chunks, the   *)
(* first of which carries the whole head with its Content-Length.          *)
(* FAULTS names what may go wrong on the clients' side:                    *)
(*   "hangup"  a client closes its connection after its request,           *)
(*   "write"   write() to a client fails,                                  *)
(*   "status"  a response has another status than 200.                     *)
(* Connections to servers may always fail.                                 *)
(***************************************************************************)
EXTENDS Integers, FiniteSets, FiniteSetsExt

CONSTANTS
  CLIENTS, SERVERS, NODES,   \* indices of the tables, 0 .. n
  URLS, CHUNKS, FAULTS,
  SUBSCRIBERS                \* subscribers_max_size

VARIABLES running, clients, servers, cache,
  last_node_set   \* the round robin of set

vars == <<running, clients, servers, cache, last_node_set>>

NONE == -1
NoUrl == "no url"
Slots == 0 .. (SUBSCRIBERS - 1)

setup_client ==
  [fd |-> FALSE, response |-> NONE, cache_node |-> NONE, written |-> 0,
   events |-> "none", request |-> NoUrl]

setup_server ==
  [fd |-> FALSE, response |-> NONE, request |-> NONE, phase |-> "connect",
   asked |-> NoUrl]

init_cache_node ==
  [empty |-> TRUE, url |-> NoUrl, status |-> "unknown", buf_len |-> 0,
   subscribers |-> [i \in Slots |-> NONE], count |-> 0, from |-> {}]

(***************************************************************************)
(* A pointer is the index of what it points to: response is a node,        *)
(* a server's request a client.  asked is the URL the server was sent;     *)
(* from, a history, the URLs whose chunks a response holds.                *)
(***************************************************************************)
Client ==
  [fd : BOOLEAN, response : NODES \cup {NONE}, cache_node : NODES \cup {NONE},
   written : 0 .. CHUNKS, events : {"in", "none", "out"}, request : URLS \cup {NoUrl}]

Server ==
  [fd : BOOLEAN, response : NODES \cup {NONE}, request : CLIENTS \cup {NONE},
   phase : {"connect", "send", "receive"}, asked : URLS \cup {NoUrl}]

Node ==
  [empty : BOOLEAN, url : URLS \cup {NoUrl}, status : {"unknown", "ok", "bad"},
   buf_len : 0 .. CHUNKS, subscribers : [Slots -> CLIENTS \cup {NONE}],
   count : -SUBSCRIBERS .. SUBSCRIBERS, from : SUBSET URLS]

TypeOK ==
  /\ running \in {"yes", "stopped", "aborted"}
  /\ last_node_set \in {NONE} \cup NODES
  /\ clients \in [CLIENTS -> Client]
  /\ servers \in [SERVERS -> Server]
  /\ cache \in [NODES -> Node]

Init ==
  /\ running = "yes"
  /\ clients = [c \in CLIENTS |-> setup_client]
  /\ servers = [s \in SERVERS |-> setup_server]
  /\ cache = [k \in NODES |-> init_cache_node]
  /\ last_node_set = NONE

Tables == [clients |-> clients, servers |-> servers, cache |-> cache]

Becomes(t) ==
  /\ clients' = t.clients
  /\ servers' = t.servers
  /\ cache' = t.cache
  /\ UNCHANGED running

-----------------------------------------------------------------------------
(***************************************************************************)
(* http_socket/cache.c.                                                    *)
(***************************************************************************)
\* The slots with another client, or none, in place of old.
replaced(slots, old, new) ==
  [i \in Slots |-> IF slots[i] = old THEN new ELSE slots[i]]

\* The client is written into every free slot.
subscribe(t, c, k) ==
  [t EXCEPT !.clients[c] = [@ EXCEPT !.cache_node = k, !.response = k],
            !.cache[k].count = @ + 1,
            !.cache[k].subscribers = replaced(@, NONE, c)]

unsubscribe(t, c) ==
  LET k == t.clients[c].response
  IN  IF k = NONE THEN t
      ELSE [t EXCEPT !.cache[k].count = @ - 1,
                     !.cache[k].subscribers = replaced(@, c, NONE)]

\* The subscribers stay.
clear_cache_node(t, k) ==
  [t EXCEPT !.cache[k] = [init_cache_node EXCEPT !.subscribers = t.cache[k].subscribers]]

get(u) == {k \in NODES : ~cache[k].empty /\ cache[k].url = u}

set_cache_node(t, k, u) ==
  [clear_cache_node(t, k) EXCEPT !.cache[k].url = u, !.cache[k].empty = FALSE]

\* set: the first empty node, or the next one round robin, used or not.
set ==
  LET free == {k \in NODES : cache[k].empty}
  IN  IF free # {} THEN Min(free) ELSE (last_node_set + 1) % Cardinality(NODES)

-----------------------------------------------------------------------------
close_client(t, c) ==
  IF t.clients[c].fd THEN [unsubscribe(t, c) EXCEPT !.clients[c] = setup_client] ELSE t

close_server(t, s) == [t EXCEPT !.servers[s] = setup_server]

\* close_client for the client in every slot of k: each is taken from the
\* subscribers of its own response.
close_subscribers(t, k) ==
  LET gone == {c \in CLIENTS : t.clients[c].fd /\ \E i \in Slots : t.cache[k].subscribers[i] = c}
      of(j) == {c \in gone : t.clients[c].response = j}
      left(j, slots) == [i \in Slots |-> IF slots[i] \in of(j) THEN NONE ELSE slots[i]]
  IN  [clients |-> [c \in CLIENTS |-> IF c \in gone THEN setup_client ELSE t.clients[c]],
       servers |-> t.servers,
       cache |-> [j \in NODES |-> [t.cache[j] EXCEPT
         !.count = @ - Cardinality(of(j)), !.subscribers = left(j, @)]]]

\* Mutant: the server is not closed.
close_subscribers_only(t, s) == close_subscribers(t, t.servers[s].response)

close_server_and_subscribers(t, s) ==
  close_server(close_subscribers(t, t.servers[s].response), s)

-----------------------------------------------------------------------------
(***************************************************************************)
(* The clients' handlers.                                                  *)
(***************************************************************************)
add_fd_to_clients == {c \in CLIENTS : ~clients[c].fd}
add_fd_to_servers == {s \in SERVERS : ~servers[s].fd}

accept_client ==
  /\ running = "yes"
  /\ add_fd_to_clients # {}
  /\ Becomes([Tables EXCEPT !.clients[Min(add_fd_to_clients)] =
                [setup_client EXCEPT !.fd = TRUE, !.events = "in"]])
  /\ UNCHANGED last_node_set

\* A complete request has been read.
Asks(c) == running = "yes" /\ clients[c].fd /\ clients[c].events = "in"

\* A node with another status than 200 is not used.
Usable(u) == {k \in get(u) : cache[k].status # "bad"}

\* receive_from_client, the URL is in the cache: the client takes the slot
\* whose index is subscribers_count.
receive_cached(c, u) ==
  /\ Asks(c)
  /\ Usable(u) # {}
  /\ LET k == Min(Usable(u))
     IN  /\ cache[k].count \in Slots
         /\ Becomes([Tables EXCEPT
              !.clients[c] = [@ EXCEPT !.response = k, !.request = u,
                !.events = IF cache[k].buf_len > 0 THEN "out" ELSE "none"],
              !.cache[k].subscribers[cache[k].count] = c,
              !.cache[k].count = @ + 1])
  /\ UNCHANGED last_node_set

\* ... is not: a server is opened and a node set.
receive_new(c, u) ==
  /\ Asks(c)
  /\ Usable(u) = {}
  /\ add_fd_to_servers # {}
  /\ LET s == Min(add_fd_to_servers)
         k == set
         t == subscribe(set_cache_node(Tables, k, u), c, k)
     IN  /\ Becomes([t EXCEPT
              !.clients[c] = [@ EXCEPT !.request = u, !.events = "none"],
              !.servers[s] = [setup_server EXCEPT !.fd = TRUE, !.response = k,
                                                  !.request = c]])
         /\ last_node_set' = IF cache[k].empty THEN last_node_set ELSE k

\* A read error, end of file, a request that is too long, another method, an
\* unknown host; later POLLHUP or POLLERR.
client_gone(c) ==
  /\ running = "yes" /\ clients[c].fd
  /\ clients[c].events = "in" \/ "hangup" \in FAULTS
  /\ Becomes(close_client(Tables, c))
  /\ UNCHANGED last_node_set

\* The end of send_to_client.  A node whose status is not 200 is cleared by
\* cache_node, which only the client that set the node has.
finish(t, c) ==
  LET k == t.clients[c].response
      u == [unsubscribe(t, c) EXCEPT !.clients[c] = setup_client]
  IN  IF t.cache[k].status = "bad" THEN clear_cache_node(u, t.clients[c].cache_node) ELSE u

Complete(n) == n = CHUNKS

\* A write that fails forgets the client, but leaves it a subscriber.
send_to_client(c) ==
  /\ running = "yes" /\ clients[c].fd /\ clients[c].events = "out"
  /\ LET k == clients[c].response
         sent(n) == [Tables EXCEPT !.clients[c] = [@ EXCEPT !.written = n,
                        !.events = IF n = cache[k].buf_len THEN "none" ELSE clients[c].events]]
         stuck == cache[k].status = "bad" /\ clients[c].cache_node = NONE
         failed == IF "write" \in FAULTS THEN {NONE} ELSE {}
     IN  /\ k # NONE
         /\ \E n \in failed \cup ((clients[c].written + 1) .. cache[k].buf_len) :
              IF n = NONE THEN Becomes([Tables EXCEPT !.clients[c] = setup_client])
              ELSE IF ~Complete(n) THEN Becomes(sent(n))
              ELSE IF stuck   \* the assertion on cache_node
              THEN running' = "aborted" /\ UNCHANGED <<clients, servers, cache>>
              ELSE Becomes(finish(sent(n), c))
  /\ UNCHANGED last_node_set

-----------------------------------------------------------------------------
(***************************************************************************)
(* The servers' handlers.                                                  *)
(***************************************************************************)
Phase(s, p) == running = "yes" /\ servers[s].fd /\ servers[s].phase = p

connect_to_server(s) ==
  /\ Phase(s, "connect")
  /\ Becomes([Tables EXCEPT !.servers[s].phase = "send"])
  /\ UNCHANGED last_node_set

\* What is in the client's buffer now is sent; a slot that was set up again
\* has an empty buffer, and then nothing is.
send_to_server(s) ==
  /\ Phase(s, "send")
  /\ Becomes([Tables EXCEPT !.servers[s] =
       [@ EXCEPT !.phase = "receive", !.asked = clients[servers[s].request].request]])
  /\ UNCHANGED last_node_set

\* A chunk: every subscriber is polled for writing; after the last chunk the
\* server is closed.
receive_from_server(s) ==
  /\ Phase(s, "receive") /\ servers[s].asked # NoUrl
  /\ LET k == servers[s].response
         told == {cache[k].subscribers[i] : i \in Slots} \ {NONE}
         statuses == {"ok"} \cup (IF "status" \in FAULTS THEN {"bad"} ELSE {})
     IN  /\ cache[k].buf_len < CHUNKS
         /\ \E status \in statuses :
              LET t == [Tables EXCEPT
                    !.cache[k].buf_len = @ + 1,
                    !.cache[k].from = @ \cup {servers[s].asked},
                    !.cache[k].status = IF @ = "unknown" THEN status ELSE @,
                    !.clients = [c \in CLIENTS |->
                       [clients[c] EXCEPT !.events =
                          IF c \in told THEN "out" ELSE clients[c].events]]]
              IN  Becomes(IF Complete(t.cache[k].buf_len) THEN close_server(t, s) ELSE t)
  /\ UNCHANGED last_node_set

\* connect, write or read fails, or the server closes early.  The node stays
\* in the cache as it is.
server_gone(s) ==
  /\ running = "yes" /\ servers[s].fd
  /\ Becomes(close_server_and_subscribers(Tables, s))
  /\ UNCHANGED last_node_set

\* SIGINT on the signal descriptor.
process_signal ==
  /\ running = "yes"
  /\ running' = "stopped"
  /\ clients' = [c \in CLIENTS |-> setup_client]
  /\ servers' = [s \in SERVERS |-> setup_server]
  /\ cache' = [k \in NODES |-> init_cache_node]
  /\ last_node_set' = NONE

Next ==
  \/ accept_client
  \/ \E c \in CLIENTS, u \in URLS : receive_cached(c, u) \/ receive_new(c, u)
  \/ \E c \in CLIENTS : client_gone(c) \/ send_to_client(c)
  \/ \E s \in SERVERS :
       \/ connect_to_server(s) \/ send_to_server(s)
       \/ receive_from_server(s) \/ server_gone(s)
  \/ process_signal

Spec == Init /\ [][Next]_vars

-----------------------------------------------------------------------------
Filling(k) == \E s \in SERVERS : servers[s].fd /\ servers[s].response = k

(***************************************************************************)
(* While a server fills the response a client reads, the client is either  *)
(* polled for writing or among the response's subscribers, so that the     *)
(* next chunk will wake it; and unread chunks are polled for.              *)
(***************************************************************************)
WaitingIsListed ==
  \A c \in CLIENTS :
    LET k == clients[c].response
    IN  clients[c].fd /\ k # NONE =>
          /\ Filling(k) /\ clients[c].events = "none"
               => \E i \in Slots : cache[k].subscribers[i] = c
          /\ clients[c].written < cache[k].buf_len => clients[c].events = "out"

(***************************************************************************)
(* A node holds the response to its own URL and nothing else, although the *)
(* request is sent from the buffer of a client slot.                       *)
(***************************************************************************)
OwnBytes == \A k \in NODES : cache[k].from \subseteq {cache[k].url}

-----------------------------------------------------------------------------
(***************************************************************************)
(* The inductive invariant, for clients that do not fail and as many nodes *)
(* as URLs.                                                                *)
(***************************************************************************)
Readers(k) == {c \in CLIENTS : clients[c].response = k}
Listed(k) == {cache[k].subscribers[i] : i \in Slots}

\* A client is reading its request, or the node of the URL it asked for.
ClientsOK ==
  \A c \in CLIENTS :
    IF clients[c].response = NONE
    THEN /\ clients[c].events = (IF clients[c].fd THEN "in" ELSE "none")
         /\ clients[c].written = 0
    ELSE /\ clients[c].fd /\ clients[c].events # "in"
         /\ ~cache[clients[c].response].empty
         /\ clients[c].request = cache[clients[c].response].url
         /\ clients[c].written <= cache[clients[c].response].buf_len
         /\ clients[c].written < cache[clients[c].response].buf_len
              => clients[c].events = "out"

\* A node is used for one URL, and a URL has one node.
NodesOK ==
  /\ \A k \in NODES :
       /\ IF cache[k].empty THEN Listed(k) = {NONE} ELSE cache[k].url \in URLS
       /\ cache[k].status # "bad"
       /\ cache[k].from \subseteq {cache[k].url}
       /\ cache[k].count = Cardinality(Readers(k))
  /\ \A k, l \in NODES :
       ~cache[k].empty /\ ~cache[l].empty /\ cache[k].url = cache[l].url => k = l

\* While a server fills a node chunks are missing and all its readers are in
\* slots, the first of them also in the slots that nobody has taken yet.
ServersOK ==
  /\ \A s \in SERVERS : servers[s].fd =>
       LET k == servers[s].response
       IN  /\ k # NONE /\ ~cache[k].empty /\ cache[k].buf_len # CHUNKS
           /\ Listed(k) = Readers(k)
           /\ \A i \in Slots :
                i >= cache[k].count => cache[k].subscribers[i] = cache[k].subscribers[0]
           /\ IF servers[s].phase = "receive" THEN servers[s].asked = cache[k].url
              ELSE servers[s].request # NONE /\ clients[servers[s].request].response = k
  /\ \A s, r \in SERVERS :
       servers[s].fd /\ servers[r].fd /\ servers[s].response = servers[r].response => s = r

IInv ==
  /\ TypeOK /\ running # "aborted"
  /\ ClientsOK /\ NodesOK /\ ServersOK
=============================================================================
