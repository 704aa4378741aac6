------------------------- MODULE ThreadProxyArkhipov -------------------------
(***************************************************************************)
(* arkhipov/32/server.cpp: a RunClient thread per connection reads one     *)
(* request, finds or makes the cache item of it and starts a detached      *)
(* Writer for the client; a detached Reader fills each item.  Writers wait *)
(* on the item's condition variable.                                       *)
(*                                                                         *)
(* The status that Reader stores at its end is always ERROR: FINISH is     *)
(* tested and never stored.  An access to memory returned by free(), and   *)
(* free() of the content pointer before malloc() has set it, set `bad' and *)
(* end the behaviour.                                                      *)
(***************************************************************************)
EXTENDS Integers, FiniteSets

CONSTANTS CLIENTS, URLS, CHUNKS,
  FAULTS   \* what may fail: "connect" (up to malloc), "reset", "thread"

NoUrl == "no url"

VARIABLES
  main,      \* RunServer: "poll", "join", "freed", and "exited" (the process)
  running,
  cache,     \* the items of the unordered_map, by request
  readers,   \* the Reader of each item: its control state
  clients,   \* the RunClient thread, the Writer and what the Writer has sent
  bad

vars == <<main, running, cache, readers, clients, bad>>

ItemType == [
  status : {"none", "init", "in process", "error"}, size : -1 .. CHUNKS,
  content : BOOLEAN]

ClientType == [
  thread : {"none", "poll", "create", "write", "gone"},
  writer : {"none", "check", "content", "waiting", "write", "gone"},
  url : URLS \cup {NoUrl}, send_size : 0 .. CHUNKS]

ReaderPCs == {"none", "connect", "read", "reset", "finish", "gone", "disconnected"}

\* InitCacheItem; `content' tells whether the pointer has been set.
InitCacheItem == [status |-> "init", size |-> 0, content |-> FALSE]

Init ==
  /\ main = "poll" /\ running = TRUE
  /\ cache = [u \in URLS |-> [InitCacheItem EXCEPT !.status = "none"]]
  /\ readers = [u \in URLS |-> "none"]
  /\ clients = [c \in CLIENTS |->
       [thread |-> "none", writer |-> "none", url |-> NoUrl, send_size |-> 0]]
  /\ bad = FALSE

\* Threads run until the process exits.
Runs == ~bad /\ main # "exited"
ThreadAt(c, l) == Runs /\ clients[c].thread = l
WriterAt(c, l) == Runs /\ clients[c].writer = l
ReaderAt(u, l) == Runs /\ readers[u] = l

\* What an access to an item does to the behaviour.
Touch == bad' = (main = "freed")

-----------------------------------------------------------------------------
(***************************************************************************)
(* RunServer and the signal handler.                                       *)
(***************************************************************************)
SigHandler ==
  /\ Runs /\ running
  /\ running' = FALSE
  /\ UNCHANGED <<main, cache, readers, clients, bad>>

accept(c) ==
  /\ Runs /\ main = "poll" /\ running /\ clients[c].thread = "none"
  /\ clients' = [clients EXCEPT ![c].thread = "poll"]
  /\ UNCHANGED <<main, running, cache, readers, bad>>

\* The loop ends at the latest with the timeout of poll().
stopServer ==
  /\ Runs /\ main = "poll" /\ ~running
  /\ main' = "join"
  /\ UNCHANGED <<running, cache, readers, clients, bad>>

\* Only the RunClient threads are joined; Readers and Writers are detached.
freeAll ==
  /\ Runs /\ main = "join"
  /\ \A c \in CLIENTS : clients[c].thread \in {"none", "gone"}
  /\ main' = "freed"
  /\ bad' = \E u \in URLS : cache[u].status # "none" /\ ~cache[u].content
  /\ UNCHANGED <<running, cache, readers, clients>>

exitServer ==
  /\ Runs /\ main = "freed"
  /\ main' = "exited"
  /\ UNCHANGED <<running, cache, readers, clients, bad>>

-----------------------------------------------------------------------------
(***************************************************************************)
(* RunClient.                                                              *)
(***************************************************************************)
\* The end of the connection counts as an (empty) request; an error does not.
RunClientEnds(c) ==
  /\ ThreadAt(c, "poll")
  /\ clients' = [clients EXCEPT ![c].thread = "gone"]
  /\ UNCHANGED <<main, running, cache, readers, bad>>

\* The timeout of poll() lets the thread see that it should stop.
RunClientStops(c) == ~running /\ RunClientEnds(c)

RunClientFails(c) == running /\ RunClientEnds(c)

\* Find or insert, under cache_mutex.
RunClientFinds(c, u) ==
  /\ ThreadAt(c, "poll")
  /\ LET new == cache[u].status = "none" IN
     /\ cache' = IF new THEN [cache EXCEPT ![u] = InitCacheItem] ELSE cache
     /\ clients' = [clients EXCEPT
          ![c].url = u, ![c].thread = IF new THEN "create" ELSE "write"]
  /\ UNCHANGED <<main, running, readers, bad>>

\* The results of both pthread_create are ignored.
RunClientCreates(c) ==
  LET u == clients[c].url IN
  /\ ThreadAt(c, "create")
  /\ cache' = [cache EXCEPT ![u].status = "in process"]
  /\ \E created \in {TRUE} \cup {"thread" \notin FAULTS} :
       readers' = [readers EXCEPT ![u] = IF created THEN "connect" ELSE "disconnected"]
  /\ clients' = [clients EXCEPT ![c].thread = "write"]
  /\ UNCHANGED <<main, running, bad>>

RunClientWrites(c) ==
  /\ ThreadAt(c, "write")
  /\ \E created \in {TRUE} \cup {"thread" \notin FAULTS} :
       clients' = [clients EXCEPT ![c].thread = "gone",
                     ![c].writer = IF created THEN "check" ELSE "none"]
  /\ UNCHANGED <<main, running, cache, readers, bad>>

-----------------------------------------------------------------------------
(***************************************************************************)
(* Reader.                                                                 *)
(***************************************************************************)
\* Everybody who waits on the item's condition variable.
broadcast(u) ==
  [c \in CLIENTS |->
     IF clients[c].url = u /\ clients[c].writer = "waiting"
     THEN [clients[c] EXCEPT !.writer = "content"] ELSE clients[c]]

\* ConnectToHost, WriteTo and malloc; DisconnectReader wakes nobody.
ReaderConnects(u) ==
  /\ ReaderAt(u, "connect")
  /\ Touch
  /\ \E connected \in {TRUE} \cup {"connect" \notin FAULTS} :
       /\ readers' = [readers EXCEPT ![u] = IF connected THEN "read" ELSE "disconnected"]
       /\ cache' = [cache EXCEPT
            ![u].status = IF connected THEN @ ELSE "error", ![u].content = connected]
  /\ UNCHANGED <<main, running, clients>>

\* A chunk.  When read() fails, -1 is added to the size and the loop goes on,
\* until the next read() returns 0.
ReaderReads(u) ==
  /\ ReaderAt(u, "read") /\ running
  /\ Touch
  /\ \E n \in {1} \cup {IF "reset" \in FAULTS THEN -1 ELSE 1} :
       /\ cache[u].size + n \in -1 .. CHUNKS
       /\ cache' = [cache EXCEPT ![u].size = @ + n]
       /\ readers' = [readers EXCEPT ![u] = IF n = 1 THEN @ ELSE "reset"]
  /\ clients' = broadcast(u)
  /\ UNCHANGED <<main, running>>

\* read() returns 0; the size is stored and announced once more.
ReaderEnds(u) ==
  /\ ReaderAt(u, "read") \/ ReaderAt(u, "reset")
  /\ running
  /\ "reset" \notin FAULTS => cache[u].size = CHUNKS
  /\ Touch
  /\ clients' = broadcast(u)
  /\ readers' = [readers EXCEPT ![u] = "finish"]
  /\ UNCHANGED <<main, running, cache>>

ReaderStops(u) ==
  /\ ReaderAt(u, "read") \/ ReaderAt(u, "reset")
  /\ ~running
  /\ readers' = [readers EXCEPT ![u] = "finish"]
  /\ UNCHANGED <<main, running, cache, clients, bad>>

\* Mutant: the last status is set like the one of DisconnectReader.
ReaderFinishesSilently(u) ==
  /\ ReaderAt(u, "finish")
  /\ Touch
  /\ cache' = [cache EXCEPT ![u].status = "error"]
  /\ readers' = [readers EXCEPT ![u] = "gone"]
  /\ UNCHANGED <<main, running, clients>>

ReaderFinishes(u) ==
  /\ ReaderAt(u, "finish")
  /\ Touch
  /\ cache' = [cache EXCEPT ![u].status = "error"]
  /\ clients' = broadcast(u)
  /\ readers' = [readers EXCEPT ![u] = "gone"]
  /\ UNCHANGED <<main, running>>

-----------------------------------------------------------------------------
(***************************************************************************)
(* Writer.                                                                 *)
(***************************************************************************)
\* A Writer that is told to stop, or that poll() or write() fails, is gone.
WriterBreaks(c) == clients' = [clients EXCEPT ![c].writer = "gone"]

WriterStops(c) ==
  /\ WriterAt(c, "check") /\ ~running
  /\ WriterBreaks(c)
  /\ UNCHANGED <<main, running, cache, readers, bad>>

\* The client takes data: the status is looked at without a lock.
WriterChecks(c) ==
  /\ WriterAt(c, "check") /\ running
  /\ Touch
  /\ clients' = [clients EXCEPT
       ![c].writer = IF cache[clients[c].url].status = "error" THEN "gone" ELSE "content"]
  /\ UNCHANGED <<main, running, cache, readers>>

\* WaitContent: one test of its condition, under the mutex.
WaitContent(c) ==
  LET item == cache[clients[c].url] IN
  /\ WriterAt(c, "content")
  /\ Touch
  /\ clients' = [clients EXCEPT
       ![c].writer = IF clients[c].send_size >= item.size /\ item.status # "error"
                     THEN "waiting" ELSE "write"]
  /\ UNCHANGED <<main, running, cache, readers>>

\* write() of what is there, all of it or less; nothing ends the Writer, and
\* so does a negative rest.
WriterWrites(c) ==
  LET rest == cache[clients[c].url].size - clients[c].send_size IN
  /\ WriterAt(c, "write")
  /\ Touch
  /\ \E n \in 0 .. CHUNKS :
       /\ IF rest <= 0 THEN n = 0 ELSE n \in 1 .. rest
       /\ clients' = [clients EXCEPT ![c].send_size = @ + n,
                                     ![c].writer = IF n = 0 THEN "gone" ELSE "check"]
  /\ UNCHANGED <<main, running, cache, readers>>

\* The client has closed its connection.
WriterFails(c) ==
  /\ WriterAt(c, "write")
  /\ WriterBreaks(c)
  /\ UNCHANGED <<main, running, cache, readers, bad>>

-----------------------------------------------------------------------------
Environment ==
  \/ SigHandler
  \/ \E c \in CLIENTS :
       \/ accept(c) \/ RunClientFails(c) \/ WriterFails(c)
       \/ \E u \in URLS : RunClientFinds(c, u)
  \/ \E u \in URLS : ReaderReads(u) \/ ReaderEnds(u)

Threads ==
  \/ stopServer \/ freeAll \/ exitServer
  \/ \E c \in CLIENTS :
       \/ RunClientStops(c) \/ RunClientCreates(c) \/ RunClientWrites(c)
       \/ WriterStops(c) \/ WriterChecks(c) \/ WaitContent(c) \/ WriterWrites(c)
  \/ \E u \in URLS : ReaderConnects(u) \/ ReaderStops(u) \/ ReaderFinishes(u)

Next == Environment \/ Threads

\* As in ThreadProxyMatsko; RunClientStops is the timeout of poll(), a second.
Spec == Init /\ [][Next]_vars /\ WF_vars(Threads)

-----------------------------------------------------------------------------
TypeOK ==
  /\ main \in {"poll", "join", "freed", "exited"} /\ running \in BOOLEAN
  /\ cache \in [URLS -> ItemType]
  /\ readers \in [URLS -> ReaderPCs]
  /\ clients \in [CLIENTS -> ClientType]
  /\ bad \in BOOLEAN

\* A Writer sleeps only while nothing it waits for has happened, whatever the
\* order of its test and of Reader's announcements; the exception is an item
\* that DisconnectReader gave up without a broadcast, or that has no Reader.
SleepsForContent ==
  \A c \in CLIENTS : LET u == clients[c].url IN
    clients[c].writer = "waiting" /\ readers[u] # "disconnected" =>
      cache[u].status # "error" /\ clients[c].send_size >= cache[u].size

\* No RunClient thread, which may insert into the map, outlives the join.
MapNotShared ==
  main \in {"freed", "exited"} =>
    \A c \in CLIENTS : clients[c].thread \in {"none", "gone"}

\* RunClientFinds under cache_mutex gives an item to one creator; nobody has
\* started its Reader until that one does.
OneCreator ==
  \A c, d \in CLIENTS :
    /\ clients[c].thread = "create" => readers[clients[c].url] = "none"
    /\ clients[c].thread = "create" /\ clients[d].thread = "create"
       /\ clients[c].url = clients[d].url => c = d

\* A Writer is started last, by a thread that has found or made its item.
WritersHaveItems ==
  \A c \in CLIENTS :
    /\ clients[c].thread \in {"create", "write"} \/ clients[c].writer # "none"
       => clients[c].url \in URLS /\ cache[clients[c].url].status # "none"
    /\ clients[c].writer # "none" => clients[c].thread = "gone"

\* The status follows the Reader, and nothing is stored before it connects.
StatusFollowsReader ==
  \A u \in URLS : LET item == cache[u] IN
    /\ readers[u] = "none" <=> item.status \in {"none", "init"}
    /\ readers[u] \in {"connect", "read", "reset", "finish"} => item.status = "in process"
    /\ readers[u] = "gone" => item.status = "error"
    /\ readers[u] \in {"none", "connect"} => item.size = 0

IInv ==
  /\ TypeOK /\ OneCreator /\ WritersHaveItems /\ StatusFollowsReader
  /\ SleepsForContent /\ MapNotShared

\* When Reader has ended, every Writer of its item ends, whether it slept, was
\* about to sleep or was writing; or the process does.
WritersEnd ==
  \A c \in CLIENTS : \A u \in URLS :
    clients[c].url = u /\ readers[u] = "gone"
      ~> bad \/ main = "exited" \/ clients[c].writer \in {"none", "gone"}

\* Ctrl+C ends the process, although Readers and Writers may sleep for ever.
ShutsDown == ~running ~> bad \/ main = "exited"
=============================================================================
