--------------------------- MODULE ThreadProxies ---------------------------
(***************************************************************************)
(* The two threaded proxies of exercise 32 in one run: `program' says      *)
(* which of them is running and never changes.  "matsko" begins with an    *)
(* empty cache and anything may fail; "matsko cached" begins when the      *)
(* proxy has served one client and its URL completely, so that walks pass  *)
(* a record or find it, and nothing fails.  `flag' is is_stop or running.  *)
(***************************************************************************)
EXTENDS Integers, FiniteSets

CONSTANTS
  CLIENTS, URLS, RECORDS, CHUNKS, FAULTS,
  CACHED_URLS, SERVED, SERVED_URL, FORMER   \* "matsko cached"

VARIABLES
  program, main, flag, num_threads, stop_bytes, head, list_mutex, records,
  clients, servers, bad

vars == <<program, main, flag, num_threads, stop_bytes, head, list_mutex,
          records, clients, servers, bad>>

Programs == {"matsko", "matsko cached", "arkhipov"}

Matsko == INSTANCE ThreadProxyMatsko WITH is_stop <- flag

Cached == INSTANCE ThreadProxyMatsko WITH
  CLIENTS <- CLIENTS \cup {FORMER}, URLS <- CACHED_URLS,
  RECORDS <- RECORDS \cup {SERVED}, CHUNKS <- 1, FAULTS <- {},
  is_stop <- flag

Arkhipov == INSTANCE ThreadProxyArkhipov WITH
  running <- flag, cache <- records, readers <- servers

(***************************************************************************)
(* The record of SERVED_URL is the first that malloc gave out, and FORMER  *)
(* the client that asked for it.                                           *)
(***************************************************************************)
ASSUME ThreadConstants ==
  /\ Matsko!ProxyConstants
  /\ SERVED \in Nat \ {0} /\ \A r \in RECORDS : SERVED < r
  /\ FORMER \notin CLIENTS \cup {0}
  /\ SERVED_URL \in CACHED_URLS /\ "no url" \notin CACHED_URLS

\* What Arkhipov's program does not have.
unused == <<num_threads, stop_bytes, head, list_mutex>>

\* The record of SERVED_URL: complete, its server and its client gone.
served == [Cached!initEmptyCacheRecord EXCEPT
  !.mem = "live", !.url = SERVED_URL, !.response_index = 1, !.full = TRUE,
  !.server_alive = FALSE, !.subs = 1]

CachedInit ==
  /\ main = "poll" /\ flag = FALSE /\ num_threads = 0 /\ stop_bytes = 0
  /\ head = SERVED /\ list_mutex = Cached!Nil /\ bad = FALSE
  /\ records = [r \in RECORDS \cup {SERVED} |->
                  IF r = SERVED THEN served ELSE Cached!initEmptyCacheRecord]
  /\ clients = [c \in CLIENTS \cup {FORMER} |->
                  IF c = FORMER THEN [Cached!newClient EXCEPT !.pc = "gone"]
                  ELSE Cached!newClient]
  /\ servers = [r \in RECORDS \cup {SERVED} |-> IF r = SERVED THEN "gone" ELSE "none"]

Init ==
  \/ program = "matsko" /\ Matsko!Init
  \/ program = "matsko cached" /\ CachedInit
  \/ program = "arkhipov" /\ Arkhipov!Init /\ num_threads = 0
     /\ stop_bytes = 0 /\ head = 0 /\ list_mutex = 0

Environment ==
  \/ program = "matsko" /\ Matsko!Environment /\ UNCHANGED program
  \/ program = "matsko cached" /\ Cached!Environment /\ UNCHANGED program
  \/ program = "arkhipov" /\ Arkhipov!Environment /\ UNCHANGED <<program, unused>>

Threads ==
  \/ program = "matsko" /\ Matsko!Threads /\ UNCHANGED program
  \/ program = "matsko cached" /\ Cached!Threads /\ UNCHANGED program
  \/ program = "arkhipov" /\ Arkhipov!Threads /\ UNCHANGED <<program, unused>>

Next == Environment \/ Threads

Spec == Init /\ [][Next]_vars /\ WF_vars(Threads)

-----------------------------------------------------------------------------
\* ThreadProxyMatsko: two walks at once never append two records for one URL, and
\* a complete response is never taken for a broken one; ThreadProxyArkhipov: an
\* item has one creator, and its status follows the Reader that this one starts.
\* All this is in the inductive invariants, which are checked as a whole.
RecordsSound ==
  /\ program = "matsko" => Matsko!IInv /\ Matsko!FullIsKept
  /\ program = "matsko cached" => Cached!IInv /\ Cached!FullIsKept
  /\ program = "arkhipov" => Arkhipov!IInv

\* ThreadProxyMatsko: a client that is left asleep subscribed late, or somebody
\* took a token of the shared eventfd that was meant for another.
\* ThreadProxyArkhipov: a Writer sleeps only while there is nothing to do.
SleepsForReason ==
  /\ program = "matsko" => Matsko!AsleepHasReason
  /\ program = "matsko cached" => Cached!AsleepHasReason
  /\ program = "arkhipov" => Arkhipov!SleepsForContent

\* ThreadProxyMatsko: no counted thread is at work when the cache is destroyed.
\* ThreadProxyArkhipov: no thread that may insert into the map outlives the join.
DestroyedAlone ==
  /\ program = "matsko" => Matsko!DestroyedAlone
  /\ program = "matsko cached" => Cached!DestroyedAlone
  /\ program = "arkhipov" => Arkhipov!MapNotShared

\* Both proxies end after SIGINT; Matsko's does not need a timeout for that.  The
\* Writers of Arkhipov's end when their Reader has (the clients are alike, so
\* that one of them is enough).
ThreadsEnd ==
  LET c == CHOOSE c \in CLIENTS : TRUE IN
  /\ main = "cleanUp" \/ (program = "arkhipov" /\ ~flag) ~> bad \/ main = "exited"
  /\ \A u \in URLS :
       program = "arkhipov" /\ clients[c].url = u /\ servers[u] = "gone"
         ~> (program = "arkhipov" =>
               bad \/ main = "exited" \/ clients[c].writer \in {"none", "gone"})
=============================================================================
