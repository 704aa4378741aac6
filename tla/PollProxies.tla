---------------------------- MODULE PollProxies ----------------------------
(***************************************************************************)
(* The three poll proxies of exercise 31 side by side: `program' says      *)
(* which of them is running and never changes.  They share the names of    *)
(* their tables; a program leaves the variables it does not have alone.    *)
(* Clients send one request on a connection, and the clients of Shuvalov's *)
(* proxy neither hang up nor fail: with PIPELINING, or with any of FAULTS, *)
(* some of the properties below do not hold.                               *)
(***************************************************************************)
EXTENDS Integers, FiniteSets

CONSTANTS
  URLS, CHUNKS,
  CLIENTS, RECORDS,                 \* the tables of Matsko and Rybalko
  SERVERS,                          \* of Matsko and Shuvalov
  HOSTS, LENGTHS, MAX_CACHE, WORD, DRIFT,   \* Rybalko
  READERS, NODES, SUBSCRIBERS       \* Shuvalov, whose clients are READERS

VARIABLES program, running, clients, servers, cache, extra

vars == <<program, running, clients, servers, cache, extra>>

Programs == {"matsko", "rybalko", "shuvalov"}

Matsko == INSTANCE PollProxyMatsko WITH PIPELINING <- FALSE

Rybalko == INSTANCE PollProxyRybalko WITH
  PIPELINING <- FALSE, hosts <- servers, used <- extra

Shuvalov == INSTANCE PollProxyShuvalov WITH
  CLIENTS <- READERS, FAULTS <- {}, last_node_set <- extra

(***************************************************************************)
(* The tables are finite and indexed by numbers.                           *)
(***************************************************************************)
ASSUME TableConstants ==
  /\ CHUNKS \in Nat
  /\ IsFiniteSet(URLS) /\ "no url" \notin URLS
  /\ \A T \in {CLIENTS, RECORDS, SERVERS, HOSTS, READERS, NODES} :
       T \subseteq Nat /\ IsFiniteSet(T)

(***************************************************************************)
(* Rybalko: size_t can tell the account, wherever it drifts to, from one   *)
(* below zero: what all records together are charged with is less than     *)
(* half its range.                                                         *)
(***************************************************************************)
ASSUME BudgetConstants ==
  /\ LENGTHS \subseteq Nat /\ MAX_CACHE \in Nat /\ DRIFT \in Nat /\ WORD \in Nat
  /\ 2 * (MAX_CACHE + DRIFT + 4 * (CHUNKS + 1) * Cardinality(RECORDS)) < WORD

(***************************************************************************)
(* Shuvalov: there is a node for every URL, so that none is evicted, room  *)
(* for a subscriber, and the chunk with the head of the response.          *)
(***************************************************************************)
ASSUME NodeConstants ==
  /\ SUBSCRIBERS \in Nat \ {0} /\ CHUNKS # 0
  /\ Cardinality(URLS) <= Cardinality(NODES)

Init ==
  /\ program \in Programs
  /\ program = "matsko" => Matsko!Init /\ extra = 0
  /\ program = "rybalko" => Rybalko!Init
  /\ program = "shuvalov" => Shuvalov!Init

Next ==
  \/ program = "matsko" /\ Matsko!Next /\ UNCHANGED <<program, extra>>
  \/ program = "rybalko" /\ Rybalko!Next /\ UNCHANGED program
  \/ program = "shuvalov" /\ Shuvalov!Next /\ UNCHANGED program

Spec == Init /\ [][Next]_vars

-----------------------------------------------------------------------------
\* The indices that tables keep of each other never outlive what they meant,
\* also when a record is evicted (PollProxyMatsko, PollProxyRybalko), and each
\* program's inductive invariant: types; a URL is not fetched into two records
\* (PollProxyMatsko) or nodes (PollProxyShuvalov).
TablesSound ==
  /\ program = "matsko" => Matsko!IInv /\ Matsko!IndicesFresh
  /\ program = "rybalko" => Rybalko!IInv /\ Rybalko!IndicesFresh
  /\ program = "shuvalov" => Shuvalov!IInv

\* No client is left without the next wake-up: chunks it has not read are polled
\* for, or it is on the list that the next chunk wakes.
NoneStranded ==
  /\ program = "matsko" => Matsko!UnreadIsPolled
  /\ program = "rybalko" => Rybalko!UnreadIsPolled
  /\ program = "shuvalov" => Shuvalov!WaitingIsListed

\* PollProxyRybalko: the account of the cache never exceeds its budget.
BudgetKept == program = "rybalko" => Rybalko!BudgetKept

\* PollProxyShuvalov: a node holds the response to its own URL only.
OwnBytes == program = "shuvalov" => Shuvalov!OwnBytes
=============================================================================
