------------------------- MODULE ThreadProxiesProofs -------------------------
(***************************************************************************)
(* Safety of the two threaded proxies for any number of clients, any set   *)
(* of requests and responses of any length, whatever fails.                *)
(*                                                                         *)
(* ThreadProxyArkhipov: no Writer sleeps past an announcement because a    *)
(* request has one creator (OneCreator), so that an item whose Reader has  *)
(* stored something or has ended is never begun again under the Writers    *)
(* that sleep on it.                                                       *)
(*                                                                         *)
(* ThreadProxyMatsko: the lemmas are those of ThreadProxyMatskoProofs, of  *)
(* which MatskoP and CachedP are the instances that belong to Matsko and   *)
(* Cached.                                                                 *)
(***************************************************************************)
EXTENDS ThreadProxies, FiniteSetTheorems, TLAPS

-----------------------------------------------------------------------------
(***************************************************************************)
(* ThreadProxyArkhipov.                                                    *)
(***************************************************************************)
ClientStep(c) ==
  \/ Arkhipov!accept(c) \/ Arkhipov!RunClientFails(c) \/ Arkhipov!RunClientStops(c)
  \/ \E u \in URLS : Arkhipov!RunClientFinds(c, u)
  \/ Arkhipov!RunClientCreates(c) \/ Arkhipov!RunClientWrites(c)

WriterStep(c) ==
  \/ Arkhipov!WriterStops(c) \/ Arkhipov!WriterChecks(c) \/ Arkhipov!WaitContent(c)
  \/ Arkhipov!WriterWrites(c) \/ Arkhipov!WriterFails(c)

ReaderStep(u) ==
  \/ Arkhipov!ReaderConnects(u) \/ Arkhipov!ReaderReads(u) \/ Arkhipov!ReaderEnds(u)
  \/ Arkhipov!ReaderStops(u) \/ Arkhipov!ReaderFinishes(u)

MainStep ==
  \/ Arkhipov!SigHandler \/ Arkhipov!stopServer \/ Arkhipov!freeAll
  \/ Arkhipov!exitServer

(* Every step is one of RunServer, of a RunClient thread, of a Writer or of *)
(* a Reader.                                                                *)
LEMMA StepKinds ==
  ASSUME [Arkhipov!Next]_Arkhipov!vars
  PROVE  \/ MainStep \/ UNCHANGED Arkhipov!vars
         \/ \E c \in CLIENTS : ClientStep(c) \/ WriterStep(c)
         \/ \E u \in URLS : ReaderStep(u)
BY Zenon DEF Arkhipov!Next, Arkhipov!Environment, Arkhipov!Threads, MainStep, ClientStep,
   WriterStep, ReaderStep

-----------------------------------------------------------------------------
(* What a step of a Writer does: it changes its own state and the number of *)
(* chunks that it has sent, and falls asleep only if nothing is to be done. *)
LEMMA WriterMoves ==
  ASSUME Arkhipov!TypeOK, CHUNKS \in Nat, Arkhipov!WritersHaveItems, NEW c \in CLIENTS,
         WriterStep(c)
  PROVE  /\ UNCHANGED <<main, flag, records, servers>> /\ bad' \in BOOLEAN
         /\ clients' = [clients EXCEPT ![c] = clients'[c]]
            /\ clients'[c] \in Arkhipov!ClientType
         /\ clients'[c].thread = clients[c].thread /\ clients'[c].url = clients[c].url
         /\ clients[c].writer # "none" /\ clients'[c].writer # "none"
         /\ clients'[c].writer = "waiting" =>
              LET item == records[clients[c].url] IN
              item.status # "error" /\ clients'[c].send_size >= item.size
<1>1. clients[c] \in Arkhipov!ClientType
      /\ clients \in [CLIENTS -> Arkhipov!ClientType] /\ bad \in BOOLEAN
  BY DEF Arkhipov!TypeOK
<1>2. clients[c].writer \in {"check", "content", "write"}
      => records[clients[c].url] \in Arkhipov!ItemType
  BY DEF Arkhipov!TypeOK, Arkhipov!WritersHaveItems
<1>3. CASE Arkhipov!WriterStops(c) \/ Arkhipov!WriterFails(c)
  BY <1>1, <1>3 DEF Arkhipov!WriterStops, Arkhipov!WriterFails, Arkhipov!WriterAt,
     Arkhipov!WriterBreaks, Arkhipov!ClientType
<1>4. CASE Arkhipov!WriterChecks(c)
  BY <1>1, <1>4 DEF Arkhipov!WriterChecks, Arkhipov!WriterAt, Arkhipov!Touch,
     Arkhipov!ClientType
<1>5. CASE Arkhipov!WaitContent(c)
  BY <1>1, <1>5 DEF Arkhipov!WaitContent, Arkhipov!WriterAt, Arkhipov!Touch,
     Arkhipov!ClientType
<1>6. CASE Arkhipov!WriterWrites(c)
  <2> DEFINE rest == records[clients[c].url].size - clients[c].send_size
  <2>1. PICK n \in 0 .. CHUNKS :
          /\ IF rest <= 0 THEN n = 0 ELSE n \in 1 .. rest
          /\ clients' = [clients EXCEPT ![c].send_size = @ + n,
                                        ![c].writer = IF n = 0 THEN "gone" ELSE "check"]
    BY <1>6 DEF Arkhipov!WriterWrites
  <2>2. clients[c].send_size + n \in 0 .. CHUNKS
    <3>1. clients[c].writer = "write"  BY <1>6 DEF Arkhipov!WriterWrites, Arkhipov!WriterAt
    <3>2. records[clients[c].url].size \in -1 .. CHUNKS  BY <1>2, <3>1 DEF Arkhipov!ItemType
    <3>3. clients[c].send_size \in 0 .. CHUNKS  BY <1>1 DEF Arkhipov!ClientType
    <3> QED  BY <2>1, <3>2, <3>3
  <2>3. clients'[c] = [clients[c] EXCEPT !.send_size = @ + n,
                                         !.writer = IF n = 0 THEN "gone" ELSE "check"]
    BY <1>1, <2>1
  <2>4. clients'[c] \in Arkhipov!ClientType  BY <1>1, <2>2, <2>3 DEF Arkhipov!ClientType
  <2> QED  BY <1>1, <1>6, <2>1, <2>3, <2>4 DEF Arkhipov!WriterWrites, Arkhipov!WriterAt,
              Arkhipov!Touch, Arkhipov!ClientType
<1> QED  BY <1>3, <1>4, <1>5, <1>6 DEF WriterStep

(* What a step of a RunClient thread does to the clients: it moves this     *)
(* thread, chooses its item and starts its Writer last.                     *)
LEMMA ThreadMoves ==
  ASSUME Arkhipov!TypeOK, Arkhipov!WritersHaveItems, NEW c \in CLIENTS, ClientStep(c)
  PROVE  /\ clients' = [clients EXCEPT ![c] = clients'[c]]
            /\ clients'[c] \in Arkhipov!ClientType
         /\ clients[c].writer = "none" /\ clients'[c].writer \in {"none", "check"}
         /\ UNCHANGED <<main, flag, bad>>
         /\ main \in {"freed", "exited"} => clients[c].thread # "none"
         /\ \/ /\ clients'[c].thread \in {"poll", "gone"} /\ UNCHANGED <<records, servers>>
               /\ clients'[c].url = clients[c].url /\ clients'[c].writer = "none"
               /\ clients[c].thread \in {"none", "poll"}
            \/ \E u \in URLS : Arkhipov!RunClientFinds(c, u)
            \/ Arkhipov!RunClientCreates(c)
            \/ /\ clients[c].thread = "write" /\ clients'[c].thread = "gone"
               /\ clients'[c].url = clients[c].url /\ UNCHANGED <<records, servers>>
<1>1. clients[c] \in Arkhipov!ClientType /\ clients \in [CLIENTS -> Arkhipov!ClientType]
  BY DEF Arkhipov!TypeOK
<1>2. clients[c].thread # "gone" => clients[c].writer = "none"
  BY DEF Arkhipov!WritersHaveItems
<1>3. CASE Arkhipov!accept(c)
  BY <1>1, <1>2, <1>3 DEF Arkhipov!accept, Arkhipov!ClientType
<1>4. CASE Arkhipov!RunClientFails(c) \/ Arkhipov!RunClientStops(c)
  BY <1>1, <1>2, <1>4 DEF Arkhipov!RunClientFails, Arkhipov!RunClientStops,
     Arkhipov!RunClientEnds, Arkhipov!ThreadAt, Arkhipov!ClientType
<1>5. CASE \E u \in URLS : Arkhipov!RunClientFinds(c, u)
  <2>1. PICK u \in URLS : Arkhipov!RunClientFinds(c, u)  BY <1>5
  <2>2. PICK l \in {"create", "write"} :
          clients' = [clients EXCEPT ![c].url = u, ![c].thread = l]
    BY <2>1 DEF Arkhipov!RunClientFinds
  <2>3. clients'[c] = [clients[c] EXCEPT !.url = u, !.thread = l]
    BY <1>1, <2>2
  <2> QED  BY <1>1, <1>2, <1>5, <2>1, <2>2, <2>3 DEF Arkhipov!RunClientFinds,
              Arkhipov!ThreadAt, Arkhipov!ClientType
<1>6. CASE Arkhipov!RunClientCreates(c)
  BY <1>1, <1>2, <1>6 DEF Arkhipov!RunClientCreates, Arkhipov!ThreadAt, Arkhipov!ClientType
<1>7. CASE Arkhipov!RunClientWrites(c)
  <2>1. PICK l \in {"check", "none"} :
          clients' = [clients EXCEPT ![c].thread = "gone", ![c].writer = l]
    BY <1>7 DEF Arkhipov!RunClientWrites
  <2>2. clients'[c] = [clients[c] EXCEPT !.thread = "gone", !.writer = l]
    BY <1>1, <2>1
  <2> QED  BY <1>1, <1>2, <1>7, <2>1, <2>2 DEF Arkhipov!RunClientWrites,
              Arkhipov!ThreadAt, Arkhipov!ClientType
<1> QED  BY <1>3, <1>4, <1>5, <1>6, <1>7 DEF ClientStep

(* What a broadcast does: nobody sleeps on the item afterwards.             *)
LEMMA BroadcastMoves ==
  ASSUME Arkhipov!TypeOK, NEW u \in URLS
  PROVE  /\ Arkhipov!broadcast(u) \in [CLIENTS -> Arkhipov!ClientType]
         /\ \A c \in CLIENTS :
              /\ Arkhipov!broadcast(u)[c].thread = clients[c].thread
              /\ Arkhipov!broadcast(u)[c].url = clients[c].url
              /\ Arkhipov!broadcast(u)[c].send_size = clients[c].send_size
              /\ (Arkhipov!broadcast(u)[c].writer = "none") = (clients[c].writer = "none")
              /\ Arkhipov!broadcast(u)[c].writer = "waiting" =>
                   clients[c].writer = "waiting" /\ clients[c].url # u
BY DEF Arkhipov!TypeOK, Arkhipov!broadcast, Arkhipov!ClientType

(* What a step of a Reader does: it changes its own item and Reader, and    *)
(* unless it is the failed connection that leaves nobody to announce        *)
(* anything, a change of the status or of the size wakes every sleeper.     *)
LEMMA ReaderMoves ==
  ASSUME Arkhipov!TypeOK, CHUNKS \in Nat, Arkhipov!StatusFollowsReader, NEW u \in URLS,
         ReaderStep(u)
  PROVE  /\ UNCHANGED <<main, flag>> /\ bad' \in BOOLEAN
         /\ records' = [records EXCEPT ![u] = records'[u]] /\ records'[u] \in Arkhipov!ItemType
         /\ servers' = [servers EXCEPT ![u] = servers'[u]]
         /\ servers[u] \notin {"none", "disconnected"}
         /\ servers'[u] \in {"read", "reset", "finish", "gone", "disconnected"}
         /\ \/ records'[u].status = "in process" /\ servers'[u] # "gone"
            \/ records'[u].status = "error" /\ servers'[u] \in {"gone", "disconnected"}
         /\ \/ clients' = Arkhipov!broadcast(u)
            \/ /\ clients' = clients
               /\ \/ servers'[u] = "disconnected"
                  \/ /\ records'[u].status = records[u].status
                     /\ records'[u].size = records[u].size
<1>1. records \in [URLS -> Arkhipov!ItemType]
      /\ servers \in [URLS -> Arkhipov!ReaderPCs] /\ bad \in BOOLEAN
  BY DEF Arkhipov!TypeOK
<1>2. records[u] \in Arkhipov!ItemType /\ servers[u] \in Arkhipov!ReaderPCs
  BY <1>1
<1>3. servers[u] \in {"connect", "read", "reset", "finish"} => records[u].status = "in process"
  BY DEF Arkhipov!StatusFollowsReader
<1>4. CASE Arkhipov!ReaderConnects(u)
  <2>1. PICK connected \in BOOLEAN :
          /\ servers' = [servers EXCEPT ![u] = IF connected THEN "read" ELSE "disconnected"]
          /\ records' = [records EXCEPT
               ![u].status = IF connected THEN @ ELSE "error", ![u].content = connected]
    BY <1>4 DEF Arkhipov!ReaderConnects
  <2>2. records'[u] = [records[u] EXCEPT
          !.status = IF connected THEN @ ELSE "error", !.content = connected]
    BY <1>1, <2>1
  <2>3. records'[u] \in Arkhipov!ItemType  BY <1>2, <2>2 DEF Arkhipov!ItemType
  <2> QED  BY <1>1, <1>2, <1>3, <1>4, <2>1, <2>2, <2>3 DEF Arkhipov!ReaderConnects,
              Arkhipov!ReaderAt, Arkhipov!Touch, Arkhipov!ItemType
<1>5. CASE Arkhipov!ReaderReads(u)
  <2>1. PICK n \in {1, -1} :
          /\ records[u].size + n \in -1 .. CHUNKS
          /\ records' = [records EXCEPT ![u].size = @ + n]
          /\ servers' = [servers EXCEPT ![u] = IF n = 1 THEN @ ELSE "reset"]
    BY <1>5 DEF Arkhipov!ReaderReads
  <2>2. records'[u] = [records[u] EXCEPT !.size = @ + n]
    BY <1>1, <2>1
  <2>3. records'[u] \in Arkhipov!ItemType /\ records'[u].status = records[u].status
    <3> DEFINE s == records[u].size + n
    <3>1. s \in -1 .. CHUNKS  BY <2>1
    <3>2. records'[u] = [records[u] EXCEPT !.size = s]  BY <2>2
    <3> HIDE DEF s
    <3> QED  BY <1>2, <3>1, <3>2 DEF Arkhipov!ItemType
  <2>4. servers[u] = "read" /\ servers'[u] \in {"read", "reset"}
    BY <1>1, <1>5, <2>1 DEF Arkhipov!ReaderReads, Arkhipov!ReaderAt
  <2> QED  BY <1>1, <1>3, <1>5, <2>1, <2>2, <2>3, <2>4 DEF Arkhipov!ReaderReads,
              Arkhipov!Touch
<1>6. CASE Arkhipov!ReaderEnds(u)
  BY <1>1, <1>2, <1>3, <1>6 DEF Arkhipov!ReaderEnds, Arkhipov!ReaderAt, Arkhipov!Touch,
     Arkhipov!ItemType
<1>7. CASE Arkhipov!ReaderStops(u)
  BY <1>1, <1>2, <1>3, <1>7 DEF Arkhipov!ReaderStops, Arkhipov!ReaderAt, Arkhipov!ItemType
<1>8. CASE Arkhipov!ReaderFinishes(u)
  BY <1>1, <1>2, <1>3, <1>8 DEF Arkhipov!ReaderFinishes, Arkhipov!ReaderAt,
     Arkhipov!Touch, Arkhipov!ItemType
<1> QED  BY <1>4, <1>5, <1>6, <1>7, <1>8 DEF ReaderStep

-----------------------------------------------------------------------------
(***************************************************************************)
(* The inductive invariant.                                                *)
(***************************************************************************)
LEMMA ArkhipovInit ==
  ASSUME CHUNKS \in Nat, Arkhipov!Init
  PROVE  Arkhipov!IInv
<1>1. Arkhipov!TypeOK
  <2>1. records \in [URLS -> Arkhipov!ItemType]
    <3>1. Arkhipov!InitCacheItem \in Arkhipov!ItemType
      BY DEF Arkhipov!InitCacheItem, Arkhipov!ItemType
    <3>2. [Arkhipov!InitCacheItem EXCEPT !.status = "none"] \in Arkhipov!ItemType
      BY <3>1 DEF Arkhipov!ItemType
    <3> QED  BY <3>2 DEF Arkhipov!Init
  <2>2. clients \in [CLIENTS -> Arkhipov!ClientType]
    BY DEF Arkhipov!Init, Arkhipov!ClientType
  <2> QED  BY <2>1, <2>2 DEF Arkhipov!Init, Arkhipov!TypeOK, Arkhipov!ReaderPCs
<1>2. Arkhipov!OneCreator /\ Arkhipov!WritersHaveItems
      /\ Arkhipov!SleepsForContent /\ Arkhipov!MapNotShared
  BY DEF Arkhipov!Init, Arkhipov!OneCreator, Arkhipov!WritersHaveItems,
     Arkhipov!SleepsForContent, Arkhipov!MapNotShared
<1>3. Arkhipov!StatusFollowsReader
  BY DEF Arkhipov!Init, Arkhipov!StatusFollowsReader, Arkhipov!InitCacheItem
<1> QED  BY <1>1, <1>2, <1>3 DEF Arkhipov!IInv

(* The steps of RunServer move no thread and no item.                       *)
LEMMA MainIInv ==
  ASSUME Arkhipov!IInv, MainStep \/ UNCHANGED Arkhipov!vars
  PROVE  Arkhipov!IInv'
<1>1. UNCHANGED <<records, servers, clients>> /\ bad' \in BOOLEAN /\ flag' \in BOOLEAN
  BY DEF Arkhipov!IInv, Arkhipov!TypeOK, MainStep, Arkhipov!SigHandler,
     Arkhipov!stopServer, Arkhipov!freeAll, Arkhipov!exitServer, Arkhipov!vars
<1>2. main' \in {"poll", "join", "freed", "exited"} /\ Arkhipov!MapNotShared'
  BY DEF Arkhipov!IInv, Arkhipov!TypeOK, Arkhipov!MapNotShared, MainStep,
     Arkhipov!SigHandler, Arkhipov!stopServer, Arkhipov!freeAll,
         Arkhipov!exitServer, Arkhipov!vars
<1>3. Arkhipov!OneCreator' /\ Arkhipov!WritersHaveItems'
      /\ Arkhipov!StatusFollowsReader' /\ Arkhipov!SleepsForContent'
  BY <1>1 DEF Arkhipov!IInv, Arkhipov!OneCreator, Arkhipov!WritersHaveItems,
     Arkhipov!StatusFollowsReader, Arkhipov!SleepsForContent
<1>4. Arkhipov!TypeOK'  BY <1>1, <1>2 DEF Arkhipov!IInv, Arkhipov!TypeOK
<1> QED  BY <1>2, <1>3, <1>4 DEF Arkhipov!IInv

(* A Writer touches no item, and falls asleep for a reason.                 *)
LEMMA WriterIInv ==
  ASSUME CHUNKS \in Nat, Arkhipov!IInv, NEW c \in CLIENTS, WriterStep(c)
  PROVE  Arkhipov!IInv'
<1>1. Arkhipov!TypeOK /\ Arkhipov!WritersHaveItems
      /\ clients \in [CLIENTS -> Arkhipov!ClientType]
  BY DEF Arkhipov!IInv, Arkhipov!TypeOK
<1>2. /\ UNCHANGED <<main, flag, records, servers>> /\ bad' \in BOOLEAN
      /\ clients' = [clients EXCEPT ![c] = clients'[c]] /\ clients'[c] \in Arkhipov!ClientType
      /\ clients'[c].thread = clients[c].thread /\ clients'[c].url = clients[c].url
      /\ clients[c].writer # "none" /\ clients'[c].writer # "none"
      /\ clients'[c].writer = "waiting" =>
           LET item == records[clients[c].url] IN
           item.status # "error" /\ clients'[c].send_size >= item.size
  BY <1>1, WriterMoves
<1>3. \A d \in CLIENTS : /\ d # c => clients'[d] = clients[d]
                         /\ clients'[d].thread = clients[d].thread
                         /\ clients'[d].url = clients[d].url
  BY <1>1, <1>2
<1>4. Arkhipov!TypeOK'  BY <1>1, <1>2 DEF Arkhipov!TypeOK
<1>5. Arkhipov!OneCreator' /\ Arkhipov!WritersHaveItems' /\ Arkhipov!MapNotShared'
  BY <1>2, <1>3 DEF Arkhipov!IInv, Arkhipov!OneCreator, Arkhipov!WritersHaveItems,
     Arkhipov!MapNotShared
<1>6. Arkhipov!StatusFollowsReader'  BY <1>2 DEF Arkhipov!IInv, Arkhipov!StatusFollowsReader
<1>7. Arkhipov!SleepsForContent'  BY <1>2, <1>3 DEF Arkhipov!IInv, Arkhipov!SleepsForContent
<1> QED  BY <1>4, <1>5, <1>6, <1>7 DEF Arkhipov!IInv

(* Whoever sleeps on the item of a Reader is told of what it does.          *)
LEMMA ReaderIInv ==
  ASSUME CHUNKS \in Nat, Arkhipov!IInv, NEW u \in URLS, ReaderStep(u)
  PROVE  Arkhipov!IInv'
<1>1. Arkhipov!TypeOK /\ Arkhipov!StatusFollowsReader
      /\ clients \in [CLIENTS -> Arkhipov!ClientType]
      /\ records \in [URLS -> Arkhipov!ItemType] /\ servers \in [URLS -> Arkhipov!ReaderPCs]
  BY DEF Arkhipov!IInv, Arkhipov!TypeOK
<1>2. /\ UNCHANGED <<main, flag>> /\ bad' \in BOOLEAN
      /\ records' = [records EXCEPT ![u] = records'[u]] /\ records'[u] \in Arkhipov!ItemType
      /\ servers' = [servers EXCEPT ![u] = servers'[u]]
      /\ servers[u] \notin {"none", "disconnected"}
      /\ servers'[u] \in {"read", "reset", "finish", "gone", "disconnected"}
      /\ \/ records'[u].status = "in process" /\ servers'[u] # "gone"
         \/ records'[u].status = "error" /\ servers'[u] \in {"gone", "disconnected"}
      /\ \/ clients' = Arkhipov!broadcast(u)
         \/ /\ clients' = clients
            /\ \/ servers'[u] = "disconnected"
               \/ /\ records'[u].status = records[u].status
                  /\ records'[u].size = records[u].size
  BY <1>1, ReaderMoves
<1>3. /\ clients' \in [CLIENTS -> Arkhipov!ClientType]
      /\ \A d \in CLIENTS :
           /\ clients'[d].thread = clients[d].thread /\ clients'[d].url = clients[d].url
           /\ clients'[d].send_size = clients[d].send_size
           /\ (clients'[d].writer = "none") = (clients[d].writer = "none")
           /\ clients'[d].writer = "waiting" => clients[d].writer = "waiting"
  <2>1. CASE clients' = Arkhipov!broadcast(u)  BY <1>1, <2>1, BroadcastMoves
  <2>2. CASE clients' = clients  BY <1>1, <2>2
  <2> QED  BY <1>2, <2>1, <2>2
<1>4. \/ servers'[u] = "disconnected"
      \/ records'[u].status = records[u].status /\ records'[u].size = records[u].size
      \/ \A d \in CLIENTS : clients'[d].writer = "waiting" => clients[d].url # u
  <2>1. CASE clients' = Arkhipov!broadcast(u)  BY <1>1, <2>1, BroadcastMoves
  <2> QED  BY <1>2, <2>1
<1>5. \A v \in URLS : v # u => records'[v] = records[v] /\ servers'[v] = servers[v]
  BY <1>1, <1>2
<1>6. Arkhipov!TypeOK'
  BY <1>1, <1>2, <1>3 DEF Arkhipov!TypeOK, Arkhipov!ReaderPCs
<1>7. \A d \in CLIENTS :
        clients'[d].thread \in {"create", "write"} \/ clients'[d].writer # "none"
        => /\ clients'[d].url \in URLS /\ records[clients'[d].url].status # "none"
           /\ clients'[d].thread = "create" => servers[clients'[d].url] = "none"
  BY <1>3 DEF Arkhipov!IInv, Arkhipov!WritersHaveItems, Arkhipov!OneCreator
<1>8. Arkhipov!OneCreator' /\ Arkhipov!WritersHaveItems'
  <2>1. ASSUME NEW d \in CLIENTS, clients'[d].thread = "create"
        PROVE  servers'[clients'[d].url] = "none"
    BY <1>2, <1>5, <1>7, <2>1
  <2>2. Arkhipov!OneCreator'
    BY <1>3, <2>1 DEF Arkhipov!IInv, Arkhipov!OneCreator
  <2>3. ASSUME NEW d \in CLIENTS,
               clients'[d].thread \in {"create", "write"} \/ clients'[d].writer # "none"
        PROVE  clients'[d].url \in URLS /\ records'[clients'[d].url].status # "none"
    BY <1>2, <1>5, <1>7, <2>3
  <2> QED  BY <1>3, <2>2, <2>3 DEF Arkhipov!IInv, Arkhipov!WritersHaveItems
<1>9. Arkhipov!StatusFollowsReader'
  BY <1>2, <1>5 DEF Arkhipov!IInv, Arkhipov!StatusFollowsReader
<1>10. Arkhipov!SleepsForContent'
  <2> SUFFICES ASSUME NEW d \in CLIENTS, clients'[d].writer = "waiting",
                      servers'[clients'[d].url] # "disconnected"
               PROVE  LET item == records'[clients'[d].url] IN
                      item.status # "error" /\ clients'[d].send_size >= item.size
    BY DEF Arkhipov!SleepsForContent
  <2>1. clients[d].url \in URLS
    BY <1>3 DEF Arkhipov!IInv, Arkhipov!WritersHaveItems
  <2>2. CASE clients[d].url = u
    BY <1>2, <1>3, <1>4, <2>1, <2>2 DEF Arkhipov!IInv, Arkhipov!SleepsForContent
  <2>3. CASE clients[d].url # u
    BY <1>3, <1>5, <2>1, <2>3 DEF Arkhipov!IInv, Arkhipov!SleepsForContent
  <2> QED  BY <2>2, <2>3
<1>11. Arkhipov!MapNotShared'
  BY <1>2, <1>3 DEF Arkhipov!IInv, Arkhipov!MapNotShared
<1> QED  BY <1>6, <1>8, <1>9, <1>10, <1>11 DEF Arkhipov!IInv

(* A RunClient thread begins an item that nobody has, and its Writer sleeps  *)
(* on nothing yet.                                                          *)
LEMMA ThreadIInv ==
  ASSUME CHUNKS \in Nat, Arkhipov!IInv, NEW c \in CLIENTS, ClientStep(c)
  PROVE  Arkhipov!IInv'
<1>1. Arkhipov!TypeOK /\ Arkhipov!WritersHaveItems
      /\ clients \in [CLIENTS -> Arkhipov!ClientType]
      /\ records \in [URLS -> Arkhipov!ItemType] /\ servers \in [URLS -> Arkhipov!ReaderPCs]
  BY DEF Arkhipov!IInv, Arkhipov!TypeOK
<1>2. /\ clients' = [clients EXCEPT ![c] = clients'[c]] /\ clients'[c] \in Arkhipov!ClientType
      /\ clients[c].writer = "none" /\ clients'[c].writer \in {"none", "check"}
      /\ UNCHANGED <<main, flag, bad>>
      /\ main \in {"freed", "exited"} => clients[c].thread # "none"
      /\ \/ /\ clients'[c].thread \in {"poll", "gone"} /\ UNCHANGED <<records, servers>>
            /\ clients'[c].url = clients[c].url /\ clients'[c].writer = "none"
            /\ clients[c].thread \in {"none", "poll"}
         \/ \E u \in URLS : Arkhipov!RunClientFinds(c, u)
         \/ Arkhipov!RunClientCreates(c)
         \/ /\ clients[c].thread = "write" /\ clients'[c].thread = "gone"
            /\ clients'[c].url = clients[c].url /\ UNCHANGED <<records, servers>>
  BY <1>1, ThreadMoves
<1>3. \A d \in CLIENTS : d # c => clients'[d] = clients[d]
  BY <1>1, <1>2
<1>4. Arkhipov!MapNotShared'
  <2>1. main \notin {"freed", "exited"}
    BY <1>2 DEF Arkhipov!IInv, Arkhipov!MapNotShared, Arkhipov!RunClientFinds,
       Arkhipov!RunClientCreates, Arkhipov!ThreadAt
  <2> QED  BY <1>2, <2>1 DEF Arkhipov!MapNotShared
<1>5. CASE UNCHANGED <<records, servers>> /\ clients'[c].url = clients[c].url
           /\ clients'[c].thread \in {"poll", "gone"}
           /\ clients[c].thread \in {"none", "poll"} /\ clients'[c].writer = "none"
  <2>1. Arkhipov!TypeOK'  BY <1>1, <1>2, <1>5 DEF Arkhipov!TypeOK
  <2>2. Arkhipov!OneCreator' /\ Arkhipov!StatusFollowsReader'
    BY <1>3, <1>5 DEF Arkhipov!IInv, Arkhipov!OneCreator, Arkhipov!StatusFollowsReader
  <2>3. Arkhipov!WritersHaveItems' /\ Arkhipov!SleepsForContent'
    BY <1>3, <1>5 DEF Arkhipov!IInv, Arkhipov!WritersHaveItems, Arkhipov!SleepsForContent
  <2> QED  BY <1>4, <2>1, <2>2, <2>3 DEF Arkhipov!IInv
<1>6. CASE UNCHANGED <<records, servers>> /\ clients'[c].url = clients[c].url
           /\ clients[c].thread = "write" /\ clients'[c].thread = "gone"
  <2>1. Arkhipov!TypeOK'  BY <1>1, <1>2, <1>6 DEF Arkhipov!TypeOK
  <2>2. Arkhipov!OneCreator'
    BY <1>3, <1>6 DEF Arkhipov!IInv, Arkhipov!OneCreator
  <2>3. Arkhipov!StatusFollowsReader'
    BY <1>6 DEF Arkhipov!IInv, Arkhipov!StatusFollowsReader
  <2>4. Arkhipov!WritersHaveItems' /\ Arkhipov!SleepsForContent'
    BY <1>2, <1>3, <1>6 DEF Arkhipov!IInv, Arkhipov!WritersHaveItems,
       Arkhipov!SleepsForContent
  <2> QED  BY <1>4, <2>1, <2>2, <2>3, <2>4 DEF Arkhipov!IInv
<1>7. ASSUME NEW u \in URLS, Arkhipov!RunClientFinds(c, u)
      PROVE  Arkhipov!IInv'
  <2> DEFINE new == records[u].status = "none"
  <2>1. /\ clients[c].thread = "poll" /\ servers' = servers
        /\ records' = IF new THEN [records EXCEPT ![u] = Arkhipov!InitCacheItem] ELSE records
        /\ clients'[c].thread = IF new THEN "create" ELSE "write"
        /\ clients'[c].url = u /\ clients'[c].writer = "none"
    <3>1. PICK l \in {"create", "write"} :
            /\ clients' = [clients EXCEPT ![c].url = u, ![c].thread = l]
            /\ l = IF new THEN "create" ELSE "write"
      BY <1>7 DEF Arkhipov!RunClientFinds
    <3>2. clients'[c] = [clients[c] EXCEPT !.url = u, !.thread = l]
      BY <1>1, <3>1
    <3>3. clients'[c].url = u /\ clients'[c].thread = l /\ clients'[c].writer = "none"
      BY <1>1, <1>2, <3>2 DEF Arkhipov!ClientType
    <3> QED  BY <1>7, <3>1, <3>3 DEF Arkhipov!RunClientFinds, Arkhipov!ThreadAt
  <2>2. Arkhipov!InitCacheItem \in Arkhipov!ItemType
    BY DEF Arkhipov!InitCacheItem, Arkhipov!ItemType
  <2>3. \A v \in URLS :
          /\ v # u \/ ~new => records'[v] = records[v]
          /\ v = u /\ new => records'[v].status = "init" /\ records'[v].size = 0
    BY <1>1, <2>1 DEF Arkhipov!InitCacheItem
  <2>4. Arkhipov!TypeOK'
    BY <1>1, <1>2, <2>1, <2>2 DEF Arkhipov!TypeOK
  <2>5. Arkhipov!StatusFollowsReader'
    <3>1. new => servers[u] = "none"  BY DEF Arkhipov!IInv, Arkhipov!StatusFollowsReader
    <3> HIDE DEF new
    <3>2. ASSUME NEW v \in URLS, v = u /\ new
          PROVE  records'[v].status = "init" /\ records'[v].size = 0 /\ servers'[v] = "none"
      BY <2>1, <2>3, <3>1, <3>2
    <3>3. ASSUME NEW v \in URLS, ~(v = u /\ new)
          PROVE  records'[v] = records[v] /\ servers'[v] = servers[v]
      BY <2>1, <2>3, <3>3
    <3> QED  BY <3>2, <3>3 DEF Arkhipov!IInv, Arkhipov!StatusFollowsReader
  <2>6. \A d \in CLIENTS : clients[d].thread \in {"create", "write"}
                           \/ clients[d].writer # "none"
                           => clients[d].url # u \/ ~new
    BY DEF Arkhipov!IInv, Arkhipov!WritersHaveItems
  <2>7. Arkhipov!WritersHaveItems'
    BY <1>3, <2>1, <2>3 DEF Arkhipov!IInv, Arkhipov!WritersHaveItems
  <2>8. Arkhipov!OneCreator'
    <3>1. new => servers[u] = "none"  BY DEF Arkhipov!IInv, Arkhipov!StatusFollowsReader
    <3> QED  BY <1>3, <2>1, <2>6, <3>1 DEF Arkhipov!IInv, Arkhipov!OneCreator
  <2>9. Arkhipov!SleepsForContent'
    <3>1. ASSUME NEW d \in CLIENTS, clients'[d].writer = "waiting"
          PROVE  d # c /\ clients[d].url \in URLS
                 /\ records'[clients[d].url] = records[clients[d].url]
      BY <1>3, <2>1, <2>3, <2>6, <3>1 DEF Arkhipov!IInv, Arkhipov!WritersHaveItems
    <3> QED  BY <1>3, <2>1, <3>1 DEF Arkhipov!IInv, Arkhipov!SleepsForContent
  <2> QED  BY <1>4, <2>4, <2>5, <2>7, <2>8, <2>9 DEF Arkhipov!IInv
<1>8. CASE Arkhipov!RunClientCreates(c)
  <2>1. PICK u \in URLS : u = clients[c].url
    BY <1>8 DEF Arkhipov!IInv, Arkhipov!WritersHaveItems, Arkhipov!RunClientCreates,
       Arkhipov!ThreadAt
  <2>2. PICK l \in {"connect", "disconnected"} : servers' = [servers EXCEPT ![u] = l]
    BY <1>8, <2>1 DEF Arkhipov!RunClientCreates
  <2>3. /\ clients[c].thread = "create" /\ clients'[c].thread = "write"
        /\ clients'[c].url = u /\ clients'[c].writer = "none"
        /\ records' = [records EXCEPT ![u].status = "in process"]
    <3>1. clients'[c] = [clients[c] EXCEPT !.thread = "write"]
      BY <1>1, <1>8 DEF Arkhipov!RunClientCreates
    <3>2. /\ clients'[c].thread = "write" /\ clients'[c].url = u
          /\ clients'[c].writer = "none"
      BY <1>1, <1>2, <2>1, <3>1 DEF Arkhipov!ClientType
    <3> QED  BY <1>8, <2>1, <3>2 DEF Arkhipov!RunClientCreates, Arkhipov!ThreadAt
  <2>4. servers[u] = "none" /\ records[u].size = 0 /\ records[u] \in Arkhipov!ItemType
    BY <1>1, <2>1, <2>3 DEF Arkhipov!IInv, Arkhipov!OneCreator, Arkhipov!StatusFollowsReader
  <2>5. /\ servers'[u] = l /\ records'[u] = [records[u] EXCEPT !.status = "in process"]
        /\ \A v \in URLS : v # u => servers'[v] = servers[v] /\ records'[v] = records[v]
    BY <1>1, <2>2, <2>3
  <2>6. records'[u] \in Arkhipov!ItemType /\ records'[u].status = "in process"
        /\ records'[u].size = 0
    BY <2>4, <2>5 DEF Arkhipov!ItemType
  <2>7. Arkhipov!TypeOK'
    BY <1>1, <1>2, <2>2, <2>3, <2>6 DEF Arkhipov!TypeOK, Arkhipov!ReaderPCs
  <2>8. Arkhipov!StatusFollowsReader'
    <3>1. servers'[u] \in {"connect", "disconnected"}  BY <2>5
    <3>2. \A v \in URLS : v # u => servers'[v] = servers[v] /\ records'[v] = records[v]
      BY <2>5
    <3> QED  BY <2>6, <3>1, <3>2 DEF Arkhipov!IInv, Arkhipov!StatusFollowsReader
  <2>9. Arkhipov!WritersHaveItems'
    <3>1. \A v \in URLS : records'[v].status = records[v].status \/ records'[v].status # "none"
      BY <2>5, <2>6
    <3>2. \A d \in CLIENTS : d # c => clients'[d] = clients[d]
      BY <1>3
    <3>3. records'[u].status # "none"
      BY <2>6
    <3> QED  BY <2>3, <3>1, <3>2, <3>3 DEF Arkhipov!IInv, Arkhipov!WritersHaveItems
  <2>10. Arkhipov!OneCreator'
    <3>1. ASSUME NEW d \in CLIENTS, clients'[d].thread = "create"
          PROVE  d # c /\ clients[d].url \in URLS /\ clients[d].url # u
      BY <1>3, <2>1, <2>3, <3>1 DEF Arkhipov!IInv, Arkhipov!OneCreator,
         Arkhipov!WritersHaveItems
    <3>2. ASSUME NEW d \in CLIENTS, clients'[d].thread = "create"
          PROVE  clients'[d] = clients[d] /\ servers'[clients'[d].url] = "none"
      <4>1. d # c /\ clients[d].url \in URLS /\ clients[d].url # u  BY <3>1, <3>2
      <4>2. clients'[d] = clients[d]  BY <1>3, <4>1
      <4>3. servers[clients[d].url] = "none"  BY <3>2, <4>2 DEF Arkhipov!IInv,
                                                 Arkhipov!OneCreator
      <4> QED  BY <2>5, <4>1, <4>2, <4>3
    <3> QED  BY <3>2 DEF Arkhipov!IInv, Arkhipov!OneCreator
  <2>11. Arkhipov!SleepsForContent'
    <3> SUFFICES ASSUME NEW d \in CLIENTS, clients'[d].writer = "waiting",
                        servers'[clients'[d].url] # "disconnected"
                 PROVE  LET item == records'[clients'[d].url] IN
                        item.status # "error" /\ clients'[d].send_size >= item.size
      BY DEF Arkhipov!SleepsForContent
    <3>1. d # c /\ clients'[d] = clients[d] /\ clients[d].url \in URLS
      BY <1>3, <2>3 DEF Arkhipov!IInv, Arkhipov!WritersHaveItems
    <3>2. clients[d].send_size >= 0
      BY <1>1 DEF Arkhipov!ClientType
    <3> QED  BY <2>5, <2>6, <3>1, <3>2 DEF Arkhipov!IInv, Arkhipov!SleepsForContent
  <2> QED  BY <1>4, <2>7, <2>8, <2>9, <2>10, <2>11 DEF Arkhipov!IInv
<1> QED  BY <1>2, <1>5, <1>6, <1>7, <1>8

LEMMA ArkhipovNext ==
  ASSUME CHUNKS \in Nat, Arkhipov!IInv, [Arkhipov!Next]_Arkhipov!vars
  PROVE  Arkhipov!IInv'
BY StepKinds, MainIInv, ThreadIInv, WriterIInv, ReaderIInv

-----------------------------------------------------------------------------
(***************************************************************************)
(* ThreadProxyMatsko, from an empty cache.                                 *)
(***************************************************************************)
MatskoP == INSTANCE ThreadProxyMatskoProofs WITH
  is_stop <- flag

(* Matsko and MatskoP instantiate one model in the same way: expanding the *)
(* definitions gives the same formulas.                                    *)
LEMMA MatskoConstants ==
  ASSUME Matsko!ProxyConstants
  PROVE  MatskoP!ProxyConstants
BY DEF Matsko!ProxyConstants, MatskoP!ProxyConstants, Matsko!IsFiniteSet,
       MatskoP!IsFiniteSet, Matsko!Nil, MatskoP!Nil

LEMMA MatskoSteps ==
  ASSUME [Matsko!Next]_Matsko!vars
  PROVE  [MatskoP!Next]_MatskoP!vars
BY DEF Matsko!Next, MatskoP!Next, Matsko!Environment, MatskoP!Environment,
       Matsko!acceptNewClient, MatskoP!acceptNewClient, Matsko!At, MatskoP!At,
       Matsko!disconnectClient, MatskoP!disconnectClient, Matsko!readFromServer,
       MatskoP!readFromServer, Matsko!ServerAt, MatskoP!ServerAt, Matsko!Touch,
       MatskoP!Touch, Matsko!Freed, MatskoP!Freed, Matsko!Nil, MatskoP!Nil,
       Matsko!readRequest, MatskoP!readRequest, Matsko!serverCloses, MatskoP!serverCloses,
       Matsko!sigCatch, MatskoP!sigCatch, Matsko!Threads, MatskoP!Threads,
       Matsko!ClientThread, MatskoP!ClientThread, Matsko!addRecord, MatskoP!addRecord,
       Matsko!initEmptyCacheRecord, MatskoP!initEmptyCacheRecord, Matsko!NoUrl,
       MatskoP!NoUrl, Matsko!attach, MatskoP!attach, Matsko!Loop, MatskoP!Loop,
       Matsko!checkResponse, MatskoP!checkResponse, Matsko!clientExits, MatskoP!clientExits,
       Matsko!newClient, MatskoP!newClient, Matsko!clientStops, MatskoP!clientStops,
       Matsko!clientThread, MatskoP!clientThread, Matsko!compareIndex, MatskoP!compareIndex,
       Matsko!connectToServerHost, MatskoP!connectToServerHost, Matsko!freeCacheRecord,
       MatskoP!freeCacheRecord, Matsko!lockList, MatskoP!lockList, Matsko!readToken,
       MatskoP!readToken, Matsko!visitFound, MatskoP!visitFound, Matsko!visitInvalid,
       MatskoP!visitInvalid, Matsko!visitOther, MatskoP!visitOther, Matsko!writeToClient,
       MatskoP!writeToClient, Matsko!ServerThread, MatskoP!ServerThread, Matsko!announce,
       MatskoP!announce, Matsko!notifySubscribers, MatskoP!notifySubscribers,
       Matsko!Subscribed, MatskoP!Subscribed, Matsko!serverExits, MatskoP!serverExits,
       Matsko!serverStops, MatskoP!serverStops, Matsko!serverThread, MatskoP!serverThread,
       Matsko!writeToServer, MatskoP!writeToServer, Matsko!cleanUp, MatskoP!cleanUp,
       Matsko!Dangling, MatskoP!Dangling, Matsko!cleanUpNotify, MatskoP!cleanUpNotify,
       Matsko!vars, MatskoP!vars

LEMMA MatskoInvariants == (Matsko!IInv <=> MatskoP!IInv) /\ (Matsko!IInv' <=> MatskoP!IInv')
BY DEF Matsko!IInv, MatskoP!IInv, Matsko!Alloc, MatskoP!Alloc, Matsko!ClientOK,
       MatskoP!ClientOK, Matsko!Nil, MatskoP!Nil, Matsko!ListOK, MatskoP!ListOK,
       Matsko!InUse, MatskoP!InUse, Matsko!OneConnector, MatskoP!OneConnector,
       Matsko!OneRecordPerUrl, MatskoP!OneRecordPerUrl, Matsko!RecordOK, MatskoP!RecordOK,
       Matsko!initEmptyCacheRecord, MatskoP!initEmptyCacheRecord, Matsko!NoUrl,
       MatskoP!NoUrl, Matsko!Stopped, MatskoP!Stopped, Matsko!SubsCounted,
       MatskoP!SubsCounted, Matsko!Cardinality, MatskoP!Cardinality, Matsko!Subscribers,
       MatskoP!Subscribers, Matsko!ThreadsCounted, MatskoP!ThreadsCounted, Matsko!AtWork,
       MatskoP!AtWork, Matsko!Serving, MatskoP!Serving, Matsko!TokensOwed,
       MatskoP!TokensOwed, Matsko!IsFiniteSet, MatskoP!IsFiniteSet, Matsko!Owed,
       MatskoP!Owed, Matsko!Told, MatskoP!Told, Matsko!TypeOK, MatskoP!TypeOK,
       Matsko!ClientType, MatskoP!ClientType, Matsko!RecordType, MatskoP!RecordType,
       Matsko!ServerPCs, MatskoP!ServerPCs, Matsko!WalkOK, MatskoP!WalkOK

LEMMA MatskoNext ==
  ASSUME Matsko!ProxyConstants, Matsko!IInv, [Matsko!Next]_Matsko!vars
  PROVE  Matsko!IInv'
BY MatskoConstants, MatskoSteps, MatskoInvariants, MatskoP!NextIInv

(* What follows from the inductive invariant. *)
LEMMA MatskoSafe ==
  ASSUME Matsko!ProxyConstants, Matsko!IInv
  PROVE  Matsko!FullIsKept /\ Matsko!AsleepHasReason /\ Matsko!DestroyedAlone
<1>1. Matsko!FullIsKept
  BY DEF Matsko!IInv, Matsko!RecordOK, Matsko!FullIsKept
<1>2. Matsko!AsleepHasReason
  <2>1. MatskoP!AsleepHasReason
    BY MatskoConstants, MatskoInvariants, MatskoP!AwakeOrReason
  <2> QED  BY <2>1 DEF Matsko!AsleepHasReason, MatskoP!AsleepHasReason, Matsko!Nil, MatskoP!Nil
<1>3. Matsko!DestroyedAlone
  BY DEF Matsko!IInv, Matsko!Stopped, Matsko!DestroyedAlone
<1> QED  BY <1>1, <1>2, <1>3

LEMMA MatskoInit ==
  ASSUME Matsko!ProxyConstants, Matsko!Init
  PROVE  Matsko!IInv
<1>1. MatskoP!Init
  BY DEF Matsko!Init, MatskoP!Init, Matsko!Nil, MatskoP!Nil, Matsko!initEmptyCacheRecord,
         MatskoP!initEmptyCacheRecord, Matsko!NoUrl, MatskoP!NoUrl, Matsko!newClient,
         MatskoP!newClient
<1> QED  BY <1>1, MatskoConstants, MatskoInvariants, MatskoP!InitIInv

-----------------------------------------------------------------------------
(***************************************************************************)
(* ThreadProxyMatsko, from a cache with a complete response.               *)
(***************************************************************************)
CachedP == INSTANCE ThreadProxyMatskoProofs WITH
  CLIENTS <- CLIENTS \cup {FORMER}, URLS <- CACHED_URLS,
  RECORDS <- RECORDS \cup {SERVED}, CHUNKS <- 1, FAULTS <- {},
  is_stop <- flag

(* So do Cached and CachedP.                                               *)
LEMMA CachedConstants ==
  ASSUME Cached!ProxyConstants
  PROVE  CachedP!ProxyConstants
BY DEF Cached!ProxyConstants, CachedP!ProxyConstants, Cached!IsFiniteSet,
       CachedP!IsFiniteSet, Cached!Nil, CachedP!Nil

LEMMA CachedSteps ==
  ASSUME [Cached!Next]_Cached!vars
  PROVE  [CachedP!Next]_CachedP!vars
BY DEF Cached!Next, CachedP!Next, Cached!Environment, CachedP!Environment,
       Cached!acceptNewClient, CachedP!acceptNewClient, Cached!At, CachedP!At,
       Cached!disconnectClient, CachedP!disconnectClient, Cached!readFromServer,
       CachedP!readFromServer, Cached!ServerAt, CachedP!ServerAt, Cached!Touch,
       CachedP!Touch, Cached!Freed, CachedP!Freed, Cached!Nil, CachedP!Nil,
       Cached!readRequest, CachedP!readRequest, Cached!serverCloses, CachedP!serverCloses,
       Cached!sigCatch, CachedP!sigCatch, Cached!Threads, CachedP!Threads,
       Cached!ClientThread, CachedP!ClientThread, Cached!addRecord, CachedP!addRecord,
       Cached!initEmptyCacheRecord, CachedP!initEmptyCacheRecord, Cached!NoUrl,
       CachedP!NoUrl, Cached!attach, CachedP!attach, Cached!Loop, CachedP!Loop,
       Cached!checkResponse, CachedP!checkResponse, Cached!clientExits, CachedP!clientExits,
       Cached!newClient, CachedP!newClient, Cached!clientStops, CachedP!clientStops,
       Cached!clientThread, CachedP!clientThread, Cached!compareIndex, CachedP!compareIndex,
       Cached!connectToServerHost, CachedP!connectToServerHost, Cached!freeCacheRecord,
       CachedP!freeCacheRecord, Cached!lockList, CachedP!lockList, Cached!readToken,
       CachedP!readToken, Cached!visitFound, CachedP!visitFound, Cached!visitInvalid,
       CachedP!visitInvalid, Cached!visitOther, CachedP!visitOther, Cached!writeToClient,
       CachedP!writeToClient, Cached!ServerThread, CachedP!ServerThread, Cached!announce,
       CachedP!announce, Cached!notifySubscribers, CachedP!notifySubscribers,
       Cached!Subscribed, CachedP!Subscribed, Cached!serverExits, CachedP!serverExits,
       Cached!serverStops, CachedP!serverStops, Cached!serverThread, CachedP!serverThread,
       Cached!writeToServer, CachedP!writeToServer, Cached!cleanUp, CachedP!cleanUp,
       Cached!Dangling, CachedP!Dangling, Cached!cleanUpNotify, CachedP!cleanUpNotify,
       Cached!vars, CachedP!vars

LEMMA CachedInvariants == (Cached!IInv <=> CachedP!IInv) /\ (Cached!IInv' <=> CachedP!IInv')
BY DEF Cached!IInv, CachedP!IInv, Cached!Alloc, CachedP!Alloc, Cached!ClientOK,
       CachedP!ClientOK, Cached!Nil, CachedP!Nil, Cached!ListOK, CachedP!ListOK,
       Cached!InUse, CachedP!InUse, Cached!OneConnector, CachedP!OneConnector,
       Cached!OneRecordPerUrl, CachedP!OneRecordPerUrl, Cached!RecordOK, CachedP!RecordOK,
       Cached!initEmptyCacheRecord, CachedP!initEmptyCacheRecord, Cached!NoUrl,
       CachedP!NoUrl, Cached!Stopped, CachedP!Stopped, Cached!SubsCounted,
       CachedP!SubsCounted, Cached!Cardinality, CachedP!Cardinality, Cached!Subscribers,
       CachedP!Subscribers, Cached!ThreadsCounted, CachedP!ThreadsCounted, Cached!AtWork,
       CachedP!AtWork, Cached!Serving, CachedP!Serving, Cached!TokensOwed,
       CachedP!TokensOwed, Cached!IsFiniteSet, CachedP!IsFiniteSet, Cached!Owed,
       CachedP!Owed, Cached!Told, CachedP!Told, Cached!TypeOK, CachedP!TypeOK,
       Cached!ClientType, CachedP!ClientType, Cached!RecordType, CachedP!RecordType,
       Cached!ServerPCs, CachedP!ServerPCs, Cached!WalkOK, CachedP!WalkOK

LEMMA CachedNext ==
  ASSUME Cached!ProxyConstants, Cached!IInv, [Cached!Next]_Cached!vars
  PROVE  Cached!IInv'
BY CachedConstants, CachedSteps, CachedInvariants, CachedP!NextIInv

(* What follows from the inductive invariant. *)
LEMMA CachedSafe ==
  ASSUME Cached!ProxyConstants, Cached!IInv
  PROVE  Cached!FullIsKept /\ Cached!AsleepHasReason /\ Cached!DestroyedAlone
<1>1. Cached!FullIsKept
  BY DEF Cached!IInv, Cached!RecordOK, Cached!FullIsKept
<1>2. Cached!AsleepHasReason
  <2>1. CachedP!AsleepHasReason
    BY CachedConstants, CachedInvariants, CachedP!AwakeOrReason
  <2> QED  BY <2>1 DEF Cached!AsleepHasReason, CachedP!AsleepHasReason, Cached!Nil, CachedP!Nil
<1>3. Cached!DestroyedAlone
  BY DEF Cached!IInv, Cached!Stopped, Cached!DestroyedAlone
<1> QED  BY <1>1, <1>2, <1>3

LEMMA CachedNames ==
  /\ Cached!ProxyConstants
  /\ Cardinality(CLIENTS \cup {FORMER}) \in Nat /\ Cardinality(CLIENTS \cup {FORMER}) > 0
  /\ \A T : Cached!Cardinality(T) = Cardinality(T)
     /\ (Cached!IsFiniteSet(T) <=> IsFiniteSet(T))
  /\ CHUNKS \in Nat
<1>1. \A T : Cached!Cardinality(T) = Cardinality(T)
      /\ (Cached!IsFiniteSet(T) <=> IsFiniteSet(T))
  BY DEF Cached!Cardinality, Cardinality, Cached!IsFiniteSet, IsFiniteSet
<1>2. /\ IsFiniteSet(CLIENTS) /\ IsFiniteSet(RECORDS) /\ 0 \notin CLIENTS
      /\ RECORDS \subseteq Nat \ {0} /\ CHUNKS \in Nat
  BY ThreadConstants DEF Matsko!ProxyConstants, Matsko!Nil, Matsko!IsFiniteSet, IsFiniteSet
<1>3. IsFiniteSet(CLIENTS \cup {FORMER}) /\ IsFiniteSet(RECORDS \cup {SERVED})
  BY <1>2, FS_AddElement
<1>4. Cardinality(CLIENTS \cup {FORMER}) \in Nat /\ Cardinality(CLIENTS \cup {FORMER}) > 0
  <2>1. CLIENTS \cup {FORMER} # {}
    OBVIOUS
  <2> QED  BY <1>3, <2>1, FS_CardinalityType, FS_EmptySet
<1>5. Cached!ProxyConstants
  BY <1>1, <1>2, <1>3, ThreadConstants DEF Cached!ProxyConstants, Cached!Nil
<1> QED  BY <1>1, <1>2, <1>4, <1>5

(* A cache that has served FORMER satisfies the inductive invariant.       *)
LEMMA CachedInitIInv ==
  ASSUME CachedInit
  PROVE  Cached!IInv
<1> DEFINE C == CLIENTS \cup {FORMER}
           R == RECORDS \cup {SERVED}
<1>1. /\ main = "poll" /\ flag = FALSE /\ num_threads = 0 /\ stop_bytes = 0
      /\ head = SERVED /\ list_mutex = 0 /\ bad = FALSE
  BY DEF CachedInit, Cached!Nil
<1>3. /\ SERVED \in Nat \ {0} /\ R \subseteq Nat \ {0} /\ 0 \notin C
      /\ \A r \in RECORDS : SERVED < r
      /\ SERVED \notin RECORDS /\ FORMER \notin CLIENTS
  <2>1. Matsko!Nil \notin CLIENTS /\ RECORDS \subseteq Nat \ {0}
    BY ThreadConstants, Zenon DEF Matsko!ProxyConstants
  <2>2. /\ SERVED \in Nat \ {0} /\ \A r \in RECORDS : SERVED < r
        /\ FORMER \notin CLIENTS \cup {0}
    BY ThreadConstants, Zenon
  <2>3. SERVED \notin RECORDS
    BY <2>2
  <2>4. R \subseteq Nat \ {0}
    BY <2>1, <2>2
  <2> QED  BY <2>1, <2>2, <2>3, <2>4 DEF Matsko!Nil
<1>2. /\ \A r \in RECORDS : records[r] = Cached!initEmptyCacheRecord /\ servers[r] = "none"
      /\ records[SERVED] = served /\ servers[SERVED] = "gone"
      /\ \A c \in CLIENTS : clients[c] = Cached!newClient
      /\ clients[FORMER] = [Cached!newClient EXCEPT !.pc = "gone"]
      /\ SERVED \notin RECORDS /\ FORMER \notin CLIENTS
  BY <1>3, Zenon DEF CachedInit
<1>4. \A r \in RECORDS :
        /\ records[r].mem = "none" /\ records[r].next = 0 /\ records[r].response_index = 0
        /\ ~records[r].full /\ records[r].server_alive /\ records[r].subs = 0
        /\ records[r].tokens = 0
  BY <1>2 DEF Cached!initEmptyCacheRecord, Cached!Nil
<1>5. /\ served.mem = "live" /\ served.next = 0 /\ served.url = SERVED_URL
      /\ served.response_index = 1 /\ served.full = TRUE /\ served.server_alive = FALSE
      /\ served.subs = 1 /\ served.tokens = 0
  BY DEF served, Cached!initEmptyCacheRecord, Cached!Nil
<1>6. \A c \in C :
        /\ clients[c].pc \in {"none", "gone"} /\ clients[c].record = 0
        /\ clients[c].at = 0 /\ clients[c].prev = 0 /\ ~clients[c].events
        /\ clients[c].write_response_index = 0 /\ clients[c].due = 0 /\ ~clients[c].late
  BY <1>2 DEF Cached!newClient, Cached!Nil
<1>7. Cached!TypeOK
  <2>1. Cached!initEmptyCacheRecord \in Cached!RecordType
    BY CachedNames DEF Cached!initEmptyCacheRecord, Cached!RecordType
  <2>2. served \in Cached!RecordType
    <3>1. 1 \in 0 .. Cached!Cardinality(C)
      BY CachedNames
    <3>2. SERVED_URL \in CACHED_URLS
      BY ThreadConstants
    <3> DEFINE T == Cached!RecordType
               e == Cached!initEmptyCacheRecord
               a == [e EXCEPT !.mem = "live", !.url = SERVED_URL, !.full = TRUE]
    <3>3. a \in T
      BY <2>1, <3>2 DEF Cached!RecordType
    <3> DEFINE b == [a EXCEPT !.response_index = 1, !.server_alive = FALSE]
    <3> HIDE DEF a
    <3>4. b \in T
      <4>1. PICK k \in 0 .. 1 : k = 1
        OBVIOUS
      <4>2. [a EXCEPT !.response_index = k, !.server_alive = FALSE] \in T
        BY <3>3, Zenon DEF Cached!RecordType
      <4> QED  BY <4>1, <4>2
    <3>5. served = [b EXCEPT !.subs = 1]
      BY <2>1 DEF served, a, Cached!RecordType
    <3> HIDE DEF b
    <3>6. PICK k \in 0 .. Cached!Cardinality(C) : k = 1
      BY <3>1
    <3>7. [b EXCEPT !.subs = k] \in T
      BY <3>4, Zenon DEF Cached!RecordType
    <3> QED  BY <3>5, <3>6, <3>7
  <2>3. /\ Cached!newClient \in Cached!ClientType
        /\ [Cached!newClient EXCEPT !.pc = "gone"] \in Cached!ClientType
    <3>1. Cached!newClient \in Cached!ClientType
      BY DEF Cached!newClient, Cached!ClientType
    <3> QED  BY <3>1 DEF Cached!ClientType
  <2>4. /\ records \in [R -> Cached!RecordType]
        /\ clients \in [C -> Cached!ClientType]
        /\ servers \in [R -> Cached!ServerPCs]
    BY <2>1, <2>2, <2>3 DEF CachedInit, Cached!ServerPCs
  <2> QED  BY <1>1, <2>4 DEF Cached!TypeOK, Cached!Nil
<1>8. Cached!ThreadsCounted
  <2>1. Cached!AtWork = {}
    BY <1>6 DEF Cached!AtWork
  <2>2. Cached!Serving = {}
    BY <1>2 DEF Cached!Serving
  <2> QED  BY <1>1, <2>1, <2>2, CachedNames, FS_EmptySet DEF Cached!ThreadsCounted
<1>9. Cached!Stopped
  BY <1>1 DEF Cached!Stopped
<1>10. ASSUME NEW c \in C
       PROVE  Cached!ClientOK(c) /\ Cached!Told(c) /\ Cached!WalkOK(c)
  <2>1. list_mutex # c
    BY <1>1, <1>3
  <2>2. Cached!ClientOK(c)
    BY <1>6, <2>1 DEF Cached!ClientOK, Cached!Nil
  <2>3. Cached!Told(c)
    BY <1>6 DEF Cached!Told
  <2>4. Cached!WalkOK(c)
    BY <1>6 DEF Cached!WalkOK, Cached!Nil
  <2> QED  BY <2>2, <2>3, <2>4
<1>11. ASSUME NEW r \in R
       PROVE  Cached!RecordOK(r)
  <2>1. CASE r = SERVED
    BY <1>2, <1>5, <2>1 DEF Cached!RecordOK
  <2>2. CASE r \in RECORDS
    BY <1>1, <1>2, <1>4, <2>2 DEF Cached!RecordOK
  <2> QED  BY <2>1, <2>2
<1>12. Cached!OneConnector
  BY <1>6 DEF Cached!OneConnector
<1>13. \A r \in R : records[r].mem # "none" <=> r = SERVED
  BY <1>2, <1>4, <1>5
<1>14. Cached!Alloc /\ Cached!OneRecordPerUrl
  <2>1. ASSUME NEW q \in R, NEW r \in R, q < r, records[r].mem # "none"
        PROVE  FALSE
    <3>1. r = SERVED
      BY <1>13, <2>1
    <3> QED  BY <1>3, <2>1, <3>1
  <2> QED  BY <1>13, <2>1 DEF Cached!Alloc, Cached!OneRecordPerUrl
<1>15. Cached!ListOK
  <2>1. \A r \in R : Cached!InUse(r) => r = SERVED
    BY <1>13 DEF Cached!InUse
  <2>2. records[SERVED].next = 0 /\ ~(SERVED < SERVED) /\ SERVED <= SERVED
    BY <1>2, <1>3, <1>5
  <2> QED  BY <1>1, <1>3, <2>1, <2>2 DEF Cached!ListOK, Cached!Nil
<1>16. Cached!SubsCounted /\ Cached!TokensOwed
  <2>1. ASSUME NEW r \in R
        PROVE  Cached!Subscribers(r) = {} /\ Cached!Owed(r) = {}
    <3>1. Cached!Subscribers(r) = {}
      BY <1>3, <1>6 DEF Cached!Subscribers
    <3> QED  BY <3>1 DEF Cached!Owed
  <2>2. {c \in C : clients[c].pc = "gone"} = {FORMER}
    <3>1. \A c \in CLIENTS : clients[c].pc = "none"
      BY <1>2 DEF Cached!newClient
    <3>2. clients[FORMER].pc = "gone"
      BY <1>2 DEF Cached!newClient
    <3> QED  BY <3>1, <3>2
  <2>3. Cardinality({FORMER}) = 1 /\ Cardinality({}) = 0 /\ IsFiniteSet({})
    BY FS_Singleton, FS_EmptySet
  <2>4. \A r \in R : records[r].subs \in {0, 1} /\ records[r].tokens = 0
                     /\ (records[r].mem = "live" => records[r].subs = 1)
    BY <1>2, <1>4, <1>5
  <2>5. Cached!SubsCounted
    <3> SUFFICES ASSUME NEW r \in R
                 PROVE  /\ records[r].mem = "live"
                           => Cached!Cardinality(Cached!Subscribers(r)) <= records[r].subs
                        /\ records[r].subs <=
                             Cached!Cardinality({c \in C : clients[c].pc = "gone"}
                                                  \cup Cached!Subscribers(r))
      BY DEF Cached!SubsCounted
    <3>1. {c \in C : clients[c].pc = "gone"} \cup Cached!Subscribers(r) = {FORMER}
      BY <2>1, <2>2
    <3>2. Cached!Cardinality(Cached!Subscribers(r)) = 0 /\ Cached!Cardinality({FORMER}) = 1
      BY <2>1, <2>3, CachedNames, Zenon
    <3> HIDE DEF C, R
    <3>3. records[r].mem = "live" => records[r].subs = 1
      BY <2>4
    <3>4. records[r].subs \in {0, 1}
      BY <2>4
    <3>5. Cached!Cardinality({c \in C : clients[c].pc = "gone"} \cup Cached!Subscribers(r)) = 1
      BY <3>1, <3>2, Zenon
    <3> DEFINE m == Cached!Cardinality(Cached!Subscribers(r))
               n == Cached!Cardinality({c \in C : clients[c].pc = "gone"}
                                         \cup Cached!Subscribers(r))
    <3>6. m = 0 /\ n = 1
      BY <3>2, <3>5, Zenon
    <3> HIDE DEF m, n
    <3>7. (records[r].mem = "live" => m <= records[r].subs) /\ records[r].subs <= n
      BY <3>3, <3>4, <3>6
    <3> QED  BY <3>7, Zenon DEF m, n
  <2>6. ASSUME NEW r \in R
        PROVE  /\ Cached!IsFiniteSet(Cached!Owed(r))
               /\ Cached!Cardinality(Cached!Owed(r)) <= records[r].tokens
    <3>1. Cached!Cardinality(Cached!Owed(r)) = 0 /\ Cached!IsFiniteSet(Cached!Owed(r))
      BY <2>1, <2>3, CachedNames, Zenon
    <3>2. records[r].tokens = 0
      BY <2>4
    <3> QED  BY <3>1, <3>2
  <2> QED  BY <2>5, <2>6 DEF Cached!TokensOwed
<1> QED  BY <1>1, <1>7, <1>8, <1>9, <1>10, <1>11, <1>12, <1>14, <1>15, <1>16 DEF Cached!IInv

-----------------------------------------------------------------------------
(***************************************************************************)
(* The theorems.                                                           *)
(***************************************************************************)
LEMMA InitSound ==
  ASSUME Init
  PROVE  RecordsSound
<1>1. CASE program = "matsko" /\ Matsko!Init
  BY <1>1, ThreadConstants, MatskoInit, MatskoSafe DEF RecordsSound
<1>2. CASE program = "matsko cached" /\ CachedInit
  BY <1>2, CachedNames, CachedInitIInv, CachedSafe DEF RecordsSound
<1>3. CASE program = "arkhipov" /\ Arkhipov!Init
  BY <1>3, CachedNames, ArkhipovInit DEF RecordsSound
<1> QED  BY <1>1, <1>2, <1>3 DEF Init

LEMMA NextSound ==
  ASSUME RecordsSound, [Next]_vars
  PROVE  RecordsSound'
<1>1. CASE program = "matsko" /\ program' = "matsko"
  <2>1. Matsko!IInv /\ [Matsko!Next]_Matsko!vars
    BY <1>1 DEF RecordsSound, Next, Environment, Threads, vars, Matsko!Next, Matsko!vars
  <2>2. Matsko!IInv'
    BY <2>1, ThreadConstants, MatskoNext
  <2>3. Matsko!FullIsKept'
    BY <2>2 DEF Matsko!IInv, Matsko!RecordOK, Matsko!FullIsKept
  <2> QED  BY <1>1, <2>2, <2>3 DEF RecordsSound
<1>2. CASE program = "matsko cached" /\ program' = "matsko cached"
  <2>1. Cached!IInv /\ [Cached!Next]_Cached!vars
    BY <1>2 DEF RecordsSound, Next, Environment, Threads, vars, Cached!Next, Cached!vars
  <2>2. Cached!IInv'
    BY <2>1, CachedNames, CachedNext
  <2>3. Cached!FullIsKept'
    BY <2>2 DEF Cached!IInv, Cached!RecordOK, Cached!FullIsKept
  <2> QED  BY <1>2, <2>2, <2>3 DEF RecordsSound
<1>3. CASE program = "arkhipov" /\ program' = "arkhipov"
  <2>1. Arkhipov!IInv /\ [Arkhipov!Next]_Arkhipov!vars
    BY <1>3 DEF RecordsSound, Next, Environment, Threads, vars, Arkhipov!Next, Arkhipov!vars
  <2>2. Arkhipov!IInv'
    BY <2>1, CachedNames, ArkhipovNext
  <2> QED  BY <1>3, <2>2 DEF RecordsSound
<1>4. program' = program
  BY DEF Next, Environment, Threads, vars
<1>5. CASE program \notin Programs
  BY <1>4, <1>5 DEF RecordsSound, Programs
<1> QED  BY <1>1, <1>2, <1>3, <1>4, <1>5 DEF Programs

\* In every state that a proxy reaches, from an empty cache or from one that holds
\* a response: no two live records have one URL, although the walks release the
\* mutex between two nodes (findAndAddCacheRecord); a complete response is not
\* freed as one whose server broke off (writeToClient); an item of the map has one
\* creator, and its status follows the Reader that this thread starts (RunClient).
THEOREM RecordsStaySound == Spec => []RecordsSound
<1>1. Init => RecordsSound
  BY InitSound
<1>2. RecordsSound /\ [Next]_vars => RecordsSound'
  BY NextSound
<1> QED  BY <1>1, <1>2, PTL DEF Spec

\* Nobody sleeps past an announcement: a client with unread data subscribed after
\* it had been announced, or a token of the shared eventfd was taken by a client
\* it was not for (notifySubscribers itself loses nobody); a Writer sleeps only
\* while size and status of its item are what WaitContent has tested, unless
\* DisconnectReader gave the item up without a broadcast.
THEOREM WakeUpsNotLost == Spec => []SleepsForReason
<1>1. RecordsSound => SleepsForReason
  <2>1. Matsko!IInv => Matsko!AsleepHasReason
    BY ThreadConstants, MatskoSafe
  <2>2. Cached!IInv => Cached!AsleepHasReason
    BY CachedNames, CachedSafe
  <2>3. Arkhipov!IInv => Arkhipov!SleepsForContent
    BY DEF Arkhipov!IInv
  <2> QED  BY <2>1, <2>2, <2>3 DEF RecordsSound, SleepsForReason
<1> QED  BY <1>1, RecordsStaySound, PTL

\* Nobody is between two accesses to the cache when it is destroyed: the threads
\* that cleanUp does not wait for had not counted themselves and find is_stop set;
\* RunServer has joined every thread that inserts into the map.
THEOREM CachesDestroyedAlone == Spec => []DestroyedAlone
<1>1. RecordsSound => DestroyedAlone
  <2>1. Matsko!IInv => Matsko!DestroyedAlone
    BY ThreadConstants, MatskoSafe
  <2>2. Cached!IInv => Cached!DestroyedAlone
    BY CachedNames, CachedSafe
  <2>3. Arkhipov!IInv => Arkhipov!MapNotShared
    BY DEF Arkhipov!IInv
  <2> QED  BY <2>1, <2>2, <2>3 DEF RecordsSound, DestroyedAlone
<1> QED  BY <1>1, RecordsStaySound, PTL
=============================================================================
