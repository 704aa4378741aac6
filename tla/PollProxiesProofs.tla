------------------------- MODULE PollProxiesProofs -------------------------
(***************************************************************************)
(* Safety of the three poll proxies for any tables, URLs and lengths that  *)
(* the assumptions of PollProxies allow.                                   *)
(*                                                                         *)
(* Each handler turns tables into tables by a chain of functions.  For     *)
(* each program MInv, RInv or SInv says of any triple of tables what the   *)
(* inductive invariant says of the variables; a lemma per function says    *)
(* which tables it makes and that they satisfy it, or what is missing      *)
(* until the next function; a lemma per handler puts them together.        *)
(* MTb, RTb and STb build the record of tables that the handlers pass on.  *)
(***************************************************************************)
EXTENDS PollProxies, FiniteSetTheorems, WellFoundedInduction, TLAPS

(* The indices are numbers, and NONE is none of them. *)
LEMMA Indices ==
  /\ CLIENTS \subseteq Nat /\ RECORDS \subseteq Nat /\ SERVERS \subseteq Nat
  /\ HOSTS \subseteq Nat /\ READERS \subseteq Nat /\ NODES \subseteq Nat
  /\ CHUNKS \in Nat
BY Zenon, TableConstants

LEMMA MNone ==
  /\ Matsko!NONE \notin CLIENTS /\ Matsko!NONE \notin RECORDS /\ Matsko!NONE \notin SERVERS
  /\ Matsko!NONE \in Int /\ Matsko!NONE < 0 /\ Matsko!NoUrl \notin URLS
<1>1. Matsko!NoUrl \notin URLS
  BY Zenon, TableConstants DEF Matsko!NoUrl
<1>2. Matsko!NONE = -1
  BY DEF Matsko!NONE
<1> QED  BY <1>1, <1>2, Indices

LEMMA MEmpty ==
  /\ Matsko!initEmptyClient \in Matsko!Client
  /\ ~Matsko!initEmptyClient.fd /\ Matsko!initEmptyClient.cache_index = Matsko!NONE
  /\ Matsko!initEmptyClient.sent = Matsko!NONE /\ ~Matsko!initEmptyClient.out /\ Matsko!initEmptyClient.url = Matsko!NoUrl
  /\ Matsko!initEmptyServer \in Matsko!Server
  /\ ~Matsko!initEmptyServer.fd /\ Matsko!initEmptyServer.cache_index = Matsko!NONE
  /\ ~Matsko!initEmptyServer.out
BY DEF Matsko!initEmptyClient, Matsko!initEmptyServer, Matsko!Client, Matsko!Server

LEMMA MEmptyR ==
  /\ Matsko!initEmptyCache \in Matsko!Record
  /\ Matsko!initEmptyCache.valid = FALSE
  /\ Matsko!initEmptyCache.url = Matsko!NoUrl
  /\ Matsko!initEmptyCache.response_index = 0
  /\ Matsko!initEmptyCache.full = FALSE
  /\ Matsko!initEmptyCache.private = TRUE
  /\ Matsko!initEmptyCache.subscribers = {}
  /\ Matsko!initEmptyCache.server_index = Matsko!NONE
<1>1. PICK n \in 0 .. CHUNKS : n = 0
  BY Indices
<1>2. Matsko!initEmptyCache =
        [valid |-> FALSE, url |-> Matsko!NoUrl, response_index |-> n, full |-> FALSE,
         private |-> TRUE, subscribers |-> {}, server_index |-> Matsko!NONE]
  BY <1>1, Zenon DEF Matsko!initEmptyCache
<1> QED  BY <1>1, <1>2 DEF Matsko!Record

MTb(x, y, z) == [clients |-> x, servers |-> y, cache |-> z]

MNotified(x, S) ==
  [c \in CLIENTS |-> IF c \in S THEN Matsko!notified(x[c]) ELSE x[c]]

LEMMA MNotifiedClient ==
  ASSUME NEW r \in Matsko!Client
  PROVE  LET q == Matsko!notified(r)
         IN  /\ q \in Matsko!Client
             /\ q.fd = r.fd /\ q.cache_index = r.cache_index /\ q.url = r.url
             /\ q.out = (r.out \/ r.fd)
             /\ q.sent = IF r.sent < 0 THEN 0 ELSE r.sent
<1> DEFINE q == Matsko!notified(r)
<1>1. PICK n \in {Matsko!NONE} \cup 0 .. CHUNKS : n = IF r.sent < 0 THEN 0 ELSE r.sent
  BY Indices, MNone DEF Matsko!Client
<1>2. PICK o \in BOOLEAN : o = (r.out \/ r.fd)
  OBVIOUS
<1>3. q = [r EXCEPT !.out = o, !.sent = n]
  BY <1>1, <1>2, Zenon DEF Matsko!notified
<1> HIDE DEF q
<1>4. q \in Matsko!Client /\ q.fd = r.fd /\ q.cache_index = r.cache_index /\ q.url = r.url
      /\ q.out = o /\ q.sent = n
  BY <1>3 DEF Matsko!Client
<1> QED  BY <1>1, <1>2, <1>4, Zenon DEF q

LEMMA MNotifiedEffect ==
  ASSUME NEW x \in [CLIENTS -> Matsko!Client], NEW S
  PROVE  /\ MNotified(x, S) \in [CLIENTS -> Matsko!Client]
         /\ \A c \in CLIENTS :
              LET q == MNotified(x, S)[c]
              IN  /\ q.fd = x[c].fd /\ q.cache_index = x[c].cache_index /\ q.url = x[c].url
                  /\ c \notin S => q = x[c]
                  /\ c \in S => /\ q.out = (x[c].out \/ x[c].fd)
                                /\ q.sent = IF x[c].sent < 0 THEN 0 ELSE x[c].sent
<1>1. ASSUME NEW c \in CLIENTS  PROVE x[c] \in Matsko!Client
  OBVIOUS
<1>2. ASSUME NEW c \in CLIENTS
      PROVE  MNotified(x, S)[c] = IF c \in S THEN Matsko!notified(x[c]) ELSE x[c]
  BY DEF MNotified
<1>3. \A c \in CLIENTS : MNotified(x, S)[c] \in Matsko!Client
  BY <1>1, <1>2, MNotifiedClient, Zenon
<1>4. MNotified(x, S) \in [CLIENTS -> Matsko!Client]
  BY <1>3, Zenon DEF MNotified
<1> QED  BY <1>1, <1>2, <1>4, MNotifiedClient, Zenon

LEMMA MNotify ==
  ASSUME NEW x, NEW y, NEW z, NEW k
  PROVE  Matsko!notifySubscribers(MTb(x, y, z), k) = MTb(MNotified(x, z[k].subscribers), y, z)
BY DEF MTb, Matsko!notifySubscribers, MNotified

MDropped(x, c) == [x EXCEPT ![c] = Matsko!initEmptyClient]

MUnlisted(z, k, c) == [z EXCEPT ![k].subscribers = @ \ {c}]

LEMMA MDisconnect ==
  ASSUME NEW x, NEW y, NEW z, NEW c
  PROVE  Matsko!disconnectClient(MTb(x, y, z), c)
           = MTb(MDropped(x, c), y,
                 IF x[c].cache_index = Matsko!NONE THEN z
                 ELSE MUnlisted(z, x[c].cache_index, c))
<1> DEFINE k == x[c].cache_index
<1>1. Matsko!removeSubscriber(MTb(x, y, z), c, k) = MTb(x, y, MUnlisted(z, k, c))
  BY DEF MTb, Matsko!removeSubscriber, MUnlisted
<1>2. MTb(x, y, z).clients[c].cache_index = k
  BY DEF MTb
<1>3. CASE k = Matsko!NONE
  <2>1. Matsko!disconnectClient(MTb(x, y, z), c)
          = [MTb(x, y, z) EXCEPT !.clients[c] = Matsko!initEmptyClient]
    BY <1>3, <1>2, Zenon DEF Matsko!disconnectClient
  <2> QED  BY <2>1, <1>3 DEF MTb, MDropped
<1>4. CASE k # Matsko!NONE
  <2>1. Matsko!disconnectClient(MTb(x, y, z), c)
          = [MTb(x, y, MUnlisted(z, k, c)) EXCEPT !.clients[c] = Matsko!initEmptyClient]
    BY <1>4, <1>1, <1>2, Zenon DEF Matsko!disconnectClient
  <2> QED  BY <2>1, <1>4 DEF MTb, MDropped
<1> QED
  BY <1>3, <1>4

MClosed(y, s) == [y EXCEPT ![s] = Matsko!initEmptyServer]

MServerless(z, k) == [z EXCEPT ![k].server_index = Matsko!NONE]

LEMMA MDisconnectServer ==
  ASSUME NEW x, NEW y, NEW z, NEW s, y[s].cache_index # Matsko!NONE
  PROVE  Matsko!disconnectServer(MTb(x, y, z), s)
           = MTb(MNotified(x, MServerless(z, y[s].cache_index)[y[s].cache_index].subscribers),
                 MClosed(y, s), MServerless(z, y[s].cache_index))
<1> DEFINE k == y[s].cache_index
           t == MTb(x, y, z)
           u == Matsko!notifySubscribers(MTb(x, y, MServerless(z, k)), k)
<1>1. [t EXCEPT !.cache[k].server_index = Matsko!NONE] = MTb(x, y, MServerless(z, k))
  BY DEF MTb, MServerless
<1>2. t.servers[s].cache_index = k
  BY DEF MTb
<1>3. u = MTb(MNotified(x, MServerless(z, k)[k].subscribers), y, MServerless(z, k))
  BY MNotify
<1> HIDE DEF t
<1>4. Matsko!disconnectServer(t, s) = [u EXCEPT !.servers[s] = Matsko!initEmptyServer]
  BY <1>1, <1>2 DEF Matsko!disconnectServer
<1> HIDE DEF u
<1> QED  BY <1>3, <1>4 DEF MTb, MClosed, t

MLeft(z, x, C) ==
  [k \in RECORDS |-> [z[k] EXCEPT !.subscribers = @ \ {c \in C : x[c].cache_index = k}]]

MGone(x, C) == [c \in CLIENTS |-> IF c \in C THEN Matsko!initEmptyClient ELSE x[c]]

LEMMA MDisconnectAll ==
  ASSUME NEW x, NEW y, NEW z, NEW C
  PROVE  Matsko!disconnectAll(MTb(x, y, z), C) = MTb(MGone(x, C), y, MLeft(z, x, C))
BY DEF MTb, Matsko!disconnectAll, MLeft, MGone

MFreed(r) == [Matsko!initEmptyCache EXCEPT !.full = r.full]

MCleared(z, x, k) == [MLeft(z, x, z[k].subscribers) EXCEPT ![k] = MFreed(z[k])]

LEMMA MFree ==
  ASSUME NEW x, NEW y, NEW z, NEW k \in RECORDS,
         z[k].server_index # Matsko!NONE, y[z[k].server_index].cache_index = k, k # Matsko!NONE
  PROVE  Matsko!freeCacheRecord(MTb(x, y, z), k)
           = MTb(MNotified(MGone(x, z[k].subscribers), {}),
                 MClosed(y, z[k].server_index), MCleared(z, x, k))
<1> DEFINE s == z[k].server_index
           C == z[k].subscribers
           t == MTb(x, y, z)
           r == [Matsko!initEmptyCache EXCEPT !.full = z[k].full, !.server_index = s]
           z1 == [MLeft(z, x, C) EXCEPT ![k] = r]
           u == Matsko!disconnectAll(t, C)
           v == [u EXCEPT !.cache[k] = r]
<1>1. t.cache[k] = z[k]
  BY DEF MTb
<1>2. u = MTb(MGone(x, C), y, MLeft(z, x, C))
  BY MDisconnectAll
<1>3. [r EXCEPT !.server_index = Matsko!NONE] = MFreed(z[k])
  BY MEmptyR DEF Matsko!Record, MFreed
<1>11. r.server_index = s
  BY DEF Matsko!initEmptyCache
<1>4. Matsko!freeCacheRecord(t, k) =
        IF v.cache[k].server_index = Matsko!NONE THEN v
        ELSE Matsko!disconnectServer(v, v.cache[k].server_index)
  BY <1>1 DEF Matsko!freeCacheRecord
<1> HIDE DEF u, t, r
<1>5. z1[k] = r
  BY DEF MLeft
<1>6. v = MTb(MGone(x, C), y, z1)
  BY <1>2 DEF MTb
<1>7. v.cache[k].server_index = s
  BY <1>11, <1>5, <1>6 DEF MTb
<1>8. MServerless(z1, k) = [MLeft(z, x, C) EXCEPT ![k] = MFreed(z[k])]
  BY <1>3 DEF MServerless, MLeft
<1>9. MServerless(z1, k)[k].subscribers = {}
  BY <1>8 DEF MLeft, MFreed, Matsko!initEmptyCache
<1> HIDE DEF v
<1>10. Matsko!freeCacheRecord(t, k) = Matsko!disconnectServer(MTb(MGone(x, C), y, z1), s)
  BY <1>4, <1>6, <1>7
<1> HIDE DEF z1
<1>12. Matsko!disconnectServer(MTb(MGone(x, C), y, z1), s)
         = MTb(MNotified(MGone(x, C), MServerless(z1, k)[k].subscribers), MClosed(y, s), MServerless(z1, k))
  BY MDisconnectServer
<1>13. Matsko!freeCacheRecord(t, k) = MTb(MNotified(MGone(x, C), {}), MClosed(y, s), MServerless(z1, k))
  BY <1>9, <1>10, <1>12
<1>14. MServerless(z1, k) = MCleared(z, x, k)
  BY <1>8 DEF MCleared
<1> QED
  BY <1>13, <1>14 DEF t

(* What these operators do to every entry of well-typed tables. *)
LEMMA MDroppedEffect ==
  ASSUME NEW x \in [CLIENTS -> Matsko!Client], NEW c \in CLIENTS
  PROVE  /\ MDropped(x, c) \in [CLIENTS -> Matsko!Client]
         /\ MDropped(x, c)[c] = Matsko!initEmptyClient
         /\ \A d \in CLIENTS : d # c => MDropped(x, c)[d] = x[d]
BY MEmpty DEF MDropped

LEMMA MGoneEffect ==
  ASSUME NEW x \in [CLIENTS -> Matsko!Client], NEW C
  PROVE  /\ MGone(x, C) \in [CLIENTS -> Matsko!Client]
         /\ \A c \in CLIENTS :
              MGone(x, C)[c] = IF c \in C THEN Matsko!initEmptyClient ELSE x[c]
BY MEmpty DEF MGone

LEMMA MClosedEffect ==
  ASSUME NEW y \in [SERVERS -> Matsko!Server], NEW s \in SERVERS
  PROVE  /\ MClosed(y, s) \in [SERVERS -> Matsko!Server]
         /\ MClosed(y, s)[s] = Matsko!initEmptyServer
         /\ \A r \in SERVERS : r # s => MClosed(y, s)[r] = y[r]
BY MEmpty DEF MClosed

(* Two records that differ in the fields named at most. *)
MSame(r, q) ==
  /\ r.valid = q.valid /\ r.url = q.url /\ r.response_index = q.response_index
  /\ r.full = q.full

LEMMA MUnlistedEffect ==
  ASSUME NEW z \in [RECORDS -> Matsko!Record], NEW k \in RECORDS, NEW c \in CLIENTS
  PROVE  /\ MUnlisted(z, k, c) \in [RECORDS -> Matsko!Record]
         /\ MUnlisted(z, k, c)[k].subscribers = z[k].subscribers \ {c}
         /\ \A q \in RECORDS :
              /\ MSame(MUnlisted(z, k, c)[q], z[q])
              /\ MUnlisted(z, k, c)[q].server_index = z[q].server_index
              /\ q # k => MUnlisted(z, k, c)[q].subscribers = z[q].subscribers
BY DEF MUnlisted, Matsko!Record, MSame

LEMMA MServerlessEffect ==
  ASSUME NEW z \in [RECORDS -> Matsko!Record], NEW k \in RECORDS
  PROVE  /\ MServerless(z, k) \in [RECORDS -> Matsko!Record]
         /\ MServerless(z, k)[k].server_index = Matsko!NONE
         /\ \A q \in RECORDS :
              /\ MSame(MServerless(z, k)[q], z[q])
              /\ MServerless(z, k)[q].subscribers = z[q].subscribers
              /\ q # k => MServerless(z, k)[q].server_index = z[q].server_index
BY DEF MServerless, Matsko!Record, MSame

LEMMA MLeftEffect ==
  ASSUME NEW z \in [RECORDS -> Matsko!Record], NEW x, NEW C
  PROVE  /\ MLeft(z, x, C) \in [RECORDS -> Matsko!Record]
         /\ \A q \in RECORDS :
              /\ MSame(MLeft(z, x, C)[q], z[q])
              /\ MLeft(z, x, C)[q].server_index = z[q].server_index
              /\ MLeft(z, x, C)[q].subscribers
                   = z[q].subscribers \ {c \in C : x[c].cache_index = q}
<1> DEFINE w == MLeft(z, x, C)
           e(r, D) == [r EXCEPT !.subscribers = @ \ D]
<1>1. ASSUME NEW r \in Matsko!Record, NEW D
      PROVE  /\ e(r, D) \in Matsko!Record /\ MSame(e(r, D), r)
             /\ e(r, D).server_index = r.server_index
             /\ e(r, D).subscribers = r.subscribers \ D
  BY DEF Matsko!Record, MSame
<1>2. ASSUME NEW q \in RECORDS
      PROVE  w[q] = e(z[q], {c \in C : x[c].cache_index = q})
  BY Zenon DEF MLeft
<1> HIDE DEF e
<1>3. ASSUME NEW q \in RECORDS
      PROVE  /\ w[q] \in Matsko!Record /\ MSame(w[q], z[q])
             /\ w[q].server_index = z[q].server_index
             /\ w[q].subscribers = z[q].subscribers \ {c \in C : x[c].cache_index = q}
  <2> DEFINE D == {c \in C : x[c].cache_index = q}
  <2>1. z[q] \in Matsko!Record  OBVIOUS
  <2>2. w[q] = e(z[q], D)
    BY <1>2
  <2> HIDE DEF D
  <2>3. /\ e(z[q], D) \in Matsko!Record /\ MSame(e(z[q], D), z[q])
        /\ e(z[q], D).server_index = z[q].server_index
        /\ e(z[q], D).subscribers = z[q].subscribers \ D
    BY <1>1, <2>1
  <2> QED  BY <2>2, <2>3 DEF D
<1>4. w \in [RECORDS -> Matsko!Record]
  BY <1>3, Zenon DEF MLeft
<1> QED  BY <1>3, <1>4, Zenon

LEMMA MFreedRecord ==
  ASSUME NEW r \in Matsko!Record
  PROVE  /\ MFreed(r) \in Matsko!Record
         /\ MFreed(r).valid = FALSE /\ MFreed(r).response_index = 0
         /\ MFreed(r).url = Matsko!NoUrl
         /\ MFreed(r).subscribers = {} /\ MFreed(r).server_index = Matsko!NONE
BY MEmptyR DEF MFreed, Matsko!Record

LEMMA MClearedEffect ==
  ASSUME NEW z \in [RECORDS -> Matsko!Record], NEW x, NEW k \in RECORDS
  PROVE  /\ MCleared(z, x, k) \in [RECORDS -> Matsko!Record]
         /\ MCleared(z, x, k)[k] = MFreed(z[k])
         /\ \A q \in RECORDS :
              q # k => /\ MSame(MCleared(z, x, k)[q], z[q])
                       /\ MCleared(z, x, k)[q].server_index = z[q].server_index
                       /\ MCleared(z, x, k)[q].subscribers
                            = z[q].subscribers \ {c \in z[k].subscribers : x[c].cache_index = q}
<1> DEFINE w == MLeft(z, x, z[k].subscribers)
<1>1. w \in [RECORDS -> Matsko!Record]
  BY MLeftEffect, Zenon
<1>2. MFreed(z[k]) \in Matsko!Record
  BY MFreedRecord
<1>3. MCleared(z, x, k) \in [RECORDS -> Matsko!Record]
      /\ MCleared(z, x, k)[k] = MFreed(z[k])
      /\ \A q \in RECORDS : q # k => MCleared(z, x, k)[q] = w[q]
  BY <1>1, <1>2 DEF MCleared
<1>4. \A q \in RECORDS :
        /\ MSame(w[q], z[q]) /\ w[q].server_index = z[q].server_index
        /\ w[q].subscribers
             = z[q].subscribers \ {c \in z[k].subscribers : x[c].cache_index = q}
  BY MLeftEffect
<1> HIDE DEF w
<1> QED  BY <1>3, <1>4

LEMMA MTables ==
  /\ Matsko!Tables = MTb(clients, servers, cache)
  /\ \A x, y, z : Matsko!Becomes(MTb(x, y, z)) =>
       clients' = x /\ servers' = y /\ cache' = z /\ running' = running
BY DEF MTb, Matsko!Tables, Matsko!Becomes

(***************************************************************************)
(* The invariant of PollProxyMatsko as a predicate of three tables, so     *)
(* that it can be followed through the procedures that call each other.    *)
(***************************************************************************)
MTypes(x, y, z) ==
  /\ x \in [CLIENTS -> Matsko!Client]
  /\ y \in [SERVERS -> Matsko!Server]
  /\ z \in [RECORDS -> Matsko!Record]

MClientsOK(x, z) ==
  \A c \in CLIENTS :
    IF x[c].cache_index = Matsko!NONE
    THEN x[c].url = Matsko!NoUrl /\ ~x[c].out
    ELSE /\ x[c].fd
         /\ z[x[c].cache_index].valid
         /\ z[x[c].cache_index].url = x[c].url
         /\ x[c].sent \in 0 .. z[x[c].cache_index].response_index

MSubscribed(x, z) ==
  \A k \in RECORDS, c \in CLIENTS : c \in z[k].subscribers <=> x[c].cache_index = k

MServed(y, z) ==
  /\ \A k \in RECORDS, s \in SERVERS : z[k].server_index = s <=> y[s].cache_index = k
  /\ \A s \in SERVERS : y[s].fd <=> y[s].cache_index # Matsko!NONE

MRecordsOK(z) ==
  /\ \A k \in RECORDS :
       IF z[k].valid THEN z[k].url # Matsko!NoUrl
       ELSE z[k].response_index = 0 /\ z[k].server_index = Matsko!NONE
  /\ \A k, l \in RECORDS : z[k].valid /\ z[l].valid /\ z[k].url = z[l].url => k = l

MPolled(x, z) ==
  \A c \in CLIENTS :
    LET r == z[x[c].cache_index]
    IN  /\ x[c].cache_index # Matsko!NONE
        /\ r.response_index > 0
        /\ x[c].sent < r.response_index \/ (r.server_index = Matsko!NONE /\ ~r.full)
        => x[c].out

MInv(x, y, z) ==
  /\ MTypes(x, y, z) /\ MClientsOK(x, z) /\ MSubscribed(x, z) /\ MServed(y, z)
  /\ MRecordsOK(z) /\ MPolled(x, z)

MSound(t) == \E x, y, z : t = MTb(x, y, z) /\ MInv(x, y, z)

LEMMA MStateInv ==
  ASSUME Matsko!IInv
  PROVE  MInv(clients, servers, cache)
<1>1. MTypes(clients, servers, cache)
  BY Zenon DEF Matsko!IInv, Matsko!TypeOK, MTypes
<1>2. MClientsOK(clients, cache)
  BY Zenon DEF Matsko!IInv, Matsko!ClientsOK, MClientsOK
<1>3. MSubscribed(clients, cache) /\ MServed(servers, cache)
  BY Zenon DEF Matsko!IInv, Matsko!LinksOK, MSubscribed, MServed
<1>4. MRecordsOK(cache)
  BY Zenon DEF Matsko!IInv, Matsko!RecordsOK, Matsko!OneRecordPerUrl, MRecordsOK
<1>5. MPolled(clients, cache)
  BY Zenon DEF Matsko!IInv, Matsko!UnreadIsPolled, MPolled
<1> QED  BY <1>1, <1>2, <1>3, <1>4, <1>5 DEF MInv

LEMMA MInvState ==
  ASSUME running \in BOOLEAN, MInv(clients, servers, cache)
  PROVE  Matsko!IInv
<1>1. Matsko!TypeOK
  BY Zenon DEF MInv, MTypes, Matsko!TypeOK
<1>2. Matsko!ClientsOK
  BY Zenon DEF MInv, Matsko!ClientsOK, MClientsOK
<1>3. Matsko!LinksOK
  BY Zenon DEF MInv, Matsko!LinksOK, MSubscribed, MServed
<1>4. Matsko!RecordsOK /\ Matsko!OneRecordPerUrl
  BY Zenon DEF MInv, Matsko!RecordsOK, Matsko!OneRecordPerUrl, MRecordsOK
<1>5. Matsko!UnreadIsPolled
  BY Zenon DEF MInv, Matsko!UnreadIsPolled, MPolled
<1> QED  BY <1>1, <1>2, <1>3, <1>4, <1>5 DEF Matsko!IInv

LEMMA MInvNext ==
  ASSUME running' \in BOOLEAN, MInv(clients', servers', cache')
  PROVE  Matsko!IInv'
<1>1. Matsko!TypeOK'
  BY Zenon DEF MInv, MTypes, Matsko!TypeOK
<1>2. Matsko!ClientsOK'
  BY Zenon DEF MInv, Matsko!ClientsOK, MClientsOK
<1>3. Matsko!LinksOK'
  BY Zenon DEF MInv, Matsko!LinksOK, MSubscribed, MServed
<1>4. Matsko!RecordsOK' /\ Matsko!OneRecordPerUrl'
  BY Zenon DEF MInv, Matsko!RecordsOK, Matsko!OneRecordPerUrl, MRecordsOK
<1>5. Matsko!UnreadIsPolled'
  BY Zenon DEF MInv, Matsko!UnreadIsPolled, MPolled
<1> QED  BY <1>1, <1>2, <1>3, <1>4, <1>5 DEF Matsko!IInv

LEMMA MSoundState ==
  ASSUME Matsko!IInv, NEW t, MSound(t), Matsko!Becomes(t)
  PROVE  Matsko!IInv'
<1>1. PICK x, y, z : t = MTb(x, y, z) /\ MInv(x, y, z)
  BY Zenon DEF MSound
<1>2. /\ clients' = x /\ servers' = y /\ cache' = z /\ running' = running
  BY <1>1, MTables, Zenon
<1>3. running' \in BOOLEAN
  BY <1>2, Zenon DEF Matsko!IInv, Matsko!TypeOK
<1>4. MInv(clients', servers', cache')
  BY <1>1, <1>2
<1> QED  BY <1>3, <1>4, MInvNext

LEMMA MFields ==
  ASSUME NEW x, NEW y, NEW z, MInv(x, y, z)
  PROVE  /\ x \in [CLIENTS -> Matsko!Client] /\ y \in [SERVERS -> Matsko!Server]
         /\ z \in [RECORDS -> Matsko!Record]
         /\ \A c \in CLIENTS :
              /\ x[c] \in Matsko!Client
              /\ x[c].cache_index \in RECORDS \cup {Matsko!NONE}
              /\ x[c].sent \in Int
         /\ \A s \in SERVERS :
              /\ y[s] \in Matsko!Server
              /\ y[s].cache_index \in RECORDS \cup {Matsko!NONE}
         /\ \A k \in RECORDS :
              /\ z[k] \in Matsko!Record
              /\ z[k].response_index \in Nat /\ z[k].response_index \in 0 .. CHUNKS
              /\ z[k].server_index \in SERVERS \cup {Matsko!NONE}
              /\ z[k].subscribers \in SUBSET CLIENTS
<1>1. /\ x \in [CLIENTS -> Matsko!Client] /\ y \in [SERVERS -> Matsko!Server]
      /\ z \in [RECORDS -> Matsko!Record]
  BY DEF MInv, MTypes
<1> QED  BY <1>1, Indices, MNone DEF Matsko!Client, Matsko!Server, Matsko!Record

LEMMA MDropInv ==
  ASSUME NEW x, NEW y, NEW z, MInv(x, y, z), NEW c \in CLIENTS
  PROVE  MSound(Matsko!disconnectClient(MTb(x, y, z), c))
<1> DEFINE kc == x[c].cache_index
           X == MDropped(x, c)
           Z == IF kc = Matsko!NONE THEN z ELSE MUnlisted(z, kc, c)
<1>1. Matsko!disconnectClient(MTb(x, y, z), c) = MTb(X, y, Z)
  BY MDisconnect
<1>2. /\ X \in [CLIENTS -> Matsko!Client] /\ X[c] = Matsko!initEmptyClient
      /\ \A d \in CLIENTS : d # c => X[d] = x[d]
  BY MFields, MDroppedEffect, Zenon
<1> HIDE DEF X
<1>3. /\ Z \in [RECORDS -> Matsko!Record]
      /\ \A q \in RECORDS :
           /\ MSame(Z[q], z[q]) /\ Z[q].server_index = z[q].server_index
           /\ q = kc => Z[q].subscribers = z[q].subscribers \ {c}
           /\ q # kc => Z[q].subscribers = z[q].subscribers
  <2>1. CASE kc = Matsko!NONE
    BY <2>1, MFields, MNone, Zenon DEF MSame
  <2>2. CASE kc # Matsko!NONE
    <3>1. PICK j \in RECORDS : j = kc
      BY <2>2, MFields
    <3>2. Z = MUnlisted(z, j, c)
      BY <2>2, <3>1
    <3>3. z \in [RECORDS -> Matsko!Record]
      BY MFields, Zenon
    <3>4. /\ MUnlisted(z, j, c) \in [RECORDS -> Matsko!Record]
          /\ MUnlisted(z, j, c)[j].subscribers = z[j].subscribers \ {c}
          /\ \A q \in RECORDS :
               /\ MSame(MUnlisted(z, j, c)[q], z[q])
               /\ MUnlisted(z, j, c)[q].server_index = z[q].server_index
               /\ q # j => MUnlisted(z, j, c)[q].subscribers = z[q].subscribers
      BY <3>1, <3>3, MUnlistedEffect
    <3> HIDE DEF Z, kc
    <3> QED  BY <3>1, <3>2, <3>4
  <2> QED  BY <2>1, <2>2
<1> HIDE DEF Z
<1>31. \A q \in RECORDS :
         /\ Z[q].valid = z[q].valid /\ Z[q].url = z[q].url /\ Z[q].full = z[q].full
         /\ Z[q].response_index = z[q].response_index
         /\ Z[q].server_index = z[q].server_index
  BY <1>3, Zenon DEF MSame
<1>4. MTypes(X, y, Z)
  BY <1>2, <1>3, MFields, Zenon DEF MTypes
<1>5. MClientsOK(X, Z)
  <2> SUFFICES ASSUME NEW d \in CLIENTS
      PROVE IF X[d].cache_index = Matsko!NONE
            THEN X[d].url = Matsko!NoUrl /\ ~X[d].out
            ELSE /\ X[d].fd /\ Z[X[d].cache_index].valid
                 /\ Z[X[d].cache_index].url = X[d].url
                 /\ X[d].sent \in 0 .. Z[X[d].cache_index].response_index
    BY Zenon DEF MClientsOK
  <2>1. CASE d = c
    BY <2>1, <1>2, MEmpty, Zenon
  <2>2. CASE d # c
    <3>1. X[d] = x[d]  BY <2>2, <1>2
    <3>2. CASE x[d].cache_index = Matsko!NONE
      BY <3>1, <3>2, Zenon DEF MInv, MClientsOK
    <3>3. CASE x[d].cache_index # Matsko!NONE
      <4>1. x[d].cache_index \in RECORDS
        BY <3>3, MFields
      <4> QED  BY <3>1, <3>3, <4>1, <1>31 DEF MInv, MClientsOK
    <3> QED  BY <3>2, <3>3
  <2> QED  BY <2>1, <2>2
<1>6. MSubscribed(X, Z)
  <2> SUFFICES ASSUME NEW q \in RECORDS, NEW d \in CLIENTS
      PROVE d \in Z[q].subscribers <=> X[d].cache_index = q
    BY Zenon DEF MSubscribed
  <2>1. d \in z[q].subscribers <=> x[d].cache_index = q
    BY Zenon DEF MInv, MSubscribed
  <2>2. /\ q = kc => Z[q].subscribers = z[q].subscribers \ {c}
        /\ q # kc => Z[q].subscribers = z[q].subscribers
    BY <1>3
  <2>3. CASE d = c
    BY <2>1, <2>2, <2>3, <1>2, MEmpty, MNone
  <2>4. CASE d # c
    BY <2>1, <2>2, <2>4, <1>2
  <2> QED  BY <2>3, <2>4
<1>7. MServed(y, Z)
  BY <1>31 DEF MInv, MServed
<1>8. MRecordsOK(Z)
  BY <1>31 DEF MInv, MRecordsOK
<1>9. MPolled(X, Z)
  <2> SUFFICES ASSUME NEW d \in CLIENTS, X[d].cache_index # Matsko!NONE,
                      Z[X[d].cache_index].response_index > 0,
                      \/ X[d].sent < Z[X[d].cache_index].response_index
                      \/ Z[X[d].cache_index].server_index = Matsko!NONE /\ ~Z[X[d].cache_index].full
      PROVE X[d].out
    BY Zenon DEF MPolled
  <2>1. d # c
    BY <1>2, MEmpty
  <2>2. X[d] = x[d] /\ x[d].cache_index \in RECORDS
    BY <2>1, <1>2, MFields
  <2> QED  BY <2>2, <1>31 DEF MInv, MPolled
<1> QED  BY <1>1, <1>4, <1>5, <1>6, <1>7, <1>8, <1>9, Zenon DEF MInv, MSound

(* notifySubscribers(k) establishes MPolled for the clients of k. *)
MPolledBut(x, z, k) ==
  \A c \in CLIENTS :
    LET r == z[x[c].cache_index]
    IN  /\ x[c].cache_index # Matsko!NONE /\ x[c].cache_index # k
        /\ r.response_index > 0
        /\ x[c].sent < r.response_index \/ (r.server_index = Matsko!NONE /\ ~r.full)
        => x[c].out

MInvBut(x, y, z, k) ==
  /\ MTypes(x, y, z) /\ MClientsOK(x, z) /\ MSubscribed(x, z) /\ MServed(y, z)
  /\ MRecordsOK(z) /\ MPolledBut(x, z, k)

LEMMA MInvIsBut ==
  ASSUME NEW x, NEW y, NEW z, NEW k, MInv(x, y, z)
  PROVE  MInvBut(x, y, z, k)
BY DEF MInv, MInvBut, MPolled, MPolledBut

LEMMA MNotifyInv ==
  ASSUME NEW x, NEW y, NEW z, NEW k \in RECORDS, MInvBut(x, y, z, k)
  PROVE  MInv(MNotified(x, z[k].subscribers), y, z)
<1> DEFINE S == z[k].subscribers
           X == MNotified(x, S)
<1>1. x \in [CLIENTS -> Matsko!Client] /\ z \in [RECORDS -> Matsko!Record]
  BY DEF MInvBut, MTypes
<1>2. /\ X \in [CLIENTS -> Matsko!Client]
      /\ \A c \in CLIENTS :
           /\ X[c].fd = x[c].fd /\ X[c].cache_index = x[c].cache_index /\ X[c].url = x[c].url
           /\ c \notin S => X[c] = x[c]
           /\ c \in S => /\ X[c].out = (x[c].out \/ x[c].fd)
                         /\ X[c].sent = IF x[c].sent < 0 THEN 0 ELSE x[c].sent
  BY <1>1, MNotifiedEffect
<1>3. \A c \in CLIENTS : c \in S <=> x[c].cache_index = k
  BY DEF MInvBut, MSubscribed
<1>4. \A c \in CLIENTS :
        /\ x[c].cache_index \in RECORDS \cup {Matsko!NONE} /\ x[c].sent \in Int
        /\ x[c].fd \in BOOLEAN /\ x[c].out \in BOOLEAN
  BY <1>1, MNone, Indices DEF Matsko!Client
<1> HIDE DEF X, S
<1>5. MTypes(X, y, z)
  BY <1>2 DEF MInvBut, MTypes
<1>6. MClientsOK(X, z)
  <2> SUFFICES ASSUME NEW d \in CLIENTS
      PROVE IF X[d].cache_index = Matsko!NONE
            THEN X[d].url = Matsko!NoUrl /\ ~X[d].out
            ELSE /\ X[d].fd /\ z[X[d].cache_index].valid
                 /\ z[X[d].cache_index].url = X[d].url
                 /\ X[d].sent \in 0 .. z[X[d].cache_index].response_index
    BY DEF MClientsOK
  <2>1. IF x[d].cache_index = Matsko!NONE
            THEN x[d].url = Matsko!NoUrl /\ ~x[d].out
            ELSE /\ x[d].fd /\ z[x[d].cache_index].valid
                 /\ z[x[d].cache_index].url = x[d].url
                 /\ x[d].sent \in 0 .. z[x[d].cache_index].response_index
    BY DEF MInvBut, MClientsOK
  <2>2. CASE d \notin S
    BY <2>1, <2>2, <1>2
  <2>3. CASE d \in S
    <3>1. X[d].cache_index = x[d].cache_index /\ x[d].cache_index = k /\ k # Matsko!NONE
      BY <2>3, <1>2, <1>3, MNone
    <3>2. X[d].fd = x[d].fd /\ X[d].url = x[d].url
      BY <1>2
    <3>3. ~(x[d].sent < 0)
      BY <2>1, <3>1, <1>4
    <3>4. X[d].sent = x[d].sent
      BY <3>3, <2>3, <1>2
    <3> QED  BY <2>1, <3>1, <3>2, <3>4
  <2> QED  BY <2>2, <2>3
<1>7. MSubscribed(X, z)
  BY <1>2 DEF MInvBut, MSubscribed
<1>8. MPolled(X, z)
  <2> SUFFICES ASSUME NEW d \in CLIENTS, X[d].cache_index # Matsko!NONE,
                      z[X[d].cache_index].response_index > 0,
                      \/ X[d].sent < z[X[d].cache_index].response_index
                      \/ z[X[d].cache_index].server_index = Matsko!NONE /\ ~z[X[d].cache_index].full
      PROVE X[d].out
    BY DEF MPolled
  <2>1. CASE d \in S
    <3>1. x[d].fd
      BY <1>2 DEF MInvBut, MClientsOK
    <3> QED  BY <2>1, <3>1, <1>2, <1>4
  <2>2. CASE d \notin S
    BY <2>2, <1>2, <1>3 DEF MInvBut, MPolledBut
  <2> QED  BY <2>1, <2>2
<1> QED  BY <1>5, <1>6, <1>7, <1>8 DEF MInv, MInvBut, X, S

LEMMA MDisconnectServerInv ==
  ASSUME NEW x, NEW y, NEW z, MInv(x, y, z), NEW s \in SERVERS, y[s].fd
  PROVE  MSound(Matsko!disconnectServer(MTb(x, y, z), s))
<1>1. y \in [SERVERS -> Matsko!Server] /\ z \in [RECORDS -> Matsko!Record]
  BY DEF MInv, MTypes
<1>2. PICK k \in RECORDS : k = y[s].cache_index
  BY <1>1, MFields DEF MInv, MServed
<1> DEFINE Z == MServerless(z, k)
           Y == MClosed(y, s)
<1>3. Matsko!disconnectServer(MTb(x, y, z), s) = MTb(MNotified(x, Z[k].subscribers), Y, Z)
  <2>1. y[s].cache_index # Matsko!NONE
    BY DEF MInv, MServed
  <2> QED  BY <2>1, <1>2, MDisconnectServer
<1>4. /\ Y \in [SERVERS -> Matsko!Server] /\ Y[s] = Matsko!initEmptyServer
      /\ \A r \in SERVERS : r # s => Y[r] = y[r]
  BY <1>1, MClosedEffect
<1>5. /\ Z \in [RECORDS -> Matsko!Record]
      /\ Z[k].server_index = Matsko!NONE
      /\ \A q \in RECORDS :
           /\ MSame(Z[q], z[q])
           /\ Z[q].subscribers = z[q].subscribers
           /\ q # k => Z[q].server_index = z[q].server_index
  BY <1>1, MServerlessEffect
<1> HIDE DEF Y, Z
<1>6. \A q \in RECORDS :
        /\ Z[q].valid = z[q].valid /\ Z[q].url = z[q].url /\ Z[q].full = z[q].full
        /\ Z[q].response_index = z[q].response_index
        /\ Z[q].subscribers = z[q].subscribers
  BY <1>5 DEF MSame
<1>7. MTypes(x, Y, Z)
  BY <1>4, <1>5 DEF MInv, MTypes
<1>8. \A d \in CLIENTS : x[d].cache_index \in RECORDS \cup {Matsko!NONE}
  BY MFields
<1>9. MClientsOK(x, Z)
  BY <1>6, <1>8 DEF MInv, MClientsOK
<1>10. MSubscribed(x, Z)
  BY <1>6 DEF MInv, MSubscribed
<1>11. MServed(Y, Z)
  <2>1. \A r \in SERVERS : Y[r].fd <=> Y[r].cache_index # Matsko!NONE
    BY <1>4, MEmpty DEF MInv, MServed
  <2> SUFFICES ASSUME NEW q \in RECORDS, NEW r \in SERVERS
      PROVE Z[q].server_index = r <=> Y[r].cache_index = q
    BY <2>1 DEF MServed
  <2>2. (z[q].server_index = r <=> y[r].cache_index = q) /\ (z[k].server_index = r <=> y[r].cache_index = k)
         /\ (z[q].server_index = s <=> y[s].cache_index = q) /\ z[k].server_index = s
    BY <1>2 DEF MInv, MServed
  <2> QED  BY <2>2, <1>2, <1>4, <1>5, MEmpty, MNone
<1>12. MRecordsOK(Z)
  <2>1. \A q \in RECORDS : z[q].server_index = Matsko!NONE => Z[q].server_index = Matsko!NONE
    BY <1>5
  <2> QED  BY <1>6, <2>1 DEF MInv, MRecordsOK
<1>13. MPolledBut(x, Z, k)
  BY <1>5, <1>6, <1>8 DEF MInv, MPolled, MPolledBut
<1>14. MInv(MNotified(x, Z[k].subscribers), Y, Z)
  BY <1>7, <1>9, <1>10, <1>11, <1>12, <1>13, MNotifyInv DEF MInvBut
<1> QED  BY <1>3, <1>14 DEF MSound

MFreeing(t, z, k) ==
  [Matsko!disconnectAll(t, z[k].subscribers) EXCEPT
     !.cache[k] = [Matsko!initEmptyCache EXCEPT !.full = z[k].full,
                                                !.server_index = z[k].server_index]]

LEMMA MFreeShape ==
  ASSUME NEW x, NEW y, NEW z, NEW k
  PROVE  Matsko!freeCacheRecord(MTb(x, y, z), k) =
           IF MFreeing(MTb(x, y, z), z, k).cache[k].server_index = Matsko!NONE
           THEN MFreeing(MTb(x, y, z), z, k)
           ELSE Matsko!disconnectServer(MFreeing(MTb(x, y, z), z, k),
                  MFreeing(MTb(x, y, z), z, k).cache[k].server_index)
<1> DEFINE t == MTb(x, y, z)
<1>1. t.cache[k] = z[k]
  BY DEF MTb
<1> HIDE DEF t
<1> QED  BY <1>1 DEF Matsko!freeCacheRecord, MFreeing, t

LEMMA MFreeServerless ==
  ASSUME NEW x, NEW y, NEW z, NEW k \in RECORDS, z[k].server_index = Matsko!NONE
  PROVE  Matsko!freeCacheRecord(MTb(x, y, z), k)
           = MTb(MGone(x, z[k].subscribers), y, MCleared(z, x, k))
<1> DEFINE s == z[k].server_index
           C == z[k].subscribers
           t == MTb(x, y, z)
           r == [Matsko!initEmptyCache EXCEPT !.full = z[k].full, !.server_index = s]
           u == Matsko!disconnectAll(t, C)
           v == [u EXCEPT !.cache[k] = r]
<1>2. u = MTb(MGone(x, C), y, MLeft(z, x, C))
  BY MDisconnectAll
<1>3. r = MFreed(z[k])
  BY MEmptyR DEF Matsko!Record, MFreed
<1>4. r.server_index = Matsko!NONE
  BY DEF Matsko!initEmptyCache
<1>8. s = Matsko!NONE
  OBVIOUS
<1> HIDE DEF s
<1>5. Matsko!freeCacheRecord(t, k) =
        IF v.cache[k].server_index = Matsko!NONE THEN v
        ELSE Matsko!disconnectServer(v, v.cache[k].server_index)
  BY MFreeShape, Zenon DEF MFreeing, s
<1> HIDE DEF u, t, r
<1>6. v = MTb(MGone(x, C), y, MCleared(z, x, k))
  BY <1>2, <1>3 DEF MTb, MCleared
<1>7. v.cache[k] = r
  BY <1>2 DEF MTb, MLeft
<1> HIDE DEF v
<1> QED  BY <1>4, <1>5, <1>6, <1>7 DEF t

(* All clients of k are gone, its server too, and k is free. *)
LEMMA MClearedInv ==
  ASSUME NEW x, NEW y, NEW z, MInv(x, y, z), NEW k \in RECORDS,
         NEW Y \in [SERVERS -> Matsko!Server],
         \A s \in SERVERS :
           /\ y[s].cache_index # k => Y[s] = y[s]
           /\ y[s].cache_index = k => Y[s] = Matsko!initEmptyServer
  PROVE  MInv(MGone(x, z[k].subscribers), Y, MCleared(z, x, k))
<1> DEFINE S == z[k].subscribers
           X == MGone(x, S)
           Z == MCleared(z, x, k)
<1>1. x \in [CLIENTS -> Matsko!Client] /\ z \in [RECORDS -> Matsko!Record]
  BY DEF MInv, MTypes
<1>2. /\ X \in [CLIENTS -> Matsko!Client]
      /\ \A c \in CLIENTS : /\ c \in S => X[c] = Matsko!initEmptyClient
                            /\ c \notin S => X[c] = x[c]
  BY <1>1, MGoneEffect
<1>3. /\ Z \in [RECORDS -> Matsko!Record]
      /\ Z[k] = MFreed(z[k])
      /\ \A q \in RECORDS :
           q # k => /\ MSame(Z[q], z[q]) /\ Z[q].server_index = z[q].server_index
                    /\ Z[q].subscribers = z[q].subscribers \ {c \in S : x[c].cache_index = q}
  BY <1>1, MClearedEffect
<1>4. \A c \in CLIENTS : c \in S <=> x[c].cache_index = k
  BY DEF MInv, MSubscribed
<1>5. \A c \in CLIENTS : x[c].cache_index \in RECORDS \cup {Matsko!NONE}
  BY MFields
<1>6. S \subseteq CLIENTS
  BY MFields
<1> HIDE DEF X, Z, S
<1>61. \A q \in RECORDS : z[q].subscribers \subseteq CLIENTS
  BY MFields
<1>7. \A q \in RECORDS : q # k =>
        /\ Z[q].valid = z[q].valid /\ Z[q].url = z[q].url /\ Z[q].full = z[q].full
        /\ Z[q].response_index = z[q].response_index
        /\ Z[q].server_index = z[q].server_index
  BY <1>3 DEF MSame
<1>8. \A q \in RECORDS : q # k => Z[q].subscribers = z[q].subscribers
  <2> SUFFICES ASSUME NEW q \in RECORDS, q # k  PROVE Z[q].subscribers = z[q].subscribers
    OBVIOUS
  <2> DEFINE D == {c \in S : x[c].cache_index = q}
  <2>1. Z[q].subscribers = z[q].subscribers \ D
    BY <1>3
  <2>2. D = {}
    BY <1>4, <1>6
  <2> HIDE DEF D
  <2> QED  BY <2>1, <2>2
<1>9. /\ Z[k].valid = FALSE /\ Z[k].response_index = 0 /\ Z[k].url = Matsko!NoUrl
      /\ Z[k].subscribers = {} /\ Z[k].server_index = Matsko!NONE
  <2>1. z[k] \in Matsko!Record
    BY <1>1
  <2>2. /\ MFreed(z[k]).valid = FALSE /\ MFreed(z[k]).response_index = 0
        /\ MFreed(z[k]).url = Matsko!NoUrl
        /\ MFreed(z[k]).subscribers = {} /\ MFreed(z[k]).server_index = Matsko!NONE
    BY <2>1, MFreedRecord, Zenon
  <2> QED  BY <2>2, <1>3, Zenon
<1>10. MTypes(X, Y, Z)
  BY <1>2, <1>3 DEF MTypes
<1>11. MClientsOK(X, Z)
  <2> SUFFICES ASSUME NEW d \in CLIENTS
      PROVE IF X[d].cache_index = Matsko!NONE
            THEN X[d].url = Matsko!NoUrl /\ ~X[d].out
            ELSE /\ X[d].fd /\ Z[X[d].cache_index].valid
                 /\ Z[X[d].cache_index].url = X[d].url
                 /\ X[d].sent \in 0 .. Z[X[d].cache_index].response_index
    BY DEF MClientsOK
  <2>1. CASE d \in S
    BY <2>1, <1>2, MEmpty
  <2>2. CASE d \notin S
    <3>1. X[d] = x[d] /\ x[d].cache_index # k
      BY <2>2, <1>2, <1>4
    <3> QED  BY <3>1, <1>5, <1>7 DEF MInv, MClientsOK
  <2> QED  BY <2>1, <2>2
<1>12. MSubscribed(X, Z)
  <2> SUFFICES ASSUME NEW q \in RECORDS, NEW d \in CLIENTS
      PROVE d \in Z[q].subscribers <=> X[d].cache_index = q
    BY DEF MSubscribed
  <2>1. d \in z[q].subscribers <=> x[d].cache_index = q
    BY DEF MInv, MSubscribed
  <2>2. CASE d \in S
    BY <2>1, <2>2, <1>2, <1>4, <1>8, <1>9, MEmpty, MNone
  <2>3. CASE d \notin S
    BY <2>1, <2>3, <1>2, <1>4, <1>8, <1>9
  <2> QED  BY <2>2, <2>3
<1>13. MServed(Y, Z)
  <2>1. \A s \in SERVERS : Y[s].fd <=> Y[s].cache_index # Matsko!NONE
    BY MEmpty DEF MInv, MServed
  <2> SUFFICES ASSUME NEW q \in RECORDS, NEW s \in SERVERS
      PROVE Z[q].server_index = s <=> Y[s].cache_index = q
    BY <2>1 DEF MServed
  <2>2. (z[q].server_index = s <=> y[s].cache_index = q) /\ (z[k].server_index = s <=> y[s].cache_index = k)
    BY DEF MInv, MServed
  <2>3. CASE y[s].cache_index = k
    BY <2>2, <2>3, <1>7, <1>9, MEmpty, MNone
  <2>4. CASE y[s].cache_index # k
    BY <2>2, <2>4, <1>7, <1>9, MNone
  <2> QED  BY <2>3, <2>4
<1>14. MRecordsOK(Z)
  BY <1>7, <1>9 DEF MInv, MRecordsOK
<1>15. MPolled(X, Z)
  <2> SUFFICES ASSUME NEW d \in CLIENTS, X[d].cache_index # Matsko!NONE,
                      Z[X[d].cache_index].response_index > 0,
                      \/ X[d].sent < Z[X[d].cache_index].response_index
                      \/ Z[X[d].cache_index].server_index = Matsko!NONE /\ ~Z[X[d].cache_index].full
      PROVE X[d].out
    BY DEF MPolled
  <2>1. d \notin S
    BY <1>2, MEmpty
  <2>2. X[d] = x[d] /\ x[d].cache_index # k /\ x[d].cache_index \in RECORDS
    BY <2>1, <1>2, <1>4, <1>5
  <2> QED  BY <2>2, <1>7 DEF MInv, MPolled
<1> QED  BY <1>10, <1>11, <1>12, <1>13, <1>14, <1>15 DEF MInv, X, Z, S

LEMMA MFreeInv ==
  ASSUME NEW x, NEW y, NEW z, MInv(x, y, z), NEW k \in RECORDS
  PROVE  MSound(Matsko!freeCacheRecord(MTb(x, y, z), k))
<1>1. y \in [SERVERS -> Matsko!Server] /\ x \in [CLIENTS -> Matsko!Client]
  BY DEF MInv, MTypes
<1>2. \A s \in SERVERS : z[k].server_index = s <=> y[s].cache_index = k
  BY DEF MInv, MServed
<1>3. CASE z[k].server_index = Matsko!NONE
  <2>1. \A s \in SERVERS : y[s].cache_index # k
    BY <1>2, <1>3, MNone
  <2>2. MInv(MGone(x, z[k].subscribers), y, MCleared(z, x, k))
    BY <1>1, <2>1, MClearedInv
  <2> QED  BY <1>3, <2>2, MFreeServerless DEF MSound
<1>4. CASE z[k].server_index # Matsko!NONE
  <2>1. PICK s \in SERVERS : s = z[k].server_index
    BY <1>4, MFields
  <2> DEFINE Y == MClosed(y, s)
             X == MGone(x, z[k].subscribers)
  <2>2. Y \in [SERVERS -> Matsko!Server] /\ Y[s] = Matsko!initEmptyServer
        /\ \A r \in SERVERS : r # s => Y[r] = y[r]
    BY <1>1, MClosedEffect
  <2>3. \A r \in SERVERS : y[r].cache_index = k <=> r = s
    BY <2>1, <1>2
  <2> HIDE DEF Y
  <2>4. MInv(X, Y, MCleared(z, x, k))
    BY <2>2, <2>3, MClearedInv
  <2>5. MNotified(X, {}) = X
    <3>1. X \in [CLIENTS -> Matsko!Client]
      BY <1>1, MGoneEffect
    <3> HIDE DEF X
    <3> QED  BY <3>1 DEF MNotified
  <2>6. k # Matsko!NONE
    BY MNone
  <2> HIDE DEF X
  <2>7. Matsko!freeCacheRecord(MTb(x, y, z), k) = MTb(MNotified(X, {}), Y, MCleared(z, x, k))
    BY <1>4, <2>1, <2>3, <2>6, MFree DEF X, Y
  <2> QED  BY <2>4, <2>5, <2>7 DEF MSound
<1> QED  BY <1>3, <1>4

-----------------------------------------------------------------------------
(* The handlers of PollProxyMatsko, one lemma each. *)
LEMMA Least ==
  ASSUME NEW T \in SUBSET Nat, T # {}
  PROVE  \E x \in T : \A y \in T : x <= y
<1> DEFINE R == OpToRel(<, Nat)
<1>1. IsWellFoundedOn(R, Nat)
  BY NatLessThanWellFounded
<1>2. \A x, y \in Nat : y < x => <<y, x>> \in R
  BY DEF OpToRel
<1> HIDE DEF R
<1>3. PICK x \in T : \A y \in T : ~(<<y, x>> \in R)
  BY <1>1, WFMin
<1>4. \A y \in T : ~(y < x)
  BY <1>2, <1>3, Zenon
<1> QED  BY <1>4

LEMMA MMin ==
  ASSUME NEW T \in SUBSET Nat, T # {}
  PROVE  Matsko!Min(T) \in T
BY Least DEF Matsko!Min

MPut(x, c, r) == [x EXCEPT ![c] = r]

LEMMA MPutEffect ==
  ASSUME NEW x \in [CLIENTS -> Matsko!Client], NEW c \in CLIENTS, NEW r \in Matsko!Client
  PROVE  /\ MPut(x, c, r) \in [CLIENTS -> Matsko!Client]
         /\ MPut(x, c, r)[c] = r
         /\ \A d \in CLIENTS : d # c => MPut(x, c, r)[d] = x[d]
BY DEF MPut

MAccepted == [Matsko!initEmptyClient EXCEPT !.fd = TRUE]

LEMMA MAcceptedClient ==
  /\ MAccepted \in Matsko!Client /\ MAccepted.fd = TRUE
  /\ MAccepted.cache_index = Matsko!NONE /\ ~MAccepted.out /\ MAccepted.url = Matsko!NoUrl
BY MEmpty DEF MAccepted, Matsko!Client

LEMMA MAcceptInv ==
  ASSUME NEW x, NEW y, NEW z, MInv(x, y, z), NEW c \in CLIENTS, ~x[c].fd
  PROVE  MSound(MTb(MPut(x, c, MAccepted), y, z))
<1> DEFINE X == MPut(x, c, MAccepted)
<1>1. /\ X \in [CLIENTS -> Matsko!Client] /\ X[c] = MAccepted
      /\ \A d \in CLIENTS : d # c => X[d] = x[d]
  <2>1. x \in [CLIENTS -> Matsko!Client]
    BY DEF MInv, MTypes
  <2> QED  BY <2>1, MPutEffect, MAcceptedClient
<1> HIDE DEF X
<1>2. x[c].cache_index = Matsko!NONE
  BY DEF MInv, MClientsOK
<1>3. MTypes(X, y, z)
  BY <1>1 DEF MInv, MTypes
<1>4. MClientsOK(X, z)
  BY <1>1, MAcceptedClient DEF MInv, MClientsOK
<1>5. MSubscribed(X, z)
  <2>1. \A d \in CLIENTS : X[d].cache_index = x[d].cache_index
    BY <1>1, <1>2, MAcceptedClient
  <2> QED  BY <2>1 DEF MInv, MSubscribed
<1>6. MPolled(X, z)
  BY <1>1, MAcceptedClient DEF MInv, MPolled
<1> QED  BY <1>3, <1>4, <1>5, <1>6 DEF MInv, MSound, X

LEMMA MAccept ==
  ASSUME Matsko!IInv, Matsko!acceptNewClient
  PROVE  Matsko!IInv'
<1> DEFINE c == Matsko!Min(Matsko!findFreeClient)
<1>1. c \in CLIENTS /\ ~clients[c].fd
  <2>1. Matsko!findFreeClient \in SUBSET Nat
    BY Indices DEF Matsko!findFreeClient
  <2>2. c \in Matsko!findFreeClient
    BY <2>1, MMin DEF Matsko!acceptNewClient
  <2> QED  BY <2>2 DEF Matsko!findFreeClient
<1>2. Matsko!Becomes([Matsko!Tables EXCEPT !.clients[c] = MAccepted])
  BY DEF Matsko!acceptNewClient, MAccepted
<1> HIDE DEF c
<1>3. [Matsko!Tables EXCEPT !.clients[c] = MAccepted]
        = MTb(MPut(clients, c, MAccepted), servers, cache)
  BY MTables DEF MTb, MPut
<1>4. MInv(clients, servers, cache)
  BY MStateInv
<1>5. MSound(MTb(MPut(clients, c, MAccepted), servers, cache))
  BY <1>1, <1>4, MAcceptInv
<1> QED  BY <1>2, <1>3, <1>5, MSoundState

LEMMA MDrop ==
  ASSUME Matsko!IInv, NEW c \in CLIENTS, Matsko!dropClient(c)
  PROVE  Matsko!IInv'
<1>1. MInv(clients, servers, cache)
  BY MStateInv
<1>2. MSound(Matsko!disconnectClient(Matsko!Tables, c))
  BY <1>1, MDropInv, MTables
<1> QED  BY <1>2, MSoundState DEF Matsko!dropClient

LEMMA MConnectFails ==
  ASSUME Matsko!IInv, NEW c \in CLIENTS, NEW u, Matsko!connectFails(c, u)
  PROVE  Matsko!IInv'
<1> DEFINE k == Matsko!Min(Matsko!findFreeRecord)
           t == Matsko!disconnectClient(Matsko!Tables, c)
<1>1. k \in RECORDS
  <2>1. Matsko!findFreeRecord \in SUBSET Nat
    BY Indices DEF Matsko!findFreeRecord
  <2>2. k \in Matsko!findFreeRecord
    BY <2>1, MMin DEF Matsko!connectFails
  <2> QED  BY <2>2 DEF Matsko!findFreeRecord
<1>2. Matsko!Becomes(Matsko!freeCacheRecord(t, k))
  BY DEF Matsko!connectFails
<1>3. MSound(t)
  BY MStateInv, MDropInv, MTables
<1> HIDE DEF k, t
<1>4. PICK x, y, z : t = MTb(x, y, z) /\ MInv(x, y, z)
  BY <1>3 DEF MSound
<1>5. MSound(Matsko!freeCacheRecord(t, k))
  BY <1>1, <1>4, MFreeInv
<1> QED  BY <1>2, <1>5, MSoundState

LEMMA MWriteToServerFails ==
  ASSUME Matsko!IInv, NEW s \in SERVERS, Matsko!writeToServerFails(s)
  PROVE  Matsko!IInv'
<1>1. servers[s].fd /\ Matsko!Becomes(Matsko!disconnectServer(Matsko!Tables, s))
  BY DEF Matsko!writeToServerFails
<1>2. MSound(Matsko!disconnectServer(Matsko!Tables, s))
  BY <1>1, MStateInv, MDisconnectServerInv, MTables
<1> QED  BY <1>1, <1>2, MSoundState

MListed(z, k, c) == [z EXCEPT ![k].subscribers = @ \cup {c}]

LEMMA MListedEffect ==
  ASSUME NEW z \in [RECORDS -> Matsko!Record], NEW k \in RECORDS, NEW c \in CLIENTS
  PROVE  /\ MListed(z, k, c) \in [RECORDS -> Matsko!Record]
         /\ MListed(z, k, c)[k].subscribers = z[k].subscribers \cup {c}
         /\ \A q \in RECORDS :
              /\ MSame(MListed(z, k, c)[q], z[q])
              /\ MListed(z, k, c)[q].server_index = z[q].server_index
              /\ q # k => MListed(z, k, c)[q].subscribers = z[q].subscribers
BY DEF MListed, Matsko!Record, MSame

MAsking(r, k, u, o) == [r EXCEPT !.cache_index = k, !.sent = 0, !.url = u, !.out = o]

LEMMA MAskingClient ==
  ASSUME NEW r \in Matsko!Client, NEW k \in RECORDS, NEW u \in URLS, NEW o, o \in BOOLEAN
  PROVE  /\ MAsking(r, k, u, o) \in Matsko!Client
         /\ MAsking(r, k, u, o).fd = r.fd /\ MAsking(r, k, u, o).cache_index = k
         /\ MAsking(r, k, u, o).url = u /\ MAsking(r, k, u, o).out = o
         /\ MAsking(r, k, u, o).sent = 0
<1>1. PICK n \in 0 .. CHUNKS : n = 0
  BY Indices
<1>2. MAsking(r, k, u, o) = [r EXCEPT !.cache_index = k, !.sent = n, !.url = u, !.out = o]
  BY <1>1, Zenon DEF MAsking
<1> DEFINE q == MAsking(r, k, u, o)
<1> HIDE DEF q
<1>3. /\ q \in Matsko!Client
      /\ q.fd = r.fd /\ q.cache_index = k /\ q.url = u /\ q.out = o /\ q.sent = n
  BY <1>2 DEF Matsko!Client, q
<1> QED  BY <1>1, <1>3, Zenon DEF q

(* A client that refers to no record joins record k. *)
LEMMA MJoinInv ==
  ASSUME NEW x, NEW y, NEW z, MInv(x, y, z), NEW c \in CLIENTS, NEW k \in RECORDS,
         NEW o, o \in BOOLEAN,
         x[c].fd, x[c].cache_index = Matsko!NONE,
         z[k].valid, z[k].url \in URLS, z[k].response_index > 0 => o = TRUE
  PROVE  MInv(MPut(x, c, MAsking(x[c], k, z[k].url, o)), y, MListed(z, k, c))
<1> DEFINE r == MAsking(x[c], k, z[k].url, o)
           X == MPut(x, c, r)
           Z == MListed(z, k, c)
<1>1. x \in [CLIENTS -> Matsko!Client] /\ z \in [RECORDS -> Matsko!Record] /\ x[c] \in Matsko!Client
  BY DEF MInv, MTypes
<1>2. /\ r \in Matsko!Client
      /\ r.fd = x[c].fd /\ r.cache_index = k /\ r.url = z[k].url /\ r.out = o /\ r.sent = 0
  <2>1. PICK v \in Matsko!Client : v = x[c]
    BY <1>1
  <2>2. PICK u \in URLS : u = z[k].url
    OBVIOUS
  <2> DEFINE w == MAsking(v, k, u, o)
  <2>3. w \in Matsko!Client
    BY <2>1, <2>2, MAskingClient
  <2>4. w.fd = v.fd
    BY <2>1, <2>2, MAskingClient
  <2>5. w.cache_index = k
    BY <2>1, <2>2, MAskingClient
  <2>6. w.url = u /\ w.out = o
    BY <2>1, <2>2, MAskingClient
  <2>7. w.sent = 0
    BY <2>1, <2>2, MAskingClient
  <2>8. w = r
    BY <2>1, <2>2
  <2> HIDE DEF w, r
  <2> QED  BY <2>1, <2>2, <2>3, <2>4, <2>5, <2>6, <2>7, <2>8
<1> HIDE DEF r
<1>3. /\ X \in [CLIENTS -> Matsko!Client] /\ X[c] = r
      /\ \A d \in CLIENTS : d # c => X[d] = x[d]
  BY <1>1, <1>2, MPutEffect
<1>4. /\ Z \in [RECORDS -> Matsko!Record]
      /\ Z[k].subscribers = z[k].subscribers \cup {c}
      /\ \A q \in RECORDS :
           /\ MSame(Z[q], z[q])
           /\ Z[q].server_index = z[q].server_index
           /\ q # k => Z[q].subscribers = z[q].subscribers
  BY <1>1, MListedEffect
<1> HIDE DEF X, Z
<1>5. \A q \in RECORDS :
        /\ Z[q].valid = z[q].valid /\ Z[q].url = z[q].url /\ Z[q].full = z[q].full
        /\ Z[q].response_index = z[q].response_index
        /\ Z[q].server_index = z[q].server_index
  BY <1>4 DEF MSame
<1>6. \A d \in CLIENTS : x[d].cache_index \in RECORDS \cup {Matsko!NONE}
  BY MFields
<1>7. \A q \in RECORDS : z[q].response_index \in Nat
  BY MFields
<1>8. MTypes(X, y, Z)
  BY <1>3, <1>4 DEF MInv, MTypes
<1>9. MClientsOK(X, Z)
  <2> SUFFICES ASSUME NEW d \in CLIENTS
      PROVE IF X[d].cache_index = Matsko!NONE
            THEN X[d].url = Matsko!NoUrl /\ ~X[d].out
            ELSE /\ X[d].fd /\ Z[X[d].cache_index].valid
                 /\ Z[X[d].cache_index].url = X[d].url
                 /\ X[d].sent \in 0 .. Z[X[d].cache_index].response_index
    BY DEF MClientsOK
  <2>1. CASE d = c
    <3>1. X[d].cache_index = k /\ k # Matsko!NONE /\ X[d].fd /\ X[d].url = z[k].url
      BY <2>1, <1>2, <1>3, MNone
    <3>2. X[d].sent \in 0 .. z[k].response_index
      BY <2>1, <1>2, <1>3, <1>7
    <3> QED  BY <3>1, <3>2, <1>5
  <2>2. CASE d # c
    <3>1. X[d] = x[d]
      BY <2>2, <1>3
    <3> QED  BY <3>1, <1>5, <1>6 DEF MInv, MClientsOK
  <2> QED  BY <2>1, <2>2
<1>10. MSubscribed(X, Z)
  <2> SUFFICES ASSUME NEW q \in RECORDS, NEW d \in CLIENTS
      PROVE d \in Z[q].subscribers <=> X[d].cache_index = q
    BY DEF MSubscribed
  <2>1. d \in z[q].subscribers <=> x[d].cache_index = q
    BY DEF MInv, MSubscribed
  <2>2. CASE d = c
    BY <2>1, <2>2, <1>2, <1>3, <1>4, MNone
  <2>3. CASE d # c
    BY <2>1, <2>3, <1>3, <1>4
  <2> QED  BY <2>2, <2>3
<1>11. MServed(y, Z)
  BY <1>5 DEF MInv, MServed
<1>12. MRecordsOK(Z)
  BY <1>5 DEF MInv, MRecordsOK
<1>13. MPolled(X, Z)
  <2> SUFFICES ASSUME NEW d \in CLIENTS, X[d].cache_index # Matsko!NONE,
                      Z[X[d].cache_index].response_index > 0,
                      \/ X[d].sent < Z[X[d].cache_index].response_index
                      \/ Z[X[d].cache_index].server_index = Matsko!NONE /\ ~Z[X[d].cache_index].full
      PROVE X[d].out
    BY DEF MPolled
  <2>1. CASE d = c
    BY <2>1, <1>2, <1>3, <1>5
  <2>2. CASE d # c
    <3>1. X[d] = x[d] /\ x[d].cache_index \in RECORDS
      BY <2>2, <1>3, <1>6
    <3> QED  BY <3>1, <1>5 DEF MInv, MPolled
  <2> QED  BY <2>1, <2>2
<1> QED  BY <1>8, <1>9, <1>10, <1>11, <1>12, <1>13 DEF MInv, X, Z, r

(* A client that may ask has no record: it would have asked before. *)
LEMMA MAskers ==
  ASSUME Matsko!IInv, NEW c \in CLIENTS, Matsko!MayAsk(c)
  PROVE  clients[c].fd /\ clients[c].cache_index = Matsko!NONE
<1>1. clients[c].fd /\ clients[c].url = Matsko!NoUrl
  BY DEF Matsko!MayAsk
<1>2. clients[c].cache_index \in RECORDS \cup {Matsko!NONE}
  BY MStateInv, MFields
<1> QED  BY <1>1, <1>2 DEF Matsko!IInv, Matsko!ClientsOK, Matsko!RecordsOK

LEMMA MReadCached ==
  ASSUME Matsko!IInv, NEW c \in CLIENTS, NEW u \in URLS, Matsko!readCachedRequest(c, u)
  PROVE  Matsko!IInv'
<1> DEFINE k == Matsko!Min(Matsko!findAtCache(u))
           o == clients[c].out \/ cache[k].response_index # 0
           r == [clients[c] EXCEPT !.cache_index = k, !.sent = 0, !.url = u, !.out = o]
<1>1. k \in RECORDS /\ cache[k].valid /\ cache[k].url = u
  <2>1. Matsko!findAtCache(u) \in SUBSET Nat
    BY Indices DEF Matsko!findAtCache
  <2>2. k \in Matsko!findAtCache(u)
    BY <2>1, MMin DEF Matsko!readCachedRequest
  <2> QED  BY <2>2 DEF Matsko!findAtCache
<1>2. clients[c].fd /\ clients[c].cache_index = Matsko!NONE
  BY MAskers DEF Matsko!readCachedRequest
<1>3. Matsko!Becomes([Matsko!addSubscriber(Matsko!Tables, c, k) EXCEPT !.clients[c] =
        [@ EXCEPT !.cache_index = k, !.sent = 0, !.url = u, !.out = o]])
  BY DEF Matsko!readCachedRequest
<1> HIDE DEF k
<1>4. o \in BOOLEAN /\ (cache[k].response_index > 0 => o = TRUE)
  OBVIOUS
<1> HIDE DEF o
<1>5. Matsko!addSubscriber(Matsko!Tables, c, k) = MTb(clients, servers, MListed(cache, k, c))
  BY MTables DEF Matsko!addSubscriber, MTb, MListed
<1>6. [MTb(clients, servers, MListed(cache, k, c)) EXCEPT !.clients[c] =
        [@ EXCEPT !.cache_index = k, !.sent = 0, !.url = u, !.out = o]]
      = MTb(MPut(clients, c, r), servers, MListed(cache, k, c))
  <2> DEFINE z == MListed(cache, k, c)
             e(q) == [q EXCEPT !.cache_index = k, !.sent = 0, !.url = u, !.out = o]
  <2>1. r = e(clients[c])
    OBVIOUS
  <2> HIDE DEF z, e, r
  <2>2. [MTb(clients, servers, z) EXCEPT !.clients[c] = e(@)]
          = MTb(MPut(clients, c, e(clients[c])), servers, z)
    BY DEF MTb, MPut
  <2> QED  BY <2>1, <2>2 DEF e, z
<1>7. MInv(MPut(clients, c, MAsking(clients[c], k, cache[k].url, o)), servers, MListed(cache, k, c))
  BY <1>1, <1>2, <1>4, MStateInv, MJoinInv
<1>8. MAsking(clients[c], k, cache[k].url, o) = r
  BY <1>1, Zenon DEF MAsking
<1> HIDE DEF r
<1>9. Matsko!Becomes(MTb(MPut(clients, c, r), servers, MListed(cache, k, c)))
  BY <1>3, <1>5, <1>6
<1>10. MSound(MTb(MPut(clients, c, r), servers, MListed(cache, k, c)))
  BY <1>7, <1>8 DEF MSound
<1> QED  BY <1>9, <1>10, MSoundState

MOpened(z, k, u, s) ==
  [z EXCEPT ![k] = [@ EXCEPT !.valid = TRUE, !.url = u, !.server_index = s]]

LEMMA MOpenedEffect ==
  ASSUME NEW z \in [RECORDS -> Matsko!Record], NEW k \in RECORDS, NEW u \in URLS,
         NEW s \in SERVERS
  PROVE  /\ MOpened(z, k, u, s) \in [RECORDS -> Matsko!Record]
         /\ MOpened(z, k, u, s)[k].valid
         /\ MOpened(z, k, u, s)[k].url = u
         /\ MOpened(z, k, u, s)[k].server_index = s
         /\ MOpened(z, k, u, s)[k].response_index = z[k].response_index
         /\ MOpened(z, k, u, s)[k].subscribers = z[k].subscribers
         /\ \A q \in RECORDS : q # k => MOpened(z, k, u, s)[q] = z[q]
BY DEF MOpened, Matsko!Record

MConnected(y, s, k) == [y EXCEPT ![s] = [fd |-> TRUE, cache_index |-> k, out |-> TRUE]]

LEMMA MConnectedEffect ==
  ASSUME NEW y \in [SERVERS -> Matsko!Server], NEW s \in SERVERS, NEW k \in RECORDS
  PROVE  /\ MConnected(y, s, k) \in [SERVERS -> Matsko!Server]
         /\ MConnected(y, s, k)[s].fd = TRUE
         /\ MConnected(y, s, k)[s].cache_index = k
         /\ \A r \in SERVERS : r # s => MConnected(y, s, k)[r] = y[r]
BY DEF MConnected, Matsko!Server

(* A free server slot fetches a URL that no record has into a free record. *)
LEMMA MOpenInv ==
  ASSUME NEW x, NEW y, NEW z, MInv(x, y, z), NEW k \in RECORDS, NEW u \in URLS,
         NEW s \in SERVERS, ~z[k].valid, ~y[s].fd,
         \A q \in RECORDS : ~(z[q].valid /\ z[q].url = u)
  PROVE  MInv(x, MConnected(y, s, k), MOpened(z, k, u, s))
<1> DEFINE Y == MConnected(y, s, k)
           Z == MOpened(z, k, u, s)
<1>1. y \in [SERVERS -> Matsko!Server] /\ z \in [RECORDS -> Matsko!Record]
  BY DEF MInv, MTypes
<1>2. /\ Y \in [SERVERS -> Matsko!Server] /\ Y[s].fd = TRUE /\ Y[s].cache_index = k
      /\ \A r \in SERVERS : r # s => Y[r] = y[r]
  BY <1>1, MConnectedEffect
<1>3. /\ Z \in [RECORDS -> Matsko!Record]
      /\ Z[k].valid /\ Z[k].url = u /\ Z[k].server_index = s
      /\ Z[k].response_index = z[k].response_index
      /\ Z[k].subscribers = z[k].subscribers
      /\ \A q \in RECORDS : q # k => Z[q] = z[q]
  BY <1>1, MOpenedEffect
<1> HIDE DEF Y, Z
<1>4. \A d \in CLIENTS : x[d].cache_index \in RECORDS \cup {Matsko!NONE}
  BY MFields
<1>5. \A d \in CLIENTS : x[d].cache_index # k
  BY MNone DEF MInv, MClientsOK
<1>6. z[k].response_index = 0 /\ z[k].server_index = Matsko!NONE
  BY DEF MInv, MRecordsOK
<1>7. y[s].cache_index = Matsko!NONE
  BY DEF MInv, MServed
<1>8. MTypes(x, Y, Z)
  BY <1>2, <1>3 DEF MInv, MTypes
<1>9. MClientsOK(x, Z)
  BY <1>3, <1>4, <1>5 DEF MInv, MClientsOK
<1>10. MSubscribed(x, Z)
  <2>1. \A q \in RECORDS : Z[q].subscribers = z[q].subscribers
    BY <1>3
  <2> QED  BY <2>1 DEF MInv, MSubscribed
<1>11. MServed(Y, Z)
  <2>1. \A r \in SERVERS : Y[r].fd <=> Y[r].cache_index # Matsko!NONE
    BY <1>2, MNone DEF MInv, MServed
  <2> SUFFICES ASSUME NEW q \in RECORDS, NEW r \in SERVERS
      PROVE Z[q].server_index = r <=> Y[r].cache_index = q
    BY <2>1 DEF MServed
  <2>2. /\ z[q].server_index = r <=> y[r].cache_index = q
        /\ z[k].server_index = r <=> y[r].cache_index = k
        /\ z[q].server_index = s <=> y[s].cache_index = q
    BY DEF MInv, MServed
  <2> QED  BY <2>2, <1>2, <1>3, <1>6, <1>7, MNone
<1>12. MRecordsOK(Z)
  <2>1. \A q \in RECORDS : IF Z[q].valid THEN Z[q].url # Matsko!NoUrl
                           ELSE Z[q].response_index = 0 /\ Z[q].server_index = Matsko!NONE
    BY <1>3, MNone DEF MInv, MRecordsOK
  <2>2. ASSUME NEW q \in RECORDS, NEW l \in RECORDS, Z[q].valid, Z[l].valid, Z[q].url = Z[l].url
        PROVE  q = l
    <3>1. \A p \in RECORDS : p # k => (Z[p].valid = z[p].valid /\ Z[p].url = z[p].url)
      BY <1>3
    <3>2. \A p \in RECORDS : p # k /\ Z[p].valid => Z[p].url # u
      BY <3>1
    <3>3. q = k <=> l = k
      BY <2>2, <3>2, <1>3
    <3>4. CASE q # k
      BY <2>2, <3>1, <3>3, <3>4 DEF MInv, MRecordsOK
    <3> QED  BY <3>3, <3>4
  <2> QED  BY <2>1, <2>2 DEF MRecordsOK
<1>13. MPolled(x, Z)
  BY <1>3, <1>4, <1>5 DEF MInv, MPolled
<1> QED  BY <1>8, <1>9, <1>10, <1>11, <1>12, <1>13 DEF MInv, Y, Z

LEMMA MReadNew ==
  ASSUME Matsko!IInv, NEW c \in CLIENTS, NEW u \in URLS, Matsko!readNewRequest(c, u)
  PROVE  Matsko!IInv'
<1> DEFINE k == Matsko!Min(Matsko!findFreeRecord)
           s == Matsko!Min(Matsko!findFreeServer)
           z == MOpened(cache, k, u, s)
           y == MConnected(servers, s, k)
           f(q) == [q EXCEPT !.valid = TRUE, !.url = u, !.server_index = s]
           t == [Matsko!Tables EXCEPT !.cache[k] = f(@)]
           e(q) == [q EXCEPT !.cache_index = k, !.sent = 0, !.url = u]
<1>1. k \in RECORDS /\ ~cache[k].valid
  <2>1. Matsko!findFreeRecord \in SUBSET Nat
    BY Indices DEF Matsko!findFreeRecord
  <2>2. k \in Matsko!findFreeRecord
    BY <2>1, MMin DEF Matsko!readNewRequest
  <2> QED  BY <2>2 DEF Matsko!findFreeRecord
<1>2. s \in SERVERS /\ ~servers[s].fd
  <2>1. Matsko!findFreeServer \in SUBSET Nat
    BY Indices DEF Matsko!findFreeServer
  <2>2. s \in Matsko!findFreeServer
    BY <2>1, MMin DEF Matsko!readNewRequest
  <2> QED  BY <2>2 DEF Matsko!findFreeServer
<1>3. clients[c].fd /\ clients[c].cache_index = Matsko!NONE
  BY MAskers DEF Matsko!readNewRequest
<1>4. \A q \in RECORDS : ~(cache[q].valid /\ cache[q].url = u)
  BY DEF Matsko!readNewRequest, Matsko!findAtCache
<1>5. Matsko!Becomes([Matsko!addSubscriber(t, c, k) EXCEPT
        !.servers[s] = [fd |-> TRUE, cache_index |-> k, out |-> TRUE],
        !.clients[c] = e(@)])
  BY DEF Matsko!readNewRequest
<1> HIDE DEF k, s
<1>6. t = MTb(clients, servers, z)
  <2>1. z = [cache EXCEPT ![k] = f(@)]
    BY DEF MOpened
  <2> HIDE DEF z, f
  <2> QED  BY <2>1, MTables DEF MTb
<1> HIDE DEF t
<1>7. MInv(clients, y, z)
  BY <1>1, <1>2, <1>4, MStateInv, MOpenInv
<1>8. z[k].valid /\ z[k].url = u /\ z[k].response_index = cache[k].response_index
      /\ cache[k].response_index = 0
  <2>1. cache \in [RECORDS -> Matsko!Record] /\ cache[k].response_index = 0
    BY <1>1, MStateInv DEF MInv, MTypes, MRecordsOK
  <2> QED  BY <2>1, <1>1, <1>2, MOpenedEffect
<1> HIDE DEF z
<1>9. Matsko!addSubscriber(t, c, k) = MTb(clients, servers, MListed(z, k, c))
  BY <1>6 DEF Matsko!addSubscriber, MTb, MListed
<1>10. [MTb(clients, servers, MListed(z, k, c)) EXCEPT
         !.servers[s] = [fd |-> TRUE, cache_index |-> k, out |-> TRUE],
         !.clients[c] = e(@)]
       = MTb(MPut(clients, c, e(clients[c])), y, MListed(z, k, c))
  <2> DEFINE w == MListed(z, k, c)
             r == [fd |-> TRUE, cache_index |-> k, out |-> TRUE]
  <2>1. y = [servers EXCEPT ![s] = r]
    BY DEF MConnected
  <2> HIDE DEF w, e, y, r
  <2>2. [MTb(clients, servers, w) EXCEPT !.servers[s] = r]
          = MTb(clients, [servers EXCEPT ![s] = r], w)
    BY DEF MTb
  <2>3. [MTb(clients, y, w) EXCEPT !.clients[c] = e(@)]
          = MTb(MPut(clients, c, e(clients[c])), y, w)
    BY DEF MTb, MPut
  <2>4. [MTb(clients, servers, w) EXCEPT !.servers[s] = r, !.clients[c] = e(@)]
          = [[MTb(clients, servers, w) EXCEPT !.servers[s] = r] EXCEPT !.clients[c] = e(@)]
    OBVIOUS
  <2> QED  BY <2>1, <2>2, <2>3, <2>4 DEF w, r
<1> HIDE DEF y
<1>11. clients[c] \in Matsko!Client /\ clients[c].out \in BOOLEAN
  BY MStateInv, MFields DEF Matsko!Client
<1>12. MInv(MPut(clients, c, MAsking(clients[c], k, z[k].url, clients[c].out)), y, MListed(z, k, c))
  <2>1. ~(z[k].response_index > 0)
    BY <1>8
  <2> QED  BY <1>1, <1>3, <1>7, <1>8, <1>11, <2>1, MJoinInv
<1>13. MAsking(clients[c], k, z[k].url, clients[c].out) = e(clients[c])
  <2>1. PICK v \in Matsko!Client : v = clients[c]
    BY <1>11
  <2>2. PICK n \in 0 .. CHUNKS : n = 0
    BY Indices
  <2>3. [v EXCEPT !.cache_index = k, !.sent = n, !.url = u, !.out = v.out]
          = [v EXCEPT !.cache_index = k, !.sent = n, !.url = u]
    BY DEF Matsko!Client
  <2> QED  BY <2>1, <2>2, <2>3, <1>8, Zenon DEF MAsking
<1> HIDE DEF e
<1>14. MSound(MTb(MPut(clients, c, e(clients[c])), y, MListed(z, k, c)))
  BY <1>12, <1>13 DEF MSound
<1>15. Matsko!Becomes(MTb(MPut(clients, c, e(clients[c])), y, MListed(z, k, c)))
  BY <1>5, <1>9, <1>10
<1> QED  BY <1>14, <1>15, MSoundState

MPutRecord(z, k, r) == [z EXCEPT ![k] = r]

MWritten(y, s, v) == [y EXCEPT ![s].out = v]

MFull(z, k, v) == [z EXCEPT ![k].full = v]

LEMMA MWriteToServer ==
  ASSUME Matsko!IInv, NEW s \in SERVERS, Matsko!writeToServer(s)
  PROVE  Matsko!IInv'
<1> DEFINE Y == MWritten(servers, s, FALSE)
<1>1. Matsko!Becomes([Matsko!Tables EXCEPT !.servers[s].out = FALSE])
  BY DEF Matsko!writeToServer
<1>2. [Matsko!Tables EXCEPT !.servers[s].out = FALSE] = MTb(clients, Y, cache)
  <2>1. PICK v : v = FALSE
    OBVIOUS
  <2>2. [MTb(clients, servers, cache) EXCEPT !.servers[s].out = v]
          = MTb(clients, MWritten(servers, s, v), cache)
    BY DEF MTb, MWritten
  <2> QED  BY <2>1, <2>2, MTables, Zenon
<1>3. MInv(clients, servers, cache)
  BY MStateInv
<1>4. /\ Y \in [SERVERS -> Matsko!Server]
      /\ \A r \in SERVERS : Y[r].fd = servers[r].fd /\ Y[r].cache_index = servers[r].cache_index
  BY <1>3 DEF MInv, MTypes, Matsko!Server, MWritten
<1> HIDE DEF Y
<1>5. MInv(clients, Y, cache)
  <2>1. MTypes(clients, Y, cache)
    BY <1>3, <1>4 DEF MInv, MTypes
  <2>2. MServed(Y, cache)
    BY <1>3, <1>4 DEF MInv, MServed
  <2> QED  BY <1>3, <2>1, <2>2 DEF MInv
<1> QED  BY <1>1, <1>2, <1>5, MSoundState DEF MSound

MFilling(r, n, p) == [r EXCEPT !.response_index = n, !.private = p]

LEMMA MFilledEffect ==
  ASSUME NEW z \in [RECORDS -> Matsko!Record], NEW k \in RECORDS, NEW p \in BOOLEAN,
         NEW n \in 0 .. CHUNKS
  PROVE  /\ MPutRecord(z, k, MFilling(z[k], n, p)) \in [RECORDS -> Matsko!Record]
         /\ MPutRecord(z, k, MFilling(z[k], n, p))[k].response_index = n
         /\ \A q \in RECORDS :
              /\ MPutRecord(z, k, MFilling(z[k], n, p))[q].valid = z[q].valid
              /\ MPutRecord(z, k, MFilling(z[k], n, p))[q].url = z[q].url
              /\ MPutRecord(z, k, MFilling(z[k], n, p))[q].server_index = z[q].server_index
              /\ MPutRecord(z, k, MFilling(z[k], n, p))[q].subscribers = z[q].subscribers
              /\ q # k => MPutRecord(z, k, MFilling(z[k], n, p))[q] = z[q]
BY DEF Matsko!Record, MPutRecord, MFilling

LEMMA MReadFromServer ==
  ASSUME Matsko!IInv, NEW s \in SERVERS, Matsko!readFromServer(s)
  PROVE  Matsko!IInv'
<1>1. MInv(clients, servers, cache)
  BY MStateInv
<1>2. servers[s].fd /\ servers[s].cache_index \in RECORDS
  <2>1. servers[s].fd
    BY DEF Matsko!readFromServer
  <2> QED  BY <1>1, <2>1, MFields DEF MInv, MServed
<1>3. PICK k \in RECORDS : k = servers[s].cache_index
  BY <1>2
<1>8. cache \in [RECORDS -> Matsko!Record]
  BY <1>1 DEF MInv, MTypes
<1>4. PICK n \in 0 .. CHUNKS : n = cache[k].response_index + 1
  <2>1. cache[k].response_index < CHUNKS
    BY <1>3 DEF Matsko!readFromServer
  <2>2. cache[k].response_index \in Nat
    BY <1>1, MFields
  <2> QED  BY <2>1, <2>2, Indices
<1>5. PICK p \in {cache[k].private, FALSE} :
        Matsko!Becomes(Matsko!notifySubscribers(
          [Matsko!Tables EXCEPT !.cache[k] =
             [@ EXCEPT !.response_index = cache[k].response_index + 1, !.private = p]], k))
  BY <1>3, Zenon DEF Matsko!readFromServer
<1>6. p \in BOOLEAN
  BY <1>8 DEF Matsko!Record
<1> DEFINE Z == MPutRecord(cache, k, MFilling(cache[k], n, p))
<1>7. [Matsko!Tables EXCEPT !.cache[k] =
         [@ EXCEPT !.response_index = cache[k].response_index + 1, !.private = p]]
        = MTb(clients, servers, Z)
  <2> DEFINE e(q) == [q EXCEPT !.response_index = cache[k].response_index + 1, !.private = p]
  <2>1. e(cache[k]) = MFilling(cache[k], n, p)
    BY <1>4, Zenon DEF MFilling
  <2> HIDE DEF e
  <2>2. [MTb(clients, servers, cache) EXCEPT !.cache[k] = e(@)]
          = MTb(clients, servers, MPutRecord(cache, k, e(cache[k])))
    BY DEF MTb, MPutRecord
  <2> QED  BY <2>1, <2>2, MTables DEF e
<1>9. /\ Z \in [RECORDS -> Matsko!Record]
      /\ Z[k].response_index = n
      /\ \A q \in RECORDS :
           /\ Z[q].valid = cache[q].valid /\ Z[q].url = cache[q].url
           /\ Z[q].server_index = cache[q].server_index
           /\ Z[q].subscribers = cache[q].subscribers
           /\ q # k => Z[q] = cache[q]
  BY <1>6, <1>8, MFilledEffect
<1> HIDE DEF Z
<1>10. cache[k].server_index = s /\ s # Matsko!NONE
  BY <1>1, <1>3, MNone DEF MInv, MServed
<1>11. /\ \A d \in CLIENTS : clients[d].cache_index \in RECORDS \cup {Matsko!NONE}
       /\ \A q \in RECORDS : cache[q].response_index \in Nat
  BY <1>1, MFields
<1>12. MTypes(clients, servers, Z)
  BY <1>1, <1>9 DEF MInv, MTypes
<1>13. MClientsOK(clients, Z)
  <2> SUFFICES ASSUME NEW d \in CLIENTS
      PROVE IF clients[d].cache_index = Matsko!NONE
            THEN clients[d].url = Matsko!NoUrl /\ ~clients[d].out
            ELSE /\ clients[d].fd /\ Z[clients[d].cache_index].valid
                 /\ Z[clients[d].cache_index].url = clients[d].url
                 /\ clients[d].sent \in 0 .. Z[clients[d].cache_index].response_index
    BY DEF MClientsOK
  <2>1. CASE clients[d].cache_index = k
    <3>1. clients[d].fd /\ cache[k].valid /\ cache[k].url = clients[d].url
          /\ clients[d].sent \in 0 .. cache[k].response_index
      BY <1>1, <2>1, MNone DEF MInv, MClientsOK
    <3>2. clients[d].sent \in 0 .. Z[k].response_index
      BY <3>1, <1>4, <1>9, <1>11
    <3> QED  BY <2>1, <3>1, <3>2, <1>9, MNone
  <2>2. CASE clients[d].cache_index # k
    BY <1>1, <2>2, <1>9, <1>11 DEF MInv, MClientsOK
  <2> QED  BY <2>1, <2>2
<1>14. MSubscribed(clients, Z) /\ MServed(servers, Z)
  BY <1>1, <1>9 DEF MInv, MSubscribed, MServed
<1>15. MRecordsOK(Z)
  <2>1. cache[k].valid
    BY <1>1, <1>10 DEF MInv, MRecordsOK
  <2> QED  BY <1>1, <1>9, <2>1 DEF MInv, MRecordsOK
<1>16. MPolledBut(clients, Z, k)
  BY <1>1, <1>9, <1>11 DEF MInv, MPolled, MPolledBut
<1>17. MInv(MNotified(clients, Z[k].subscribers), servers, Z)
  BY <1>12, <1>13, <1>14, <1>15, <1>16, MNotifyInv DEF MInvBut
<1>18. Matsko!notifySubscribers(MTb(clients, servers, Z), k)
         = MTb(MNotified(clients, Z[k].subscribers), servers, Z)
  BY MNotify
<1> QED  BY <1>5, <1>7, <1>17, <1>18, MSoundState DEF MSound

LEMMA MFullInv ==
  ASSUME NEW x, NEW y, NEW z, MInv(x, y, z), NEW k \in RECORDS
  PROVE  MInv(x, y, MFull(z, k, TRUE))
<1> DEFINE Z == MFull(z, k, TRUE)
<1>1. /\ Z \in [RECORDS -> Matsko!Record]
      /\ \A q \in RECORDS :
           /\ Z[q].valid = z[q].valid /\ Z[q].url = z[q].url
           /\ Z[q].response_index = z[q].response_index
           /\ Z[q].server_index = z[q].server_index
           /\ Z[q].subscribers = z[q].subscribers
           /\ ~Z[q].full => ~z[q].full
  BY DEF MInv, MTypes, Matsko!Record, MFull
<1> HIDE DEF Z
<1>2. \A d \in CLIENTS : x[d].cache_index \in RECORDS \cup {Matsko!NONE}
  BY MFields
<1>3. MTypes(x, y, Z)
  BY <1>1 DEF MInv, MTypes
<1>4. MClientsOK(x, Z)
  BY <1>1, <1>2 DEF MInv, MClientsOK
<1>5. MSubscribed(x, Z) /\ MServed(y, Z) /\ MRecordsOK(Z)
  BY <1>1 DEF MInv, MSubscribed, MServed, MRecordsOK
<1>6. MPolled(x, Z)
  BY <1>1, <1>2 DEF MInv, MPolled
<1> QED  BY <1>3, <1>4, <1>5, <1>6 DEF MInv, Z

LEMMA MServerCloses ==
  ASSUME Matsko!IInv, NEW s \in SERVERS, Matsko!serverCloses(s)
  PROVE  Matsko!IInv'
<1>1. MInv(clients, servers, cache)
  BY MStateInv
<1>2. servers[s].fd
  BY DEF Matsko!serverCloses
<1>3. PICK k \in RECORDS : k = servers[s].cache_index
  BY <1>1, <1>2, MFields DEF MInv, MServed
<1> DEFINE Z == MFull(cache, k, TRUE)
           X == MNotified(clients, Z[k].subscribers)
<1>4. Matsko!Becomes(Matsko!disconnectServer(
        Matsko!notifySubscribers([Matsko!Tables EXCEPT !.cache[k].full = TRUE], k), s))
  BY <1>3 DEF Matsko!serverCloses
<1>5. [Matsko!Tables EXCEPT !.cache[k].full = TRUE] = MTb(clients, servers, Z)
  <2>1. PICK v : v = TRUE
    OBVIOUS
  <2>2. [MTb(clients, servers, cache) EXCEPT !.cache[k].full = v]
          = MTb(clients, servers, MFull(cache, k, v))
    BY DEF MTb, MFull
  <2> QED  BY <2>1, <2>2, MTables, Zenon
<1>6. MInv(clients, servers, Z)
  BY <1>1, MFullInv
<1> HIDE DEF Z
<1>7. MInv(X, servers, Z)
  BY <1>6, MInvIsBut, MNotifyInv
<1>8. Matsko!notifySubscribers(MTb(clients, servers, Z), k) = MTb(X, servers, Z)
  BY MNotify
<1> HIDE DEF X
<1>9. MSound(Matsko!disconnectServer(MTb(X, servers, Z), s))
  BY <1>2, <1>7, MDisconnectServerInv
<1> QED  BY <1>4, <1>5, <1>8, <1>9, MSoundState

MSending(r, n, o) == [r EXCEPT !.sent = n, !.out = o]

(* Client c has written up to chunk n of its record. *)
LEMMA MSentInv ==
  ASSUME NEW x, NEW y, NEW z, MInv(x, y, z), NEW c \in CLIENTS, NEW k \in RECORDS,
         k = x[c].cache_index, z[k].server_index # Matsko!NONE \/ z[k].full,
         NEW n \in 0 .. CHUNKS, n <= z[k].response_index,
         NEW o, o \in BOOLEAN, o = FALSE => n = z[k].response_index
  PROVE  MInv(MPut(x, c, MSending(x[c], n, o)), y, z)
<1> DEFINE X == MPut(x, c, MSending(x[c], n, o))
<1>1. PICK v \in Matsko!Client : v = x[c]
  BY DEF MInv, MTypes
<1>2. /\ MSending(v, n, o) \in Matsko!Client /\ MSending(v, n, o).fd = v.fd
      /\ MSending(v, n, o).cache_index = v.cache_index /\ MSending(v, n, o).url = v.url
      /\ MSending(v, n, o).sent = n /\ MSending(v, n, o).out = o
  BY DEF Matsko!Client, MSending
<1> DEFINE w == MSending(v, n, o)
<1> HIDE DEF w
<1>3. X = MPut(x, c, w)
  BY <1>1 DEF w
<1>4. x \in [CLIENTS -> Matsko!Client]
  BY DEF MInv, MTypes
<1>5. w \in Matsko!Client
  BY <1>2 DEF w
<1> HIDE DEF X
<1>6. /\ X \in [CLIENTS -> Matsko!Client] /\ X[c] = w
      /\ \A d \in CLIENTS : d # c => X[d] = x[d]
  BY <1>3, <1>4, <1>5, MPutEffect
<1>7. /\ w.fd = x[c].fd /\ w.cache_index = x[c].cache_index /\ w.url = x[c].url
      /\ w.sent = n /\ w.out = o
  BY <1>1, <1>2, Zenon DEF w
<1>8. \A d \in CLIENTS : /\ X[d].fd = x[d].fd /\ X[d].cache_index = x[d].cache_index
                         /\ X[d].url = x[d].url
  BY <1>6, <1>7
<1>9. x[c].fd /\ x[c].cache_index # Matsko!NONE
  BY MNone DEF MInv, MClientsOK
<1>10. \A q \in RECORDS : z[q].response_index \in Nat
  BY MFields
<1>11. MTypes(X, y, z)
  BY <1>6 DEF MInv, MTypes
<1>12. MClientsOK(X, z)
  <2> SUFFICES ASSUME NEW d \in CLIENTS
      PROVE IF X[d].cache_index = Matsko!NONE
            THEN X[d].url = Matsko!NoUrl /\ ~X[d].out
            ELSE /\ X[d].fd /\ z[X[d].cache_index].valid
                 /\ z[X[d].cache_index].url = X[d].url
                 /\ X[d].sent \in 0 .. z[X[d].cache_index].response_index
    BY DEF MClientsOK
  <2>1. CASE d # c
    BY <2>1, <1>6 DEF MInv, MClientsOK
  <2>2. CASE d = c
    <3>1. X[d].sent \in 0 .. z[k].response_index
      BY <2>2, <1>6, <1>7, <1>10
    <3>2. X[d].fd = x[c].fd /\ X[d].cache_index = x[c].cache_index /\ X[d].url = x[c].url
      BY <2>2, <1>8
    <3> QED  BY <3>1, <3>2, <1>9 DEF MInv, MClientsOK
  <2> QED  BY <2>1, <2>2
<1>13. MSubscribed(X, z)
  BY <1>8 DEF MInv, MSubscribed
<1>14. MPolled(X, z)
  <2> SUFFICES ASSUME NEW d \in CLIENTS, X[d].cache_index # Matsko!NONE,
                      z[X[d].cache_index].response_index > 0,
                      \/ X[d].sent < z[X[d].cache_index].response_index
                      \/ z[X[d].cache_index].server_index = Matsko!NONE /\ ~z[X[d].cache_index].full
      PROVE X[d].out
    BY DEF MPolled
  <2>1. CASE d # c
    BY <2>1, <1>6 DEF MInv, MPolled
  <2>2. CASE d = c
    <3>1. X[d].cache_index = k /\ X[d].sent = n /\ X[d].out = o
      BY <2>2, <1>6, <1>7
    <3>2. n < z[k].response_index
      BY <3>1
    <3> QED  BY <3>1, <3>2, <1>10
  <2> QED  BY <2>1, <2>2
<1> QED  BY <1>11, <1>12, <1>13, <1>14 DEF MInv, X

LEMMA MWriteToClient ==
  ASSUME Matsko!IInv, NEW c \in CLIENTS, Matsko!writeToClient(c)
  PROVE  Matsko!IInv'
<1>1. MInv(clients, servers, cache)
  BY MStateInv
<1>2. PICK k \in RECORDS : k = clients[c].cache_index
  BY <1>1, MFields DEF Matsko!writeToClient
<1>3. CASE cache[k].server_index = Matsko!NONE /\ ~cache[k].full
  <2>1. Matsko!Becomes(Matsko!freeCacheRecord(Matsko!Tables, k))
    BY <1>2, <1>3, Zenon DEF Matsko!writeToClient
  <2>2. MSound(Matsko!freeCacheRecord(Matsko!Tables, k))
    BY <1>1, MFreeInv, MTables
  <2> QED  BY <2>1, <2>2, MSoundState
<1>4. CASE ~(cache[k].server_index = Matsko!NONE /\ ~cache[k].full)
  <2> DEFINE e(q, n) == [q EXCEPT !.sent = n, !.out = n # cache[k].response_index]
             t(n) == [Matsko!Tables EXCEPT !.clients[c] = e(@, n)]
  <2>1. PICK n \in clients[c].sent .. cache[k].response_index :
          Matsko!Becomes(IF cache[k].private /\ cache[k].full
                         THEN Matsko!freeCacheRecord(t(n), k) ELSE t(n))
    BY <1>2, <1>4, Zenon DEF Matsko!writeToClient
  <2>2. n \in 0 .. CHUNKS /\ n <= cache[k].response_index
    <3>1. clients[c].sent \in 0 .. cache[k].response_index
      BY <1>1, <1>2, MNone DEF MInv, MClientsOK
    <3>2. cache[k].response_index \in 0 .. CHUNKS
      BY <1>1, MFields
    <3> QED  BY <3>1, <3>2, Indices
  <2>3. PICK o : o = (n # cache[k].response_index)
    OBVIOUS
  <2> DEFINE X == MPut(clients, c, MSending(clients[c], n, o))
  <2>4. t(n) = MTb(X, servers, cache)
    <3>1. e(clients[c], n) = MSending(clients[c], n, o)
      BY <2>3, Zenon DEF MSending
    <3> HIDE DEF e
    <3>2. [MTb(clients, servers, cache) EXCEPT !.clients[c] = e(@, n)]
            = MTb(MPut(clients, c, e(clients[c], n)), servers, cache)
      BY DEF MTb, MPut
    <3> QED  BY <3>1, <3>2, MTables
  <2> HIDE DEF t
  <2>5. MInv(X, servers, cache)
    <3>1. o \in BOOLEAN /\ (o = FALSE => n = cache[k].response_index)
      BY <2>3
    <3>2. cache[k].server_index # Matsko!NONE \/ cache[k].full
      BY <1>4
    <3> QED  BY <1>1, <1>2, <2>2, <3>1, <3>2, MSentInv
  <2> HIDE DEF X
  <2>6. MSound(t(n)) /\ MSound(Matsko!freeCacheRecord(t(n), k))
    BY <2>4, <2>5, MFreeInv DEF MSound
  <2> QED  BY <2>1, <2>6, MSoundState
<1> QED  BY <1>3, <1>4

(* The tables without a connection: at the start and after cleanUp. *)
LEMMA MBlank ==
  MInv([c \in CLIENTS |-> Matsko!initEmptyClient],
       [s \in SERVERS |-> Matsko!initEmptyServer],
       [k \in RECORDS |-> Matsko!initEmptyCache])
<1> DEFINE x == [c \in CLIENTS |-> Matsko!initEmptyClient]
           y == [s \in SERVERS |-> Matsko!initEmptyServer]
           z == [k \in RECORDS |-> Matsko!initEmptyCache]
<1>1. MTypes(x, y, z)
  BY MEmpty, MEmptyR DEF MTypes
<1>2. MClientsOK(x, z)
  BY MEmpty DEF MClientsOK
<1>3. MSubscribed(x, z) /\ MServed(y, z)
  BY MEmpty, MEmptyR, MNone DEF MSubscribed, MServed
<1>4. MRecordsOK(z)
  BY MEmptyR DEF MRecordsOK
<1>5. MPolled(x, z)
  BY MEmpty DEF MPolled
<1> QED  BY <1>1, <1>2, <1>3, <1>4, <1>5 DEF MInv

LEMMA MInit ==
  ASSUME Matsko!Init
  PROVE  Matsko!IInv
BY MBlank, MInvState DEF Matsko!Init

LEMMA MCleanUp ==
  ASSUME Matsko!IInv, Matsko!cleanUp
  PROVE  Matsko!IInv'
BY MBlank, MInvNext DEF Matsko!cleanUp

LEMMA MNext ==
  ASSUME Matsko!IInv, Matsko!Next
  PROVE  Matsko!IInv'
BY MAccept, MReadCached, MReadNew, MConnectFails, MDrop, MWriteToClient, MWriteToServer,
   MWriteToServerFails, MReadFromServer, MServerCloses, MCleanUp
   DEF Matsko!Next

LEMMA MStutter ==
  ASSUME Matsko!IInv, UNCHANGED <<running, clients, servers, cache>>
  PROVE  Matsko!IInv'
<1>1. MInv(clients, servers, cache) /\ running \in BOOLEAN
  BY MStateInv DEF Matsko!IInv, Matsko!TypeOK
<1> QED  BY <1>1, MInvNext

LEMMA MFresh ==
  ASSUME Matsko!IInv
  PROVE  Matsko!IndicesFresh
<1>1. MInv(clients, servers, cache)
  BY MStateInv
<1>2. ASSUME NEW c \in CLIENTS
      PROVE  LET k == clients[c].cache_index
             IN  /\ k # Matsko!NONE => /\ clients[c].fd /\ cache[k].valid
                                       /\ c \in cache[k].subscribers
                                       /\ cache[k].url = clients[c].url
                                       /\ clients[c].sent <= cache[k].response_index
                 /\ clients[c].out => k # Matsko!NONE
  <2>1. CASE clients[c].cache_index = Matsko!NONE
    BY <2>1, <1>1 DEF MInv, MClientsOK
  <2>2. CASE clients[c].cache_index # Matsko!NONE
    <3>1. PICK k \in RECORDS : k = clients[c].cache_index
      BY <1>1, <2>2, MFields
    <3>2. /\ clients[c].fd /\ cache[k].valid /\ cache[k].url = clients[c].url
          /\ clients[c].sent \in 0 .. cache[k].response_index
      BY <1>1, <2>2, <3>1 DEF MInv, MClientsOK
    <3>3. c \in cache[k].subscribers
      BY <1>1, <3>1 DEF MInv, MSubscribed
    <3>4. clients[c].sent <= cache[k].response_index
      BY <3>2
    <3> QED  BY <2>2, <3>1, <3>2, <3>3, <3>4
  <2> QED  BY <2>1, <2>2
<1>3. \A k \in RECORDS, s \in SERVERS :
        cache[k].server_index = s <=> (servers[s].fd /\ servers[s].cache_index = k)
  BY <1>1, MNone DEF MInv, MServed
<1> QED  BY <1>2, <1>3, Zenon DEF Matsko!IndicesFresh

-----------------------------------------------------------------------------
(* PollProxyRybalko: the same for its tables. *)
LEMMA RNone ==
  /\ Rybalko!NONE \notin CLIENTS /\ Rybalko!NONE \notin RECORDS /\ Rybalko!NONE \notin HOSTS
  /\ Rybalko!NONE \in Int /\ Rybalko!NONE < 0 /\ Rybalko!NoUrl \notin URLS
<1>1. Rybalko!NoUrl \notin URLS
  BY Zenon, TableConstants DEF Rybalko!NoUrl
<1>2. Rybalko!NONE = -1
  BY DEF Rybalko!NONE
<1> QED  BY <1>1, <1>2, Indices

LEMMA REmpty ==
  /\ Rybalko!InitClient \in Rybalko!Client
  /\ ~Rybalko!InitClient.fd /\ Rybalko!InitClient.cache_idx = Rybalko!NONE
  /\ Rybalko!InitClient.written = Rybalko!NONE /\ ~Rybalko!InitClient.out /\ Rybalko!InitClient.url = Rybalko!NoUrl
  /\ Rybalko!InitHost \in Rybalko!Host
  /\ ~Rybalko!InitHost.fd /\ Rybalko!InitHost.cache_idx = Rybalko!NONE
  /\ ~Rybalko!InitHost.out
BY DEF Rybalko!InitClient, Rybalko!InitHost, Rybalko!Client, Rybalko!Host

LEMMA REmptyR ==
  /\ Rybalko!InitCacheItem \in Rybalko!Record
  /\ Rybalko!InitCacheItem.valid = FALSE
  /\ Rybalko!InitCacheItem.url = Rybalko!NoUrl
  /\ Rybalko!InitCacheItem.response_idx = 0
  /\ Rybalko!InitCacheItem.response_size = 0
  /\ Rybalko!InitCacheItem.foreign = FALSE
  /\ Rybalko!InitCacheItem.subscribers = {}
  /\ Rybalko!InitCacheItem.host_idx = Rybalko!NONE
<1>1. PICK n \in 0 .. CHUNKS + 1 : n = 0
  BY Indices
<1>2. PICK m \in 0 .. 4 * (CHUNKS + 1) : m = 0
  BY Indices
<1>3. Rybalko!InitCacheItem =
        [valid |-> FALSE, url |-> Rybalko!NoUrl, response_idx |-> n, response_size |-> m,
         timed |-> FALSE, full |-> FALSE, successful |-> FALSE, subscribers |-> {},
         host_idx |-> Rybalko!NONE, foreign |-> FALSE]
  BY <1>1, <1>2, Zenon DEF Rybalko!InitCacheItem
<1> QED  BY <1>1, <1>2, <1>3 DEF Rybalko!Record

RTb(x, y, z) == [clients |-> x, hosts |-> y, cache |-> z]

RNotified(x, S) ==
  [c \in CLIENTS |-> IF c \in S THEN Rybalko!Notified(x[c]) ELSE x[c]]

LEMMA RNotifiedClient ==
  ASSUME NEW r \in Rybalko!Client
  PROVE  LET q == Rybalko!Notified(r)
         IN  /\ q \in Rybalko!Client
             /\ q.fd = r.fd /\ q.cache_idx = r.cache_idx /\ q.url = r.url
             /\ q.out = (r.out \/ r.fd)
             /\ q.written = IF r.written < 0 THEN 0 ELSE r.written
<1> DEFINE q == Rybalko!Notified(r)
<1>1. PICK n \in {Rybalko!NONE} \cup 0 .. CHUNKS + 1 : n = IF r.written < 0 THEN 0 ELSE r.written
  BY Indices, RNone DEF Rybalko!Client
<1>2. PICK o \in BOOLEAN : o = (r.out \/ r.fd)
  OBVIOUS
<1>3. q = [r EXCEPT !.out = o, !.written = n]
  BY <1>1, <1>2, Zenon DEF Rybalko!Notified
<1> HIDE DEF q
<1>4. q \in Rybalko!Client /\ q.fd = r.fd /\ q.cache_idx = r.cache_idx /\ q.url = r.url
      /\ q.out = o /\ q.written = n
  BY <1>3 DEF Rybalko!Client
<1> QED  BY <1>1, <1>2, <1>4, Zenon DEF q

LEMMA RNotifiedEffect ==
  ASSUME NEW x \in [CLIENTS -> Rybalko!Client], NEW S
  PROVE  /\ RNotified(x, S) \in [CLIENTS -> Rybalko!Client]
         /\ \A c \in CLIENTS :
              LET q == RNotified(x, S)[c]
              IN  /\ q.fd = x[c].fd /\ q.cache_idx = x[c].cache_idx /\ q.url = x[c].url
                  /\ c \notin S => q = x[c]
                  /\ c \in S => /\ q.out = (x[c].out \/ x[c].fd)
                                /\ q.written = IF x[c].written < 0 THEN 0 ELSE x[c].written
<1>1. ASSUME NEW c \in CLIENTS  PROVE x[c] \in Rybalko!Client
  OBVIOUS
<1>2. ASSUME NEW c \in CLIENTS
      PROVE  RNotified(x, S)[c] = IF c \in S THEN Rybalko!Notified(x[c]) ELSE x[c]
  BY DEF RNotified
<1>3. \A c \in CLIENTS : RNotified(x, S)[c] \in Rybalko!Client
  BY <1>1, <1>2, RNotifiedClient, Zenon
<1>4. RNotified(x, S) \in [CLIENTS -> Rybalko!Client]
  BY <1>3, Zenon DEF RNotified
<1> QED  BY <1>1, <1>2, <1>4, RNotifiedClient, Zenon

LEMMA RNotify ==
  ASSUME NEW x, NEW y, NEW z, NEW k
  PROVE  Rybalko!NotifySub(RTb(x, y, z), k) = RTb(RNotified(x, z[k].subscribers), y, z)
BY DEF RTb, Rybalko!NotifySub, RNotified

RDropped(x, c) == [x EXCEPT ![c] = Rybalko!InitClient]

RUnlisted(z, k, c) == [z EXCEPT ![k].subscribers = @ \ {c}]

LEMMA RDisconnect ==
  ASSUME NEW x, NEW y, NEW z, NEW c
  PROVE  Rybalko!DisconnectClient(RTb(x, y, z), c)
           = RTb(RDropped(x, c), y,
                 IF x[c].cache_idx = Rybalko!NONE THEN z
                 ELSE RUnlisted(z, x[c].cache_idx, c))
<1> DEFINE k == x[c].cache_idx
<1>1. Rybalko!DeleteSub(RTb(x, y, z), c, k) = RTb(x, y, RUnlisted(z, k, c))
  BY DEF RTb, Rybalko!DeleteSub, RUnlisted
<1>2. RTb(x, y, z).clients[c].cache_idx = k
  BY DEF RTb
<1>3. CASE k = Rybalko!NONE
  <2>1. Rybalko!DisconnectClient(RTb(x, y, z), c)
          = [RTb(x, y, z) EXCEPT !.clients[c] = Rybalko!InitClient]
    BY <1>3, <1>2, Zenon DEF Rybalko!DisconnectClient
  <2> QED  BY <2>1, <1>3 DEF RTb, RDropped
<1>4. CASE k # Rybalko!NONE
  <2>1. Rybalko!DisconnectClient(RTb(x, y, z), c)
          = [RTb(x, y, RUnlisted(z, k, c)) EXCEPT !.clients[c] = Rybalko!InitClient]
    BY <1>4, <1>1, <1>2, Zenon DEF Rybalko!DisconnectClient
  <2> QED  BY <2>1, <1>4 DEF RTb, RDropped
<1> QED
  BY <1>3, <1>4

RClosed(y, s) == [y EXCEPT ![s] = Rybalko!InitHost]

RHostless(z, k) == [z EXCEPT ![k].host_idx = Rybalko!NONE]

LEMMA RDisconnectHost ==
  ASSUME NEW x, NEW y, NEW z, NEW s, y[s].cache_idx # Rybalko!NONE
  PROVE  Rybalko!DisconnectHost(RTb(x, y, z), s)
           = RTb(RNotified(x, RHostless(z, y[s].cache_idx)[y[s].cache_idx].subscribers),
                 RClosed(y, s), RHostless(z, y[s].cache_idx))
<1> DEFINE k == y[s].cache_idx
           t == RTb(x, y, z)
           u == Rybalko!NotifySub(RTb(x, y, RHostless(z, k)), k)
<1>1. [t EXCEPT !.cache[k].host_idx = Rybalko!NONE] = RTb(x, y, RHostless(z, k))
  BY DEF RTb, RHostless
<1>2. t.hosts[s].cache_idx = k
  BY DEF RTb
<1>3. u = RTb(RNotified(x, RHostless(z, k)[k].subscribers), y, RHostless(z, k))
  BY RNotify
<1> HIDE DEF t
<1>4. Rybalko!DisconnectHost(t, s) = [u EXCEPT !.hosts[s] = Rybalko!InitHost]
  BY <1>1, <1>2 DEF Rybalko!DisconnectHost
<1> HIDE DEF u
<1> QED  BY <1>3, <1>4 DEF RTb, RClosed, t

LEMMA RDroppedEffect ==
  ASSUME NEW x \in [CLIENTS -> Rybalko!Client], NEW c \in CLIENTS
  PROVE  /\ RDropped(x, c) \in [CLIENTS -> Rybalko!Client]
         /\ RDropped(x, c)[c] = Rybalko!InitClient
         /\ \A d \in CLIENTS : d # c => RDropped(x, c)[d] = x[d]
BY REmpty DEF RDropped

LEMMA RClosedEffect ==
  ASSUME NEW y \in [HOSTS -> Rybalko!Host], NEW s \in HOSTS
  PROVE  /\ RClosed(y, s) \in [HOSTS -> Rybalko!Host]
         /\ RClosed(y, s)[s] = Rybalko!InitHost
         /\ \A r \in HOSTS : r # s => RClosed(y, s)[r] = y[r]
BY REmpty DEF RClosed

RSame(r, q) ==
  /\ r.valid = q.valid /\ r.url = q.url /\ r.response_idx = q.response_idx
  /\ r.response_size = q.response_size /\ r.foreign = q.foreign

LEMMA RUnlistedEffect ==
  ASSUME NEW z \in [RECORDS -> Rybalko!Record], NEW k \in RECORDS, NEW c \in CLIENTS
  PROVE  /\ RUnlisted(z, k, c) \in [RECORDS -> Rybalko!Record]
         /\ RUnlisted(z, k, c)[k].subscribers = z[k].subscribers \ {c}
         /\ \A q \in RECORDS :
              /\ RSame(RUnlisted(z, k, c)[q], z[q])
              /\ RUnlisted(z, k, c)[q].host_idx = z[q].host_idx
              /\ q # k => RUnlisted(z, k, c)[q].subscribers = z[q].subscribers
BY DEF RUnlisted, Rybalko!Record, RSame

LEMMA RHostlessEffect ==
  ASSUME NEW z \in [RECORDS -> Rybalko!Record], NEW k \in RECORDS
  PROVE  /\ RHostless(z, k) \in [RECORDS -> Rybalko!Record]
         /\ RHostless(z, k)[k].host_idx = Rybalko!NONE
         /\ \A q \in RECORDS :
              /\ RSame(RHostless(z, k)[q], z[q])
              /\ RHostless(z, k)[q].subscribers = z[q].subscribers
              /\ q # k => RHostless(z, k)[q].host_idx = z[q].host_idx
BY DEF RHostless, Rybalko!Record, RSame

LEMMA RTables ==
  /\ Rybalko!Tables = RTb(clients, servers, cache)
  /\ \A x, y, z : Rybalko!Becomes(RTb(x, y, z)) =>
       clients' = x /\ servers' = y /\ cache' = z /\ running' = running
BY DEF RTb, Rybalko!Tables, Rybalko!Becomes

RTypes(x, y, z) ==
  /\ x \in [CLIENTS -> Rybalko!Client]
  /\ y \in [HOSTS -> Rybalko!Host]
  /\ z \in [RECORDS -> Rybalko!Record]

RClientsOK(x, z) ==
  \A c \in CLIENTS :
    IF x[c].cache_idx = Rybalko!NONE
    THEN x[c].url = Rybalko!NoUrl /\ ~x[c].out
    ELSE /\ x[c].fd
         /\ z[x[c].cache_idx].valid
         /\ z[x[c].cache_idx].url = x[c].url
         /\ x[c].written \in 0 .. z[x[c].cache_idx].response_idx

RSubscribed(x, z) ==
  \A k \in RECORDS, c \in CLIENTS : c \in z[k].subscribers <=> x[c].cache_idx = k

RServed(y, z) ==
  /\ \A k \in RECORDS, s \in HOSTS : z[k].host_idx = s <=> y[s].cache_idx = k
  /\ \A s \in HOSTS : y[s].fd <=> y[s].cache_idx # Rybalko!NONE

RRecordsOK(z) ==
  \A k \in RECORDS :
    /\ IF z[k].valid THEN z[k].url # Rybalko!NoUrl
       ELSE /\ z[k].host_idx = Rybalko!NONE
            /\ z[k].response_idx = 0 \/ z[k].foreign
    /\ z[k].response_size = 0 => z[k].response_idx = 0
    /\ z[k].response_size <= 2 * z[k].response_idx

(* ... but for the clients of k, which NotifySub(k) takes care of. *)
RPolledBut(x, z, k) ==
  \A c \in CLIENTS :
    /\ x[c].cache_idx # Rybalko!NONE /\ x[c].cache_idx # k
    /\ ~z[x[c].cache_idx].foreign
    /\ x[c].written < z[x[c].cache_idx].response_idx
    => x[c].out

RPolled(x, z) ==
  \A c \in CLIENTS :
    /\ x[c].cache_idx # Rybalko!NONE
    /\ ~z[x[c].cache_idx].foreign
    /\ x[c].written < z[x[c].cache_idx].response_idx
    => x[c].out

RInv(x, y, z) ==
  /\ RTypes(x, y, z) /\ RClientsOK(x, z) /\ RSubscribed(x, z) /\ RServed(y, z)
  /\ RRecordsOK(z) /\ RPolled(x, z)

RInvBut(x, y, z, k) ==
  /\ RTypes(x, y, z) /\ RClientsOK(x, z) /\ RSubscribed(x, z) /\ RServed(y, z)
  /\ RRecordsOK(z) /\ RPolledBut(x, z, k)

RSound(t) == \E x, y, z : t = RTb(x, y, z) /\ RInv(x, y, z)

LEMMA RStateInv ==
  ASSUME Rybalko!IInv
  PROVE  RInv(clients, servers, cache)
<1>1. RTypes(clients, servers, cache)
  BY Zenon DEF Rybalko!IInv, Rybalko!TypeOK, RTypes
<1>2. RClientsOK(clients, cache)
  BY Zenon DEF Rybalko!IInv, Rybalko!ClientsOK, RClientsOK
<1>3. RSubscribed(clients, cache) /\ RServed(servers, cache)
  BY Zenon DEF Rybalko!IInv, Rybalko!LinksOK, RSubscribed, RServed
<1>4. RRecordsOK(cache)
  BY Zenon DEF Rybalko!IInv, Rybalko!RecordsOK, RRecordsOK
<1>5. RPolled(clients, cache)
  BY Zenon DEF Rybalko!IInv, Rybalko!UnreadIsPolled, RPolled
<1> QED  BY <1>1, <1>2, <1>3, <1>4, <1>5 DEF RInv

LEMMA RInvState ==
  ASSUME running \in BOOLEAN, extra \in 0 .. (WORD - 1), Rybalko!AccountOK,
         RInv(clients, servers, cache)
  PROVE  Rybalko!IInv
<1>1. Rybalko!TypeOK
  BY Zenon DEF RInv, RTypes, Rybalko!TypeOK
<1>2. Rybalko!ClientsOK
  BY Zenon DEF RInv, Rybalko!ClientsOK, RClientsOK
<1>3. Rybalko!LinksOK
  BY Zenon DEF RInv, Rybalko!LinksOK, RSubscribed, RServed
<1>4. Rybalko!RecordsOK
  BY Zenon DEF RInv, Rybalko!RecordsOK, RRecordsOK
<1>5. Rybalko!UnreadIsPolled
  BY Zenon DEF RInv, Rybalko!UnreadIsPolled, RPolled
<1> QED  BY <1>1, <1>2, <1>3, <1>4, <1>5 DEF Rybalko!IInv

LEMMA RInvNext ==
  ASSUME running' \in BOOLEAN, extra' \in 0 .. (WORD - 1), Rybalko!AccountOK',
         RInv(clients', servers', cache')
  PROVE  Rybalko!IInv'
<1>1. Rybalko!TypeOK'
  BY Zenon DEF RInv, RTypes, Rybalko!TypeOK
<1>2. Rybalko!ClientsOK'
  BY Zenon DEF RInv, Rybalko!ClientsOK, RClientsOK
<1>3. Rybalko!LinksOK'
  BY Zenon DEF RInv, Rybalko!LinksOK, RSubscribed, RServed
<1>4. Rybalko!RecordsOK'
  BY Zenon DEF RInv, Rybalko!RecordsOK, RRecordsOK
<1>5. Rybalko!UnreadIsPolled'
  BY Zenon DEF RInv, Rybalko!UnreadIsPolled, RPolled
<1> QED  BY <1>1, <1>2, <1>3, <1>4, <1>5 DEF Rybalko!IInv

LEMMA RSoundTables ==
  ASSUME Rybalko!IInv, NEW t, RSound(t), Rybalko!Becomes(t),
         extra' \in 0 .. (WORD - 1), Rybalko!AccountOK'
  PROVE  Rybalko!IInv'
<1>1. PICK x, y, z : t = RTb(x, y, z) /\ RInv(x, y, z)
  BY Zenon DEF RSound
<1>2. /\ clients' = x /\ servers' = y /\ cache' = z /\ running' = running
  BY <1>1, RTables, Zenon
<1>3. running' \in BOOLEAN
  BY <1>2, Zenon DEF Rybalko!IInv, Rybalko!TypeOK
<1>4. RInv(clients', servers', cache')
  BY <1>1, <1>2
<1> QED  BY <1>3, <1>4, RInvNext

LEMMA RSoundState ==
  ASSUME Rybalko!IInv, NEW t, RSound(t), Rybalko!Becomes(t), UNCHANGED extra
  PROVE  Rybalko!IInv'
<1>1. extra' \in 0 .. (WORD - 1)
  BY DEF Rybalko!IInv, Rybalko!TypeOK
<1>2. Rybalko!AccountOK'
  BY DEF Rybalko!IInv, Rybalko!AccountOK, Rybalko!Signed
<1> QED  BY <1>1, <1>2, RSoundTables

LEMMA RFields ==
  ASSUME NEW x, NEW y, NEW z, RInv(x, y, z)
  PROVE  /\ x \in [CLIENTS -> Rybalko!Client] /\ y \in [HOSTS -> Rybalko!Host]
         /\ z \in [RECORDS -> Rybalko!Record]
         /\ \A c \in CLIENTS :
              /\ x[c] \in Rybalko!Client
              /\ x[c].cache_idx \in RECORDS \cup {Rybalko!NONE}
              /\ x[c].written \in Int
         /\ \A s \in HOSTS :
              /\ y[s] \in Rybalko!Host
              /\ y[s].cache_idx \in RECORDS \cup {Rybalko!NONE}
         /\ \A k \in RECORDS :
              /\ z[k] \in Rybalko!Record
              /\ z[k].response_idx \in Nat /\ z[k].response_idx \in 0 .. CHUNKS + 1
              /\ z[k].response_size \in Nat
              /\ z[k].host_idx \in HOSTS \cup {Rybalko!NONE}
              /\ z[k].subscribers \in SUBSET CLIENTS
<1>1. /\ x \in [CLIENTS -> Rybalko!Client] /\ y \in [HOSTS -> Rybalko!Host]
      /\ z \in [RECORDS -> Rybalko!Record]
  BY DEF RInv, RTypes
<1> QED  BY <1>1, Indices, RNone DEF Rybalko!Client, Rybalko!Host, Rybalko!Record

LEMMA RInvIsBut ==
  ASSUME NEW x, NEW y, NEW z, NEW k, RInv(x, y, z)
  PROVE  RInvBut(x, y, z, k)
BY DEF RInv, RInvBut, RPolled, RPolledBut

LEMMA RDropInv ==
  ASSUME NEW x, NEW y, NEW z, RInv(x, y, z), NEW c \in CLIENTS
  PROVE  RSound(Rybalko!DisconnectClient(RTb(x, y, z), c))
<1> DEFINE kc == x[c].cache_idx
           X == RDropped(x, c)
           Z == IF kc = Rybalko!NONE THEN z ELSE RUnlisted(z, kc, c)
<1>1. Rybalko!DisconnectClient(RTb(x, y, z), c) = RTb(X, y, Z)
  BY RDisconnect
<1>2. /\ X \in [CLIENTS -> Rybalko!Client] /\ X[c] = Rybalko!InitClient
      /\ \A d \in CLIENTS : d # c => X[d] = x[d]
  BY RFields, RDroppedEffect, Zenon
<1> HIDE DEF X
<1>3. /\ Z \in [RECORDS -> Rybalko!Record]
      /\ \A q \in RECORDS :
           /\ RSame(Z[q], z[q]) /\ Z[q].host_idx = z[q].host_idx
           /\ q = kc => Z[q].subscribers = z[q].subscribers \ {c}
           /\ q # kc => Z[q].subscribers = z[q].subscribers
  <2>1. CASE kc = Rybalko!NONE
    BY <2>1, RFields, RNone, Zenon DEF RSame
  <2>2. CASE kc # Rybalko!NONE
    <3>1. PICK j \in RECORDS : j = kc
      BY <2>2, RFields
    <3>2. Z = RUnlisted(z, j, c)
      BY <2>2, <3>1
    <3>3. z \in [RECORDS -> Rybalko!Record]
      BY RFields, Zenon
    <3>4. /\ RUnlisted(z, j, c) \in [RECORDS -> Rybalko!Record]
          /\ RUnlisted(z, j, c)[j].subscribers = z[j].subscribers \ {c}
          /\ \A q \in RECORDS :
               /\ RSame(RUnlisted(z, j, c)[q], z[q])
               /\ RUnlisted(z, j, c)[q].host_idx = z[q].host_idx
               /\ q # j => RUnlisted(z, j, c)[q].subscribers = z[q].subscribers
      BY <3>1, <3>3, RUnlistedEffect
    <3> HIDE DEF Z, kc
    <3> QED  BY <3>1, <3>2, <3>4
  <2> QED  BY <2>1, <2>2
<1> HIDE DEF Z
<1>31. \A q \in RECORDS :
         /\ Z[q].valid = z[q].valid /\ Z[q].url = z[q].url /\ Z[q].foreign = z[q].foreign
        /\ Z[q].response_size = z[q].response_size
         /\ Z[q].response_idx = z[q].response_idx
         /\ Z[q].host_idx = z[q].host_idx
  BY <1>3, Zenon DEF RSame
<1>4. RTypes(X, y, Z)
  BY <1>2, <1>3, RFields, Zenon DEF RTypes
<1>5. RClientsOK(X, Z)
  <2> SUFFICES ASSUME NEW d \in CLIENTS
      PROVE IF X[d].cache_idx = Rybalko!NONE
            THEN X[d].url = Rybalko!NoUrl /\ ~X[d].out
            ELSE /\ X[d].fd /\ Z[X[d].cache_idx].valid
                 /\ Z[X[d].cache_idx].url = X[d].url
                 /\ X[d].written \in 0 .. Z[X[d].cache_idx].response_idx
    BY Zenon DEF RClientsOK
  <2>1. CASE d = c
    BY <2>1, <1>2, REmpty, Zenon
  <2>2. CASE d # c
    <3>1. X[d] = x[d]  BY <2>2, <1>2
    <3>2. CASE x[d].cache_idx = Rybalko!NONE
      BY <3>1, <3>2, Zenon DEF RInv, RClientsOK
    <3>3. CASE x[d].cache_idx # Rybalko!NONE
      <4>1. x[d].cache_idx \in RECORDS
        BY <3>3, RFields
      <4> QED  BY <3>1, <3>3, <4>1, <1>31 DEF RInv, RClientsOK
    <3> QED  BY <3>2, <3>3
  <2> QED  BY <2>1, <2>2
<1>6. RSubscribed(X, Z)
  <2> SUFFICES ASSUME NEW q \in RECORDS, NEW d \in CLIENTS
      PROVE d \in Z[q].subscribers <=> X[d].cache_idx = q
    BY Zenon DEF RSubscribed
  <2>1. d \in z[q].subscribers <=> x[d].cache_idx = q
    BY Zenon DEF RInv, RSubscribed
  <2>2. /\ q = kc => Z[q].subscribers = z[q].subscribers \ {c}
        /\ q # kc => Z[q].subscribers = z[q].subscribers
    BY <1>3
  <2>3. CASE d = c
    BY <2>1, <2>2, <2>3, <1>2, REmpty, RNone
  <2>4. CASE d # c
    BY <2>1, <2>2, <2>4, <1>2
  <2> QED  BY <2>3, <2>4
<1>7. RServed(y, Z)
  BY <1>31 DEF RInv, RServed
<1>8. RRecordsOK(Z)
  BY <1>31 DEF RInv, RRecordsOK
<1>9. RPolled(X, Z)
  <2> SUFFICES ASSUME NEW d \in CLIENTS, X[d].cache_idx # Rybalko!NONE,
                      ~Z[X[d].cache_idx].foreign,
                      X[d].written < Z[X[d].cache_idx].response_idx
      PROVE X[d].out
    BY Zenon DEF RPolled
  <2>1. d # c
    BY <1>2, REmpty
  <2>2. X[d] = x[d] /\ x[d].cache_idx \in RECORDS
    BY <2>1, <1>2, RFields
  <2> QED  BY <2>2, <1>31 DEF RInv, RPolled
<1> QED  BY <1>1, <1>4, <1>5, <1>6, <1>7, <1>8, <1>9, Zenon DEF RInv, RSound

LEMMA RNotifyInv ==
  ASSUME NEW x, NEW y, NEW z, NEW k \in RECORDS, RInvBut(x, y, z, k)
  PROVE  RInv(RNotified(x, z[k].subscribers), y, z)
<1> DEFINE S == z[k].subscribers
           X == RNotified(x, S)
<1>1. x \in [CLIENTS -> Rybalko!Client] /\ z \in [RECORDS -> Rybalko!Record]
  BY DEF RInvBut, RTypes
<1>2. /\ X \in [CLIENTS -> Rybalko!Client]
      /\ \A c \in CLIENTS :
           /\ X[c].fd = x[c].fd /\ X[c].cache_idx = x[c].cache_idx /\ X[c].url = x[c].url
           /\ c \notin S => X[c] = x[c]
           /\ c \in S => /\ X[c].out = (x[c].out \/ x[c].fd)
                         /\ X[c].written = IF x[c].written < 0 THEN 0 ELSE x[c].written
  BY <1>1, RNotifiedEffect
<1>3. \A c \in CLIENTS : c \in S <=> x[c].cache_idx = k
  BY DEF RInvBut, RSubscribed
<1>4. \A c \in CLIENTS :
        /\ x[c].cache_idx \in RECORDS \cup {Rybalko!NONE} /\ x[c].written \in Int
        /\ x[c].fd \in BOOLEAN /\ x[c].out \in BOOLEAN
  BY <1>1, RNone, Indices DEF Rybalko!Client
<1> HIDE DEF X, S
<1>5. RTypes(X, y, z)
  BY <1>2 DEF RInvBut, RTypes
<1>6. RClientsOK(X, z)
  <2> SUFFICES ASSUME NEW d \in CLIENTS
      PROVE IF X[d].cache_idx = Rybalko!NONE
            THEN X[d].url = Rybalko!NoUrl /\ ~X[d].out
            ELSE /\ X[d].fd /\ z[X[d].cache_idx].valid
                 /\ z[X[d].cache_idx].url = X[d].url
                 /\ X[d].written \in 0 .. z[X[d].cache_idx].response_idx
    BY DEF RClientsOK
  <2>1. IF x[d].cache_idx = Rybalko!NONE
            THEN x[d].url = Rybalko!NoUrl /\ ~x[d].out
            ELSE /\ x[d].fd /\ z[x[d].cache_idx].valid
                 /\ z[x[d].cache_idx].url = x[d].url
                 /\ x[d].written \in 0 .. z[x[d].cache_idx].response_idx
    BY DEF RInvBut, RClientsOK
  <2>2. CASE d \notin S
    BY <2>1, <2>2, <1>2
  <2>3. CASE d \in S
    <3>1. X[d].cache_idx = x[d].cache_idx /\ x[d].cache_idx = k /\ k # Rybalko!NONE
      BY <2>3, <1>2, <1>3, RNone
    <3>2. X[d].fd = x[d].fd /\ X[d].url = x[d].url
      BY <1>2
    <3>3. ~(x[d].written < 0)
      BY <2>1, <3>1, <1>4
    <3>4. X[d].written = x[d].written
      BY <3>3, <2>3, <1>2
    <3> QED  BY <2>1, <3>1, <3>2, <3>4
  <2> QED  BY <2>2, <2>3
<1>7. RSubscribed(X, z)
  BY <1>2 DEF RInvBut, RSubscribed
<1>8. RPolled(X, z)
  <2> SUFFICES ASSUME NEW d \in CLIENTS, X[d].cache_idx # Rybalko!NONE,
                      ~z[X[d].cache_idx].foreign,
                      X[d].written < z[X[d].cache_idx].response_idx
      PROVE X[d].out
    BY DEF RPolled
  <2>1. CASE d \in S
    <3>1. x[d].fd
      BY <1>2 DEF RInvBut, RClientsOK
    <3> QED  BY <2>1, <3>1, <1>2, <1>4
  <2>2. CASE d \notin S
    BY <2>2, <1>2, <1>3 DEF RInvBut, RPolledBut
  <2> QED  BY <2>1, <2>2
<1> QED  BY <1>5, <1>6, <1>7, <1>8 DEF RInv, RInvBut, X, S

LEMMA RDisconnectHostInv ==
  ASSUME NEW x, NEW y, NEW z, RInv(x, y, z), NEW s \in HOSTS, y[s].fd
  PROVE  RSound(Rybalko!DisconnectHost(RTb(x, y, z), s))
<1>1. y \in [HOSTS -> Rybalko!Host] /\ z \in [RECORDS -> Rybalko!Record]
  BY DEF RInv, RTypes
<1>2. PICK k \in RECORDS : k = y[s].cache_idx
  BY <1>1, RFields DEF RInv, RServed
<1> DEFINE Z == RHostless(z, k)
           Y == RClosed(y, s)
<1>3. Rybalko!DisconnectHost(RTb(x, y, z), s) = RTb(RNotified(x, Z[k].subscribers), Y, Z)
  <2>1. y[s].cache_idx # Rybalko!NONE
    BY DEF RInv, RServed
  <2> QED  BY <2>1, <1>2, RDisconnectHost
<1>4. /\ Y \in [HOSTS -> Rybalko!Host] /\ Y[s] = Rybalko!InitHost
      /\ \A r \in HOSTS : r # s => Y[r] = y[r]
  BY <1>1, RClosedEffect
<1>5. /\ Z \in [RECORDS -> Rybalko!Record]
      /\ Z[k].host_idx = Rybalko!NONE
      /\ \A q \in RECORDS :
           /\ RSame(Z[q], z[q])
           /\ Z[q].subscribers = z[q].subscribers
           /\ q # k => Z[q].host_idx = z[q].host_idx
  BY <1>1, RHostlessEffect
<1> HIDE DEF Y, Z
<1>6. \A q \in RECORDS :
        /\ Z[q].valid = z[q].valid /\ Z[q].url = z[q].url /\ Z[q].foreign = z[q].foreign
        /\ Z[q].response_size = z[q].response_size
        /\ Z[q].response_idx = z[q].response_idx
        /\ Z[q].subscribers = z[q].subscribers
  BY <1>5 DEF RSame
<1>7. RTypes(x, Y, Z)
  BY <1>4, <1>5 DEF RInv, RTypes
<1>8. \A d \in CLIENTS : x[d].cache_idx \in RECORDS \cup {Rybalko!NONE}
  BY RFields
<1>9. RClientsOK(x, Z)
  BY <1>6, <1>8 DEF RInv, RClientsOK
<1>10. RSubscribed(x, Z)
  BY <1>6 DEF RInv, RSubscribed
<1>11. RServed(Y, Z)
  <2>1. \A r \in HOSTS : Y[r].fd <=> Y[r].cache_idx # Rybalko!NONE
    BY <1>4, REmpty DEF RInv, RServed
  <2> SUFFICES ASSUME NEW q \in RECORDS, NEW r \in HOSTS
      PROVE Z[q].host_idx = r <=> Y[r].cache_idx = q
    BY <2>1 DEF RServed
  <2>2. (z[q].host_idx = r <=> y[r].cache_idx = q) /\ (z[k].host_idx = r <=> y[r].cache_idx = k)
         /\ (z[q].host_idx = s <=> y[s].cache_idx = q) /\ z[k].host_idx = s
    BY <1>2 DEF RInv, RServed
  <2> QED  BY <2>2, <1>2, <1>4, <1>5, REmpty, RNone
<1>12. RRecordsOK(Z)
  <2>1. \A q \in RECORDS : z[q].host_idx = Rybalko!NONE => Z[q].host_idx = Rybalko!NONE
    BY <1>5
  <2> QED  BY <1>6, <2>1 DEF RInv, RRecordsOK
<1>13. RPolledBut(x, Z, k)
  BY <1>5, <1>6, <1>8 DEF RInv, RPolled, RPolledBut
<1>14. RInv(RNotified(x, Z[k].subscribers), Y, Z)
  BY <1>7, <1>9, <1>10, <1>11, <1>12, <1>13, RNotifyInv DEF RInvBut
<1> QED  BY <1>3, <1>14 DEF RSound

RPut(x, c, r) == [x EXCEPT ![c] = r]

LEMMA RPutEffect ==
  ASSUME NEW x \in [CLIENTS -> Rybalko!Client], NEW c \in CLIENTS, NEW r \in Rybalko!Client
  PROVE  /\ RPut(x, c, r) \in [CLIENTS -> Rybalko!Client]
         /\ RPut(x, c, r)[c] = r
         /\ \A d \in CLIENTS : d # c => RPut(x, c, r)[d] = x[d]
BY DEF RPut

RAccepted == [Rybalko!InitClient EXCEPT !.fd = TRUE]

LEMMA RAcceptedClient ==
  /\ RAccepted \in Rybalko!Client /\ RAccepted.fd = TRUE
  /\ RAccepted.cache_idx = Rybalko!NONE /\ ~RAccepted.out /\ RAccepted.url = Rybalko!NoUrl
BY REmpty DEF RAccepted, Rybalko!Client

LEMMA RAcceptInv ==
  ASSUME NEW x, NEW y, NEW z, RInv(x, y, z), NEW c \in CLIENTS, ~x[c].fd
  PROVE  RSound(RTb(RPut(x, c, RAccepted), y, z))
<1> DEFINE X == RPut(x, c, RAccepted)
<1>1. /\ X \in [CLIENTS -> Rybalko!Client] /\ X[c] = RAccepted
      /\ \A d \in CLIENTS : d # c => X[d] = x[d]
  <2>1. x \in [CLIENTS -> Rybalko!Client]
    BY DEF RInv, RTypes
  <2> QED  BY <2>1, RPutEffect, RAcceptedClient
<1> HIDE DEF X
<1>2. x[c].cache_idx = Rybalko!NONE
  BY DEF RInv, RClientsOK
<1>3. RTypes(X, y, z)
  BY <1>1 DEF RInv, RTypes
<1>4. RClientsOK(X, z)
  BY <1>1, RAcceptedClient DEF RInv, RClientsOK
<1>5. RSubscribed(X, z)
  <2>1. \A d \in CLIENTS : X[d].cache_idx = x[d].cache_idx
    BY <1>1, <1>2, RAcceptedClient
  <2> QED  BY <2>1 DEF RInv, RSubscribed
<1>6. RPolled(X, z)
  BY <1>1, RAcceptedClient DEF RInv, RPolled
<1> QED  BY <1>3, <1>4, <1>5, <1>6 DEF RInv, RSound, X

LEMMA RMin ==
  ASSUME NEW T \in SUBSET Nat, T # {}
  PROVE  Rybalko!Min(T) \in T
BY Least DEF Rybalko!Min

LEMMA RAccept ==
  ASSUME Rybalko!IInv, Rybalko!AcceptClient
  PROVE  Rybalko!IInv'
<1> DEFINE c == Rybalko!Min(Rybalko!SetForFreeClientId)
<1>1. c \in CLIENTS /\ ~clients[c].fd
  <2>1. Rybalko!SetForFreeClientId \in SUBSET Nat
    BY Indices DEF Rybalko!SetForFreeClientId
  <2>2. c \in Rybalko!SetForFreeClientId
    BY <2>1, RMin DEF Rybalko!AcceptClient
  <2> QED  BY <2>2 DEF Rybalko!SetForFreeClientId
<1>2. Rybalko!Becomes([Rybalko!Tables EXCEPT !.clients[c] = RAccepted])
  BY DEF Rybalko!AcceptClient, RAccepted
<1> HIDE DEF c
<1>3. [Rybalko!Tables EXCEPT !.clients[c] = RAccepted]
        = RTb(RPut(clients, c, RAccepted), servers, cache)
  BY RTables DEF RTb, RPut
<1>4. RInv(clients, servers, cache)
  BY RStateInv
<1>5. RSound(RTb(RPut(clients, c, RAccepted), servers, cache))
  BY <1>1, <1>4, RAcceptInv
<1>6. UNCHANGED extra
  BY DEF Rybalko!AcceptClient
<1> QED  BY <1>2, <1>3, <1>5, <1>6, RSoundState

LEMMA RDrop ==
  ASSUME Rybalko!IInv, NEW c \in CLIENTS, Rybalko!DropClient(c)
  PROVE  Rybalko!IInv'
<1>1. RInv(clients, servers, cache)
  BY RStateInv
<1>2. RSound(Rybalko!DisconnectClient(Rybalko!Tables, c))
  BY <1>1, RDropInv, RTables
<1> QED  BY <1>2, RSoundState DEF Rybalko!DropClient

LEMMA RWriteToHostFails ==
  ASSUME Rybalko!IInv, NEW s \in HOSTS, Rybalko!WriteToHostFails(s)
  PROVE  Rybalko!IInv'
<1>1. /\ servers[s].fd /\ Rybalko!Becomes(Rybalko!DisconnectHost(Rybalko!Tables, s))
      /\ UNCHANGED extra
  BY DEF Rybalko!WriteToHostFails
<1>2. RSound(Rybalko!DisconnectHost(Rybalko!Tables, s))
  BY <1>1, RStateInv, RDisconnectHostInv, RTables
<1> QED  BY <1>1, <1>2, RSoundState

RPutRecord(z, k, r) == [z EXCEPT ![k] = r]

RSubs(z, K) == UNION {z[k].subscribers : k \in K}

RHostsOf(z, K) == {z[k].host_idx : k \in K}

RGone(x, S) == [c \in CLIENTS |-> IF c \in S THEN Rybalko!InitClient ELSE x[c]]

RShut(y, H) == [h \in HOSTS |-> IF h \in H THEN Rybalko!InitHost ELSE y[h]]

RLeaving(r, D) == [r EXCEPT !.subscribers = @ \ D]

RCleaned(z, x, K) ==
  [k \in RECORDS |-> IF k \in K THEN Rybalko!InitCacheItem
                     ELSE RLeaving(z[k], {c \in RSubs(z, K) : x[c].cache_idx = k})]

LEMMA RCleanAll ==
  ASSUME NEW x, NEW y, NEW z, NEW K
  PROVE  Rybalko!CleanAll(RTb(x, y, z), K)
           = RTb(RGone(x, RSubs(z, K)), RShut(y, RHostsOf(z, K)), RCleaned(z, x, K))
BY DEF Rybalko!CleanAll, RTb, RGone, RSubs, RShut, RHostsOf, RCleaned, RLeaving

LEMMA RGoneEffect ==
  ASSUME NEW x \in [CLIENTS -> Rybalko!Client], NEW S
  PROVE  /\ RGone(x, S) \in [CLIENTS -> Rybalko!Client]
         /\ \A c \in CLIENTS : /\ c \in S => RGone(x, S)[c] = Rybalko!InitClient
                               /\ c \notin S => RGone(x, S)[c] = x[c]
BY REmpty DEF RGone

LEMMA RShutEffect ==
  ASSUME NEW y \in [HOSTS -> Rybalko!Host], NEW H
  PROVE  /\ RShut(y, H) \in [HOSTS -> Rybalko!Host]
         /\ \A h \in HOSTS : /\ h \in H => RShut(y, H)[h] = Rybalko!InitHost
                             /\ h \notin H => RShut(y, H)[h] = y[h]
BY REmpty DEF RShut

LEMMA RLeavingRecord ==
  ASSUME NEW r \in Rybalko!Record, NEW D
  PROVE  /\ RLeaving(r, D) \in Rybalko!Record
         /\ RSame(RLeaving(r, D), r)
         /\ RLeaving(r, D).host_idx = r.host_idx
         /\ RLeaving(r, D).subscribers = r.subscribers \ D
BY DEF Rybalko!Record, RSame, RLeaving

LEMMA RCleanedEffect ==
  ASSUME NEW z \in [RECORDS -> Rybalko!Record], NEW x, NEW K
  PROVE  /\ RCleaned(z, x, K) \in [RECORDS -> Rybalko!Record]
         /\ \A q \in RECORDS : q \in K => RCleaned(z, x, K)[q] = Rybalko!InitCacheItem
         /\ \A q \in RECORDS : q \notin K =>
              /\ RSame(RCleaned(z, x, K)[q], z[q])
              /\ RCleaned(z, x, K)[q].host_idx = z[q].host_idx
              /\ RCleaned(z, x, K)[q].subscribers
                   = z[q].subscribers \ {c \in RSubs(z, K) : x[c].cache_idx = q}
<1> DEFINE w == RCleaned(z, x, K)
           D(q) == {c \in RSubs(z, K) : x[c].cache_idx = q}
<1>1. ASSUME NEW q \in RECORDS
      PROVE  w[q] = IF q \in K THEN Rybalko!InitCacheItem ELSE RLeaving(z[q], D(q))
  BY Zenon DEF RCleaned
<1>2. w = [q \in RECORDS |-> w[q]]
  BY Zenon DEF RCleaned
<1> HIDE DEF w, D
<1>3. ASSUME NEW q \in RECORDS
      PROVE  w[q] \in Rybalko!Record
  BY <1>1, REmptyR, RLeavingRecord
<1>4. w \in [RECORDS -> Rybalko!Record]
  BY <1>2, <1>3
<1>5. ASSUME NEW q \in RECORDS, q \notin K
      PROVE  /\ RSame(w[q], z[q]) /\ w[q].host_idx = z[q].host_idx
             /\ w[q].subscribers = z[q].subscribers \ D(q)
  <2>1. PICK r \in Rybalko!Record : r = z[q]
    OBVIOUS
  <2>2. w[q] = RLeaving(r, D(q))
    BY <1>1, <1>5, <2>1
  <2> QED  BY <2>1, <2>2, RLeavingRecord
<1> QED  BY <1>1, <1>4, <1>5 DEF w, D

(* After CleanAll the tables are sound, and of the other records only the
   subscribers' entries have been looked at. *)
LEMMA RCleanInv ==
  ASSUME NEW x, NEW y, NEW z, RInv(x, y, z), NEW K \in SUBSET RECORDS
  PROVE  RInv(RGone(x, RSubs(z, K)), RShut(y, RHostsOf(z, K)), RCleaned(z, x, K))
<1> DEFINE S == RSubs(z, K)
           H == RHostsOf(z, K)
           X == RGone(x, S)
           Y == RShut(y, H)
           Z == RCleaned(z, x, K)
<1>1. /\ x \in [CLIENTS -> Rybalko!Client] /\ y \in [HOSTS -> Rybalko!Host]
      /\ z \in [RECORDS -> Rybalko!Record]
  BY DEF RInv, RTypes
<1>2. /\ X \in [CLIENTS -> Rybalko!Client]
      /\ \A c \in CLIENTS : /\ c \in S => X[c] = Rybalko!InitClient
                            /\ c \notin S => X[c] = x[c]
  BY <1>1, RGoneEffect
<1>3. /\ Y \in [HOSTS -> Rybalko!Host]
      /\ \A h \in HOSTS : /\ h \in H => Y[h] = Rybalko!InitHost
                          /\ h \notin H => Y[h] = y[h]
  BY <1>1, RShutEffect
<1>4. /\ Z \in [RECORDS -> Rybalko!Record]
      /\ \A q \in RECORDS : q \in K => Z[q] = Rybalko!InitCacheItem
      /\ \A q \in RECORDS : q \notin K =>
           /\ RSame(Z[q], z[q]) /\ Z[q].host_idx = z[q].host_idx
           /\ Z[q].subscribers = z[q].subscribers \ {c \in S : x[c].cache_idx = q}
  BY <1>1, RCleanedEffect
<1>5. \A c \in CLIENTS : c \in S <=> x[c].cache_idx \in K
  <2>1. \A k \in RECORDS, c \in CLIENTS : c \in z[k].subscribers <=> x[c].cache_idx = k
    BY DEF RInv, RSubscribed
  <2> QED  BY <2>1 DEF RSubs
<1>6. \A h \in HOSTS : h \in H <=> y[h].cache_idx \in K
  <2>1. \A k \in RECORDS, h \in HOSTS : z[k].host_idx = h <=> y[h].cache_idx = k
    BY DEF RInv, RServed
  <2> QED  BY <2>1 DEF RHostsOf
<1>7. S \subseteq CLIENTS
  <2>1. \A k \in RECORDS : z[k].subscribers \subseteq CLIENTS
    BY RFields
  <2> QED  BY <2>1 DEF RSubs
<1>8. \A c \in CLIENTS : x[c].cache_idx \in RECORDS \cup {Rybalko!NONE}
  BY RFields
<1> HIDE DEF X, Y, Z, S, H
<1>9. \A q \in RECORDS : q \notin K =>
        /\ Z[q].valid = z[q].valid /\ Z[q].url = z[q].url /\ Z[q].foreign = z[q].foreign
        /\ Z[q].response_idx = z[q].response_idx
        /\ Z[q].response_size = z[q].response_size
        /\ Z[q].host_idx = z[q].host_idx
  BY <1>4 DEF RSame
<1>10. \A q \in RECORDS : q \notin K => Z[q].subscribers = z[q].subscribers
  <2> SUFFICES ASSUME NEW q \in RECORDS, q \notin K  PROVE Z[q].subscribers = z[q].subscribers
    OBVIOUS
  <2> DEFINE D == {c \in S : x[c].cache_idx = q}
  <2>1. Z[q].subscribers = z[q].subscribers \ D
    BY <1>4
  <2>2. D = {}
    BY <1>5, <1>7
  <2> HIDE DEF D
  <2> QED  BY <2>1, <2>2
<1>11. \A q \in K :
         /\ Z[q].valid = FALSE /\ Z[q].response_idx = 0 /\ Z[q].response_size = 0
         /\ Z[q].subscribers = {} /\ Z[q].host_idx = Rybalko!NONE
  <2> SUFFICES ASSUME NEW q \in K
      PROVE /\ Z[q].valid = FALSE /\ Z[q].response_idx = 0 /\ Z[q].response_size = 0
            /\ Z[q].subscribers = {} /\ Z[q].host_idx = Rybalko!NONE
    OBVIOUS
  <2>1. Z[q] = Rybalko!InitCacheItem
    BY <1>4
  <2> QED  BY <2>1, REmptyR, Zenon
<1>12. RTypes(X, Y, Z)
  BY <1>2, <1>3, <1>4 DEF RTypes
<1>13. RClientsOK(X, Z)
  <2> SUFFICES ASSUME NEW d \in CLIENTS
      PROVE IF X[d].cache_idx = Rybalko!NONE
            THEN X[d].url = Rybalko!NoUrl /\ ~X[d].out
            ELSE /\ X[d].fd /\ Z[X[d].cache_idx].valid
                 /\ Z[X[d].cache_idx].url = X[d].url
                 /\ X[d].written \in 0 .. Z[X[d].cache_idx].response_idx
    BY DEF RClientsOK
  <2>1. CASE d \in S
    BY <2>1, <1>2, REmpty
  <2>2. CASE d \notin S
    <3>1. X[d] = x[d] /\ x[d].cache_idx \notin K
      BY <2>2, <1>2, <1>5
    <3> QED  BY <3>1, <1>8, <1>9 DEF RInv, RClientsOK
  <2> QED  BY <2>1, <2>2
<1>14. RSubscribed(X, Z)
  <2> SUFFICES ASSUME NEW q \in RECORDS, NEW d \in CLIENTS
      PROVE d \in Z[q].subscribers <=> X[d].cache_idx = q
    BY DEF RSubscribed
  <2>1. d \in z[q].subscribers <=> x[d].cache_idx = q
    BY DEF RInv, RSubscribed
  <2>2. CASE d \in S
    BY <2>1, <2>2, <1>2, <1>5, <1>10, <1>11, REmpty, RNone
  <2>3. CASE d \notin S
    BY <2>1, <2>3, <1>2, <1>5, <1>10, <1>11
  <2> QED  BY <2>2, <2>3
<1>15. RServed(Y, Z)
  <2>1. \A h \in HOSTS : Y[h].fd <=> Y[h].cache_idx # Rybalko!NONE
    BY <1>3, REmpty DEF RInv, RServed
  <2> SUFFICES ASSUME NEW q \in RECORDS, NEW h \in HOSTS
      PROVE Z[q].host_idx = h <=> Y[h].cache_idx = q
    BY <2>1 DEF RServed
  <2>2. z[q].host_idx = h <=> y[h].cache_idx = q
    BY DEF RInv, RServed
  <2>3. CASE h \in H
    <3>1. Y[h].cache_idx = Rybalko!NONE
      BY <2>3, <1>3, REmpty
    <3>2. q \notin K => Z[q].host_idx # h
      BY <2>2, <2>3, <1>6, <1>9
    <3> QED  BY <3>1, <3>2, <1>11, RNone
  <2>4. CASE h \notin H
    BY <2>2, <2>4, <1>3, <1>6, <1>9, <1>11, RNone
  <2> QED  BY <2>3, <2>4
<1>16. RRecordsOK(Z)
  <2> SUFFICES ASSUME NEW q \in RECORDS
      PROVE /\ IF Z[q].valid THEN Z[q].url # Rybalko!NoUrl
               ELSE /\ Z[q].host_idx = Rybalko!NONE
                    /\ Z[q].response_idx = 0 \/ Z[q].foreign
            /\ Z[q].response_size = 0 => Z[q].response_idx = 0
            /\ Z[q].response_size <= 2 * Z[q].response_idx
    BY DEF RRecordsOK
  <2>1. CASE q \in K
    BY <2>1, <1>11
  <2>2. CASE q \notin K
    BY <2>2, <1>9 DEF RInv, RRecordsOK
  <2> QED  BY <2>1, <2>2
<1>17. RPolled(X, Z)
  <2> SUFFICES ASSUME NEW d \in CLIENTS, X[d].cache_idx # Rybalko!NONE,
                      ~Z[X[d].cache_idx].foreign,
                      X[d].written < Z[X[d].cache_idx].response_idx
      PROVE X[d].out
    BY DEF RPolled
  <2>1. d \notin S
    BY <1>2, REmpty
  <2>2. X[d] = x[d] /\ x[d].cache_idx \notin K /\ x[d].cache_idx \in RECORDS
    BY <2>1, <1>2, <1>5, <1>8
  <2> QED  BY <2>2, <1>9 DEF RInv, RPolled
<1> QED  BY <1>12, <1>13, <1>14, <1>15, <1>16, <1>17 DEF RInv, X, Y, Z, S, H

LEMMA RCleanSound ==
  ASSUME NEW x, NEW y, NEW z, RInv(x, y, z), NEW K \in SUBSET RECORDS
  PROVE  RSound(Rybalko!CleanAll(RTb(x, y, z), K))
BY RCleanInv, RCleanAll DEF RSound

(* A host that has been shut already changes nothing but its own slot. *)
LEMMA RDisconnectShut ==
  ASSUME NEW x, NEW y, NEW z, RInv(x, y, z), NEW s \in HOSTS, y[s].cache_idx = Rybalko!NONE
  PROVE  RSound(Rybalko!DisconnectHost(RTb(x, y, z), s))
<1> DEFINE Y == RClosed(y, s)
<1>1. Rybalko!DisconnectHost(RTb(x, y, z), s) = RTb(x, Y, z)
  <2>1. RTb(x, y, z).hosts[s].cache_idx = Rybalko!NONE
    BY DEF RTb
  <2>2. Rybalko!DisconnectHost(RTb(x, y, z), s)
          = [RTb(x, y, z) EXCEPT !.hosts[s] = Rybalko!InitHost]
    BY <2>1, Zenon DEF Rybalko!DisconnectHost
  <2> QED  BY <2>2 DEF RTb, RClosed
<1>2. /\ Y \in [HOSTS -> Rybalko!Host] /\ Y[s] = Rybalko!InitHost
      /\ \A h \in HOSTS : h # s => Y[h] = y[h]
  <2>1. y \in [HOSTS -> Rybalko!Host]
    BY DEF RInv, RTypes
  <2> QED  BY <2>1, RClosedEffect
<1> HIDE DEF Y
<1>3. \A h \in HOSTS : Y[h].cache_idx = y[h].cache_idx /\ (Y[h].fd <=> y[h].fd)
  <2>1. ~y[s].fd
    BY DEF RInv, RServed
  <2> QED  BY <1>2, <2>1, REmpty
<1>4. RTypes(x, Y, z)
  BY <1>2 DEF RInv, RTypes
<1>5. RServed(Y, z)
  BY <1>3 DEF RInv, RServed
<1>6. RInv(x, Y, z)
  BY <1>4, <1>5 DEF RInv
<1> QED  BY <1>1, <1>6 DEF RSound

LEMMA RDisconnectInv ==
  ASSUME NEW x, NEW y, NEW z, RInv(x, y, z), NEW s \in HOSTS
  PROVE  RSound(Rybalko!DisconnectHost(RTb(x, y, z), s))
<1>1. CASE y[s].cache_idx = Rybalko!NONE
  BY <1>1, RDisconnectShut
<1>2. CASE y[s].cache_idx # Rybalko!NONE
  <2>1. y[s].fd
    BY <1>2 DEF RInv, RServed
  <2> QED  BY <2>1, RDisconnectHostInv
<1> QED  BY <1>1, <1>2

LEMMA RStoredRecord ==
  ASSUME NEW r \in Rybalko!Record, NEW b, b \in BOOLEAN, r.response_idx <= CHUNKS,
         r.response_size <= 2 * r.response_idx
  PROVE  /\ Rybalko!Stored(r, b) \in Rybalko!Record
         /\ Rybalko!Stored(r, b).valid = r.valid
         /\ Rybalko!Stored(r, b).url = r.url
         /\ Rybalko!Stored(r, b).host_idx = r.host_idx
         /\ Rybalko!Stored(r, b).subscribers = r.subscribers
         /\ Rybalko!Stored(r, b).response_idx = r.response_idx + 1
         /\ Rybalko!Stored(r, b).response_size > 0
         /\ Rybalko!Stored(r, b).response_size <= 2 * (r.response_idx + 1)
         /\ ~r.valid => Rybalko!Stored(r, b).foreign
         /\ r.foreign => Rybalko!Stored(r, b).foreign
<1>1. r.response_idx \in 0 .. CHUNKS + 1 /\ r.response_size \in 0 .. 4 * (CHUNKS + 1)
  BY DEF Rybalko!Record
<1>2. PICK n \in 0 .. CHUNKS + 1 : n = r.response_idx + 1
  BY <1>1, Indices
<1>3. PICK z \in Int : z = IF r.response_size = 0 THEN Rybalko!BUFFER ELSE r.response_size
  BY <1>1 DEF Rybalko!BUFFER
<1>4. z <= 2 * n /\ z >= 1
  BY <1>1, <1>2, <1>3 DEF Rybalko!BUFFER
<1>5. PICK m \in 0 .. 4 * (CHUNKS + 1) : m = IF n >= z THEN 2 * z ELSE z
  BY <1>2, <1>4, Indices
<1>6. m > 0 /\ m <= 2 * n
  BY <1>2, <1>4, <1>5
<1>7. PICK f \in BOOLEAN : f = (r.foreign \/ ~r.valid)
  OBVIOUS
<1>8. PICK g \in BOOLEAN : g = (r.successful \/ b)
  OBVIOUS
<1> DEFINE w == [r EXCEPT !.response_idx = n, !.response_size = m, !.foreign = f, !.successful = g]
<1>9. Rybalko!Stored(r, b) = w
  BY <1>2, <1>3, <1>5, <1>7, <1>8, Zenon DEF Rybalko!Stored
<1>10. /\ w \in Rybalko!Record /\ w.valid = r.valid /\ w.url = r.url
       /\ w.host_idx = r.host_idx /\ w.subscribers = r.subscribers
       /\ w.response_idx = n /\ w.response_size = m /\ w.foreign = f
  BY DEF Rybalko!Record
<1> HIDE DEF w
<1> QED  BY <1>2, <1>6, <1>7, <1>9, <1>10

RParsed(y, h, v) == [y EXCEPT ![h].header_parsed = v]

RMarked(y, h) == RParsed(y, h, TRUE)

LEMMA RParsedEffect ==
  ASSUME NEW y \in [HOSTS -> Rybalko!Host], NEW h \in HOSTS
  PROVE  /\ RMarked(y, h) \in [HOSTS -> Rybalko!Host]
         /\ \A g \in HOSTS : /\ RMarked(y, h)[g].fd = y[g].fd
                             /\ RMarked(y, h)[g].cache_idx = y[g].cache_idx
BY DEF RParsed, RMarked, Rybalko!Host

RGrown(r, success, parsed) == Rybalko!Stored(r, success /\ ~parsed)

LEMMA RAppend ==
  ASSUME NEW x, NEW y, NEW z, NEW h, NEW k, NEW success
  PROVE  Rybalko!AppendChunk(RTb(x, y, z), h, k, success)
           = Rybalko!NotifySub(
               RTb(x, RMarked(y, h),
                   RPutRecord(z, k, RGrown(z[k], success, y[h].header_parsed))), k)
<1> DEFINE t == RTb(x, y, z)
           r == RGrown(z[k], success, y[h].header_parsed)
<1>1. t.cache[k] = z[k] /\ t.hosts[h].header_parsed = y[h].header_parsed
  BY DEF RTb
<1>2. PICK v : v = TRUE
  OBVIOUS
<1>3. [t EXCEPT !.cache[k] = r, !.hosts[h].header_parsed = v]
        = RTb(x, RParsed(y, h, v), RPutRecord(z, k, r))
  <2> HIDE DEF r
  <2>1. [t EXCEPT !.cache[k] = r] = RTb(x, y, RPutRecord(z, k, r))
    BY DEF RTb, RPutRecord
  <2>2. [RTb(x, y, RPutRecord(z, k, r)) EXCEPT !.hosts[h].header_parsed = v]
          = RTb(x, RParsed(y, h, v), RPutRecord(z, k, r))
    BY DEF RTb, RParsed
  <2>3. [t EXCEPT !.cache[k] = r, !.hosts[h].header_parsed = v]
          = [[t EXCEPT !.cache[k] = r] EXCEPT !.hosts[h].header_parsed = v]
    OBVIOUS
  <2> QED  BY <2>1, <2>2, <2>3
<1> HIDE DEF t
<1>4. Rybalko!AppendChunk(t, h, k, success)
        = Rybalko!NotifySub([t EXCEPT !.cache[k] = r, !.hosts[h].header_parsed = TRUE], k)
  BY <1>1, Zenon DEF Rybalko!AppendChunk, RGrown
<1> QED  BY <1>2, <1>3, <1>4, Zenon DEF t, RMarked

LEMMA RAppendInv ==
  ASSUME NEW x, NEW y, NEW z, RInv(x, y, z), NEW h \in HOSTS, NEW k \in RECORDS,
         NEW success, success \in BOOLEAN, z[k].response_idx <= CHUNKS
  PROVE  RSound(Rybalko!AppendChunk(RTb(x, y, z), h, k, success))
<1> DEFINE Y == RMarked(y, h)
           r == RGrown(z[k], success, y[h].header_parsed)
           Z == RPutRecord(z, k, r)
<1>1. /\ y \in [HOSTS -> Rybalko!Host] /\ z \in [RECORDS -> Rybalko!Record]
  BY DEF RInv, RTypes
<1>2. /\ Y \in [HOSTS -> Rybalko!Host]
      /\ \A g \in HOSTS : Y[g].fd = y[g].fd /\ Y[g].cache_idx = y[g].cache_idx
  BY <1>1, RParsedEffect
<1>3. /\ r \in Rybalko!Record
      /\ r.valid = z[k].valid /\ r.url = z[k].url
      /\ r.host_idx = z[k].host_idx /\ r.subscribers = z[k].subscribers
      /\ r.response_idx = z[k].response_idx + 1
      /\ r.response_size > 0 /\ r.response_size <= 2 * (z[k].response_idx + 1)
      /\ ~z[k].valid => r.foreign
  <2>1. PICK v \in Rybalko!Record : v = z[k]
    BY <1>1
  <2>2. v.response_idx <= CHUNKS /\ v.response_size <= 2 * v.response_idx
    BY <2>1 DEF RInv, RRecordsOK
  <2>3. PICK b : b = (success /\ ~y[h].header_parsed)
    OBVIOUS
  <2>4. b \in BOOLEAN
    BY <2>3
  <2>5. Rybalko!Stored(v, b) = r
    BY <2>1, <2>3, Zenon DEF RGrown
  <2> HIDE DEF r
  <2>6. /\ Rybalko!Stored(v, b) \in Rybalko!Record
        /\ Rybalko!Stored(v, b).valid = v.valid
        /\ Rybalko!Stored(v, b).url = v.url
        /\ Rybalko!Stored(v, b).host_idx = v.host_idx
        /\ Rybalko!Stored(v, b).subscribers = v.subscribers
        /\ Rybalko!Stored(v, b).response_idx = v.response_idx + 1
        /\ Rybalko!Stored(v, b).response_size > 0
        /\ Rybalko!Stored(v, b).response_size <= 2 * (v.response_idx + 1)
        /\ ~v.valid => Rybalko!Stored(v, b).foreign
    BY <2>2, <2>4, RStoredRecord
  <2> QED  BY <2>1, <2>5, <2>6
<1> HIDE DEF r
<1>4. /\ Z \in [RECORDS -> Rybalko!Record] /\ Z[k] = r
      /\ \A q \in RECORDS : q # k => Z[q] = z[q]
  BY <1>1, <1>3 DEF RPutRecord
<1> HIDE DEF Y, Z
<1>5. /\ \A d \in CLIENTS : x[d].cache_idx \in RECORDS \cup {Rybalko!NONE}
      /\ \A q \in RECORDS : z[q].response_idx \in Nat
  BY RFields
<1>6. RTypes(x, Y, Z)
  BY <1>2, <1>4 DEF RInv, RTypes
<1>7. RClientsOK(x, Z)
  <2> SUFFICES ASSUME NEW d \in CLIENTS
      PROVE IF x[d].cache_idx = Rybalko!NONE
            THEN x[d].url = Rybalko!NoUrl /\ ~x[d].out
            ELSE /\ x[d].fd /\ Z[x[d].cache_idx].valid
                 /\ Z[x[d].cache_idx].url = x[d].url
                 /\ x[d].written \in 0 .. Z[x[d].cache_idx].response_idx
    BY DEF RClientsOK
  <2>1. CASE x[d].cache_idx = k
    <3>1. x[d].fd /\ z[k].valid /\ z[k].url = x[d].url
          /\ x[d].written \in 0 .. z[k].response_idx
      BY <2>1, RNone DEF RInv, RClientsOK
    <3>2. x[d].written \in 0 .. Z[k].response_idx
      BY <3>1, <1>3, <1>4, <1>5
    <3> QED  BY <2>1, <3>1, <3>2, <1>3, <1>4, RNone
  <2>2. CASE x[d].cache_idx # k
    BY <2>2, <1>4, <1>5 DEF RInv, RClientsOK
  <2> QED  BY <2>1, <2>2
<1>8. RSubscribed(x, Z)
  <2>1. \A q \in RECORDS : Z[q].subscribers = z[q].subscribers
    BY <1>3, <1>4
  <2> QED  BY <2>1 DEF RInv, RSubscribed
<1>9. RServed(Y, Z)
  <2>1. \A q \in RECORDS : Z[q].host_idx = z[q].host_idx
    BY <1>3, <1>4
  <2> QED  BY <1>2, <2>1 DEF RInv, RServed
<1>10. RRecordsOK(Z)
  <2> SUFFICES ASSUME NEW q \in RECORDS
      PROVE /\ IF Z[q].valid THEN Z[q].url # Rybalko!NoUrl
               ELSE /\ Z[q].host_idx = Rybalko!NONE
                    /\ Z[q].response_idx = 0 \/ Z[q].foreign
            /\ Z[q].response_size = 0 => Z[q].response_idx = 0
            /\ Z[q].response_size <= 2 * Z[q].response_idx
    BY DEF RRecordsOK
  <2>1. CASE q # k
    BY <2>1, <1>4 DEF RInv, RRecordsOK
  <2>2. CASE q = k
    <3>1. IF z[k].valid THEN z[k].url # Rybalko!NoUrl ELSE z[k].host_idx = Rybalko!NONE
      BY DEF RInv, RRecordsOK
    <3>2. r.response_size # 0 /\ r.response_size <= 2 * r.response_idx
      BY <1>3, <1>5
    <3> QED  BY <2>2, <3>1, <3>2, <1>3, <1>4
  <2> QED  BY <2>1, <2>2
<1>11. RPolledBut(x, Z, k)
  BY <1>4, <1>5 DEF RInv, RPolled, RPolledBut
<1>12. RInv(RNotified(x, Z[k].subscribers), Y, Z)
  BY <1>6, <1>7, <1>8, <1>9, <1>10, <1>11, RNotifyInv DEF RInvBut
<1>13. Rybalko!AppendChunk(RTb(x, y, z), h, k, success) = Rybalko!NotifySub(RTb(x, Y, Z), k)
  BY RAppend DEF Y, Z, r
<1> QED  BY <1>12, <1>13, RNotify DEF RSound

RListed(z, k, c) == [z EXCEPT ![k].subscribers = @ \cup {c}]

LEMMA RListedEffect ==
  ASSUME NEW z \in [RECORDS -> Rybalko!Record], NEW k \in RECORDS, NEW c \in CLIENTS
  PROVE  /\ RListed(z, k, c) \in [RECORDS -> Rybalko!Record]
         /\ RListed(z, k, c)[k].subscribers = z[k].subscribers \cup {c}
         /\ \A q \in RECORDS :
              /\ RSame(RListed(z, k, c)[q], z[q])
              /\ RListed(z, k, c)[q].host_idx = z[q].host_idx
              /\ q # k => RListed(z, k, c)[q].subscribers = z[q].subscribers
BY DEF RListed, Rybalko!Record, RSame

RAsking(r, k, u, o) == [r EXCEPT !.cache_idx = k, !.written = 0, !.url = u, !.out = o]

LEMMA RAskingClient ==
  ASSUME NEW r \in Rybalko!Client, NEW k \in RECORDS, NEW u \in URLS, NEW o, o \in BOOLEAN
  PROVE  /\ RAsking(r, k, u, o) \in Rybalko!Client
         /\ RAsking(r, k, u, o).fd = r.fd /\ RAsking(r, k, u, o).cache_idx = k
         /\ RAsking(r, k, u, o).url = u /\ RAsking(r, k, u, o).out = o
         /\ RAsking(r, k, u, o).written = 0
<1>1. PICK n \in 0 .. CHUNKS + 1 : n = 0
  BY Indices
<1>2. RAsking(r, k, u, o) = [r EXCEPT !.cache_idx = k, !.written = n, !.url = u, !.out = o]
  BY <1>1, Zenon DEF RAsking
<1> DEFINE q == RAsking(r, k, u, o)
<1> HIDE DEF q
<1>3. /\ q \in Rybalko!Client
      /\ q.fd = r.fd /\ q.cache_idx = k /\ q.url = u /\ q.out = o /\ q.written = n
  BY <1>2 DEF Rybalko!Client, q
<1> QED  BY <1>1, <1>3, Zenon DEF q

LEMMA RJoinInv ==
  ASSUME NEW x, NEW y, NEW z, RInv(x, y, z), NEW c \in CLIENTS, NEW k \in RECORDS,
         NEW o, o \in BOOLEAN,
         x[c].fd, x[c].cache_idx = Rybalko!NONE,
         z[k].valid, z[k].url \in URLS,
         ~z[k].foreign /\ z[k].response_idx > 0 => o = TRUE
  PROVE  RInv(RPut(x, c, RAsking(x[c], k, z[k].url, o)), y, RListed(z, k, c))
<1> DEFINE r == RAsking(x[c], k, z[k].url, o)
           X == RPut(x, c, r)
           Z == RListed(z, k, c)
<1>1. x \in [CLIENTS -> Rybalko!Client] /\ z \in [RECORDS -> Rybalko!Record] /\ x[c] \in Rybalko!Client
  BY DEF RInv, RTypes
<1>2. /\ r \in Rybalko!Client
      /\ r.fd = x[c].fd /\ r.cache_idx = k /\ r.url = z[k].url /\ r.out = o /\ r.written = 0
  <2>1. PICK v \in Rybalko!Client : v = x[c]
    BY <1>1
  <2>2. PICK u \in URLS : u = z[k].url
    OBVIOUS
  <2> DEFINE w == RAsking(v, k, u, o)
  <2>3. w \in Rybalko!Client
    BY <2>1, <2>2, RAskingClient
  <2>4. w.fd = v.fd
    BY <2>1, <2>2, RAskingClient
  <2>5. w.cache_idx = k
    BY <2>1, <2>2, RAskingClient
  <2>6. w.url = u /\ w.out = o
    BY <2>1, <2>2, RAskingClient
  <2>7. w.written = 0
    BY <2>1, <2>2, RAskingClient
  <2>8. w = r
    BY <2>1, <2>2
  <2> HIDE DEF w, r
  <2> QED  BY <2>1, <2>2, <2>3, <2>4, <2>5, <2>6, <2>7, <2>8
<1> HIDE DEF r
<1>3. /\ X \in [CLIENTS -> Rybalko!Client] /\ X[c] = r
      /\ \A d \in CLIENTS : d # c => X[d] = x[d]
  BY <1>1, <1>2, RPutEffect
<1>4. /\ Z \in [RECORDS -> Rybalko!Record]
      /\ Z[k].subscribers = z[k].subscribers \cup {c}
      /\ \A q \in RECORDS :
           /\ RSame(Z[q], z[q])
           /\ Z[q].host_idx = z[q].host_idx
           /\ q # k => Z[q].subscribers = z[q].subscribers
  BY <1>1, RListedEffect
<1> HIDE DEF X, Z
<1>5. \A q \in RECORDS :
        /\ Z[q].valid = z[q].valid /\ Z[q].url = z[q].url /\ Z[q].foreign = z[q].foreign
        /\ Z[q].response_size = z[q].response_size
        /\ Z[q].response_idx = z[q].response_idx
        /\ Z[q].host_idx = z[q].host_idx
  BY <1>4 DEF RSame
<1>6. \A d \in CLIENTS : x[d].cache_idx \in RECORDS \cup {Rybalko!NONE}
  BY RFields
<1>7. \A q \in RECORDS : z[q].response_idx \in Nat
  BY RFields
<1>8. RTypes(X, y, Z)
  BY <1>3, <1>4 DEF RInv, RTypes
<1>9. RClientsOK(X, Z)
  <2> SUFFICES ASSUME NEW d \in CLIENTS
      PROVE IF X[d].cache_idx = Rybalko!NONE
            THEN X[d].url = Rybalko!NoUrl /\ ~X[d].out
            ELSE /\ X[d].fd /\ Z[X[d].cache_idx].valid
                 /\ Z[X[d].cache_idx].url = X[d].url
                 /\ X[d].written \in 0 .. Z[X[d].cache_idx].response_idx
    BY DEF RClientsOK
  <2>1. CASE d = c
    <3>1. X[d].cache_idx = k /\ k # Rybalko!NONE /\ X[d].fd /\ X[d].url = z[k].url
      BY <2>1, <1>2, <1>3, RNone
    <3>2. X[d].written \in 0 .. z[k].response_idx
      BY <2>1, <1>2, <1>3, <1>7
    <3> QED  BY <3>1, <3>2, <1>5
  <2>2. CASE d # c
    <3>1. X[d] = x[d]
      BY <2>2, <1>3
    <3> QED  BY <3>1, <1>5, <1>6 DEF RInv, RClientsOK
  <2> QED  BY <2>1, <2>2
<1>10. RSubscribed(X, Z)
  <2> SUFFICES ASSUME NEW q \in RECORDS, NEW d \in CLIENTS
      PROVE d \in Z[q].subscribers <=> X[d].cache_idx = q
    BY DEF RSubscribed
  <2>1. d \in z[q].subscribers <=> x[d].cache_idx = q
    BY DEF RInv, RSubscribed
  <2>2. CASE d = c
    BY <2>1, <2>2, <1>2, <1>3, <1>4, RNone
  <2>3. CASE d # c
    BY <2>1, <2>3, <1>3, <1>4
  <2> QED  BY <2>2, <2>3
<1>11. RServed(y, Z)
  BY <1>5 DEF RInv, RServed
<1>12. RRecordsOK(Z)
  BY <1>5 DEF RInv, RRecordsOK
<1>13. RPolled(X, Z)
  <2> SUFFICES ASSUME NEW d \in CLIENTS, X[d].cache_idx # Rybalko!NONE,
                      ~Z[X[d].cache_idx].foreign,
                      X[d].written < Z[X[d].cache_idx].response_idx
      PROVE X[d].out
    BY DEF RPolled
  <2>1. CASE d = c
    BY <2>1, <1>2, <1>3, <1>5
  <2>2. CASE d # c
    <3>1. X[d] = x[d] /\ x[d].cache_idx \in RECORDS
      BY <2>2, <1>3, <1>6
    <3> QED  BY <3>1, <1>5 DEF RInv, RPolled
  <2> QED  BY <2>1, <2>2
<1> QED  BY <1>8, <1>9, <1>10, <1>11, <1>12, <1>13 DEF RInv, X, Z, r

LEMMA RAskers ==
  ASSUME Rybalko!IInv, NEW c \in CLIENTS, Rybalko!MayAsk(c)
  PROVE  clients[c].fd /\ clients[c].cache_idx = Rybalko!NONE
<1>1. clients[c].fd /\ clients[c].url = Rybalko!NoUrl
  BY DEF Rybalko!MayAsk
<1>2. clients[c].cache_idx \in RECORDS \cup {Rybalko!NONE}
  BY RStateInv, RFields
<1> QED  BY <1>1, <1>2 DEF Rybalko!IInv, Rybalko!ClientsOK, Rybalko!RecordsOK

(* What a handler may change in a record without further notice. *)
LEMMA RTouchInv ==
  ASSUME NEW x, NEW y, NEW z, RInv(x, y, z), NEW w \in [RECORDS -> Rybalko!Record],
         \A q \in RECORDS :
           /\ w[q].valid = z[q].valid /\ w[q].url = z[q].url
           /\ w[q].response_idx = z[q].response_idx /\ w[q].foreign = z[q].foreign
           /\ w[q].host_idx = z[q].host_idx /\ w[q].subscribers = z[q].subscribers
           /\ w[q].response_size = 0 => z[q].response_idx = 0
           /\ w[q].response_size <= 2 * z[q].response_idx
  PROVE  RInv(x, y, w)
<1>1. \A d \in CLIENTS : x[d].cache_idx \in RECORDS \cup {Rybalko!NONE}
  BY RFields
<1>2. RTypes(x, y, w)
  BY DEF RInv, RTypes
<1>3. RClientsOK(x, w)
  BY <1>1 DEF RInv, RClientsOK
<1>4. RSubscribed(x, w)
  BY DEF RInv, RSubscribed
<1>5. RServed(y, w)
  BY DEF RInv, RServed
<1>6. RRecordsOK(w)
  BY DEF RInv, RRecordsOK
<1>7. RPolled(x, w)
  BY <1>1 DEF RInv, RPolled
<1> QED  BY <1>2, <1>3, <1>4, <1>5, <1>6, <1>7 DEF RInv

RTimedAs(z, k, v) == [z EXCEPT ![k].timed = v]

RTimed(z, k) == RTimedAs(z, k, TRUE)

LEMMA RTimedInv ==
  ASSUME NEW x, NEW y, NEW z, RInv(x, y, z), NEW k \in RECORDS
  PROVE  /\ RInv(x, y, RTimed(z, k))
         /\ RTimed(z, k)[k].valid = z[k].valid /\ RTimed(z, k)[k].url = z[k].url
         /\ RTimed(z, k)[k].response_idx = z[k].response_idx
<1> DEFINE w == RTimed(z, k)
<1>1. z \in [RECORDS -> Rybalko!Record]
  BY DEF RInv, RTypes
<1>2. /\ w \in [RECORDS -> Rybalko!Record]
      /\ \A q \in RECORDS :
           /\ w[q].valid = z[q].valid /\ w[q].url = z[q].url
           /\ w[q].response_idx = z[q].response_idx /\ w[q].foreign = z[q].foreign
           /\ w[q].host_idx = z[q].host_idx /\ w[q].subscribers = z[q].subscribers
           /\ w[q].response_size = z[q].response_size
  BY <1>1 DEF RTimed, RTimedAs, Rybalko!Record
<1> HIDE DEF w
<1>3. \A q \in RECORDS : /\ z[q].response_size = 0 => z[q].response_idx = 0
                         /\ z[q].response_size <= 2 * z[q].response_idx
  BY DEF RInv, RRecordsOK
<1>4. RInv(x, y, w)
  BY <1>2, <1>3, RTouchInv
<1> QED  BY <1>2, <1>4 DEF w

LEMMA RTimes ==
  ASSUME NEW k
  PROVE  [Rybalko!Tables EXCEPT !.cache[k].timed = TRUE]
           = RTb(clients, servers, RTimed(cache, k))
<1>1. PICK v : v = TRUE
  OBVIOUS
<1>2. [Rybalko!Tables EXCEPT !.cache[k].timed = v] = RTb(clients, servers, RTimedAs(cache, k, v))
  BY RTables DEF RTb, RTimedAs
<1> QED  BY <1>1, <1>2, Zenon DEF RTimed

LEMMA RAddSub ==
  ASSUME NEW x, NEW y, NEW z, NEW c, NEW k
  PROVE  Rybalko!AddSub(RTb(x, y, z), c, k) = RTb(x, y, RListed(z, k, c))
BY DEF Rybalko!AddSub, RTb, RListed

LEMMA RReadCached ==
  ASSUME Rybalko!IInv, NEW c \in CLIENTS, NEW u \in URLS, Rybalko!ReadCachedRequest(c, u)
  PROVE  Rybalko!IInv'
<1> DEFINE k == Rybalko!Min(Rybalko!TryToFindAtCache(u))
           o == clients[c].out \/ cache[k].response_idx # 0
           e(q) == [q EXCEPT !.cache_idx = k, !.written = 0, !.url = u, !.out = o]
           z == RTimed(cache, k)
           w == RListed(z, k, c)
<1>1. k \in RECORDS /\ cache[k].valid /\ cache[k].url = u
  <2>1. Rybalko!TryToFindAtCache(u) \in SUBSET Nat
    BY Indices DEF Rybalko!TryToFindAtCache
  <2>2. k \in Rybalko!TryToFindAtCache(u)
    BY <2>1, RMin DEF Rybalko!ReadCachedRequest
  <2> QED  BY <2>2 DEF Rybalko!TryToFindAtCache
<1>2. clients[c].fd /\ clients[c].cache_idx = Rybalko!NONE
  BY RAskers DEF Rybalko!ReadCachedRequest
<1>3. /\ Rybalko!Becomes([Rybalko!AddSub([Rybalko!Tables EXCEPT !.cache[k].timed = TRUE], c, k)
                            EXCEPT !.clients[c] = e(@)])
      /\ UNCHANGED extra
  BY DEF Rybalko!ReadCachedRequest
<1> HIDE DEF k
<1>4. o \in BOOLEAN /\ (cache[k].response_idx > 0 => o = TRUE)
  OBVIOUS
<1> HIDE DEF o
<1>5. RInv(clients, servers, z) /\ z[k].valid /\ z[k].url = u
      /\ z[k].response_idx = cache[k].response_idx
  BY <1>1, RStateInv, RTimedInv
<1>6. Rybalko!AddSub([Rybalko!Tables EXCEPT !.cache[k].timed = TRUE], c, k)
        = RTb(clients, servers, w)
  <2>1. [Rybalko!Tables EXCEPT !.cache[k].timed = TRUE] = RTb(clients, servers, z)
    BY RTimes, Zenon
  <2>2. Rybalko!AddSub(RTb(clients, servers, z), c, k) = RTb(clients, servers, w)
    BY RAddSub
  <2> QED  BY <2>1, <2>2, Zenon
<1> HIDE DEF z
<1>7. [RTb(clients, servers, w) EXCEPT !.clients[c] = e(@)]
        = RTb(RPut(clients, c, e(clients[c])), servers, w)
  <2> HIDE DEF w, e
  <2> QED  BY DEF RTb, RPut
<1>8. RInv(RPut(clients, c, RAsking(clients[c], k, z[k].url, o)), servers, w)
  BY <1>1, <1>2, <1>4, <1>5, RJoinInv
<1>9. RAsking(clients[c], k, z[k].url, o) = e(clients[c])
  BY <1>5, Zenon DEF RAsking
<1> HIDE DEF e, w
<1>10. Rybalko!Becomes(RTb(RPut(clients, c, e(clients[c])), servers, w))
  BY <1>3, <1>6, <1>7
<1>11. RSound(RTb(RPut(clients, c, e(clients[c])), servers, w))
  BY <1>8, <1>9 DEF RSound
<1> QED  BY <1>3, <1>10, <1>11, RSoundState

RAdded(z, k, u) == [z EXCEPT ![k] = [@ EXCEPT !.valid = TRUE, !.url = u]]

LEMMA RAddedEffect ==
  ASSUME NEW z \in [RECORDS -> Rybalko!Record], NEW k \in RECORDS, NEW u \in URLS
  PROVE  /\ RAdded(z, k, u) \in [RECORDS -> Rybalko!Record]
         /\ RAdded(z, k, u)[k].valid
         /\ RAdded(z, k, u)[k].url = u
         /\ \A q \in RECORDS : q # k => RAdded(z, k, u)[q] = z[q]
         /\ \A q \in RECORDS :
              /\ RAdded(z, k, u)[q].host_idx = z[q].host_idx
              /\ RAdded(z, k, u)[q].subscribers = z[q].subscribers
              /\ RAdded(z, k, u)[q].response_idx = z[q].response_idx
              /\ RAdded(z, k, u)[q].response_size = z[q].response_size
              /\ RAdded(z, k, u)[q].foreign = z[q].foreign
BY DEF RAdded, Rybalko!Record

LEMMA RAddToCache ==
  ASSUME NEW k, NEW u
  PROVE  Rybalko!AddToCache(Rybalko!Tables, k, u) = RTb(clients, servers, RAdded(cache, k, u))
<1> DEFINE f(q) == [q EXCEPT !.valid = TRUE, !.url = u]
<1>1. Rybalko!AddToCache(Rybalko!Tables, k, u) = [Rybalko!Tables EXCEPT !.cache[k] = f(@)]
  BY DEF Rybalko!AddToCache
<1>2. RAdded(cache, k, u) = [cache EXCEPT ![k] = f(@)]
  BY DEF RAdded
<1> HIDE DEF f
<1> QED  BY <1>1, <1>2, RTables DEF RTb

(* A free item is given to a URL. *)
LEMMA RAddInv ==
  ASSUME NEW x, NEW y, NEW z, RInv(x, y, z), NEW k \in RECORDS, NEW u \in URLS, ~z[k].valid
  PROVE  RInv(x, y, RAdded(z, k, u))
<1> DEFINE Z == RAdded(z, k, u)
<1>1. z \in [RECORDS -> Rybalko!Record]
  BY DEF RInv, RTypes
<1>2. /\ Z \in [RECORDS -> Rybalko!Record] /\ Z[k].valid /\ Z[k].url = u
      /\ \A q \in RECORDS : q # k => Z[q] = z[q]
      /\ \A q \in RECORDS :
           /\ Z[q].host_idx = z[q].host_idx /\ Z[q].subscribers = z[q].subscribers
           /\ Z[q].response_idx = z[q].response_idx
           /\ Z[q].response_size = z[q].response_size
           /\ Z[q].foreign = z[q].foreign
  BY <1>1, RAddedEffect
<1> HIDE DEF Z
<1>3. \A d \in CLIENTS : x[d].cache_idx \in RECORDS \cup {Rybalko!NONE}
  BY RFields
<1>4. \A d \in CLIENTS : x[d].cache_idx # k
  BY RNone DEF RInv, RClientsOK
<1>5. RTypes(x, y, Z)
  BY <1>2 DEF RInv, RTypes
<1>6. RClientsOK(x, Z)
  BY <1>2, <1>3, <1>4 DEF RInv, RClientsOK
<1>7. RSubscribed(x, Z)
  BY <1>2 DEF RInv, RSubscribed
<1>8. RServed(y, Z)
  BY <1>2 DEF RInv, RServed
<1>9. RRecordsOK(Z)
  <2>1. u # Rybalko!NoUrl
    BY RNone
  <2> SUFFICES ASSUME NEW q \in RECORDS
      PROVE /\ IF Z[q].valid THEN Z[q].url # Rybalko!NoUrl
               ELSE /\ Z[q].host_idx = Rybalko!NONE
                    /\ Z[q].response_idx = 0 \/ Z[q].foreign
            /\ Z[q].response_size = 0 => Z[q].response_idx = 0
            /\ Z[q].response_size <= 2 * Z[q].response_idx
    BY DEF RRecordsOK
  <2>2. CASE q = k
    BY <2>1, <2>2, <1>2 DEF RInv, RRecordsOK
  <2>3. CASE q # k
    BY <2>3, <1>2 DEF RInv, RRecordsOK
  <2> QED  BY <2>2, <2>3
<1>10. RPolled(x, Z)
  BY <1>2, <1>3, <1>4 DEF RInv, RPolled
<1> QED  BY <1>5, <1>6, <1>7, <1>8, <1>9, <1>10 DEF RInv, Z

RHosted(z, k, h) == [z EXCEPT ![k].host_idx = h]

LEMMA RHostedEffect ==
  ASSUME NEW z \in [RECORDS -> Rybalko!Record], NEW k \in RECORDS, NEW h \in HOSTS
  PROVE  /\ RHosted(z, k, h) \in [RECORDS -> Rybalko!Record]
         /\ RHosted(z, k, h)[k].host_idx = h
         /\ \A q \in RECORDS : q # k => RHosted(z, k, h)[q] = z[q]
         /\ \A q \in RECORDS :
              /\ RSame(RHosted(z, k, h)[q], z[q])
              /\ RHosted(z, k, h)[q].subscribers = z[q].subscribers
BY DEF RHosted, Rybalko!Record, RSame

RConnected(y, h, k) ==
  [y EXCEPT ![h] = [@ EXCEPT !.fd = TRUE, !.cache_idx = k, !.out = TRUE]]

LEMMA RConnectedEffect ==
  ASSUME NEW y \in [HOSTS -> Rybalko!Host], NEW h \in HOSTS, NEW k \in RECORDS
  PROVE  /\ RConnected(y, h, k) \in [HOSTS -> Rybalko!Host]
         /\ RConnected(y, h, k)[h].fd = TRUE
         /\ RConnected(y, h, k)[h].cache_idx = k
         /\ \A g \in HOSTS : g # h => RConnected(y, h, k)[g] = y[g]
BY DEF RConnected, Rybalko!Host

(* A free host slot fetches into an item in use that has no host. *)
LEMMA RHostInv ==
  ASSUME NEW x, NEW y, NEW z, RInv(x, y, z), NEW k \in RECORDS, NEW h \in HOSTS,
         z[k].valid, z[k].host_idx = Rybalko!NONE, ~y[h].fd
  PROVE  RInv(x, RConnected(y, h, k), RHosted(z, k, h))
<1> DEFINE Y == RConnected(y, h, k)
           Z == RHosted(z, k, h)
<1>1. y \in [HOSTS -> Rybalko!Host] /\ z \in [RECORDS -> Rybalko!Record]
  BY DEF RInv, RTypes
<1>2. /\ Y \in [HOSTS -> Rybalko!Host] /\ Y[h].fd = TRUE /\ Y[h].cache_idx = k
      /\ \A g \in HOSTS : g # h => Y[g] = y[g]
  BY <1>1, RConnectedEffect
<1>3. /\ Z \in [RECORDS -> Rybalko!Record]
      /\ Z[k].host_idx = h
      /\ \A q \in RECORDS : q # k => Z[q] = z[q]
      /\ \A q \in RECORDS : RSame(Z[q], z[q]) /\ Z[q].subscribers = z[q].subscribers
  BY <1>1, RHostedEffect
<1> HIDE DEF Y, Z
<1>31. \A q \in RECORDS :
         /\ Z[q].valid = z[q].valid /\ Z[q].url = z[q].url
         /\ Z[q].response_idx = z[q].response_idx
         /\ Z[q].response_size = z[q].response_size /\ Z[q].foreign = z[q].foreign
         /\ Z[q].subscribers = z[q].subscribers
  BY <1>3 DEF RSame
<1>4. \A d \in CLIENTS : x[d].cache_idx \in RECORDS \cup {Rybalko!NONE}
  BY RFields
<1>5. y[h].cache_idx = Rybalko!NONE
  BY DEF RInv, RServed
<1>6. RTypes(x, Y, Z)
  BY <1>2, <1>3 DEF RInv, RTypes
<1>7. RClientsOK(x, Z)
  BY <1>31, <1>4 DEF RInv, RClientsOK
<1>8. RSubscribed(x, Z)
  BY <1>31 DEF RInv, RSubscribed
<1>9. RServed(Y, Z)
  <2>1. \A g \in HOSTS : Y[g].fd <=> Y[g].cache_idx # Rybalko!NONE
    BY <1>2, RNone DEF RInv, RServed
  <2> SUFFICES ASSUME NEW q \in RECORDS, NEW g \in HOSTS
      PROVE Z[q].host_idx = g <=> Y[g].cache_idx = q
    BY <2>1 DEF RServed
  <2>2. /\ z[q].host_idx = g <=> y[g].cache_idx = q
        /\ z[k].host_idx = g <=> y[g].cache_idx = k
        /\ z[q].host_idx = h <=> y[h].cache_idx = q
    BY DEF RInv, RServed
  <2> QED  BY <2>2, <1>2, <1>3, <1>5, RNone
<1>10. RRecordsOK(Z)
  <2>1. \A q \in RECORDS : z[q].valid \/ Z[q].host_idx = z[q].host_idx
    BY <1>3
  <2> QED  BY <2>1, <1>31 DEF RInv, RRecordsOK
<1>11. RPolled(x, Z)
  BY <1>31, <1>4 DEF RInv, RPolled
<1> QED  BY <1>6, <1>7, <1>8, <1>9, <1>10, <1>11 DEF RInv, Y, Z

LEMMA RFreeItem ==
  ASSUME Rybalko!FreeItems # {}
  PROVE  /\ Rybalko!Min(Rybalko!FreeItems) \in RECORDS
         /\ ~cache[Rybalko!Min(Rybalko!FreeItems)].valid
<1>1. Rybalko!FreeItems \in SUBSET Nat
  BY Indices DEF Rybalko!FreeItems
<1>2. Rybalko!Min(Rybalko!FreeItems) \in Rybalko!FreeItems
  BY <1>1, RMin
<1> QED  BY <1>2 DEF Rybalko!FreeItems

LEMMA RFreeHost ==
  ASSUME Rybalko!SetForFreeHostId # {}
  PROVE  /\ Rybalko!Min(Rybalko!SetForFreeHostId) \in HOSTS
         /\ ~servers[Rybalko!Min(Rybalko!SetForFreeHostId)].fd
<1>1. Rybalko!SetForFreeHostId \in SUBSET Nat
  BY Indices DEF Rybalko!SetForFreeHostId
<1>2. Rybalko!Min(Rybalko!SetForFreeHostId) \in Rybalko!SetForFreeHostId
  BY <1>1, RMin
<1> QED  BY <1>2 DEF Rybalko!SetForFreeHostId

LEMMA RConnectFails ==
  ASSUME Rybalko!IInv, NEW c \in CLIENTS, NEW u \in URLS, Rybalko!ConnectToHostFails(c, u)
  PROVE  Rybalko!IInv'
<1> DEFINE k == Rybalko!Min(Rybalko!FreeItems)
           t == Rybalko!DisconnectClient(Rybalko!AddToCache(Rybalko!Tables, k, u), c)
<1>1. k \in RECORDS /\ ~cache[k].valid
  BY RFreeItem DEF Rybalko!ConnectToHostFails
<1>2. Rybalko!Becomes(Rybalko!CleanCacheItem(t, k)) /\ UNCHANGED extra
  BY DEF Rybalko!ConnectToHostFails
<1> HIDE DEF k
<1>3. RInv(clients, servers, RAdded(cache, k, u))
  BY <1>1, RStateInv, RAddInv
<1>4. RSound(t)
  <2>1. RSound(Rybalko!DisconnectClient(RTb(clients, servers, RAdded(cache, k, u)), c))
    BY <1>3, RDropInv
  <2> QED  BY <2>1, RAddToCache, Zenon
<1> HIDE DEF t
<1>5. RSound(Rybalko!CleanCacheItem(t, k))
  <2>1. {k} \in SUBSET RECORDS
    BY <1>1
  <2>2. PICK x, y, z : t = RTb(x, y, z) /\ RInv(x, y, z)
    BY <1>4, Zenon DEF RSound
  <2>3. RSound(Rybalko!CleanAll(RTb(x, y, z), {k}))
    BY <2>1, <2>2, RCleanSound
  <2> QED  BY <2>2, <2>3, Zenon DEF Rybalko!CleanCacheItem
<1> QED  BY <1>2, <1>5, RSoundState

LEMMA RReadNew ==
  ASSUME Rybalko!IInv, NEW c \in CLIENTS, NEW u \in URLS, Rybalko!ReadNewRequest(c, u)
  PROVE  Rybalko!IInv'
<1> DEFINE k == Rybalko!Min(Rybalko!FreeItems)
           h == Rybalko!Min(Rybalko!SetForFreeHostId)
           a == RAdded(cache, k, u)
           b == RListed(a, k, c)
           z == RHosted(b, k, h)
           y == RConnected(servers, h, k)
           t == Rybalko!AddSub(Rybalko!AddToCache(Rybalko!Tables, k, u), c, k)
           g(q) == [q EXCEPT !.fd = TRUE, !.cache_idx = k, !.out = TRUE]
           e(q) == [q EXCEPT !.cache_idx = k, !.written = 0, !.url = u]
           x == RPut(clients, c, e(clients[c]))
<1>1. k \in RECORDS /\ ~cache[k].valid
  BY RFreeItem DEF Rybalko!ReadNewRequest
<1>2. h \in HOSTS /\ ~servers[h].fd
  BY RFreeHost DEF Rybalko!ReadNewRequest
<1>3. clients[c].fd /\ clients[c].cache_idx = Rybalko!NONE
  BY RAskers DEF Rybalko!ReadNewRequest
<1>4. /\ Rybalko!Becomes([t EXCEPT !.cache[k].host_idx = h, !.hosts[h] = g(@),
                                   !.clients[c] = e(@)])
      /\ UNCHANGED extra
  BY DEF Rybalko!ReadNewRequest
<1> HIDE DEF k, h
<1>5. RInv(clients, servers, cache)
  BY RStateInv
<1>6. RInv(clients, servers, a)
  BY <1>1, <1>5, RAddInv
<1>7. /\ a \in [RECORDS -> Rybalko!Record] /\ a[k].valid /\ a[k].url = u
      /\ a[k].response_idx = cache[k].response_idx /\ a[k].foreign = cache[k].foreign
      /\ a[k].host_idx = cache[k].host_idx
  <2>1. cache \in [RECORDS -> Rybalko!Record]
    BY <1>5 DEF RInv, RTypes
  <2> QED  BY <2>1, <1>1, RAddedEffect
<1>8. cache[k].host_idx = Rybalko!NONE /\ (cache[k].response_idx = 0 \/ cache[k].foreign)
  BY <1>1, <1>5 DEF RInv, RRecordsOK
<1>9. t = RTb(clients, servers, b)
  <2>1. Rybalko!AddToCache(Rybalko!Tables, k, u) = RTb(clients, servers, a)
    BY RAddToCache
  <2>2. Rybalko!AddSub(RTb(clients, servers, a), c, k) = RTb(clients, servers, b)
    BY RAddSub
  <2> QED  BY <2>1, <2>2, Zenon
<1> HIDE DEF t, a
<1>10. clients[c] \in Rybalko!Client /\ clients[c].out \in BOOLEAN
  BY <1>5, RFields DEF Rybalko!Client
<1>11. RInv(RPut(clients, c, RAsking(clients[c], k, a[k].url, clients[c].out)), servers, b)
  <2>1. ~(~a[k].foreign /\ a[k].response_idx > 0)
    BY <1>7, <1>8
  <2> QED  BY <1>1, <1>3, <1>6, <1>7, <1>10, <2>1, RJoinInv
<1>12. RAsking(clients[c], k, a[k].url, clients[c].out) = e(clients[c])
  <2>1. PICK v \in Rybalko!Client : v = clients[c]
    BY <1>10
  <2>2. PICK n \in 0 .. CHUNKS + 1 : n = 0
    BY Indices
  <2>3. [v EXCEPT !.cache_idx = k, !.written = n, !.url = u, !.out = v.out]
          = [v EXCEPT !.cache_idx = k, !.written = n, !.url = u]
    BY DEF Rybalko!Client
  <2> QED  BY <2>1, <2>2, <2>3, <1>7, Zenon DEF RAsking
<1> HIDE DEF e
<1>13. RInv(x, servers, b)
  BY <1>11, <1>12
<1>14. b[k].valid /\ b[k].host_idx = Rybalko!NONE
  BY <1>1, <1>7, <1>8, RListedEffect DEF RSame
<1>15. RInv(x, y, z)
  <2> HIDE DEF x, b
  <2> QED  BY <1>1, <1>2, <1>13, <1>14, RHostInv
<1>16. [RTb(clients, servers, b) EXCEPT !.cache[k].host_idx = h, !.hosts[h] = g(@),
                                        !.clients[c] = e(@)]
         = RTb(x, y, z)
  <2>1. y = [servers EXCEPT ![h] = g(@)]
    BY DEF RConnected
  <2> HIDE DEF b, g, y
  <2>2. [RTb(clients, servers, b) EXCEPT !.cache[k].host_idx = h] = RTb(clients, servers, z)
    BY DEF RTb, RHosted
  <2> HIDE DEF z
  <2>3. [RTb(clients, servers, z) EXCEPT !.hosts[h] = g(@)] = RTb(clients, y, z)
    BY <2>1 DEF RTb
  <2>4. [RTb(clients, y, z) EXCEPT !.clients[c] = e(@)] = RTb(x, y, z)
    BY DEF RTb, RPut
  <2> HIDE DEF x
  <2>5. [RTb(clients, servers, b) EXCEPT !.cache[k].host_idx = h, !.hosts[h] = g(@),
                                         !.clients[c] = e(@)]
          = [[[RTb(clients, servers, b) EXCEPT !.cache[k].host_idx = h]
                EXCEPT !.hosts[h] = g(@)] EXCEPT !.clients[c] = e(@)]
    OBVIOUS
  <2> QED  BY <2>2, <2>3, <2>4, <2>5, Zenon
<1> HIDE DEF b, x, y, z, g
<1>17. Rybalko!Becomes(RTb(x, y, z))
  BY <1>4, <1>9, <1>16, Zenon
<1>18. RSound(RTb(x, y, z))
  BY <1>15 DEF RSound
<1> QED  BY <1>4, <1>17, <1>18, RSoundState

RSending(r, n, o) == [r EXCEPT !.written = n, !.out = o]

LEMMA RSentInv ==
  ASSUME NEW x, NEW y, NEW z, RInv(x, y, z), NEW c \in CLIENTS, NEW k \in RECORDS,
         k = x[c].cache_idx,
         NEW n \in 0 .. CHUNKS + 1, n <= z[k].response_idx,
         NEW o, o \in BOOLEAN, o = FALSE => n = z[k].response_idx
  PROVE  RInv(RPut(x, c, RSending(x[c], n, o)), y, z)
<1> DEFINE X == RPut(x, c, RSending(x[c], n, o))
<1>1. PICK v \in Rybalko!Client : v = x[c]
  BY DEF RInv, RTypes
<1>2. /\ RSending(v, n, o) \in Rybalko!Client /\ RSending(v, n, o).fd = v.fd
      /\ RSending(v, n, o).cache_idx = v.cache_idx /\ RSending(v, n, o).url = v.url
      /\ RSending(v, n, o).written = n /\ RSending(v, n, o).out = o
  BY DEF Rybalko!Client, RSending
<1> DEFINE w == RSending(v, n, o)
<1> HIDE DEF w
<1>3. X = RPut(x, c, w)
  BY <1>1 DEF w
<1>4. x \in [CLIENTS -> Rybalko!Client]
  BY DEF RInv, RTypes
<1>5. w \in Rybalko!Client
  BY <1>2 DEF w
<1> HIDE DEF X
<1>6. /\ X \in [CLIENTS -> Rybalko!Client] /\ X[c] = w
      /\ \A d \in CLIENTS : d # c => X[d] = x[d]
  BY <1>3, <1>4, <1>5, RPutEffect
<1>7. /\ w.fd = x[c].fd /\ w.cache_idx = x[c].cache_idx /\ w.url = x[c].url
      /\ w.written = n /\ w.out = o
  BY <1>1, <1>2, Zenon DEF w
<1>8. \A d \in CLIENTS : /\ X[d].fd = x[d].fd /\ X[d].cache_idx = x[d].cache_idx
                         /\ X[d].url = x[d].url
  BY <1>6, <1>7
<1>9. x[c].fd /\ x[c].cache_idx # Rybalko!NONE
  BY RNone DEF RInv, RClientsOK
<1>10. \A q \in RECORDS : z[q].response_idx \in Nat
  BY RFields
<1>11. RTypes(X, y, z)
  BY <1>6 DEF RInv, RTypes
<1>12. RClientsOK(X, z)
  <2> SUFFICES ASSUME NEW d \in CLIENTS
      PROVE IF X[d].cache_idx = Rybalko!NONE
            THEN X[d].url = Rybalko!NoUrl /\ ~X[d].out
            ELSE /\ X[d].fd /\ z[X[d].cache_idx].valid
                 /\ z[X[d].cache_idx].url = X[d].url
                 /\ X[d].written \in 0 .. z[X[d].cache_idx].response_idx
    BY DEF RClientsOK
  <2>1. CASE d # c
    BY <2>1, <1>6 DEF RInv, RClientsOK
  <2>2. CASE d = c
    <3>1. X[d].written \in 0 .. z[k].response_idx
      BY <2>2, <1>6, <1>7, <1>10
    <3>2. X[d].fd = x[c].fd /\ X[d].cache_idx = x[c].cache_idx /\ X[d].url = x[c].url
      BY <2>2, <1>8
    <3> QED  BY <3>1, <3>2, <1>9 DEF RInv, RClientsOK
  <2> QED  BY <2>1, <2>2
<1>13. RSubscribed(X, z)
  BY <1>8 DEF RInv, RSubscribed
<1>14. RPolled(X, z)
  <2> SUFFICES ASSUME NEW d \in CLIENTS, X[d].cache_idx # Rybalko!NONE,
                      ~z[X[d].cache_idx].foreign,
                      X[d].written < z[X[d].cache_idx].response_idx
      PROVE X[d].out
    BY DEF RPolled
  <2>1. CASE d # c
    BY <2>1, <1>6 DEF RInv, RPolled
  <2>2. CASE d = c
    <3>1. X[d].cache_idx = k /\ X[d].written = n /\ X[d].out = o
      BY <2>2, <1>6, <1>7
    <3>2. n < z[k].response_idx
      BY <3>1
    <3> QED  BY <3>1, <3>2, <1>10
  <2> QED  BY <2>1, <2>2
<1> QED  BY <1>11, <1>12, <1>13, <1>14 DEF RInv, X

LEMMA RWriteToClient ==
  ASSUME Rybalko!IInv, NEW c \in CLIENTS, Rybalko!WriteToClient(c)
  PROVE  Rybalko!IInv'
<1>1. RInv(clients, servers, cache)
  BY RStateInv
<1>2. PICK k \in RECORDS : k = clients[c].cache_idx
  BY <1>1, RFields DEF Rybalko!WriteToClient
<1> DEFINE e(q, n) == [q EXCEPT !.written = n, !.out = n # cache[k].response_idx]
           t(n) == [Rybalko!Tables EXCEPT !.clients[c] = e(@, n)]
<1>3. /\ \E n \in clients[c].written .. cache[k].response_idx :
           Rybalko!Becomes(IF ~cache[k].successful /\ cache[k].full
                           THEN Rybalko!CleanCacheItem(t(n), k) ELSE t(n))
      /\ UNCHANGED extra
  BY <1>2, Zenon DEF Rybalko!WriteToClient
<1>4. PICK n \in clients[c].written .. cache[k].response_idx :
        Rybalko!Becomes(IF ~cache[k].successful /\ cache[k].full
                        THEN Rybalko!CleanCacheItem(t(n), k) ELSE t(n))
  BY <1>3
<1>5. n \in 0 .. CHUNKS + 1 /\ n <= cache[k].response_idx
  <2>1. clients[c].written \in 0 .. cache[k].response_idx
    BY <1>1, <1>2, RNone DEF RInv, RClientsOK
  <2>2. cache[k].response_idx \in 0 .. CHUNKS + 1
    BY <1>1, RFields
  <2> QED  BY <2>1, <2>2, Indices
<1>6. PICK o : o = (n # cache[k].response_idx)
  OBVIOUS
<1> DEFINE X == RPut(clients, c, RSending(clients[c], n, o))
<1>7. t(n) = RTb(X, servers, cache)
  <2>1. e(clients[c], n) = RSending(clients[c], n, o)
    BY <1>6, Zenon DEF RSending
  <2> HIDE DEF e
  <2>2. [RTb(clients, servers, cache) EXCEPT !.clients[c] = e(@, n)]
          = RTb(RPut(clients, c, e(clients[c], n)), servers, cache)
    BY DEF RTb, RPut
  <2> QED  BY <2>1, <2>2, RTables
<1> HIDE DEF t
<1>8. RInv(X, servers, cache)
  <2>1. o \in BOOLEAN /\ (o = FALSE => n = cache[k].response_idx)
    BY <1>6
  <2> QED  BY <1>1, <1>2, <1>5, <2>1, RSentInv
<1> HIDE DEF X
<1>9. RSound(t(n))
  BY <1>7, <1>8 DEF RSound
<1>10. RSound(Rybalko!CleanCacheItem(t(n), k))
  <2>1. {k} \in SUBSET RECORDS
    OBVIOUS
  <2>2. RSound(Rybalko!CleanAll(RTb(X, servers, cache), {k}))
    BY <1>8, <2>1, RCleanSound
  <2> QED  BY <1>7, <2>2, Zenon DEF Rybalko!CleanCacheItem
<1> QED  BY <1>3, <1>4, <1>9, <1>10, RSoundState

RWritten(y, h, v) == [y EXCEPT ![h].out = v]

LEMMA RWriteToHost ==
  ASSUME Rybalko!IInv, NEW h \in HOSTS, Rybalko!WriteToHost(h)
  PROVE  Rybalko!IInv'
<1> DEFINE Y == RWritten(servers, h, FALSE)
<1>1. Rybalko!Becomes([Rybalko!Tables EXCEPT !.hosts[h].out = FALSE]) /\ UNCHANGED extra
  BY DEF Rybalko!WriteToHost
<1>2. [Rybalko!Tables EXCEPT !.hosts[h].out = FALSE] = RTb(clients, Y, cache)
  <2>1. PICK v : v = FALSE
    OBVIOUS
  <2>2. [RTb(clients, servers, cache) EXCEPT !.hosts[h].out = v]
          = RTb(clients, RWritten(servers, h, v), cache)
    BY DEF RTb, RWritten
  <2> QED  BY <2>1, <2>2, RTables, Zenon
<1>3. RInv(clients, servers, cache)
  BY RStateInv
<1>4. /\ Y \in [HOSTS -> Rybalko!Host]
      /\ \A g \in HOSTS : Y[g].fd = servers[g].fd /\ Y[g].cache_idx = servers[g].cache_idx
  BY <1>3 DEF RInv, RTypes, Rybalko!Host, RWritten
<1> HIDE DEF Y
<1>5. RInv(clients, Y, cache)
  <2>1. RTypes(clients, Y, cache)
    BY <1>3, <1>4 DEF RInv, RTypes
  <2>2. RServed(Y, cache)
    BY <1>3, <1>4 DEF RInv, RServed
  <2> QED  BY <1>3, <2>1, <2>2 DEF RInv
<1> QED  BY <1>1, <1>2, <1>5, RSoundState DEF RSound

RFinished(r) == [r EXCEPT !.full = TRUE, !.timed = TRUE, !.response_size = r.response_idx]

LEMMA RFinishedInv ==
  ASSUME NEW x, NEW y, NEW z, RInv(x, y, z), NEW k \in RECORDS
  PROVE  RInv(x, y, RPutRecord(z, k, RFinished(z[k])))
<1> DEFINE r == RFinished(z[k])
           w == RPutRecord(z, k, r)
<1>1. z \in [RECORDS -> Rybalko!Record] /\ z[k] \in Rybalko!Record
      /\ z[k].response_idx \in 0 .. CHUNKS + 1
  BY RFields
<1>2. /\ r \in Rybalko!Record
      /\ r.valid = z[k].valid /\ r.url = z[k].url
      /\ r.response_idx = z[k].response_idx /\ r.foreign = z[k].foreign
      /\ r.host_idx = z[k].host_idx /\ r.subscribers = z[k].subscribers
      /\ r.response_size = z[k].response_idx
  <2>1. z[k].response_idx \in 0 .. 4 * (CHUNKS + 1)
    BY <1>1, Indices
  <2> QED  BY <1>1, <2>1 DEF Rybalko!Record, RFinished
<1> HIDE DEF r
<1>3. /\ w \in [RECORDS -> Rybalko!Record] /\ w[k] = r
      /\ \A q \in RECORDS : q # k => w[q] = z[q]
  BY <1>1, <1>2 DEF RPutRecord
<1> HIDE DEF w
<1>4. \A q \in RECORDS : /\ z[q].response_size = 0 => z[q].response_idx = 0
                         /\ z[q].response_size <= 2 * z[q].response_idx
  BY DEF RInv, RRecordsOK
<1>5. \A q \in RECORDS :
        /\ w[q].valid = z[q].valid /\ w[q].url = z[q].url
        /\ w[q].response_idx = z[q].response_idx /\ w[q].foreign = z[q].foreign
        /\ w[q].host_idx = z[q].host_idx /\ w[q].subscribers = z[q].subscribers
  BY <1>2, <1>3
<1>6. \A q \in RECORDS : /\ w[q].response_size = 0 => z[q].response_idx = 0
                         /\ w[q].response_size <= 2 * z[q].response_idx
  <2>1. r.response_size <= 2 * z[k].response_idx
    BY <1>1, <1>2
  <2> QED  BY <1>2, <1>3, <1>4, <2>1
<1> QED  BY <1>3, <1>5, <1>6, RTouchInv DEF w, r

LEMMA RHostCloses ==
  ASSUME Rybalko!IInv, NEW h \in HOSTS, Rybalko!HostCloses(h)
  PROVE  Rybalko!IInv'
<1>1. RInv(clients, servers, cache)
  BY RStateInv
<1>2. servers[h].fd
  BY DEF Rybalko!HostCloses
<1>3. PICK k \in RECORDS : k = servers[h].cache_idx
  BY <1>1, <1>2, RFields DEF RInv, RServed
<1> DEFINE f(q) == [q EXCEPT !.full = TRUE, !.timed = TRUE,
                             !.response_size = cache[k].response_idx]
           z == RPutRecord(cache, k, RFinished(cache[k]))
           x == RNotified(clients, z[k].subscribers)
<1>4. /\ Rybalko!Becomes(Rybalko!DisconnectHost(
           Rybalko!NotifySub([Rybalko!Tables EXCEPT !.cache[k] = f(@)], k), h))
      /\ UNCHANGED extra
  BY <1>3 DEF Rybalko!HostCloses
<1>5. [Rybalko!Tables EXCEPT !.cache[k] = f(@)] = RTb(clients, servers, z)
  <2>1. f(cache[k]) = RFinished(cache[k])
    BY DEF RFinished
  <2> HIDE DEF f
  <2>2. [RTb(clients, servers, cache) EXCEPT !.cache[k] = f(@)]
          = RTb(clients, servers, RPutRecord(cache, k, f(cache[k])))
    BY DEF RTb, RPutRecord
  <2> QED  BY <2>1, <2>2, RTables, Zenon
<1>6. RInv(clients, servers, z)
  BY <1>1, RFinishedInv
<1> HIDE DEF z
<1>7. RInv(x, servers, z)
  BY <1>6, RInvIsBut, RNotifyInv
<1>8. Rybalko!NotifySub(RTb(clients, servers, z), k) = RTb(x, servers, z)
  BY RNotify
<1> HIDE DEF x, f
<1>9. RSound(Rybalko!DisconnectHost(RTb(x, servers, z), h))
  BY <1>7, RDisconnectInv
<1>10. Rybalko!Becomes(Rybalko!DisconnectHost(RTb(x, servers, z), h))
  BY <1>4, <1>5, <1>8, Zenon
<1> QED  BY <1>4, <1>9, <1>10, RSoundState

LEMMA RReadNext ==
  ASSUME Rybalko!IInv, NEW h \in HOSTS, Rybalko!ReadNextChunk(h)
  PROVE  Rybalko!IInv'
<1>1. RInv(clients, servers, cache)
  BY RStateInv
<1>2. PICK k \in RECORDS : k = servers[h].cache_idx
  BY <1>1, RFields DEF RInv, RServed, Rybalko!ReadNextChunk
<1>3. /\ cache[k].response_idx < CHUNKS /\ UNCHANGED extra
      /\ \E success \in BOOLEAN :
           Rybalko!Becomes(Rybalko!AppendChunk(Rybalko!Tables, h, k, success))
  BY <1>2, Zenon DEF Rybalko!ReadNextChunk
<1>4. PICK success \in BOOLEAN :
        Rybalko!Becomes(Rybalko!AppendChunk(RTb(clients, servers, cache), h, k, success))
  BY <1>3, RTables, Zenon
<1>5. cache[k].response_idx <= CHUNKS
  BY <1>1, <1>3, RFields, Indices
<1>6. RSound(Rybalko!AppendChunk(RTb(clients, servers, cache), h, k, success))
  BY <1>1, <1>5, RAppendInv
<1> QED  BY <1>3, <1>4, <1>6, RSoundState

(* The tables without a connection: at the start and after CleanUp. *)
LEMMA RBlank ==
  RInv([c \in CLIENTS |-> Rybalko!InitClient],
       [h \in HOSTS |-> Rybalko!InitHost],
       [k \in RECORDS |-> Rybalko!InitCacheItem])
<1> DEFINE x == [c \in CLIENTS |-> Rybalko!InitClient]
           y == [h \in HOSTS |-> Rybalko!InitHost]
           z == [k \in RECORDS |-> Rybalko!InitCacheItem]
<1>1. RTypes(x, y, z)
  BY REmpty, REmptyR DEF RTypes
<1>2. RClientsOK(x, z)
  BY REmpty DEF RClientsOK
<1>3. RSubscribed(x, z) /\ RServed(y, z)
  BY REmpty, REmptyR, RNone DEF RSubscribed, RServed
<1>4. RRecordsOK(z)
  BY REmptyR DEF RRecordsOK
<1>5. RPolled(x, z)
  BY REmpty DEF RPolled
<1> QED  BY <1>1, <1>2, <1>3, <1>4, <1>5 DEF RInv

(* The account: what all records together can be charged with. *)
AllCharged == 4 * (CHUNKS + 1) * Cardinality(RECORDS)

LEMMA RBudget ==
  /\ AllCharged \in Nat /\ MAX_CACHE \in Nat /\ DRIFT \in Nat /\ WORD \in Nat
  /\ 2 * (MAX_CACHE + DRIFT + AllCharged) < WORD
  /\ LENGTHS \subseteq Nat
<1>1. RECORDS \subseteq Nat /\ IsFiniteSet(RECORDS)
  BY Zenon, TableConstants
<1>2. Cardinality(RECORDS) \in Nat
  BY <1>1, FS_CardinalityType
<1>3. AllCharged \in Nat
  BY <1>2, Indices DEF AllCharged
<1> QED  BY <1>3, BudgetConstants DEF AllCharged

(* size_t, on the numbers that the account takes. *)
LEMMA RResidue ==
  ASSUME NEW s \in Int, -WORD <= s, s < 2 * WORD
  PROVE  s % WORD = IF s < 0 THEN s + WORD ELSE IF s < WORD THEN s ELSE s - WORD
<1>1. WORD \in Nat \ {0}
  BY RBudget
<1>2. CASE s < 0
  <2>1. (s + WORD) \in 0 .. WORD - 1
    BY <1>1, <1>2
  <2> QED  BY <1>1, <1>2, <2>1
<1>3. CASE s >= 0 /\ s < WORD
  BY <1>1, <1>3
<1>4. CASE s >= WORD
  <2>1. (s - WORD) \in 0 .. WORD - 1
    BY <1>1, <1>4
  <2> QED  BY <1>1, <1>4, <2>1
<1> QED  BY <1>1, <1>2, <1>3, <1>4

Account(u) ==
  /\ u \in 0 .. (WORD - 1)
  /\ -DRIFT <= Rybalko!Signed(u) /\ Rybalko!Signed(u) <= MAX_CACHE

LEMMA RSigned ==
  ASSUME NEW u \in 0 .. (WORD - 1)
  PROVE  /\ Rybalko!Signed(u) \in Int
         /\ Rybalko!Signed(u) = u \/ Rybalko!Signed(u) = u - WORD
         /\ 2 * Rybalko!Signed(u) <= WORD /\ -WORD <= 2 * Rybalko!Signed(u)
BY RBudget DEF Rybalko!Signed

LEMMA RSignedIs ==
  ASSUME NEW s \in Int, -WORD < 2 * s, 2 * s < WORD,
         NEW u \in 0 .. (WORD - 1), u = s \/ u = s + WORD
  PROVE  Rybalko!Signed(u) = s
BY RBudget DEF Rybalko!Signed

(* What is left of the budget, while no record is charged twice. *)
LEMMA RLeft ==
  ASSUME NEW u \in 0 .. (WORD - 1),
         -(DRIFT + AllCharged) <= Rybalko!Signed(u), Rybalko!Signed(u) <= MAX_CACHE
  PROVE  Rybalko!Left(u) = MAX_CACHE - Rybalko!Signed(u)
<1> DEFINE s == Rybalko!Signed(u)
<1>1. s \in Int /\ (s = u \/ s = u - WORD)
  BY RSigned
<1> HIDE DEF s
<1>2. /\ MAX_CACHE - u \in Int
      /\ -WORD <= MAX_CACHE - u /\ MAX_CACHE - u < 2 * WORD
  BY RBudget
<1>3. (MAX_CACHE - u) % WORD
        = IF MAX_CACHE - u < 0 THEN MAX_CACHE - u + WORD
          ELSE IF MAX_CACHE - u < WORD THEN MAX_CACHE - u ELSE MAX_CACHE - u - WORD
  BY <1>2, RResidue
<1>4. -(DRIFT + AllCharged) <= s /\ s <= MAX_CACHE
  BY DEF s
<1>5. (MAX_CACHE - u) % WORD = MAX_CACHE - s
  BY <1>1, <1>2, <1>3, <1>4, RBudget
<1> QED  BY <1>5 DEF Rybalko!Left, s

LEMMA RGivenBack ==
  ASSUME NEW u, Account(u), NEW n \in Nat, n <= AllCharged
  PROVE  /\ (u - n) % WORD \in 0 .. (WORD - 1)
         /\ Rybalko!Signed((u - n) % WORD) = Rybalko!Signed(u) - n
<1> DEFINE s == Rybalko!Signed(u)
           v == (u - n) % WORD
<1>1. /\ u \in 0 .. (WORD - 1) /\ s \in Int /\ (s = u \/ s = u - WORD)
      /\ -DRIFT <= s /\ s <= MAX_CACHE
  BY RSigned DEF Account
<1> HIDE DEF s
<1>2. u - n \in Int /\ -WORD <= u - n /\ u - n < 2 * WORD
  BY <1>1, RBudget
<1>3. v = IF u - n < 0 THEN u - n + WORD ELSE IF u - n < WORD THEN u - n ELSE u - n - WORD
  BY <1>2, RResidue
<1> HIDE DEF v
<1>4. v \in 0 .. (WORD - 1) /\ (v = s - n \/ v = s - n + WORD)
  BY <1>1, <1>2, <1>3, RBudget
<1>5. s - n \in Int /\ -WORD < 2 * (s - n) /\ 2 * (s - n) < WORD
  BY <1>1, RBudget
<1>6. Rybalko!Signed(v) = s - n
  BY <1>4, <1>5, RSignedIs
<1> QED  BY <1>4, <1>6 DEF s, v

LEMMA RCharge ==
  ASSUME NEW u, Account(u), NEW len \in Nat, len <= MAX_CACHE - Rybalko!Signed(u)
  PROVE  Account((u + len) % WORD)
<1> DEFINE s == Rybalko!Signed(u)
           v == (u + len) % WORD
<1>1. /\ u \in 0 .. (WORD - 1) /\ s \in Int /\ (s = u \/ s = u - WORD)
      /\ -DRIFT <= s /\ len <= MAX_CACHE - s
  BY RSigned DEF Account
<1> HIDE DEF s
<1>2. u + len \in Int /\ -WORD <= u + len /\ u + len < 2 * WORD
  BY <1>1, RBudget
<1>3. v = IF u + len < 0 THEN u + len + WORD
          ELSE IF u + len < WORD THEN u + len ELSE u + len - WORD
  <2>1. PICK w \in Int : w = u + len
    BY <1>2
  <2>2. w % WORD = IF w < 0 THEN w + WORD ELSE IF w < WORD THEN w ELSE w - WORD
    BY <1>2, <2>1, RResidue
  <2>3. v = w % WORD
    BY <2>1, Zenon
  <2> HIDE DEF v
  <2> QED  BY <1>1, <2>1, <2>2, <2>3, RBudget
<1> HIDE DEF v
<1>4. v \in 0 .. (WORD - 1) /\ (v = s + len \/ v = s + len + WORD)
  BY <1>1, <1>2, <1>3, RBudget
<1>5. /\ s + len \in Int /\ -WORD < 2 * (s + len) /\ 2 * (s + len) < WORD
      /\ -DRIFT <= s + len /\ s + len <= MAX_CACHE
  BY <1>1, RBudget
<1>6. Rybalko!Signed(v) = s + len
  BY <1>4, <1>5, RSignedIs
<1>7. Account(v)
  BY <1>4, <1>5, <1>6 DEF Account
<1> QED  BY <1>7 DEF v

LEMMA RCharged ==
  ASSUME NEW K \in SUBSET RECORDS
  PROVE  /\ Rybalko!Cardinality(Rybalko!Charged(K)) \in Nat
         /\ Rybalko!Cardinality(Rybalko!Charged(K)) <= AllCharged
<1> DEFINE S == Rybalko!Charged(K)
           I == 1 .. 4 * (CHUNKS + 1)
<1>1. IsFiniteSet(RECORDS)
  BY Zenon, TableConstants
<1>2. IsFiniteSet(I) /\ Cardinality(I) = 4 * (CHUNKS + 1)
  BY FS_Interval, Indices
<1>3. S \in SUBSET (RECORDS \X I)
  BY DEF Rybalko!Charged
<1> HIDE DEF S, I
<1>4. /\ IsFiniteSet(RECORDS \X I)
      /\ Cardinality(RECORDS \X I) = Cardinality(RECORDS) * Cardinality(I)
  BY <1>1, <1>2, FS_Product
<1>5. IsFiniteSet(S) /\ Cardinality(S) <= Cardinality(RECORDS \X I) /\ Cardinality(S) \in Nat
  BY <1>3, <1>4, FS_Subset, FS_CardinalityType
<1>6. Cardinality(RECORDS) * Cardinality(I) = AllCharged
  <2>1. Cardinality(RECORDS) \in Nat
    BY <1>1, FS_CardinalityType
  <2> QED  BY <2>1, <1>2, Indices DEF AllCharged
<1>7. Rybalko!Cardinality(S) = Cardinality(S)
  BY DEF Rybalko!Cardinality, Cardinality
<1> QED  BY <1>4, <1>5, <1>6, <1>7 DEF S

LEMMA RAccount ==
  ASSUME Rybalko!IInv
  PROVE  Account(extra)
BY DEF Rybalko!IInv, Rybalko!TypeOK, Rybalko!AccountOK, Account

LEMMA RAccounted ==
  ASSUME Rybalko!IInv, NEW t, RSound(t), Rybalko!Becomes(t), Account(extra')
  PROVE  Rybalko!IInv'
<1>1. extra' \in 0 .. (WORD - 1) /\ Rybalko!AccountOK'
  BY DEF Account, Rybalko!AccountOK
<1> QED  BY <1>1, RSoundTables

(* After an eviction of K: the account has what the records were charged with
   back, and the record that is read is still empty. *)
LEMMA REvicted ==
  ASSUME Rybalko!IInv, NEW len, NEW K, K \in Rybalko!Evictable(len)
  PROVE  /\ K \in SUBSET RECORDS
         /\ Account(Rybalko!UsedWithout(K))
         /\ Rybalko!Left(Rybalko!UsedWithout(K))
              = MAX_CACHE - Rybalko!Signed(Rybalko!UsedWithout(K))
<1> DEFINE n == Rybalko!Cardinality(Rybalko!Charged(K))
           v == (extra - n) % WORD
<1>1. K \in SUBSET RECORDS
  BY DEF Rybalko!Evictable
<1>2. Rybalko!Signed(Rybalko!UsedWithout(K)) >= -DRIFT
  BY DEF Rybalko!Evictable
<1>3. n \in Nat /\ n <= AllCharged
  BY <1>1, RCharged
<1>4. Rybalko!UsedWithout(K) = v
  BY DEF Rybalko!UsedWithout
<1> HIDE DEF n
<1>5. v \in 0 .. (WORD - 1) /\ Rybalko!Signed(v) = Rybalko!Signed(extra) - n
  BY <1>3, RAccount, RGivenBack
<1> HIDE DEF v
<1>6. Rybalko!Signed(extra) <= MAX_CACHE /\ Rybalko!Signed(extra) \in Int
  BY RAccount, RSigned DEF Account
<1>7. -DRIFT <= Rybalko!Signed(v) /\ Rybalko!Signed(v) <= MAX_CACHE
  BY <1>2, <1>3, <1>4, <1>5, <1>6, RBudget
<1>8. Account(v)
  BY <1>5, <1>7 DEF Account
<1>9. -(DRIFT + AllCharged) <= Rybalko!Signed(v)
  BY <1>3, <1>5, <1>6, <1>7, RBudget
<1>10. Rybalko!Left(v) = MAX_CACHE - Rybalko!Signed(v)
  BY <1>5, <1>7, <1>9, RLeft
<1> QED  BY <1>1, <1>4, <1>8, <1>10

LEMMA RAppendEvicted ==
  ASSUME Rybalko!IInv, NEW h \in HOSTS, NEW k \in RECORDS, cache[k].response_idx = 0,
         NEW K \in SUBSET RECORDS, NEW success, success \in BOOLEAN
  PROVE  RSound(Rybalko!AppendChunk(Rybalko!CleanAll(Rybalko!Tables, K), h, k, success))
<1> DEFINE x == RGone(clients, RSubs(cache, K))
           y == RShut(servers, RHostsOf(cache, K))
           z == RCleaned(cache, clients, K)
<1>1. RInv(clients, servers, cache)
  BY RStateInv
<1>2. Rybalko!CleanAll(Rybalko!Tables, K) = RTb(x, y, z)
  BY RCleanAll, RTables
<1>3. RInv(x, y, z)
  BY <1>1, RCleanInv
<1>4. z[k].response_idx <= CHUNKS
  <2>1. cache \in [RECORDS -> Rybalko!Record]
    BY <1>1 DEF RInv, RTypes
  <2>2. z[k].response_idx = 0
    BY <2>1, RCleanedEffect, REmptyR DEF RSame
  <2> QED  BY <2>2, Indices
<1> HIDE DEF x, y, z
<1>5. RSound(Rybalko!AppendChunk(RTb(x, y, z), h, k, success))
  BY <1>3, <1>4, RAppendInv
<1> QED  BY <1>2, <1>5, Zenon

LEMMA RReadFirst ==
  ASSUME Rybalko!IInv, NEW h \in HOSTS, Rybalko!ReadFirstChunk(h)
  PROVE  Rybalko!IInv'
<1>1. RInv(clients, servers, cache)
  BY RStateInv
<1>2. PICK k \in RECORDS : k = servers[h].cache_idx
  BY <1>1, RFields DEF RInv, RServed, Rybalko!ReadFirstChunk
<1>3. cache[k].response_size = 0
  BY <1>2 DEF Rybalko!ReadFirstChunk
<1>4. PICK len \in LENGTHS :
        \/ /\ Rybalko!Becomes(Rybalko!CleanCacheItem(Rybalko!Tables, k))
           /\ UNCHANGED extra
        \/ /\ len <= Rybalko!Left(extra)
           /\ \E success \in BOOLEAN :
                Rybalko!Becomes(Rybalko!AppendChunk(Rybalko!Tables, h, k, success))
           /\ extra' = (extra + len) % WORD
        \/ \E K \in Rybalko!Evictable(len) :
             IF Rybalko!FreeMemoryForNewCacheRecord(K, len)
             THEN /\ \E success \in BOOLEAN :
                       Rybalko!Becomes(Rybalko!AppendChunk(
                         Rybalko!CleanAll(Rybalko!Tables, K), h, k, success))
                  /\ extra' = (Rybalko!UsedWithout(K) + len) % WORD
             ELSE /\ Rybalko!Becomes(Rybalko!DisconnectHost(
                       Rybalko!CleanAll(Rybalko!Tables, K), h))
                  /\ extra' = Rybalko!UsedWithout(K)
  BY <1>2, Zenon DEF Rybalko!ReadFirstChunk
<1>5. len \in Nat
  BY RBudget
<1>6. cache[k].response_idx = 0 /\ cache[k].response_idx <= CHUNKS
  BY <1>1, <1>3, Indices DEF RInv, RRecordsOK
<1>7. CASE /\ Rybalko!Becomes(Rybalko!CleanCacheItem(Rybalko!Tables, k))
           /\ UNCHANGED extra
  <2>1. {k} \in SUBSET RECORDS
    OBVIOUS
  <2>2. RSound(Rybalko!CleanAll(RTb(clients, servers, cache), {k}))
    BY <1>1, <2>1, RCleanSound
  <2>3. RSound(Rybalko!CleanCacheItem(Rybalko!Tables, k))
    BY <2>2, RTables, Zenon DEF Rybalko!CleanCacheItem
  <2> QED  BY <1>7, <2>3, RSoundState
<1>8. ASSUME len <= Rybalko!Left(extra), extra' = (extra + len) % WORD,
             NEW success \in BOOLEAN,
             Rybalko!Becomes(Rybalko!AppendChunk(Rybalko!Tables, h, k, success))
      PROVE  Rybalko!IInv'
  <2>1. RSound(Rybalko!AppendChunk(RTb(clients, servers, cache), h, k, success))
    BY <1>1, <1>6, RAppendInv
  <2>2. Rybalko!Becomes(Rybalko!AppendChunk(RTb(clients, servers, cache), h, k, success))
    BY <1>8, RTables, Zenon
  <2>3. Rybalko!Left(extra) = MAX_CACHE - Rybalko!Signed(extra)
    <3>1. /\ extra \in 0 .. (WORD - 1) /\ Rybalko!Signed(extra) \in Int
          /\ -DRIFT <= Rybalko!Signed(extra) /\ Rybalko!Signed(extra) <= MAX_CACHE
      BY RAccount, RSigned DEF Account
    <3>2. -(DRIFT + AllCharged) <= Rybalko!Signed(extra)
      BY <3>1, RBudget
    <3> QED  BY <3>1, <3>2, RLeft
  <2>4. Account((extra + len) % WORD)
    BY <1>5, <1>8, <2>3, RAccount, RCharge
  <2>5. Account(extra')
    BY <1>8, <2>4, Zenon
  <2> QED  BY <2>1, <2>2, <2>5, RAccounted
<1>9. ASSUME NEW K \in Rybalko!Evictable(len), Rybalko!FreeMemoryForNewCacheRecord(K, len),
             extra' = (Rybalko!UsedWithout(K) + len) % WORD,
             NEW success \in BOOLEAN,
             Rybalko!Becomes(Rybalko!AppendChunk(
               Rybalko!CleanAll(Rybalko!Tables, K), h, k, success))
      PROVE  Rybalko!IInv'
  <2> DEFINE v == Rybalko!UsedWithout(K)
  <2>1. /\ K \in SUBSET RECORDS /\ Account(v)
        /\ Rybalko!Left(v) = MAX_CACHE - Rybalko!Signed(v)
    BY REvicted
  <2>2. Rybalko!Left(v) > len
    BY <1>9 DEF Rybalko!FreeMemoryForNewCacheRecord
  <2>3. extra' = (v + len) % WORD
    BY <1>9, Zenon
  <2> HIDE DEF v
  <2>4. Rybalko!Signed(v) \in Int
    BY <2>1, RSigned DEF Account
  <2>5. len <= MAX_CACHE - Rybalko!Signed(v)
    BY <2>1, <2>2, <2>4, <1>5, RBudget
  <2>6. Account((v + len) % WORD)
    BY <2>1, <2>5, <1>5, RCharge
  <2>7. Account(extra')
    BY <2>3, <2>6, Zenon
  <2>8. RSound(Rybalko!AppendChunk(Rybalko!CleanAll(Rybalko!Tables, K), h, k, success))
    BY <1>6, <2>1, RAppendEvicted
  <2> QED  BY <1>9, <2>7, <2>8, RAccounted
<1>10. ASSUME NEW K \in Rybalko!Evictable(len), extra' = Rybalko!UsedWithout(K),
              Rybalko!Becomes(Rybalko!DisconnectHost(
                Rybalko!CleanAll(Rybalko!Tables, K), h))
       PROVE  Rybalko!IInv'
  <2>1. K \in SUBSET RECORDS /\ Account(extra')
    BY <1>10, REvicted
  <2>2. RSound(Rybalko!CleanAll(RTb(clients, servers, cache), K))
    BY <1>1, <2>1, RCleanSound
  <2>3. PICK x, y, z : /\ Rybalko!CleanAll(Rybalko!Tables, K) = RTb(x, y, z)
                       /\ RInv(x, y, z)
    BY <2>2, RTables, Zenon DEF RSound
  <2>4. RSound(Rybalko!DisconnectHost(RTb(x, y, z), h))
    BY <2>3, RDisconnectInv
  <2>5. RSound(Rybalko!DisconnectHost(Rybalko!CleanAll(Rybalko!Tables, K), h))
    BY <2>3, <2>4, Zenon
  <2> QED  BY <1>10, <2>1, <2>5, RAccounted
<1> QED  BY <1>4, <1>7, <1>8, <1>9, <1>10, Zenon

LEMMA RInit ==
  ASSUME Rybalko!Init
  PROVE  Rybalko!IInv
<1>1. RInv(clients, servers, cache) /\ running \in BOOLEAN /\ extra = 0
  BY RBlank DEF Rybalko!Init
<1>2. extra \in 0 .. (WORD - 1) /\ Rybalko!Signed(extra) = 0
  BY <1>1, RBudget DEF Rybalko!Signed
<1>3. Rybalko!AccountOK
  BY <1>2, RBudget DEF Rybalko!AccountOK
<1> QED  BY <1>1, <1>2, <1>3, RInvState

LEMMA RCleanUp ==
  ASSUME Rybalko!IInv, Rybalko!CleanUp
  PROVE  Rybalko!IInv'
<1>1. RInv(clients', servers', cache') /\ running' \in BOOLEAN /\ extra' = 0
  BY RBlank DEF Rybalko!CleanUp
<1>2. extra' \in 0 .. (WORD - 1) /\ Rybalko!Signed(extra') = 0
  BY <1>1, RBudget DEF Rybalko!Signed
<1>3. Rybalko!AccountOK'
  BY <1>2, RBudget DEF Rybalko!AccountOK
<1> QED  BY <1>1, <1>2, <1>3, RInvNext

LEMMA RNext ==
  ASSUME Rybalko!IInv, Rybalko!Next
  PROVE  Rybalko!IInv'
BY RAccept, RReadCached, RReadNew, RConnectFails, RDrop, RWriteToClient, RWriteToHost,
   RWriteToHostFails, RReadFirst, RReadNext, RHostCloses, RCleanUp
   DEF Rybalko!Next

LEMMA RStutter ==
  ASSUME Rybalko!IInv, UNCHANGED <<running, clients, servers, cache, extra>>
  PROVE  Rybalko!IInv'
<1>1. RInv(clients, servers, cache) /\ running \in BOOLEAN /\ Account(extra)
  BY RStateInv, RAccount DEF Rybalko!IInv, Rybalko!TypeOK
<1>2. extra' \in 0 .. (WORD - 1) /\ Rybalko!AccountOK'
  BY <1>1 DEF Account, Rybalko!AccountOK
<1> QED  BY <1>1, <1>2, RInvNext

LEMMA RFresh ==
  ASSUME Rybalko!IInv
  PROVE  Rybalko!IndicesFresh
<1>1. RInv(clients, servers, cache)
  BY RStateInv
<1>2. ASSUME NEW c \in CLIENTS
      PROVE  LET k == clients[c].cache_idx
             IN  /\ k # Rybalko!NONE => /\ clients[c].fd /\ cache[k].valid
                                       /\ c \in cache[k].subscribers
                                       /\ cache[k].url = clients[c].url
                                       /\ clients[c].written <= cache[k].response_idx
                 /\ clients[c].out => k # Rybalko!NONE
  <2>1. CASE clients[c].cache_idx = Rybalko!NONE
    BY <2>1, <1>1 DEF RInv, RClientsOK
  <2>2. CASE clients[c].cache_idx # Rybalko!NONE
    <3>1. PICK k \in RECORDS : k = clients[c].cache_idx
      BY <1>1, <2>2, RFields
    <3>2. /\ clients[c].fd /\ cache[k].valid /\ cache[k].url = clients[c].url
          /\ clients[c].written \in 0 .. cache[k].response_idx
      BY <1>1, <2>2, <3>1 DEF RInv, RClientsOK
    <3>3. c \in cache[k].subscribers
      BY <1>1, <3>1 DEF RInv, RSubscribed
    <3>4. clients[c].written <= cache[k].response_idx
      BY <3>2
    <3> QED  BY <2>2, <3>1, <3>2, <3>3, <3>4
  <2> QED  BY <2>1, <2>2
<1>3. \A k \in RECORDS, s \in HOSTS :
        cache[k].host_idx = s <=> (servers[s].fd /\ servers[s].cache_idx = k)
  BY <1>1, RNone DEF RInv, RServed
<1> QED  BY <1>2, <1>3, Zenon DEF Rybalko!IndicesFresh

-----------------------------------------------------------------------------
(* PollProxyShuvalov: the same for clients, servers and nodes. *)
LEMMA SConstants ==
  /\ SUBSCRIBERS \in Nat /\ SUBSCRIBERS # 0 /\ CHUNKS # 0
  /\ IsFiniteSet(READERS) /\ IsFiniteSet(NODES) /\ IsFiniteSet(URLS)
  /\ Cardinality(URLS) <= Cardinality(NODES)
  /\ Shuvalov!NoUrl \notin URLS
<1>1. /\ IsFiniteSet(READERS) /\ IsFiniteSet(NODES) /\ IsFiniteSet(URLS)
      /\ Shuvalov!NoUrl \notin URLS
  BY Zenon, TableConstants DEF Shuvalov!NoUrl
<1> QED  BY <1>1, NodeConstants

LEMMA SNone ==
  /\ Shuvalov!NONE \notin READERS /\ Shuvalov!NONE \notin NODES
  /\ Shuvalov!NONE \in Int /\ Shuvalov!NONE < 0
<1>1. Shuvalov!NONE = -1
  BY DEF Shuvalov!NONE
<1> QED  BY <1>1, Indices

LEMMA SCardinality == \A T : Shuvalov!Cardinality(T) = Cardinality(T)
BY DEF Shuvalov!Cardinality, Cardinality

LEMMA SSlots ==
  /\ Shuvalov!Slots = 0 .. (SUBSCRIBERS - 1)
  /\ \A i \in Shuvalov!Slots : i \in Int /\ i >= 0 /\ i < SUBSCRIBERS
  /\ \E i \in Shuvalov!Slots : i = 0
BY SConstants DEF Shuvalov!Slots

LEMMA SEmpty ==
  /\ Shuvalov!setup_client \in Shuvalov!Client
  /\ ~Shuvalov!setup_client.fd /\ Shuvalov!setup_client.response = Shuvalov!NONE
  /\ Shuvalov!setup_client.written = 0 /\ Shuvalov!setup_client.events = "none"
  /\ Shuvalov!setup_client.request = Shuvalov!NoUrl
  /\ Shuvalov!setup_server \in Shuvalov!Server
  /\ ~Shuvalov!setup_server.fd /\ Shuvalov!setup_server.response = Shuvalov!NONE
<1>1. PICK n \in 0 .. CHUNKS : n = 0
  BY Indices
<1>2. Shuvalov!setup_client =
        [fd |-> FALSE, response |-> Shuvalov!NONE, cache_node |-> Shuvalov!NONE, written |-> n,
         events |-> "none", request |-> Shuvalov!NoUrl]
  BY <1>1, Zenon DEF Shuvalov!setup_client
<1>3. /\ Shuvalov!setup_client \in Shuvalov!Client
      /\ ~Shuvalov!setup_client.fd /\ Shuvalov!setup_client.response = Shuvalov!NONE
      /\ Shuvalov!setup_client.written = n /\ Shuvalov!setup_client.events = "none"
      /\ Shuvalov!setup_client.request = Shuvalov!NoUrl
  BY <1>2 DEF Shuvalov!Client
<1>4. /\ Shuvalov!setup_server \in Shuvalov!Server
      /\ ~Shuvalov!setup_server.fd /\ Shuvalov!setup_server.response = Shuvalov!NONE
  BY DEF Shuvalov!setup_server, Shuvalov!Server
<1> QED  BY <1>1, <1>3, <1>4

LEMMA SEmptyNode ==
  /\ Shuvalov!init_cache_node \in Shuvalov!Node
  /\ Shuvalov!init_cache_node.empty = TRUE
  /\ Shuvalov!init_cache_node.status = "unknown"
  /\ Shuvalov!init_cache_node.buf_len = 0
  /\ Shuvalov!init_cache_node.count = 0
  /\ Shuvalov!init_cache_node.from = {}
  /\ \A i \in Shuvalov!Slots : Shuvalov!init_cache_node.subscribers[i] = Shuvalov!NONE
<1>1. PICK n \in 0 .. CHUNKS : n = 0
  BY Indices
<1>2. PICK m \in -SUBSCRIBERS .. SUBSCRIBERS : m = 0
  BY SConstants
<1> DEFINE f == [i \in Shuvalov!Slots |-> Shuvalov!NONE]
<1>3. /\ f \in [Shuvalov!Slots -> READERS \cup {Shuvalov!NONE}]
      /\ \A i \in Shuvalov!Slots : f[i] = Shuvalov!NONE
  OBVIOUS
<1>4. Shuvalov!init_cache_node =
        [empty |-> TRUE, url |-> Shuvalov!NoUrl, status |-> "unknown", buf_len |-> n,
         subscribers |-> f, count |-> m, from |-> {}]
  BY <1>1, <1>2, Zenon DEF Shuvalov!init_cache_node
<1> HIDE DEF f
<1>5. /\ Shuvalov!init_cache_node \in Shuvalov!Node
      /\ Shuvalov!init_cache_node.empty = TRUE
      /\ Shuvalov!init_cache_node.status = "unknown"
      /\ Shuvalov!init_cache_node.buf_len = n
      /\ Shuvalov!init_cache_node.count = m
      /\ Shuvalov!init_cache_node.from = {}
      /\ Shuvalov!init_cache_node.subscribers = f
  BY <1>3, <1>4 DEF Shuvalov!Node
<1> QED  BY <1>1, <1>2, <1>3, <1>5

STb(x, y, z) == [clients |-> x, servers |-> y, cache |-> z]

LEMMA STables ==
  /\ Shuvalov!Tables = STb(clients, servers, cache)
  /\ \A x, y, z : Shuvalov!Becomes(STb(x, y, z)) =>
       clients' = x /\ servers' = y /\ cache' = z /\ running' = running
BY DEF STb, Shuvalov!Tables, Shuvalov!Becomes

SReaders(x, k) == {c \in READERS : x[c].response = k}

STypes(x, y, z) ==
  /\ x \in [READERS -> Shuvalov!Client]
  /\ y \in [SERVERS -> Shuvalov!Server]
  /\ z \in [NODES -> Shuvalov!Node]

SClientOK(r, z) ==
  IF r.response = Shuvalov!NONE
  THEN /\ r.events = (IF r.fd THEN "in" ELSE "none")
       /\ r.written = 0
  ELSE /\ r.fd /\ r.events # "in"
       /\ ~z[r.response].empty
       /\ r.request = z[r.response].url
       /\ r.written <= z[r.response].buf_len
       /\ r.written < z[r.response].buf_len => r.events = "out"

SClientsOK(x, z) == \A c \in READERS : SClientOK(x[c], z)

SCounted(x, z) == \A k \in NODES : z[k].count = Cardinality(SReaders(x, k))

SNodesOK(z) ==
  /\ \A k \in NODES :
       /\ IF z[k].empty THEN \A i \in Shuvalov!Slots : z[k].subscribers[i] = Shuvalov!NONE
          ELSE z[k].url \in URLS
       /\ z[k].status # "bad"
       /\ z[k].from \subseteq {z[k].url}
  /\ \A k, l \in NODES : ~z[k].empty /\ ~z[l].empty /\ z[k].url = z[l].url => k = l

(* The server record v fills node k. *)
SFills(x, z, k, v) ==
  /\ k \in NODES /\ ~z[k].empty /\ z[k].buf_len # CHUNKS
  /\ \A i \in Shuvalov!Slots : z[k].subscribers[i] \in SReaders(x, k)
  /\ \A c \in SReaders(x, k) : \E i \in Shuvalov!Slots : z[k].subscribers[i] = c
  /\ \A i \in Shuvalov!Slots : i >= z[k].count => z[k].subscribers[i] = z[k].subscribers[0]
  /\ IF v.phase = "receive" THEN v.asked = z[k].url ELSE v.request \in SReaders(x, k)

SServersOK(x, y, z) ==
  /\ \A s \in SERVERS : y[s].fd => SFills(x, z, y[s].response, y[s])
  /\ \A s, r \in SERVERS : y[s].fd /\ y[r].fd /\ y[s].response = y[r].response => s = r

SInv(x, y, z) ==
  /\ STypes(x, y, z) /\ SClientsOK(x, z) /\ SCounted(x, z) /\ SNodesOK(z)
  /\ SServersOK(x, y, z)

SSound(t) == \E x, y, z : t = STb(x, y, z) /\ SInv(x, y, z)

LEMMA SListedNone ==
  ASSUME NEW f
  PROVE  {f[i] : i \in Shuvalov!Slots} = {Shuvalov!NONE}
           <=> \A i \in Shuvalov!Slots : f[i] = Shuvalov!NONE
BY SSlots

LEMMA SListedAll ==
  ASSUME NEW f, NEW T
  PROVE  {f[i] : i \in Shuvalov!Slots} = T
           <=> /\ \A i \in Shuvalov!Slots : f[i] \in T
               /\ \A c \in T : \E i \in Shuvalov!Slots : f[i] = c
OBVIOUS

LEMMA SStateInv ==
  ASSUME Shuvalov!IInv
  PROVE  SInv(clients, servers, cache)
<1>1. STypes(clients, servers, cache)
  BY Zenon DEF Shuvalov!IInv, Shuvalov!TypeOK, STypes
<1>2. SClientsOK(clients, cache)
  BY Zenon DEF Shuvalov!IInv, Shuvalov!ClientsOK, SClientsOK, SClientOK
<1>3. SCounted(clients, cache)
  BY SCardinality, Zenon
     DEF Shuvalov!IInv, Shuvalov!NodesOK, SCounted, Shuvalov!Readers, SReaders
<1>4. SNodesOK(cache)
  <2>1. /\ \A k \in NODES :
             /\ IF cache[k].empty THEN Shuvalov!Listed(k) = {Shuvalov!NONE}
                ELSE cache[k].url \in URLS
             /\ cache[k].status # "bad" /\ cache[k].from \subseteq {cache[k].url}
        /\ \A k, l \in NODES :
             ~cache[k].empty /\ ~cache[l].empty /\ cache[k].url = cache[l].url => k = l
    BY Zenon DEF Shuvalov!IInv, Shuvalov!NodesOK
  <2>2. \A k \in NODES : Shuvalov!Listed(k) = {Shuvalov!NONE} =>
          \A i \in Shuvalov!Slots : cache[k].subscribers[i] = Shuvalov!NONE
    BY SListedNone DEF Shuvalov!Listed
  <2> QED  BY <2>1, <2>2, Zenon DEF SNodesOK
<1>5. SServersOK(clients, servers, cache)
  <2>1. \A s, r \in SERVERS :
          servers[s].fd /\ servers[r].fd /\ servers[s].response = servers[r].response => s = r
    BY Zenon DEF Shuvalov!IInv, Shuvalov!ServersOK
  <2>2. ASSUME NEW s \in SERVERS, servers[s].fd
        PROVE  SFills(clients, cache, servers[s].response, servers[s])
    <3> DEFINE k == servers[s].response
    <3>1. /\ k # Shuvalov!NONE /\ ~cache[k].empty /\ cache[k].buf_len # CHUNKS
          /\ Shuvalov!Listed(k) = Shuvalov!Readers(k)
          /\ \A i \in Shuvalov!Slots :
               i >= cache[k].count => cache[k].subscribers[i] = cache[k].subscribers[0]
          /\ IF servers[s].phase = "receive" THEN servers[s].asked = cache[k].url
             ELSE servers[s].request # Shuvalov!NONE /\ clients[servers[s].request].response = k
      BY <2>2, Zenon DEF Shuvalov!IInv, Shuvalov!ServersOK
    <3>2. k \in NODES /\ servers[s].request \in READERS \cup {Shuvalov!NONE}
      BY <1>1, <3>1 DEF STypes, Shuvalov!Server
    <3>3. Shuvalov!Readers(k) = SReaders(clients, k)
      BY DEF Shuvalov!Readers, SReaders
    <3>4. {cache[k].subscribers[i] : i \in Shuvalov!Slots} = SReaders(clients, k)
      BY <3>1, <3>3 DEF Shuvalov!Listed
    <3> HIDE DEF k
    <3>5. /\ \A i \in Shuvalov!Slots : cache[k].subscribers[i] \in SReaders(clients, k)
          /\ \A c \in SReaders(clients, k) :
               \E i \in Shuvalov!Slots : cache[k].subscribers[i] = c
      BY <3>4, SListedAll
    <3>6. servers[s].request # Shuvalov!NONE /\ clients[servers[s].request].response = k
            => servers[s].request \in SReaders(clients, k)
      BY <3>2 DEF SReaders
    <3>7. SFills(clients, cache, k, servers[s])
      BY <3>1, <3>2, <3>5, <3>6 DEF SFills
    <3> QED  BY <3>7 DEF k
  <2> QED  BY <2>1, <2>2, Zenon DEF SServersOK
<1> QED  BY <1>1, <1>2, <1>3, <1>4, <1>5 DEF SInv

LEMMA SInvState ==
  ASSUME running \in {"yes", "stopped"}, extra \in {Shuvalov!NONE} \cup NODES,
         SInv(clients, servers, cache)
  PROVE  Shuvalov!IInv
<1>1. Shuvalov!TypeOK /\ running # "aborted"
  BY DEF SInv, STypes, Shuvalov!TypeOK
<1>2. Shuvalov!ClientsOK
  BY Zenon DEF SInv, Shuvalov!ClientsOK, SClientsOK, SClientOK
<1>3. Shuvalov!NodesOK
  <2>1. \A k \in NODES : cache[k].count = Shuvalov!Cardinality(Shuvalov!Readers(k))
    BY SCardinality, Zenon DEF SInv, SCounted, Shuvalov!Readers, SReaders
  <2>2. \A k \in NODES :
          (\A i \in Shuvalov!Slots : cache[k].subscribers[i] = Shuvalov!NONE)
            => Shuvalov!Listed(k) = {Shuvalov!NONE}
    BY SListedNone DEF Shuvalov!Listed
  <2> QED  BY <2>1, <2>2, Zenon DEF SInv, SNodesOK, Shuvalov!NodesOK
<1>4. Shuvalov!ServersOK
  <2>1. \A s, r \in SERVERS :
          servers[s].fd /\ servers[r].fd /\ servers[s].response = servers[r].response => s = r
    BY Zenon DEF SInv, SServersOK
  <2>2. ASSUME NEW s \in SERVERS, servers[s].fd, NEW k, k = servers[s].response
        PROVE  /\ k # Shuvalov!NONE /\ ~cache[k].empty /\ cache[k].buf_len # CHUNKS
               /\ Shuvalov!Listed(k) = Shuvalov!Readers(k)
               /\ \A i \in Shuvalov!Slots :
                    i >= cache[k].count => cache[k].subscribers[i] = cache[k].subscribers[0]
               /\ IF servers[s].phase = "receive" THEN servers[s].asked = cache[k].url
                  ELSE /\ servers[s].request # Shuvalov!NONE
                       /\ clients[servers[s].request].response = k
    <3>1. SFills(clients, cache, k, servers[s])
      BY <2>2, Zenon DEF SInv, SServersOK
    <3>2. Shuvalov!Readers(k) = SReaders(clients, k)
      BY DEF Shuvalov!Readers, SReaders
    <3>3. {cache[k].subscribers[i] : i \in Shuvalov!Slots} = SReaders(clients, k)
      BY <3>1, SListedAll DEF SFills
    <3>4. Shuvalov!Listed(k) = Shuvalov!Readers(k)
      BY <3>2, <3>3 DEF Shuvalov!Listed
    <3>5. servers[s].request \in SReaders(clients, k) =>
            servers[s].request # Shuvalov!NONE /\ clients[servers[s].request].response = k
      BY SNone DEF SReaders
    <3>6. k # Shuvalov!NONE
      BY <3>1, SNone DEF SFills
    <3> QED  BY <3>1, <3>4, <3>5, <3>6 DEF SFills
  <2> QED  BY <2>1, <2>2, Zenon DEF Shuvalov!ServersOK
<1> QED  BY <1>1, <1>2, <1>3, <1>4 DEF Shuvalov!IInv

LEMMA SInvNext ==
  ASSUME running' \in {"yes", "stopped"}, extra' \in {Shuvalov!NONE} \cup NODES,
         SInv(clients', servers', cache')
  PROVE  Shuvalov!IInv'
<1>1. Shuvalov!TypeOK' /\ running' # "aborted"
  BY DEF SInv, STypes, Shuvalov!TypeOK
<1>2. Shuvalov!ClientsOK'
  BY Zenon DEF SInv, Shuvalov!ClientsOK, SClientsOK, SClientOK
<1>3. Shuvalov!NodesOK'
  <2>1. \A k \in NODES : cache'[k].count = Shuvalov!Cardinality(Shuvalov!Readers(k)')
    BY SCardinality, Zenon DEF SInv, SCounted, Shuvalov!Readers, SReaders
  <2>2. \A k \in NODES :
          (\A i \in Shuvalov!Slots : cache'[k].subscribers[i] = Shuvalov!NONE)
            => Shuvalov!Listed(k)' = {Shuvalov!NONE}
    BY SListedNone DEF Shuvalov!Listed
  <2> QED  BY <2>1, <2>2, Zenon DEF SInv, SNodesOK, Shuvalov!NodesOK
<1>4. Shuvalov!ServersOK'
  <2>1. \A s, r \in SERVERS :
          servers'[s].fd /\ servers'[r].fd /\ servers'[s].response = servers'[r].response => s = r
    BY Zenon DEF SInv, SServersOK
  <2>2. ASSUME NEW s \in SERVERS, servers'[s].fd, NEW k, k = servers'[s].response
        PROVE  /\ k # Shuvalov!NONE /\ ~cache'[k].empty /\ cache'[k].buf_len # CHUNKS
               /\ Shuvalov!Listed(k)' = Shuvalov!Readers(k)'
               /\ \A i \in Shuvalov!Slots :
                    i >= cache'[k].count => cache'[k].subscribers[i] = cache'[k].subscribers[0]
               /\ IF servers'[s].phase = "receive" THEN servers'[s].asked = cache'[k].url
                  ELSE /\ servers'[s].request # Shuvalov!NONE
                       /\ clients'[servers'[s].request].response = k
    <3>1. SFills(clients', cache', k, servers'[s])
      BY <2>2, Zenon DEF SInv, SServersOK
    <3>2. Shuvalov!Readers(k)' = SReaders(clients', k)
      BY DEF Shuvalov!Readers, SReaders
    <3>3. {cache'[k].subscribers[i] : i \in Shuvalov!Slots} = SReaders(clients', k)
      BY <3>1, SListedAll DEF SFills
    <3>4. Shuvalov!Listed(k)' = Shuvalov!Readers(k)'
      BY <3>2, <3>3 DEF Shuvalov!Listed
    <3>5. servers'[s].request \in SReaders(clients', k) =>
            servers'[s].request # Shuvalov!NONE /\ clients'[servers'[s].request].response = k
      BY SNone DEF SReaders
    <3>6. k # Shuvalov!NONE
      BY <3>1, SNone DEF SFills
    <3> QED  BY <3>1, <3>4, <3>5, <3>6 DEF SFills
  <2> QED  BY <2>1, <2>2, Zenon DEF Shuvalov!ServersOK
<1> QED  BY <1>1, <1>2, <1>3, <1>4 DEF Shuvalov!IInv


LEMMA SSoundTables ==
  ASSUME Shuvalov!IInv, NEW t, SSound(t), Shuvalov!Becomes(t),
         extra' \in {Shuvalov!NONE} \cup NODES
  PROVE  Shuvalov!IInv'
<1>1. PICK x, y, z : t = STb(x, y, z) /\ SInv(x, y, z)
  BY Zenon DEF SSound
<1>2. /\ clients' = x /\ servers' = y /\ cache' = z /\ running' = running
  BY <1>1, STables, Zenon
<1>3. running' \in {"yes", "stopped"}
  BY <1>2 DEF Shuvalov!IInv, Shuvalov!TypeOK
<1>4. SInv(clients', servers', cache')
  BY <1>1, <1>2
<1> QED  BY <1>3, <1>4, SInvNext

LEMMA SSoundState ==
  ASSUME Shuvalov!IInv, NEW t, SSound(t), Shuvalov!Becomes(t), UNCHANGED extra
  PROVE  Shuvalov!IInv'
<1>1. extra' \in {Shuvalov!NONE} \cup NODES
  BY DEF Shuvalov!IInv, Shuvalov!TypeOK
<1> QED  BY <1>1, SSoundTables

LEMMA SFields ==
  ASSUME NEW x, NEW y, NEW z, SInv(x, y, z)
  PROVE  /\ x \in [READERS -> Shuvalov!Client] /\ y \in [SERVERS -> Shuvalov!Server]
         /\ z \in [NODES -> Shuvalov!Node]
         /\ \A c \in READERS :
              /\ x[c] \in Shuvalov!Client
              /\ x[c].response \in NODES \cup {Shuvalov!NONE}
              /\ x[c].written \in 0 .. CHUNKS /\ x[c].written \in Int
              /\ x[c].fd \in BOOLEAN
         /\ \A s \in SERVERS :
              /\ y[s] \in Shuvalov!Server /\ y[s].fd \in BOOLEAN
         /\ \A k \in NODES :
              /\ z[k] \in Shuvalov!Node
              /\ z[k].buf_len \in 0 .. CHUNKS /\ z[k].buf_len \in Int
              /\ z[k].count \in -SUBSCRIBERS .. SUBSCRIBERS /\ z[k].count \in Int
              /\ z[k].subscribers \in [Shuvalov!Slots -> READERS \cup {Shuvalov!NONE}]
<1>1. /\ x \in [READERS -> Shuvalov!Client] /\ y \in [SERVERS -> Shuvalov!Server]
      /\ z \in [NODES -> Shuvalov!Node]
  BY DEF SInv, STypes
<1>2. \A c \in READERS :
        /\ x[c] \in Shuvalov!Client
        /\ x[c].response \in NODES \cup {Shuvalov!NONE}
        /\ x[c].written \in 0 .. CHUNKS /\ x[c].written \in Int
        /\ x[c].fd \in BOOLEAN
  BY <1>1, Indices, SNone DEF Shuvalov!Client
<1>3. \A s \in SERVERS : y[s] \in Shuvalov!Server /\ y[s].fd \in BOOLEAN
  BY <1>1 DEF Shuvalov!Server
<1>4. \A k \in NODES :
        /\ z[k] \in Shuvalov!Node
        /\ z[k].buf_len \in 0 .. CHUNKS /\ z[k].buf_len \in Int
        /\ z[k].count \in -SUBSCRIBERS .. SUBSCRIBERS /\ z[k].count \in Int
        /\ z[k].subscribers \in [Shuvalov!Slots -> READERS \cup {Shuvalov!NONE}]
  BY <1>1, Indices, SConstants DEF Shuvalov!Node
<1> QED  BY <1>1, <1>2, <1>3, <1>4

LEMMA SFinite ==
  ASSUME NEW x, NEW k
  PROVE  IsFiniteSet(SReaders(x, k)) /\ Cardinality(SReaders(x, k)) \in Nat
<1>1. SReaders(x, k) \in SUBSET READERS
  BY DEF SReaders
<1> QED  BY <1>1, SConstants, FS_Subset, FS_CardinalityType

SPut(x, c, r) == [x EXCEPT ![c] = r]

LEMMA SPutEffect ==
  ASSUME NEW x \in [READERS -> Shuvalov!Client], NEW c \in READERS, NEW r \in Shuvalov!Client
  PROVE  /\ SPut(x, c, r) \in [READERS -> Shuvalov!Client]
         /\ SPut(x, c, r)[c] = r
         /\ \A d \in READERS : d # c => SPut(x, c, r)[d] = x[d]
BY DEF SPut

SPutServer(y, s, v) == [y EXCEPT ![s] = v]

LEMMA SPutServerEffect ==
  ASSUME NEW y \in [SERVERS -> Shuvalov!Server], NEW s \in SERVERS, NEW v \in Shuvalov!Server
  PROVE  /\ SPutServer(y, s, v) \in [SERVERS -> Shuvalov!Server]
         /\ SPutServer(y, s, v)[s] = v
         /\ \A r \in SERVERS : r # s => SPutServer(y, s, v)[r] = y[r]
BY DEF SPutServer

SPutNode(z, k, n) == [z EXCEPT ![k] = n]

LEMMA SPutNodeEffect ==
  ASSUME NEW z \in [NODES -> Shuvalov!Node], NEW k \in NODES, NEW n \in Shuvalov!Node
  PROVE  /\ SPutNode(z, k, n) \in [NODES -> Shuvalov!Node]
         /\ SPutNode(z, k, n)[k] = n
         /\ \A l \in NODES : l # k => SPutNode(z, k, n)[l] = z[l]
BY DEF SPutNode

(* A client that keeps its node leaves the node's readers alone. *)
LEMMA SClientInv ==
  ASSUME NEW x, NEW y, NEW z, SInv(x, y, z), NEW c \in READERS, NEW r \in Shuvalov!Client,
         r.response = x[c].response, SClientOK(r, z)
  PROVE  SInv(SPut(x, c, r), y, z)
<1> DEFINE X == SPut(x, c, r)
<1>1. /\ X \in [READERS -> Shuvalov!Client] /\ X[c] = r
      /\ \A d \in READERS : d # c => X[d] = x[d]
  BY SPutEffect, SFields
<1> HIDE DEF X
<1>2. \A k : SReaders(X, k) = SReaders(x, k)
  BY <1>1 DEF SReaders
<1>3. STypes(X, y, z)
  BY <1>1 DEF SInv, STypes
<1>4. SClientsOK(X, z)
  BY <1>1 DEF SInv, SClientsOK
<1>5. SCounted(X, z)
  BY <1>2 DEF SInv, SCounted
<1>6. SServersOK(X, y, z)
  BY <1>2 DEF SInv, SServersOK, SFills
<1> QED  BY <1>3, <1>4, <1>5, <1>6 DEF SInv, X

(* A server that goes on filling its node, or is closed. *)
LEMMA SServerInv ==
  ASSUME NEW x, NEW y, NEW z, SInv(x, y, z), NEW s \in SERVERS, NEW v \in Shuvalov!Server,
         v.fd => /\ y[s].fd /\ v.response = y[s].response
                 /\ SFills(x, z, v.response, v)
  PROVE  SInv(x, SPutServer(y, s, v), z)
<1> DEFINE Y == SPutServer(y, s, v)
<1>1. /\ Y \in [SERVERS -> Shuvalov!Server] /\ Y[s] = v
      /\ \A r \in SERVERS : r # s => Y[r] = y[r]
  BY SPutServerEffect, SFields
<1> HIDE DEF Y
<1>2. STypes(x, Y, z)
  BY <1>1 DEF SInv, STypes
<1>3. SServersOK(x, Y, z)
  <2>1. \A r \in SERVERS : Y[r].fd => y[r].fd /\ Y[r].response = y[r].response
    BY <1>1
  <2>2. \A r \in SERVERS : Y[r].fd => SFills(x, z, Y[r].response, Y[r])
    BY <1>1 DEF SInv, SServersOK
  <2> QED  BY <2>1, <2>2 DEF SInv, SServersOK
<1> QED  BY <1>2, <1>3 DEF SInv, Y

(* What is known of a node while nobody writes about it. *)
LEMMA SFillsFrame ==
  ASSUME NEW x, NEW X, NEW z, NEW Z, NEW k, NEW v, SFills(x, z, k, v),
         SReaders(X, k) = SReaders(x, k), Z[k] = z[k]
  PROVE  SFills(X, Z, k, v)
BY DEF SFills

SAccepted == [Shuvalov!setup_client EXCEPT !.fd = TRUE, !.events = "in"]

LEMMA SMin ==
  ASSUME NEW T \in SUBSET Nat, T # {}
  PROVE  Shuvalov!Min(T) \in T
BY Least DEF Shuvalov!Min

LEMMA SAccept ==
  ASSUME Shuvalov!IInv, Shuvalov!accept_client
  PROVE  Shuvalov!IInv'
<1> DEFINE c == Shuvalov!Min(Shuvalov!add_fd_to_clients)
           x == SPut(clients, c, SAccepted)
<1>1. c \in READERS /\ ~clients[c].fd
  <2>1. Shuvalov!add_fd_to_clients \in SUBSET Nat
    BY Indices DEF Shuvalov!add_fd_to_clients
  <2>2. c \in Shuvalov!add_fd_to_clients
    BY <2>1, SMin DEF Shuvalov!accept_client
  <2> QED  BY <2>2 DEF Shuvalov!add_fd_to_clients
<1>2. Shuvalov!Becomes([Shuvalov!Tables EXCEPT !.clients[c] = SAccepted]) /\ UNCHANGED extra
  BY DEF Shuvalov!accept_client, SAccepted
<1> HIDE DEF c
<1>3. [Shuvalov!Tables EXCEPT !.clients[c] = SAccepted] = STb(x, servers, cache)
  BY STables DEF STb, SPut
<1>4. SInv(clients, servers, cache)
  BY SStateInv
<1>5. /\ SAccepted \in Shuvalov!Client /\ SAccepted.response = Shuvalov!NONE
      /\ SAccepted.fd = TRUE /\ SAccepted.events = "in" /\ SAccepted.written = 0
  <2>1. PICK v \in Shuvalov!Client : v = Shuvalov!setup_client
    BY SEmpty
  <2>2. /\ SAccepted \in Shuvalov!Client /\ SAccepted.response = v.response
        /\ SAccepted.fd = TRUE /\ SAccepted.events = "in" /\ SAccepted.written = v.written
    BY <2>1 DEF SAccepted, Shuvalov!Client
  <2> QED  BY <2>1, <2>2, SEmpty
<1>6. clients[c].response = Shuvalov!NONE
  BY <1>1, <1>4 DEF SInv, SClientsOK, SClientOK
<1>7. SClientOK(SAccepted, cache)
  BY <1>5 DEF SClientOK
<1>8. SInv(x, servers, cache)
  BY <1>1, <1>4, <1>5, <1>6, <1>7, SClientInv
<1> HIDE DEF x
<1>9. SSound(STb(x, servers, cache))
  BY <1>8 DEF SSound
<1> QED  BY <1>2, <1>3, <1>9, SSoundState

LEMMA SUrl ==
  ASSUME Shuvalov!IInv, NEW c \in READERS, clients[c].response # Shuvalov!NONE
  PROVE  clients[c].request = cache[clients[c].response].url
BY DEF Shuvalov!IInv, Shuvalov!ClientsOK

LEMMA SClientGone ==
  ASSUME Shuvalov!IInv, NEW c \in READERS, Shuvalov!client_gone(c)
  PROVE  Shuvalov!IInv'
<1> DEFINE x == SPut(clients, c, Shuvalov!setup_client)
<1>1. SInv(clients, servers, cache)
  BY SStateInv
<1>2. /\ clients[c].fd /\ clients[c].events = "in"
      /\ Shuvalov!Becomes(Shuvalov!close_client(Shuvalov!Tables, c)) /\ UNCHANGED extra
  BY DEF Shuvalov!client_gone
<1>3. clients[c].response = Shuvalov!NONE
  BY <1>1, <1>2 DEF SInv, SClientsOK, SClientOK
<1>4. Shuvalov!close_client(STb(clients, servers, cache), c) = STb(x, servers, cache)
  <2>1. STb(clients, servers, cache).clients[c] = clients[c]
    BY DEF STb
  <2>2. Shuvalov!unsubscribe(STb(clients, servers, cache), c) = STb(clients, servers, cache)
    BY <1>3, <2>1, Zenon DEF Shuvalov!unsubscribe
  <2>3. Shuvalov!close_client(STb(clients, servers, cache), c)
          = [STb(clients, servers, cache) EXCEPT !.clients[c] = Shuvalov!setup_client]
    BY <1>2, <2>1, <2>2, Zenon DEF Shuvalov!close_client
  <2> QED  BY <2>3 DEF STb, SPut
<1>5. SClientOK(Shuvalov!setup_client, cache)
  BY SEmpty DEF SClientOK
<1>6. SInv(x, servers, cache)
  BY <1>1, <1>3, <1>5, SEmpty, SClientInv
<1> HIDE DEF x
<1>7. SSound(STb(x, servers, cache))
  BY <1>6 DEF SSound
<1>8. Shuvalov!Becomes(STb(x, servers, cache))
  BY <1>2, <1>4, STables, Zenon
<1> QED  BY <1>2, <1>7, <1>8, SSoundState

LEMMA SConnect ==
  ASSUME Shuvalov!IInv, NEW s \in SERVERS, Shuvalov!connect_to_server(s)
  PROVE  Shuvalov!IInv'
<1> DEFINE v == [servers[s] EXCEPT !.phase = "send"]
           y == SPutServer(servers, s, v)
<1>1. SInv(clients, servers, cache)
  BY SStateInv
<1>2. /\ servers[s].fd /\ servers[s].phase = "connect"
      /\ Shuvalov!Becomes([Shuvalov!Tables EXCEPT !.servers[s].phase = "send"])
      /\ UNCHANGED extra
  BY DEF Shuvalov!connect_to_server, Shuvalov!Phase
<1>3. [Shuvalov!Tables EXCEPT !.servers[s].phase = "send"] = STb(clients, y, cache)
  BY STables DEF STb, SPutServer
<1>4. /\ v \in Shuvalov!Server /\ v.fd = servers[s].fd /\ v.phase = "send"
      /\ v.response = servers[s].response /\ v.request = servers[s].request
  BY <1>1, SFields DEF Shuvalov!Server
<1> HIDE DEF v
<1>5. SFills(clients, cache, servers[s].response, servers[s])
  BY <1>1, <1>2 DEF SInv, SServersOK
<1>6. SFills(clients, cache, v.response, v)
  BY <1>2, <1>4, <1>5 DEF SFills
<1>7. SInv(clients, y, cache)
  BY <1>1, <1>2, <1>4, <1>6, SServerInv
<1> HIDE DEF y
<1>8. SSound(STb(clients, y, cache))
  BY <1>7 DEF SSound
<1> QED  BY <1>2, <1>3, <1>8, SSoundState

LEMMA SSend ==
  ASSUME Shuvalov!IInv, NEW s \in SERVERS, Shuvalov!send_to_server(s)
  PROVE  Shuvalov!IInv'
<1> DEFINE a == clients[servers[s].request].request
           e(v) == [v EXCEPT !.phase = "receive", !.asked = a]
           w == e(servers[s])
           y == SPutServer(servers, s, w)
<1>1. SInv(clients, servers, cache)
  BY SStateInv
<1>2. /\ servers[s].fd /\ servers[s].phase = "send"
      /\ Shuvalov!Becomes([Shuvalov!Tables EXCEPT !.servers[s] = e(@)])
      /\ UNCHANGED extra
  BY DEF Shuvalov!send_to_server, Shuvalov!Phase
<1>3. PICK k : k = servers[s].response
  OBVIOUS
<1>4. SFills(clients, cache, k, servers[s])
  BY <1>1, <1>2, <1>3 DEF SInv, SServersOK
<1>5. k \in NODES /\ servers[s].request \in READERS /\ clients[servers[s].request].response = k
  BY <1>2, <1>4 DEF SFills, SReaders
<1>6. a = cache[k].url
  <2>1. PICK c \in READERS : c = servers[s].request
    BY <1>5
  <2>2. clients[c].response = k /\ k # Shuvalov!NONE
    BY <1>5, <2>1, SNone
  <2>3. clients[c].request = cache[clients[c].response].url
    BY <2>2, SUrl
  <2> QED  BY <2>1, <2>2, <2>3
<1>7. a \in URLS \cup {Shuvalov!NoUrl}
  BY <1>1, <1>5, SFields DEF Shuvalov!Client
<1> HIDE DEF a
<1>8. [Shuvalov!Tables EXCEPT !.servers[s] = e(@)] = STb(clients, y, cache)
  <2> HIDE DEF e
  <2>1. [STb(clients, servers, cache) EXCEPT !.servers[s] = e(@)]
          = STb(clients, SPutServer(servers, s, e(servers[s])), cache)
    BY DEF STb, SPutServer
  <2> QED  BY <2>1, STables
<1>9. /\ w \in Shuvalov!Server /\ w.fd = servers[s].fd /\ w.phase = "receive"
      /\ w.response = servers[s].response /\ w.asked = a
  <2>1. PICK v \in Shuvalov!Server : v = servers[s]
    BY <1>1, SFields
  <2>2. PICK b \in URLS \cup {Shuvalov!NoUrl} : b = a
    BY <1>7
  <2> DEFINE q == [v EXCEPT !.phase = "receive", !.asked = b]
  <2>3. /\ q \in Shuvalov!Server /\ q.fd = v.fd /\ q.phase = "receive"
        /\ q.response = v.response /\ q.asked = b
    BY DEF Shuvalov!Server
  <2>4. q = w
    BY <2>1, <2>2, Zenon
  <2> HIDE DEF q, w
  <2> QED  BY <2>1, <2>2, <2>3, <2>4
<1> HIDE DEF e, w
<1>10. SFills(clients, cache, w.response, w)
  BY <1>3, <1>4, <1>6, <1>9 DEF SFills
<1>11. SInv(clients, y, cache)
  BY <1>1, <1>2, <1>9, <1>10, SServerInv
<1> HIDE DEF y
<1>12. SSound(STb(clients, y, cache))
  BY <1>11 DEF SSound
<1> QED  BY <1>2, <1>8, <1>12, SSoundState

SLeft(n, c) ==
  [n EXCEPT !.count = n.count - 1,
            !.subscribers = Shuvalov!replaced(n.subscribers, c, Shuvalov!NONE)]

LEMMA SReplaced ==
  ASSUME NEW f \in [Shuvalov!Slots -> READERS \cup {Shuvalov!NONE}],
         NEW a, NEW b \in READERS \cup {Shuvalov!NONE}
  PROVE  Shuvalov!replaced(f, a, b) \in [Shuvalov!Slots -> READERS \cup {Shuvalov!NONE}]
BY DEF Shuvalov!replaced

LEMMA SLeftNode ==
  ASSUME NEW n \in Shuvalov!Node, NEW c \in READERS, n.count >= 1
  PROVE  /\ SLeft(n, c) \in Shuvalov!Node
         /\ SLeft(n, c).empty = n.empty /\ SLeft(n, c).url = n.url
         /\ SLeft(n, c).status = n.status /\ SLeft(n, c).buf_len = n.buf_len
         /\ SLeft(n, c).from = n.from /\ SLeft(n, c).count = n.count - 1
<1>1. /\ n.subscribers \in [Shuvalov!Slots -> READERS \cup {Shuvalov!NONE}]
      /\ n.count \in -SUBSCRIBERS .. SUBSCRIBERS
  BY DEF Shuvalov!Node
<1>2. PICK f \in [Shuvalov!Slots -> READERS \cup {Shuvalov!NONE}] :
        f = Shuvalov!replaced(n.subscribers, c, Shuvalov!NONE)
  BY <1>1, SReplaced
<1>3. PICK m \in -SUBSCRIBERS .. SUBSCRIBERS : m = n.count - 1
  BY <1>1, SConstants
<1> DEFINE w == [n EXCEPT !.count = m, !.subscribers = f]
<1>4. SLeft(n, c) = w
  BY <1>2, <1>3, Zenon DEF SLeft
<1>5. /\ w \in Shuvalov!Node /\ w.empty = n.empty /\ w.url = n.url /\ w.status = n.status
      /\ w.buf_len = n.buf_len /\ w.from = n.from /\ w.count = m
  BY DEF Shuvalov!Node
<1> HIDE DEF w
<1> QED  BY <1>3, <1>4, <1>5

(* Client c has read all of node k, which no server fills any more. *)
LEMMA SLeaveInv ==
  ASSUME NEW x, NEW y, NEW z, SInv(x, y, z), NEW c \in READERS, NEW k \in NODES,
         x[c].response = k, z[k].buf_len = CHUNKS
  PROVE  SInv(SPut(x, c, Shuvalov!setup_client), y, SPutNode(z, k, SLeft(z[k], c)))
<1> DEFINE X == SPut(x, c, Shuvalov!setup_client)
           n == SLeft(z[k], c)
           Z == SPutNode(z, k, n)
<1>1. /\ X \in [READERS -> Shuvalov!Client] /\ X[c] = Shuvalov!setup_client
      /\ \A d \in READERS : d # c => X[d] = x[d]
  BY SPutEffect, SFields, SEmpty
<1>2. c \in SReaders(x, k) /\ z[k].count = Cardinality(SReaders(x, k))
  BY DEF SReaders, SInv, SCounted
<1>3. z[k].count >= 1
  <2>1. IsFiniteSet(SReaders(x, k)) /\ Cardinality(SReaders(x, k)) \in Nat
    BY SFinite
  <2>2. Cardinality(SReaders(x, k)) # 0
    BY <1>2, <2>1, FS_EmptySet
  <2> QED  BY <1>2, <2>1, <2>2
<1>4. /\ n \in Shuvalov!Node /\ n.empty = z[k].empty /\ n.url = z[k].url
      /\ n.status = z[k].status /\ n.buf_len = z[k].buf_len /\ n.from = z[k].from
      /\ n.count = z[k].count - 1
  <2>1. PICK v \in Shuvalov!Node : v = z[k]
    BY SFields
  <2>2. v.count >= 1
    BY <2>1, <1>3
  <2>3. /\ SLeft(v, c) \in Shuvalov!Node
        /\ SLeft(v, c).empty = v.empty /\ SLeft(v, c).url = v.url
        /\ SLeft(v, c).status = v.status /\ SLeft(v, c).buf_len = v.buf_len
        /\ SLeft(v, c).from = v.from /\ SLeft(v, c).count = v.count - 1
    BY <2>2, SLeftNode
  <2> HIDE DEF n
  <2> QED  BY <2>1, <2>3 DEF n
<1> HIDE DEF n
<1>5. /\ Z \in [NODES -> Shuvalov!Node] /\ Z[k] = n
      /\ \A l \in NODES : l # k => Z[l] = z[l]
  BY <1>4, SPutNodeEffect, SFields
<1> HIDE DEF X, Z
<1>6. \A l \in NODES :
        /\ Z[l].empty = z[l].empty /\ Z[l].url = z[l].url /\ Z[l].status = z[l].status
        /\ Z[l].buf_len = z[l].buf_len /\ Z[l].from = z[l].from
  BY <1>4, <1>5
<1>7. SReaders(X, k) = SReaders(x, k) \ {c}
  BY <1>1, SEmpty, SNone DEF SReaders
<1>8. \A l \in NODES : l # k => SReaders(X, l) = SReaders(x, l)
  BY <1>1, SEmpty, SNone DEF SReaders
<1>9. STypes(X, y, Z)
  BY <1>1, <1>5 DEF SInv, STypes
<1>10. SClientsOK(X, Z)
  <2>1. SClientOK(X[c], Z)
    BY <1>1, SEmpty DEF SClientOK
  <2>2. ASSUME NEW d \in READERS, d # c
        PROVE  SClientOK(X[d], Z)
    <3>1. SClientOK(x[d], z)
      BY DEF SInv, SClientsOK
    <3>2. x[d].response = Shuvalov!NONE \/ x[d].response \in NODES
      BY SFields
    <3>3. SClientOK(x[d], Z)
      BY <3>1, <3>2, <1>6 DEF SClientOK
    <3> QED  BY <3>3, <2>2, <1>1
  <2> QED  BY <2>1, <2>2 DEF SClientsOK
<1>11. SCounted(X, Z)
  <2>1. Cardinality(SReaders(x, k) \ {c}) = Cardinality(SReaders(x, k)) - 1
    BY <1>2, SFinite, FS_RemoveElement
  <2>2. Z[k].count = Cardinality(SReaders(X, k))
    BY <1>2, <1>4, <1>5, <1>7, <2>1
  <2> QED  BY <1>5, <1>8, <2>2 DEF SInv, SCounted
<1>12. ~z[k].empty
  BY SNone DEF SInv, SClientsOK, SClientOK
<1>13. SNodesOK(Z)
  <2>1. \A l \in NODES : l # k => Z[l] = z[l]
    BY <1>5
  <2>2. ASSUME NEW l \in NODES
        PROVE  /\ IF Z[l].empty
                  THEN \A i \in Shuvalov!Slots : Z[l].subscribers[i] = Shuvalov!NONE
                  ELSE Z[l].url \in URLS
               /\ Z[l].status # "bad" /\ Z[l].from \subseteq {Z[l].url}
    <3>1. CASE l = k
      BY <3>1, <1>6, <1>12 DEF SInv, SNodesOK
    <3>2. CASE l # k
      BY <3>2, <2>1 DEF SInv, SNodesOK
    <3> QED  BY <3>1, <3>2
  <2>3. \A l, m \in NODES : ~Z[l].empty /\ ~Z[m].empty /\ Z[l].url = Z[m].url => l = m
    BY <1>6 DEF SInv, SNodesOK
  <2> QED  BY <2>2, <2>3 DEF SNodesOK
<1>14. SServersOK(X, y, Z)
  <2>1. ASSUME NEW s \in SERVERS, y[s].fd
        PROVE  SFills(X, Z, y[s].response, y[s])
    <3>1. PICK l : l = y[s].response
      OBVIOUS
    <3>2. SFills(x, z, l, y[s])
      BY <2>1, <3>1 DEF SInv, SServersOK
    <3>3. l \in NODES /\ l # k
      BY <3>2 DEF SFills
    <3>4. SReaders(X, l) = SReaders(x, l) /\ Z[l] = z[l]
      BY <3>3, <1>5, <1>8
    <3>5. SFills(X, Z, l, y[s])
      BY <3>2, <3>4, SFillsFrame
    <3> QED  BY <3>1, <3>5
  <2> QED  BY <2>1 DEF SInv, SServersOK
<1> QED  BY <1>9, <1>10, <1>11, <1>13, <1>14 DEF SInv, X, Z, n

(* finish, for a node whose status is 200. *)
LEMMA SFinish ==
  ASSUME NEW x, NEW y, NEW z \in [NODES -> Shuvalov!Node], NEW c, NEW k \in NODES,
         k = x[c].response, k # Shuvalov!NONE, z[k].status # "bad"
  PROVE  Shuvalov!finish(STb(x, y, z), c)
           = STb(SPut(x, c, Shuvalov!setup_client), y, SPutNode(z, k, SLeft(z[k], c)))
<1> DEFINE t == STb(x, y, z)
           f(q) == Shuvalov!replaced(q, c, Shuvalov!NONE)
           w == [t EXCEPT !.cache[k].count = @ - 1, !.cache[k].subscribers = f(@)]
<1>1. t.clients[c].response = k /\ t.cache[k].status # "bad"
  BY DEF STb
<1>2. Shuvalov!unsubscribe(t, c) = w
  BY <1>1, Zenon DEF Shuvalov!unsubscribe
<1>3. w = STb(x, y, SPutNode(z, k, SLeft(z[k], c)))
  <2>1. SLeft(z[k], c) = [z[k] EXCEPT !.count = z[k].count - 1, !.subscribers = f(z[k].subscribers)]
    BY DEF SLeft
  <2>2. PICK m : m = z[k].count - 1
    OBVIOUS
  <2>3. PICK g : g = f(z[k].subscribers)
    OBVIOUS
  <2> HIDE DEF f
  <2>4. w = [t EXCEPT !.cache[k].count = m, !.cache[k].subscribers = g]
    BY <2>2, <2>3 DEF STb
  <2> HIDE DEF w
  <2>5. [t EXCEPT !.cache[k].count = m, !.cache[k].subscribers = g]
          = STb(x, y, SPutNode(z, k, [z[k] EXCEPT !.count = m, !.subscribers = g]))
    <3>1. [t EXCEPT !.cache[k].count = m] = STb(x, y, [z EXCEPT ![k].count = m])
      BY DEF STb
    <3>2. [STb(x, y, [z EXCEPT ![k].count = m]) EXCEPT !.cache[k].subscribers = g]
            = STb(x, y, [[z EXCEPT ![k].count = m] EXCEPT ![k].subscribers = g])
      BY DEF STb
    <3>3. [[z EXCEPT ![k].count = m] EXCEPT ![k].subscribers = g]
            = SPutNode(z, k, [z[k] EXCEPT !.count = m, !.subscribers = g])
      BY DEF SPutNode
    <3>4. [t EXCEPT !.cache[k].count = m, !.cache[k].subscribers = g]
            = [[t EXCEPT !.cache[k].count = m] EXCEPT !.cache[k].subscribers = g]
      OBVIOUS
    <3> QED  BY <3>1, <3>2, <3>3, <3>4, Zenon
  <2> QED  BY <2>1, <2>2, <2>3, <2>4, <2>5, Zenon
<1> HIDE DEF w
<1>4. Shuvalov!finish(t, c) = [w EXCEPT !.clients[c] = Shuvalov!setup_client]
  BY <1>1, <1>2, Zenon DEF Shuvalov!finish
<1> QED  BY <1>3, <1>4 DEF STb, SPut

SSent(r, n, w) == [r EXCEPT !.written = n, !.events = w]

LEMMA SSentClient ==
  ASSUME NEW r \in Shuvalov!Client, NEW n \in 0 .. CHUNKS, NEW w \in {"none", "out"}
  PROVE  /\ SSent(r, n, w) \in Shuvalov!Client
         /\ SSent(r, n, w).fd = r.fd /\ SSent(r, n, w).response = r.response
         /\ SSent(r, n, w).request = r.request
         /\ SSent(r, n, w).written = n /\ SSent(r, n, w).events = w
BY DEF SSent, Shuvalov!Client

LEMMA SSendToClient ==
  ASSUME Shuvalov!IInv, NEW c \in READERS, Shuvalov!send_to_client(c)
  PROVE  Shuvalov!IInv'
<1>1. SInv(clients, servers, cache)
  BY SStateInv
<1>2. PICK k \in NODES : k = clients[c].response
  BY <1>1, SFields DEF Shuvalov!send_to_client
<1> DEFINE e(q, n) ==
             [q EXCEPT !.written = n,
                       !.events = IF n = cache[k].buf_len THEN "none" ELSE clients[c].events]
           t(n) == [Shuvalov!Tables EXCEPT !.clients[c] = e(@, n)]
<1>3. cache[k].status # "bad"
  BY <1>1 DEF SInv, SNodesOK
<1>4. /\ clients[c].fd /\ clients[c].events = "out" /\ UNCHANGED extra
      /\ \E n \in {} \cup ((clients[c].written + 1) .. cache[k].buf_len) :
           \/ n = Shuvalov!NONE
           \/ ~Shuvalov!Complete(n) /\ Shuvalov!Becomes(t(n))
           \/ Shuvalov!Complete(n) /\ Shuvalov!Becomes(Shuvalov!finish(t(n), c))
  BY <1>2, <1>3, Zenon DEF Shuvalov!send_to_client
<1>5. PICK n \in (clients[c].written + 1) .. cache[k].buf_len :
        \/ n = Shuvalov!NONE
        \/ ~Shuvalov!Complete(n) /\ Shuvalov!Becomes(t(n))
        \/ Shuvalov!Complete(n) /\ Shuvalov!Becomes(Shuvalov!finish(t(n), c))
  BY <1>4
<1>6. n \in 0 .. CHUNKS /\ n <= cache[k].buf_len /\ n # Shuvalov!NONE
  BY <1>1, SFields, Indices, SNone
<1> DEFINE w == IF n = cache[k].buf_len THEN "none" ELSE clients[c].events
           r == SSent(clients[c], n, w)
           x == SPut(clients, c, r)
<1>7. t(n) = STb(x, servers, cache)
  <2>1. e(clients[c], n) = r
    BY Zenon DEF SSent
  <2> HIDE DEF e, r
  <2>2. [STb(clients, servers, cache) EXCEPT !.clients[c] = e(@, n)]
          = STb(SPut(clients, c, e(clients[c], n)), servers, cache)
    BY DEF STb, SPut
  <2> QED  BY <2>1, <2>2, STables
<1> HIDE DEF t, e
<1>8. w \in {"none", "out"} /\ (n < cache[k].buf_len => w = "out")
  BY <1>4, <1>6, <1>1, SFields
<1> HIDE DEF w
<1>9. /\ r \in Shuvalov!Client
      /\ r.fd = clients[c].fd /\ r.response = clients[c].response
      /\ r.request = clients[c].request /\ r.written = n /\ r.events = w
  <2>1. PICK v \in Shuvalov!Client : v = clients[c]
    BY <1>1, SFields
  <2> HIDE DEF r
  <2>2. /\ SSent(v, n, w) \in Shuvalov!Client
        /\ SSent(v, n, w).fd = v.fd /\ SSent(v, n, w).response = v.response
        /\ SSent(v, n, w).request = v.request
        /\ SSent(v, n, w).written = n /\ SSent(v, n, w).events = w
    BY <1>6, <1>8, SSentClient
  <2> QED  BY <2>1, <2>2 DEF r
<1> HIDE DEF r
<1>10. CASE Shuvalov!Becomes(t(n))
  <2>1. /\ ~cache[k].empty /\ clients[c].request = cache[k].url
    BY <1>1, <1>2, SNone DEF SInv, SClientsOK, SClientOK
  <2>2. SClientOK(r, cache)
    BY <2>1, <1>2, <1>4, <1>6, <1>8, <1>9, SNone DEF SClientOK
  <2>3. SInv(x, servers, cache)
    BY <1>1, <1>9, <2>2, SClientInv
  <2> HIDE DEF x
  <2>4. SSound(STb(x, servers, cache))
    BY <2>3 DEF SSound
  <2> QED  BY <1>4, <1>7, <1>10, <2>4, SSoundState
<1>11. CASE Shuvalov!Complete(n) /\ Shuvalov!Becomes(Shuvalov!finish(t(n), c))
  <2> DEFINE X == SPut(clients, c, Shuvalov!setup_client)
             Z == SPutNode(cache, k, SLeft(cache[k], c))
  <2>1. /\ cache \in [NODES -> Shuvalov!Node] /\ clients \in [READERS -> Shuvalov!Client]
        /\ cache[k].buf_len \in 0 .. CHUNKS
    BY <1>1, SFields
  <2>2. cache[k].buf_len = CHUNKS
    BY <1>6, <1>11, <2>1, Indices DEF Shuvalov!Complete
  <2>3. x[c].response = k /\ k # Shuvalov!NONE
    BY <1>2, <1>9, <2>1, SPutEffect, SNone
  <2>4. SPut(x, c, Shuvalov!setup_client) = X
    BY DEF SPut
  <2> HIDE DEF x
  <2>5. Shuvalov!finish(STb(x, servers, cache), c)
          = STb(SPut(x, c, Shuvalov!setup_client), servers, Z)
    BY <1>3, <2>1, <2>3, SFinish
  <2>6. SInv(X, servers, Z)
    BY <1>1, <1>2, <2>2, SLeaveInv
  <2> HIDE DEF X, Z
  <2>7. Shuvalov!Becomes(STb(X, servers, Z))
    BY <1>7, <1>11, <2>4, <2>5, Zenon
  <2>8. SSound(STb(X, servers, Z))
    BY <2>6 DEF SSound
  <2> QED  BY <1>4, <2>7, <2>8, SSoundState
<1> QED  BY <1>5, <1>6, <1>10, <1>11

(* receive_from_server: the record of a node with a chunk more. *)
SFilled(n, a, w) == [n EXCEPT !.buf_len = n.buf_len + 1, !.from = n.from \cup {a}, !.status = w]

LEMMA SFilledNode ==
  ASSUME NEW n \in Shuvalov!Node, NEW a \in URLS, NEW w \in {"unknown", "ok", "bad"},
         n.buf_len < CHUNKS
  PROVE  /\ SFilled(n, a, w) \in Shuvalov!Node
         /\ SFilled(n, a, w).empty = n.empty /\ SFilled(n, a, w).url = n.url
         /\ SFilled(n, a, w).status = w
         /\ SFilled(n, a, w).buf_len = n.buf_len + 1
         /\ SFilled(n, a, w).from = n.from \cup {a}
         /\ SFilled(n, a, w).count = n.count
         /\ SFilled(n, a, w).subscribers = n.subscribers
<1>1. n.buf_len \in 0 .. CHUNKS /\ n.from \in SUBSET URLS
  BY DEF Shuvalov!Node
<1>2. PICK m \in 0 .. CHUNKS : m = n.buf_len + 1
  BY <1>1, Indices
<1>3. PICK f \in SUBSET URLS : f = n.from \cup {a}
  BY <1>1
<1> DEFINE q == [n EXCEPT !.buf_len = m, !.from = f, !.status = w]
<1>4. SFilled(n, a, w) = q
  BY <1>2, <1>3, Zenon DEF SFilled
<1>5. /\ q \in Shuvalov!Node /\ q.empty = n.empty /\ q.url = n.url /\ q.status = w
      /\ q.buf_len = m /\ q.from = f /\ q.count = n.count /\ q.subscribers = n.subscribers
  BY DEF Shuvalov!Node
<1> HIDE DEF q
<1> QED  BY <1>2, <1>3, <1>4, <1>5

STold(x, T) == [c \in READERS |-> [x[c] EXCEPT !.events = IF c \in T THEN "out" ELSE x[c].events]]

LEMMA SToldEffect ==
  ASSUME NEW x \in [READERS -> Shuvalov!Client], NEW T
  PROVE  /\ STold(x, T) \in [READERS -> Shuvalov!Client]
         /\ \A c \in READERS :
              /\ STold(x, T)[c].fd = x[c].fd /\ STold(x, T)[c].response = x[c].response
              /\ STold(x, T)[c].written = x[c].written
              /\ STold(x, T)[c].request = x[c].request
              /\ c \in T => STold(x, T)[c].events = "out"
              /\ c \notin T => STold(x, T)[c].events = x[c].events
BY DEF STold, Shuvalov!Client

(* Server s has added a chunk to its node k, and goes on or is closed. *)
LEMMA SFillInv ==
  ASSUME NEW x, NEW y, NEW z, SInv(x, y, z), NEW s \in SERVERS, NEW k \in NODES,
         y[s].fd, y[s].phase = "receive", y[s].response = k, z[k].buf_len < CHUNKS,
         NEW w \in {"unknown", "ok"},
         NEW Y \in [SERVERS -> Shuvalov!Server],
         Y[s].fd => Y[s] = y[s] /\ z[k].buf_len + 1 # CHUNKS,
         \A r \in SERVERS : r # s => Y[r] = y[r]
  PROVE  SInv(STold(x, SReaders(x, k)), Y, SPutNode(z, k, SFilled(z[k], y[s].asked, w)))
<1> DEFINE X == STold(x, SReaders(x, k))
           n == SFilled(z[k], y[s].asked, w)
           Z == SPutNode(z, k, n)
<1>1. /\ X \in [READERS -> Shuvalov!Client]
      /\ \A c \in READERS :
           /\ X[c].fd = x[c].fd /\ X[c].response = x[c].response
           /\ X[c].written = x[c].written
           /\ X[c].request = x[c].request
           /\ c \in SReaders(x, k) => X[c].events = "out"
           /\ c \notin SReaders(x, k) => X[c].events = x[c].events
  BY SToldEffect, SFields
<1>2. SFills(x, z, k, y[s])
  BY DEF SInv, SServersOK
<1>3. y[s].asked = z[k].url /\ ~z[k].empty /\ z[k].url \in URLS
  BY <1>2 DEF SFills, SInv, SNodesOK
<1>4. /\ n \in Shuvalov!Node /\ n.empty = z[k].empty /\ n.url = z[k].url
      /\ n.status = w /\ n.buf_len = z[k].buf_len + 1 /\ n.from = z[k].from \cup {z[k].url}
      /\ n.count = z[k].count /\ n.subscribers = z[k].subscribers
  <2>1. PICK v \in Shuvalov!Node : v = z[k]
    BY SFields
  <2>2. PICK a \in URLS : a = y[s].asked
    BY <1>3
  <2>3. /\ SFilled(v, a, w) \in Shuvalov!Node
        /\ SFilled(v, a, w).empty = v.empty /\ SFilled(v, a, w).url = v.url
        /\ SFilled(v, a, w).status = w
        /\ SFilled(v, a, w).buf_len = v.buf_len + 1
        /\ SFilled(v, a, w).from = v.from \cup {a}
        /\ SFilled(v, a, w).count = v.count
        /\ SFilled(v, a, w).subscribers = v.subscribers
    BY <2>1, SFilledNode
  <2> HIDE DEF n
  <2>4. n = SFilled(v, a, w)
    BY <2>1, <2>2 DEF n
  <2> QED  BY <2>1, <2>2, <2>3, <2>4, <1>3
<1> HIDE DEF n
<1>5. /\ Z \in [NODES -> Shuvalov!Node] /\ Z[k] = n
      /\ \A l \in NODES : l # k => Z[l] = z[l]
  BY <1>4, SPutNodeEffect, SFields
<1> HIDE DEF X, Z
<1>6. \A l : SReaders(X, l) = SReaders(x, l)
  BY <1>1 DEF SReaders
<1>7. \A l \in NODES :
        /\ Z[l].empty = z[l].empty /\ Z[l].url = z[l].url
        /\ Z[l].count = z[l].count /\ Z[l].subscribers = z[l].subscribers
  BY <1>4, <1>5
<1>8. STypes(X, Y, Z)
  BY <1>1, <1>5 DEF STypes
<1>9. SClientsOK(X, Z)
  <2>1. ASSUME NEW d \in READERS
        PROVE  SClientOK(X[d], Z)
    <3>1. SClientOK(x[d], z) /\ x[d].written \in Int /\ z[k].buf_len \in Int
      BY SFields DEF SInv, SClientsOK
    <3>2. CASE d \in SReaders(x, k)
      <4>1. /\ x[d].response = k /\ k # Shuvalov!NONE
        BY <3>2, SNone DEF SReaders
      <4>2. /\ X[d].response = k /\ X[d].events = "out" /\ X[d].fd = x[d].fd
            /\ X[d].request = x[d].request /\ X[d].written = x[d].written
        BY <1>1, <3>2, <4>1
      <4>3. /\ x[d].fd /\ x[d].request = z[k].url /\ x[d].written <= z[k].buf_len
        BY <3>1, <4>1 DEF SClientOK
      <4>4. x[d].written <= z[k].buf_len + 1
        BY <3>1, <4>3
      <4>5. Z[k].buf_len = z[k].buf_len + 1
        BY <1>4, <1>5
      <4> QED  BY <1>3, <1>7, <4>1, <4>2, <4>3, <4>4, <4>5 DEF SClientOK
    <3>3. CASE d \notin SReaders(x, k)
      <4>1. x[d].response # k
        BY <3>3 DEF SReaders
      <4>2. x[d].response = Shuvalov!NONE \/ Z[x[d].response] = z[x[d].response]
        BY <1>5, <4>1, SFields
      <4>3. /\ X[d].response = x[d].response /\ X[d].events = x[d].events /\ X[d].fd = x[d].fd
            /\ X[d].request = x[d].request /\ X[d].written = x[d].written
        BY <1>1, <3>3
      <4> QED  BY <3>1, <4>2, <4>3 DEF SClientOK
    <3> QED  BY <3>2, <3>3
  <2> QED  BY <2>1 DEF SClientsOK
<1>10. SCounted(X, Z)
  BY <1>6, <1>7 DEF SInv, SCounted
<1>11. SNodesOK(Z)
  <2>1. ASSUME NEW l \in NODES
        PROVE  /\ IF Z[l].empty
                  THEN \A i \in Shuvalov!Slots : Z[l].subscribers[i] = Shuvalov!NONE
                  ELSE Z[l].url \in URLS
               /\ Z[l].status # "bad" /\ Z[l].from \subseteq {Z[l].url}
    <3>1. CASE l = k
      BY <3>1, <1>3, <1>4, <1>5 DEF SInv, SNodesOK
    <3>2. CASE l # k
      BY <3>2, <1>5 DEF SInv, SNodesOK
    <3> QED  BY <3>1, <3>2
  <2>2. \A l, m \in NODES : ~Z[l].empty /\ ~Z[m].empty /\ Z[l].url = Z[m].url => l = m
    BY <1>7 DEF SInv, SNodesOK
  <2> QED  BY <2>1, <2>2 DEF SNodesOK
<1>12. SServersOK(X, Y, Z)
  <2>1. ASSUME NEW r \in SERVERS, Y[r].fd
        PROVE  y[r].fd /\ Y[r] = y[r] /\ SFills(X, Z, Y[r].response, Y[r])
    <3>1. CASE r = s
      <4>1. Y[s] = y[s] /\ Z[k].buf_len # CHUNKS
        BY <2>1, <3>1, <1>4, <1>5
      <4>2. SFills(X, Z, k, y[s])
        BY <1>2, <1>6, <1>7, <4>1 DEF SFills
      <4> QED  BY <3>1, <4>1, <4>2
    <3>2. CASE r # s
      <4>1. Y[r] = y[r] /\ y[r].fd
        BY <2>1, <3>2
      <4>2. PICK l : l = y[r].response
        OBVIOUS
      <4>3. l # k
        BY <3>2, <4>1, <4>2 DEF SInv, SServersOK
      <4>4. SFills(x, z, l, y[r])
        BY <4>1, <4>2 DEF SInv, SServersOK
      <4>5. SReaders(X, l) = SReaders(x, l) /\ Z[l] = z[l]
        BY <1>5, <1>6, <4>3, <4>4 DEF SFills
      <4>6. SFills(X, Z, l, y[r])
        BY <4>4, <4>5, SFillsFrame
      <4> QED  BY <4>1, <4>2, <4>6
    <3> QED  BY <3>1, <3>2
  <2>2. \A r, q \in SERVERS : y[r].fd /\ y[q].fd /\ y[r].response = y[q].response => r = q
    BY DEF SInv, SServersOK
  <2> QED  BY <2>1, <2>2 DEF SServersOK
<1> QED  BY <1>8, <1>9, <1>10, <1>11, <1>12 DEF SInv, X, Z, n

(* receive_from_server: the tables with the chunk. *)
SChunked(t, k, a, w, X) ==
  [t EXCEPT !.cache[k].buf_len = @ + 1,
            !.cache[k].from = @ \cup {a},
            !.cache[k].status = IF @ = "unknown" THEN w ELSE @,
            !.clients = X]

LEMMA SChunk ==
  ASSUME NEW x \in [READERS -> Shuvalov!Client], NEW y, NEW z \in [NODES -> Shuvalov!Node],
         NEW k \in NODES, NEW a, NEW w, NEW T
  PROVE  SChunked(STb(x, y, z), k, a, w, STold(x, T))
         = STb(STold(x, T), y,
               SPutNode(z, k, SFilled(z[k], a, IF z[k].status = "unknown" THEN w ELSE z[k].status)))
<1> DEFINE p(q) == q + 1
           f(q) == q \cup {a}
           h(q) == IF q = "unknown" THEN w ELSE q
<1>1. PICK m : m = p(z[k].buf_len)
  OBVIOUS
<1>2. PICK g : g = f(z[k].from)
  OBVIOUS
<1>3. PICK b : b = h(z[k].status)
  OBVIOUS
<1>4. PICK X : X = STold(x, T)
  OBVIOUS
<1> DEFINE N == [z[k] EXCEPT !.buf_len = m, !.from = g, !.status = b]
<1>5. SFilled(z[k], a, b) = N
  BY <1>1, <1>2, Zenon DEF SFilled
<1> HIDE DEF p, f, h, N
<1>6. [STb(x, y, z) EXCEPT !.cache[k].buf_len = p(@), !.cache[k].from = f(@),
                           !.cache[k].status = h(@), !.clients = X]
        = [STb(x, y, z) EXCEPT !.cache[k].buf_len = m, !.cache[k].from = g,
                               !.cache[k].status = b, !.clients = X]
  BY <1>1, <1>2, <1>3 DEF STb
<1>7. [STb(x, y, z) EXCEPT !.cache[k].buf_len = m] = STb(x, y, [z EXCEPT ![k].buf_len = m])
  BY DEF STb
<1> DEFINE z1 == [z EXCEPT ![k].buf_len = m]
           z2 == [z1 EXCEPT ![k].from = g]
           z3 == [z2 EXCEPT ![k].status = b]
<1>8. z3 = SPutNode(z, k, N)
  BY DEF SPutNode, N
<1> HIDE DEF z1
<1>9. [STb(x, y, z1) EXCEPT !.cache[k].from = g] = STb(x, y, z2)
  BY DEF STb
<1> HIDE DEF z2
<1>10. [STb(x, y, z2) EXCEPT !.cache[k].status = b] = STb(x, y, z3)
  BY DEF STb
<1> HIDE DEF z3
<1>11. [STb(x, y, z3) EXCEPT !.clients = X] = STb(X, y, z3)
  BY DEF STb
<1>12. [STb(x, y, z) EXCEPT !.cache[k].buf_len = m, !.cache[k].from = g,
                            !.cache[k].status = b, !.clients = X]
         = [[[[STb(x, y, z) EXCEPT !.cache[k].buf_len = m] EXCEPT !.cache[k].from = g]
               EXCEPT !.cache[k].status = b] EXCEPT !.clients = X]
  OBVIOUS
<1>13. [STb(x, y, z) EXCEPT !.cache[k].buf_len = m, !.cache[k].from = g,
                            !.cache[k].status = b, !.clients = X]
         = STb(X, y, SPutNode(z, k, SFilled(z[k], a, b)))
  BY <1>5, <1>7, <1>8, <1>9, <1>10, <1>11, <1>12, Zenon DEF z1
<1>14. [STb(x, y, z) EXCEPT !.cache[k].buf_len = p(@), !.cache[k].from = f(@),
                            !.cache[k].status = h(@), !.clients = X]
         = STb(X, y, SPutNode(z, k, SFilled(z[k], a, b)))
  BY <1>6, <1>13, Zenon
<1>15. SChunked(STb(x, y, z), k, a, w, X)
         = STb(X, y, SPutNode(z, k, SFilled(z[k], a, b)))
  BY <1>14, Zenon DEF p, f, h, SChunked
<1> QED  BY <1>3, <1>4, <1>15, Zenon DEF h

LEMMA SReceive ==
  ASSUME Shuvalov!IInv, NEW s \in SERVERS, Shuvalov!receive_from_server(s)
  PROVE  Shuvalov!IInv'
<1>1. SInv(clients, servers, cache)
  BY SStateInv
<1>2. PICK k : k = servers[s].response
  OBVIOUS
<1>3. servers[s].fd /\ servers[s].phase = "receive"
  BY DEF Shuvalov!receive_from_server, Shuvalov!Phase
<1>4. SFills(clients, cache, k, servers[s]) /\ k \in NODES
  BY <1>1, <1>2, <1>3 DEF SInv, SServersOK, SFills
<1> DEFINE T == {cache[servers[s].response].subscribers[i] : i \in Shuvalov!Slots}
                  \ {Shuvalov!NONE}
<1>5. T = SReaders(clients, k)
  <2>1. {cache[k].subscribers[i] : i \in Shuvalov!Slots} = SReaders(clients, k)
    BY <1>4, SListedAll DEF SFills
  <2>2. T = {cache[k].subscribers[i] : i \in Shuvalov!Slots} \ {Shuvalov!NONE}
    BY <1>2
  <2> HIDE DEF T
  <2> QED  BY <2>1, <2>2, SNone DEF SReaders
<1> HIDE DEF T
<1> DEFINE a == servers[s].asked
           t(w) == SChunked(Shuvalov!Tables, k, a, w, STold(clients, T))
<1>6. /\ cache[k].buf_len < CHUNKS /\ UNCHANGED extra
      /\ \E w \in {"ok"} \cup {} :
           Shuvalov!Becomes(IF Shuvalov!Complete(t(w).cache[k].buf_len)
                            THEN Shuvalov!close_server(t(w), s) ELSE t(w))
  BY <1>2, Zenon DEF Shuvalov!receive_from_server, T, STold,
     SChunked
<1>7. PICK w : /\ w = "ok"
               /\ Shuvalov!Becomes(IF Shuvalov!Complete(t(w).cache[k].buf_len)
                                   THEN Shuvalov!close_server(t(w), s) ELSE t(w))
  <2> HIDE DEF t
  <2> QED  BY <1>6
<1>8. PICK b : b = IF cache[k].status = "unknown" THEN w ELSE cache[k].status
  OBVIOUS
<1>9. b \in {"unknown", "ok"}
  <2>1. cache[k].status # "bad"
    BY <1>1, <1>4 DEF SInv, SNodesOK
  <2>2. cache[k].status \in {"unknown", "ok", "bad"}
    BY <1>1, <1>4, SFields DEF Shuvalov!Node
  <2> QED  BY <1>7, <1>8, <2>1, <2>2
<1> DEFINE X == STold(clients, SReaders(clients, k))
           Z == SPutNode(cache, k, SFilled(cache[k], a, b))
<1>10. clients \in [READERS -> Shuvalov!Client] /\ cache \in [NODES -> Shuvalov!Node]
       /\ servers \in [SERVERS -> Shuvalov!Server] /\ cache[k].buf_len \in Int
  BY <1>1, <1>4, SFields
<1>11. t(w) = STb(X, servers, Z)
  <2>1. SChunked(STb(clients, servers, cache), k, a, w, STold(clients, T))
          = STb(STold(clients, T), servers,
                SPutNode(cache, k, SFilled(cache[k], a,
                  IF cache[k].status = "unknown" THEN w ELSE cache[k].status)))
    BY <1>4, <1>10, SChunk
  <2> HIDE DEF a
  <2> QED  BY <1>5, <1>8, <2>1, STables, Zenon
<1>12. Z[k].buf_len = cache[k].buf_len + 1
  BY <1>4, <1>10 DEF SPutNode, SFilled, Shuvalov!Node
<1> HIDE DEF t, a
<1>13. t(w).cache[k].buf_len = cache[k].buf_len + 1
  <2> HIDE DEF Z
  <2> QED  BY <1>11, <1>12 DEF STb
<1>14. CASE cache[k].buf_len + 1 = CHUNKS
  <2> DEFINE Y == SPutServer(servers, s, Shuvalov!setup_server)
  <2>1. /\ Y \in [SERVERS -> Shuvalov!Server] /\ ~Y[s].fd
        /\ \A r \in SERVERS : r # s => Y[r] = servers[r]
    BY <1>10, SPutServerEffect, SEmpty
  <2> HIDE DEF Y
  <2>2. SInv(X, Y, Z)
    BY <1>1, <1>2, <1>3, <1>4, <1>6, <1>9, <2>1, SFillInv DEF a
  <2> HIDE DEF X, Z
  <2>3. Shuvalov!close_server(STb(X, servers, Z), s) = STb(X, Y, Z)
    BY DEF Shuvalov!close_server, STb, SPutServer, Y
  <2>4. Shuvalov!Becomes(STb(X, Y, Z))
    BY <1>7, <1>11, <1>13, <1>14, <2>3, Zenon DEF Shuvalov!Complete
  <2>5. SSound(STb(X, Y, Z))
    BY <2>2 DEF SSound
  <2> QED  BY <1>6, <2>4, <2>5, SSoundState
<1>15. CASE cache[k].buf_len + 1 # CHUNKS
  <2>1. SInv(X, servers, Z)
    BY <1>1, <1>2, <1>3, <1>4, <1>6, <1>9, <1>10, <1>15, SFillInv DEF a
  <2> HIDE DEF X, Z
  <2>2. Shuvalov!Becomes(STb(X, servers, Z))
    BY <1>7, <1>11, <1>13, <1>15, Zenon DEF Shuvalov!Complete
  <2>3. SSound(STb(X, servers, Z))
    BY <2>1 DEF SSound
  <2> QED  BY <1>6, <2>2, <2>3, SSoundState
<1> QED  BY <1>14, <1>15

(* close_server_and_subscribers: the readers of node k are set up again. *)
SBlanked(x, k) == [c \in READERS |-> IF x[c].response = k THEN Shuvalov!setup_client ELSE x[c]]

SUnread(n) == [n EXCEPT !.count = 0, !.subscribers = [i \in Shuvalov!Slots |-> Shuvalov!NONE]]

LEMMA SUnreadNode ==
  ASSUME NEW n \in Shuvalov!Node
  PROVE  /\ SUnread(n) \in Shuvalov!Node
         /\ SUnread(n).empty = n.empty /\ SUnread(n).url = n.url
         /\ SUnread(n).status = n.status /\ SUnread(n).buf_len = n.buf_len
         /\ SUnread(n).from = n.from /\ SUnread(n).count = 0
         /\ \A i \in Shuvalov!Slots : SUnread(n).subscribers[i] = Shuvalov!NONE
<1>1. PICK m \in -SUBSCRIBERS .. SUBSCRIBERS : m = 0
  BY SConstants
<1>2. PICK f \in [Shuvalov!Slots -> READERS \cup {Shuvalov!NONE}] :
        f = [i \in Shuvalov!Slots |-> Shuvalov!NONE]
  OBVIOUS
<1> DEFINE w == [n EXCEPT !.count = m, !.subscribers = f]
<1>3. SUnread(n) = w
  BY <1>1, <1>2, Zenon DEF SUnread
<1>4. /\ w \in Shuvalov!Node /\ w.empty = n.empty /\ w.url = n.url /\ w.status = n.status
      /\ w.buf_len = n.buf_len /\ w.from = n.from /\ w.count = m /\ w.subscribers = f
  BY DEF Shuvalov!Node
<1> HIDE DEF w
<1> QED  BY <1>1, <1>2, <1>3, <1>4

LEMMA SGoneInv ==
  ASSUME NEW x, NEW y, NEW z, SInv(x, y, z), NEW s \in SERVERS, NEW k \in NODES,
         y[s].fd, y[s].response = k
  PROVE  SInv(SBlanked(x, k), SPutServer(y, s, Shuvalov!setup_server),
              SPutNode(z, k, SUnread(z[k])))
<1> DEFINE X == SBlanked(x, k)
           Y == SPutServer(y, s, Shuvalov!setup_server)
           n == SUnread(z[k])
           Z == SPutNode(z, k, n)
<1>1. /\ X \in [READERS -> Shuvalov!Client]
      /\ \A c \in READERS : x[c].response = k => X[c] = Shuvalov!setup_client
      /\ \A c \in READERS : x[c].response # k => X[c] = x[c]
  BY SFields, SEmpty DEF SBlanked
<1>2. /\ Y \in [SERVERS -> Shuvalov!Server] /\ ~Y[s].fd
      /\ \A r \in SERVERS : r # s => Y[r] = y[r]
  BY SFields, SPutServerEffect, SEmpty
<1>3. /\ n \in Shuvalov!Node /\ n.empty = z[k].empty /\ n.url = z[k].url
      /\ n.status = z[k].status /\ n.buf_len = z[k].buf_len /\ n.from = z[k].from
      /\ n.count = 0
      /\ \A i \in Shuvalov!Slots : n.subscribers[i] = Shuvalov!NONE
  <2>1. PICK v \in Shuvalov!Node : v = z[k]
    BY SFields
  <2> HIDE DEF n
  <2>2. n = SUnread(v)
    BY <2>1 DEF n
  <2> QED  BY <2>1, <2>2, SUnreadNode
<1> HIDE DEF n
<1>4. /\ Z \in [NODES -> Shuvalov!Node] /\ Z[k] = n
      /\ \A l \in NODES : l # k => Z[l] = z[l]
  BY <1>3, SPutNodeEffect, SFields
<1> HIDE DEF X, Y, Z
<1>5. SReaders(X, k) = {}
  BY <1>1, SEmpty, SNone DEF SReaders
<1>6. \A l \in NODES : l # k => SReaders(X, l) = SReaders(x, l)
  BY <1>1, SEmpty, SNone DEF SReaders
<1>7. \A l \in NODES : Z[l].empty = z[l].empty /\ Z[l].url = z[l].url
  BY <1>3, <1>4
<1>8. STypes(X, Y, Z)
  BY <1>1, <1>2, <1>4 DEF STypes
<1>9. SClientsOK(X, Z)
  <2>1. ASSUME NEW d \in READERS
        PROVE  SClientOK(X[d], Z)
    <3>1. CASE x[d].response = k
      BY <3>1, <1>1, SEmpty DEF SClientOK
    <3>2. CASE x[d].response # k
      <4>1. SClientOK(x[d], z)
        BY DEF SInv, SClientsOK
      <4>2. x[d].response = Shuvalov!NONE \/ Z[x[d].response] = z[x[d].response]
        BY <1>4, <3>2, SFields
      <4> QED  BY <3>2, <1>1, <4>1, <4>2 DEF SClientOK
    <3> QED  BY <3>1, <3>2
  <2> QED  BY <2>1 DEF SClientsOK
<1>10. SCounted(X, Z)
  <2>1. Z[k].count = Cardinality(SReaders(X, k))
    BY <1>3, <1>4, <1>5, FS_EmptySet
  <2> QED  BY <1>4, <1>6, <2>1 DEF SInv, SCounted
<1>11. SNodesOK(Z)
  <2>1. ASSUME NEW l \in NODES
        PROVE  /\ IF Z[l].empty
                  THEN \A i \in Shuvalov!Slots : Z[l].subscribers[i] = Shuvalov!NONE
                  ELSE Z[l].url \in URLS
               /\ Z[l].status # "bad" /\ Z[l].from \subseteq {Z[l].url}
    <3>1. CASE l = k
      BY <3>1, <1>3, <1>4 DEF SInv, SNodesOK
    <3>2. CASE l # k
      BY <3>2, <1>4 DEF SInv, SNodesOK
    <3> QED  BY <3>1, <3>2
  <2>2. \A l, m \in NODES : ~Z[l].empty /\ ~Z[m].empty /\ Z[l].url = Z[m].url => l = m
    BY <1>7 DEF SInv, SNodesOK
  <2> QED  BY <2>1, <2>2 DEF SNodesOK
<1>12. SServersOK(X, Y, Z)
  <2>1. ASSUME NEW r \in SERVERS, Y[r].fd
        PROVE  y[r].fd /\ Y[r] = y[r] /\ SFills(X, Z, Y[r].response, Y[r])
    <3>1. r # s /\ Y[r] = y[r] /\ y[r].fd
      BY <2>1, <1>2
    <3>2. PICK l : l = y[r].response
      OBVIOUS
    <3>3. l # k
      BY <3>1, <3>2 DEF SInv, SServersOK
    <3>4. SFills(x, z, l, y[r])
      BY <3>1, <3>2 DEF SInv, SServersOK
    <3>5. SReaders(X, l) = SReaders(x, l) /\ Z[l] = z[l]
      BY <1>4, <1>6, <3>3, <3>4 DEF SFills
    <3>6. SFills(X, Z, l, y[r])
      BY <3>4, <3>5, SFillsFrame
    <3> QED  BY <3>1, <3>2, <3>6
  <2>2. \A r, q \in SERVERS : y[r].fd /\ y[q].fd /\ y[r].response = y[q].response => r = q
    BY DEF SInv, SServersOK
  <2> QED  BY <2>1, <2>2 DEF SServersOK
<1> QED  BY <1>8, <1>9, <1>10, <1>11, <1>12 DEF SInv, X, Y, Z, n

LEMMA SCloseSubscribers ==
  ASSUME NEW x, NEW y, NEW z, SInv(x, y, z), NEW k \in NODES, NEW v, SFills(x, z, k, v)
  PROVE  Shuvalov!close_subscribers(STb(x, y, z), k)
           = STb(SBlanked(x, k), y, SPutNode(z, k, SUnread(z[k])))
<1> DEFINE t == STb(x, y, z)
           gone == {c \in READERS : t.clients[c].fd
                      /\ \E i \in Shuvalov!Slots : t.cache[k].subscribers[i] = c}
           of(j) == {c \in gone : t.clients[c].response = j}
           left(j, slots) == [i \in Shuvalov!Slots |->
                                IF slots[i] \in of(j) THEN Shuvalov!NONE ELSE slots[i]]
           fewer(j, n) == n - Shuvalov!Cardinality(of(j))
           A == [c \in READERS |-> IF c \in gone THEN Shuvalov!setup_client ELSE t.clients[c]]
           B == [j \in NODES |-> [t.cache[j] EXCEPT !.count = fewer(j, @),
                                                    !.subscribers = left(j, @)]]
<1>1. Shuvalov!close_subscribers(t, k) = [clients |-> A, servers |-> t.servers, cache |-> B]
  BY Zenon DEF Shuvalov!close_subscribers
<1>2. t.clients = x /\ t.servers = y /\ t.cache = z
  BY DEF STb
<1> HIDE DEF t
<1>3. gone = SReaders(x, k)
  <2>1. \A c \in SReaders(x, k) : x[c].fd
    BY SNone DEF SReaders, SInv, SClientsOK, SClientOK
  <2>2. /\ \A i \in Shuvalov!Slots : z[k].subscribers[i] \in SReaders(x, k)
        /\ \A c \in SReaders(x, k) : \E i \in Shuvalov!Slots : z[k].subscribers[i] = c
    BY DEF SFills
  <2>3. \A c : c \in SReaders(x, k) => c \in READERS
    BY DEF SReaders
  <2>4. \A c : c \in gone <=> c \in SReaders(x, k)
    BY <1>2, <2>1, <2>2, <2>3
  <2> HIDE DEF gone
  <2> QED  BY <2>4
<1> HIDE DEF gone
<1>4. of(k) = SReaders(x, k) /\ \A j \in NODES : j # k => of(j) = {}
  BY <1>2, <1>3 DEF SReaders
<1> HIDE DEF of
<1>5. A = SBlanked(x, k)
  BY <1>2, <1>3 DEF SReaders, SBlanked
<1> HIDE DEF A
<1>6. left(k, z[k].subscribers) = [i \in Shuvalov!Slots |-> Shuvalov!NONE]
  BY <1>4 DEF SFills
<1>7. \A j \in NODES : j # k => left(j, z[j].subscribers) = z[j].subscribers
  BY <1>4, SFields
<1> HIDE DEF left
<1>8. fewer(k, z[k].count) = 0
  <2>1. z[k].count = Cardinality(SReaders(x, k)) /\ z[k].count \in Int
    BY SFields DEF SInv, SCounted
  <2>2. Shuvalov!Cardinality(of(k)) = Cardinality(SReaders(x, k))
    BY <1>4, SCardinality, Zenon
  <2> QED  BY <2>1, <2>2
<1>9. \A j \in NODES : j # k => fewer(j, z[j].count) = z[j].count
  <2>1. ASSUME NEW j \in NODES, j # k
        PROVE  fewer(j, z[j].count) = z[j].count
    <3>1. Shuvalov!Cardinality(of(j)) = Cardinality({})
      BY <1>4, <2>1, SCardinality, Zenon
    <3>2. Cardinality({}) = 0
      BY FS_EmptySet
    <3>3. z[j].count \in Int
      BY SFields
    <3> QED  BY <3>1, <3>2, <3>3
  <2> QED  BY <2>1
<1> HIDE DEF fewer
<1>10. B[k] = SUnread(z[k])
  <2>1. B[k] = [z[k] EXCEPT !.count = fewer(k, z[k].count),
                            !.subscribers = left(k, z[k].subscribers)]
    BY <1>2
  <2> HIDE DEF B
  <2> QED  BY <1>6, <1>8, <2>1, Zenon DEF SUnread
<1>11. \A j \in NODES : j # k => B[j] = z[j]
  <2>1. ASSUME NEW j \in NODES, j # k
        PROVE  B[j] = z[j]
    <3>1. B[j] = [z[j] EXCEPT !.count = fewer(j, z[j].count),
                              !.subscribers = left(j, z[j].subscribers)]
      BY <1>2
    <3> HIDE DEF B
    <3>2. [z[j] EXCEPT !.count = z[j].count, !.subscribers = z[j].subscribers] = z[j]
      BY SFields DEF Shuvalov!Node
    <3> QED  BY <1>7, <1>9, <2>1, <3>1, <3>2, Zenon
  <2> QED  BY <2>1
<1>12. B \in [NODES -> {B[j] : j \in NODES}]
  OBVIOUS
<1> HIDE DEF B
<1>13. B = SPutNode(z, k, SUnread(z[k]))
  <2>1. z \in [NODES -> Shuvalov!Node]
    BY SFields
  <2>2. PICK n : n = SUnread(z[k])
    OBVIOUS
  <2>3. B = SPutNode(z, k, n)
    BY <1>10, <1>11, <1>12, <2>1, <2>2 DEF SPutNode
  <2> QED  BY <2>2, <2>3
<1> QED  BY <1>1, <1>2, <1>5, <1>13, Zenon DEF STb, t

LEMMA SServerGone ==
  ASSUME Shuvalov!IInv, NEW s \in SERVERS, Shuvalov!server_gone(s)
  PROVE  Shuvalov!IInv'
<1>1. SInv(clients, servers, cache)
  BY SStateInv
<1>2. PICK k : k = servers[s].response
  OBVIOUS
<1>3. /\ servers[s].fd /\ UNCHANGED extra
      /\ Shuvalov!Becomes(Shuvalov!close_server_and_subscribers(Shuvalov!Tables, s))
  BY DEF Shuvalov!server_gone
<1>4. SFills(clients, cache, k, servers[s]) /\ k \in NODES
  BY <1>1, <1>2, <1>3 DEF SInv, SServersOK, SFills
<1> DEFINE X == SBlanked(clients, k)
           Y == SPutServer(servers, s, Shuvalov!setup_server)
           Z == SPutNode(cache, k, SUnread(cache[k]))
<1>5. SInv(X, Y, Z)
  BY <1>1, <1>2, <1>3, <1>4, SGoneInv
<1>6. Shuvalov!close_subscribers(STb(clients, servers, cache), k) = STb(X, servers, Z)
  BY <1>1, <1>4, SCloseSubscribers
<1> HIDE DEF X, Z
<1>7. Shuvalov!close_server(STb(X, servers, Z), s) = STb(X, Y, Z)
  BY DEF Shuvalov!close_server, STb, SPutServer
<1> HIDE DEF Y
<1>8. STb(clients, servers, cache).servers[s].response = k
  BY <1>2 DEF STb
<1>9. Shuvalov!close_server_and_subscribers(STb(clients, servers, cache), s) = STb(X, Y, Z)
  BY <1>6, <1>7, <1>8, Zenon DEF Shuvalov!close_server_and_subscribers
<1>10. Shuvalov!Becomes(STb(X, Y, Z))
  BY <1>3, <1>9, STables, Zenon
<1>11. SSound(STb(X, Y, Z))
  BY <1>5 DEF SSound
<1> QED  BY <1>3, <1>10, <1>11, SSoundState

(* receive_cached: client c takes the slot whose index is the count. *)
SJoined(r, k, u, w) == [r EXCEPT !.response = k, !.request = u, !.events = w]

LEMMA SJoinedClient ==
  ASSUME NEW r \in Shuvalov!Client, NEW k \in NODES, NEW u \in URLS, NEW w \in {"none", "out"}
  PROVE  /\ SJoined(r, k, u, w) \in Shuvalov!Client
         /\ SJoined(r, k, u, w).fd = r.fd /\ SJoined(r, k, u, w).response = k
         /\ SJoined(r, k, u, w).request = u
         /\ SJoined(r, k, u, w).written = r.written /\ SJoined(r, k, u, w).events = w
BY DEF SJoined, Shuvalov!Client

SPutSlot(f, i, c) == [f EXCEPT ![i] = c]

SGrown(n, c) ==
  [n EXCEPT !.subscribers = SPutSlot(n.subscribers, n.count, c), !.count = n.count + 1]

LEMMA SGrownNode ==
  ASSUME NEW n \in Shuvalov!Node, NEW c \in READERS, n.count \in Shuvalov!Slots
  PROVE  /\ SGrown(n, c) \in Shuvalov!Node
         /\ SGrown(n, c).empty = n.empty /\ SGrown(n, c).url = n.url
         /\ SGrown(n, c).status = n.status /\ SGrown(n, c).buf_len = n.buf_len
         /\ SGrown(n, c).from = n.from /\ SGrown(n, c).count = n.count + 1
         /\ SGrown(n, c).subscribers[n.count] = c
         /\ \A i \in Shuvalov!Slots :
              i # n.count => SGrown(n, c).subscribers[i] = n.subscribers[i]
<1>1. n.subscribers \in [Shuvalov!Slots -> READERS \cup {Shuvalov!NONE}]
  BY DEF Shuvalov!Node
<1>2. PICK f \in [Shuvalov!Slots -> READERS \cup {Shuvalov!NONE}] :
        f = SPutSlot(n.subscribers, n.count, c)
  BY <1>1 DEF SPutSlot
<1>3. f[n.count] = c /\ \A i \in Shuvalov!Slots : i # n.count => f[i] = n.subscribers[i]
  BY <1>1, <1>2 DEF SPutSlot
<1>4. PICK m \in -SUBSCRIBERS .. SUBSCRIBERS : m = n.count + 1
  BY SConstants, SSlots
<1> DEFINE w == [n EXCEPT !.subscribers = f, !.count = m]
<1>5. SGrown(n, c) = w
  BY <1>2, <1>4, Zenon DEF SGrown
<1>6. /\ w \in Shuvalov!Node /\ w.empty = n.empty /\ w.url = n.url /\ w.status = n.status
      /\ w.buf_len = n.buf_len /\ w.from = n.from /\ w.count = m /\ w.subscribers = f
  BY DEF Shuvalov!Node
<1> HIDE DEF w
<1> QED  BY <1>3, <1>4, <1>5, <1>6

LEMMA SJoinInv ==
  ASSUME NEW x, NEW y, NEW z, SInv(x, y, z), NEW c \in READERS, NEW k \in NODES, NEW u \in URLS,
         x[c].fd, x[c].response = Shuvalov!NONE, ~z[k].empty, z[k].url = u,
         z[k].count \in Shuvalov!Slots, NEW w \in {"none", "out"},
         z[k].buf_len > 0 => w = "out"
  PROVE  SInv(SPut(x, c, SJoined(x[c], k, u, w)), y, SPutNode(z, k, SGrown(z[k], c)))
<1> DEFINE r == SJoined(x[c], k, u, w)
           X == SPut(x, c, r)
           n == SGrown(z[k], c)
           Z == SPutNode(z, k, n)
<1>1. /\ r \in Shuvalov!Client /\ r.fd /\ r.response = k /\ r.request = u
      /\ r.written = 0 /\ r.events = w
  <2>1. PICK v \in Shuvalov!Client : v = x[c]
    BY SFields
  <2>2. v.written = 0 /\ v.fd
    BY <2>1 DEF SInv, SClientsOK, SClientOK
  <2> HIDE DEF r
  <2>3. r = SJoined(v, k, u, w)
    BY <2>1 DEF r
  <2> QED  BY <2>2, <2>3, SJoinedClient
<1> HIDE DEF r
<1>2. /\ X \in [READERS -> Shuvalov!Client] /\ X[c] = r
      /\ \A d \in READERS : d # c => X[d] = x[d]
  BY <1>1, SPutEffect, SFields
<1>3. /\ n \in Shuvalov!Node /\ n.empty = z[k].empty /\ n.url = z[k].url
      /\ n.status = z[k].status /\ n.buf_len = z[k].buf_len /\ n.from = z[k].from
      /\ n.count = z[k].count + 1 /\ n.subscribers[z[k].count] = c
      /\ \A i \in Shuvalov!Slots : i # z[k].count => n.subscribers[i] = z[k].subscribers[i]
  <2>1. PICK v \in Shuvalov!Node : v = z[k]
    BY SFields
  <2> HIDE DEF n
  <2>2. n = SGrown(v, c)
    BY <2>1 DEF n
  <2> QED  BY <2>1, <2>2, SGrownNode
<1> HIDE DEF n
<1>4. /\ Z \in [NODES -> Shuvalov!Node] /\ Z[k] = n
      /\ \A l \in NODES : l # k => Z[l] = z[l]
  BY <1>3, SPutNodeEffect, SFields
<1> HIDE DEF X, Z
<1>5. SReaders(X, k) = SReaders(x, k) \cup {c}
  BY <1>1, <1>2 DEF SReaders
<1>6. \A l \in NODES : l # k => SReaders(X, l) = SReaders(x, l)
  BY <1>1, <1>2, SNone DEF SReaders
<1>7. \A l \in NODES :
        /\ Z[l].empty = z[l].empty /\ Z[l].url = z[l].url /\ Z[l].status = z[l].status
        /\ Z[l].buf_len = z[l].buf_len /\ Z[l].from = z[l].from
  BY <1>3, <1>4
<1>8. STypes(X, y, Z)
  BY <1>2, <1>4 DEF SInv, STypes
<1>9. SClientsOK(X, Z)
  <2>1. SClientOK(X[c], Z)
    <3>1. z[k].buf_len \in 0 .. CHUNKS /\ k # Shuvalov!NONE
      BY SFields, SNone
    <3>2. 0 <= z[k].buf_len /\ (0 < z[k].buf_len => w = "out")
      BY <3>1, Indices
    <3> QED  BY <1>1, <1>2, <1>7, <3>1, <3>2 DEF SClientOK
  <2>2. ASSUME NEW d \in READERS, d # c
        PROVE  SClientOK(X[d], Z)
    <3>1. SClientOK(x[d], z)
      BY DEF SInv, SClientsOK
    <3>2. x[d].response = Shuvalov!NONE \/ x[d].response \in NODES
      BY SFields
    <3>3. SClientOK(x[d], Z)
      BY <3>1, <3>2, <1>7 DEF SClientOK
    <3> QED  BY <3>3, <2>2, <1>2
  <2> QED  BY <2>1, <2>2 DEF SClientsOK
<1>10. SCounted(X, Z)
  <2>1. c \notin SReaders(x, k)
    BY SNone DEF SReaders
  <2>2. Cardinality(SReaders(x, k) \cup {c}) = Cardinality(SReaders(x, k)) + 1
    BY <2>1, SFinite, FS_AddElement
  <2>3. Z[k].count = Cardinality(SReaders(X, k))
    BY <1>3, <1>4, <1>5, <2>2 DEF SInv, SCounted
  <2> QED  BY <1>4, <1>6, <2>3 DEF SInv, SCounted
<1>11. SNodesOK(Z)
  <2>1. ASSUME NEW l \in NODES
        PROVE  /\ IF Z[l].empty
                  THEN \A i \in Shuvalov!Slots : Z[l].subscribers[i] = Shuvalov!NONE
                  ELSE Z[l].url \in URLS
               /\ Z[l].status # "bad" /\ Z[l].from \subseteq {Z[l].url}
    <3>1. CASE l = k
      BY <3>1, <1>7 DEF SInv, SNodesOK
    <3>2. CASE l # k
      BY <3>2, <1>4 DEF SInv, SNodesOK
    <3> QED  BY <3>1, <3>2
  <2>2. \A l, m \in NODES : ~Z[l].empty /\ ~Z[m].empty /\ Z[l].url = Z[m].url => l = m
    BY <1>7 DEF SInv, SNodesOK
  <2> QED  BY <2>1, <2>2 DEF SNodesOK
<1>12. SServersOK(X, y, Z)
  <2>1. ASSUME NEW s \in SERVERS, y[s].fd
        PROVE  SFills(X, Z, y[s].response, y[s])
    <3>1. PICK l : l = y[s].response
      OBVIOUS
    <3>2. SFills(x, z, l, y[s]) /\ l \in NODES
      BY <2>1, <3>1 DEF SInv, SServersOK, SFills
    <3>3. CASE l # k
      <4>1. SReaders(X, l) = SReaders(x, l) /\ Z[l] = z[l]
        BY <3>2, <3>3, <1>4, <1>6
      <4>2. SFills(X, Z, l, y[s])
        BY <3>2, <4>1, SFillsFrame
      <4> QED  BY <3>1, <4>2
    <3>4. CASE l = k
      <4>1. PICK m \in Shuvalov!Slots : m = z[k].count
        OBVIOUS
      <4>2. PICK i0 \in Shuvalov!Slots : i0 = 0
        BY SSlots
      <4>3. PICK f : f = z[k].subscribers
        OBVIOUS
      <4>4. PICK g : g = Z[k].subscribers
        OBVIOUS
      <4>5. g[m] = c /\ \A i \in Shuvalov!Slots : i # m => g[i] = f[i]
        BY <1>3, <1>4, <4>1, <4>3, <4>4
      <4>6. /\ \A i \in Shuvalov!Slots : f[i] \in SReaders(x, k)
            /\ \A d \in SReaders(x, k) : \E i \in Shuvalov!Slots : f[i] = d
            /\ \A i \in Shuvalov!Slots : i >= m => f[i] = f[i0]
        BY <3>2, <3>4, <4>1, <4>2, <4>3 DEF SFills
      <4>7. m # i0
        <5>1. f[i0] \in SReaders(x, k)
          BY <4>2, <4>6
        <5>2. Cardinality(SReaders(x, k)) # 0
          BY <5>1, SFinite, FS_EmptySet
        <5> QED  BY <4>1, <4>2, <5>2 DEF SInv, SCounted
      <4>8. \A i \in Shuvalov!Slots : g[i] \in SReaders(X, k)
        BY <1>5, <4>5, <4>6
      <4>9. \A d \in SReaders(X, k) : \E i \in Shuvalov!Slots : g[i] = d
        <5>1. ASSUME NEW d \in SReaders(x, k)
              PROVE  \E i \in Shuvalov!Slots : g[i] = d
          <6>1. PICK i \in Shuvalov!Slots : f[i] = d
            BY <4>6
          <6>2. CASE i # m
            BY <4>5, <6>1, <6>2
          <6>3. CASE i = m
            <7>1. f[i0] = d
              BY <4>6, <6>1, <6>3, SSlots
            <7> QED  BY <4>5, <4>7, <7>1
          <6> QED  BY <6>2, <6>3
        <5>2. g[m] = c
          BY <4>5
        <5> QED  BY <1>5, <5>1, <5>2
      <4>10. \A i \in Shuvalov!Slots : i >= m + 1 => g[i] = g[i0]
        BY <4>1, <4>2, <4>5, <4>6, <4>7, SSlots
      <4>11. Z[k].count = m + 1
        BY <1>3, <1>4, <4>1
      <4>12. Z[k].subscribers[0] = g[i0] /\ Z[k].subscribers = g
        BY <4>2, <4>4
      <4>13. IF y[s].phase = "receive" THEN y[s].asked = Z[k].url
             ELSE y[s].request \in SReaders(X, k)
        BY <1>5, <1>7, <3>2, <3>4 DEF SFills
      <4>14. ~Z[k].empty /\ Z[k].buf_len # CHUNKS
        BY <1>7, <3>2, <3>4 DEF SFills
      <4>15. \A i \in Shuvalov!Slots : i >= Z[k].count => Z[k].subscribers[i] = Z[k].subscribers[0]
        BY <4>10, <4>11, <4>12
      <4>16. SFills(X, Z, k, y[s])
        BY <4>4, <4>8, <4>9, <4>13, <4>14, <4>15 DEF SFills
      <4> QED  BY <3>1, <3>4, <4>16
    <3> QED  BY <3>3, <3>4
  <2> QED  BY <2>1 DEF SInv, SServersOK
<1> QED  BY <1>8, <1>9, <1>10, <1>11, <1>12 DEF SInv, X, Z, n, r

(* The tables of receive_cached; m is the index of the slot. *)
SJoinedTables(t, c, k, u, w, m) ==
  [t EXCEPT !.clients[c] = [@ EXCEPT !.response = k, !.request = u, !.events = w],
            !.cache[k].subscribers[m] = c,
            !.cache[k].count = @ + 1]

LEMMA SJoins ==
  ASSUME NEW x \in [READERS -> Shuvalov!Client], NEW y, NEW z \in [NODES -> Shuvalov!Node],
         NEW c \in READERS, NEW k \in NODES, NEW u, NEW w, NEW m, m = z[k].count
  PROVE  SJoinedTables(STb(x, y, z), c, k, u, w, m)
           = STb(SPut(x, c, SJoined(x[c], k, u, w)), y, SPutNode(z, k, SGrown(z[k], c)))
<1> DEFINE e(q) == [q EXCEPT !.response = k, !.request = u, !.events = w]
           p(q) == q + 1
           N == [z[k] EXCEPT !.subscribers = SPutSlot(z[k].subscribers, m, c),
                             !.count = p(z[k].count)]
<1>1. e(x[c]) = SJoined(x[c], k, u, w) /\ N = SGrown(z[k], c)
  BY Zenon DEF SJoined, SGrown
<1> HIDE DEF e, p, N
<1>2. PICK r : r = e(x[c])
  OBVIOUS
<1>3. PICK g : g = p(z[k].count)
  OBVIOUS
<1>4. PICK f : f = SPutSlot(z[k].subscribers, m, c)
  OBVIOUS
<1> DEFINE t == STb(x, y, z)
           X == SPut(x, c, r)
           z1 == [z EXCEPT ![k].subscribers = f]
           z2 == [z1 EXCEPT ![k].count = g]
<1>5. [t EXCEPT !.clients[c] = e(@), !.cache[k].subscribers[m] = c, !.cache[k].count = p(@)]
        = [t EXCEPT !.clients[c] = r, !.cache[k].subscribers[m] = c, !.cache[k].count = g]
  BY <1>2, <1>3 DEF STb
<1>6. [t EXCEPT !.clients[c] = r, !.cache[k].subscribers[m] = c, !.cache[k].count = g]
        = [[[t EXCEPT !.clients[c] = r] EXCEPT !.cache[k].subscribers[m] = c]
             EXCEPT !.cache[k].count = g]
  OBVIOUS
<1>7. [t EXCEPT !.clients[c] = r] = STb(X, y, z)
  BY DEF STb, SPut
<1> HIDE DEF X
<1>8. [STb(X, y, z) EXCEPT !.cache[k].subscribers[m] = c] = STb(X, y, z1)
  BY <1>4 DEF STb, SPutSlot
<1>9. z2 = SPutNode(z, k, N)
  BY <1>3, <1>4 DEF SPutNode, N
<1> HIDE DEF z1
<1>10. [STb(X, y, z1) EXCEPT !.cache[k].count = g] = STb(X, y, z2)
  BY DEF STb
<1> HIDE DEF z2
<1>11. [t EXCEPT !.clients[c] = e(@), !.cache[k].subscribers[m] = c, !.cache[k].count = p(@)]
         = STb(X, y, SPutNode(z, k, N))
  BY <1>5, <1>6, <1>7, <1>8, <1>9, <1>10, Zenon
<1>12. SJoinedTables(t, c, k, u, w, m) = STb(X, y, SPutNode(z, k, N))
  BY <1>11, Zenon DEF SJoinedTables, e, p
<1> QED  BY <1>1, <1>2, <1>12, Zenon DEF X

LEMMA SUsable ==
  ASSUME NEW u, NEW k \in Shuvalov!Usable(u)
  PROVE  k \in NODES /\ ~cache[k].empty /\ cache[k].url = u
BY DEF Shuvalov!Usable, Shuvalov!get

LEMMA SReceiveCached ==
  ASSUME Shuvalov!IInv, NEW c \in READERS, NEW u \in URLS, Shuvalov!receive_cached(c, u)
  PROVE  Shuvalov!IInv'
<1> DEFINE k == Shuvalov!Min(Shuvalov!Usable(u))
           w == IF cache[k].buf_len > 0 THEN "out" ELSE "none"
           m == cache[k].count
<1>1. SInv(clients, servers, cache)
  BY SStateInv
<1>2. k \in NODES /\ ~cache[k].empty /\ cache[k].url = u
  <2>1. Shuvalov!Usable(u) \in SUBSET Nat
    BY SUsable, Indices
  <2>2. k \in Shuvalov!Usable(u)
    BY <2>1, SMin DEF Shuvalov!receive_cached
  <2> HIDE DEF k
  <2> QED  BY <2>2, SUsable
<1>3. /\ clients[c].fd /\ clients[c].events = "in" /\ m \in Shuvalov!Slots
      /\ Shuvalov!Becomes(SJoinedTables(Shuvalov!Tables, c, k, u, w, m)) /\ UNCHANGED extra
  BY Zenon DEF Shuvalov!receive_cached, Shuvalov!Asks, SJoinedTables
<1> HIDE DEF k
<1>4. clients[c].response = Shuvalov!NONE
  BY <1>1, <1>3 DEF SInv, SClientsOK, SClientOK
<1>5. w \in {"none", "out"} /\ (cache[k].buf_len > 0 => w = "out")
  OBVIOUS
<1> HIDE DEF w
<1> DEFINE X == SPut(clients, c, SJoined(clients[c], k, u, w))
           Z == SPutNode(cache, k, SGrown(cache[k], c))
<1>6. SInv(X, servers, Z)
  BY <1>1, <1>2, <1>3, <1>4, <1>5, SJoinInv
<1>7. clients \in [READERS -> Shuvalov!Client] /\ cache \in [NODES -> Shuvalov!Node]
  BY <1>1, SFields
<1>8. SJoinedTables(STb(clients, servers, cache), c, k, u, w, m) = STb(X, servers, Z)
  <2>1. PICK i : i = m
    OBVIOUS
  <2> HIDE DEF m
  <2>2. i = cache[k].count
    BY <2>1 DEF m
  <2>3. PICK l \in NODES : l = k
    BY <1>2
  <2>4. PICK v : v = w
    OBVIOUS
  <2>5. i = cache[l].count
    BY <2>2, <2>3
  <2>6. SJoinedTables(STb(clients, servers, cache), c, l, u, v, i)
          = STb(SPut(clients, c, SJoined(clients[c], l, u, v)), servers,
                SPutNode(cache, l, SGrown(cache[l], c)))
    BY <1>7, <2>5, SJoins
  <2> QED  BY <2>1, <2>3, <2>4, <2>6, Zenon
<1> HIDE DEF X, Z, m
<1>9. Shuvalov!Becomes(STb(X, servers, Z))
  BY <1>3, <1>8, STables, Zenon
<1>10. SSound(STb(X, servers, Z))
  BY <1>6 DEF SSound
<1> QED  BY <1>3, <1>9, <1>10, SSoundState

(* As many nodes as URLs: an unused URL leaves a node empty. *)
LEMMA SFreeNode ==
  ASSUME NEW z \in [NODES -> Shuvalov!Node], SNodesOK(z), NEW u \in URLS,
         \A k \in NODES : ~z[k].empty => z[k].url # u
  PROVE  \E k \in NODES : z[k].empty
<1> SUFFICES ASSUME \A k \in NODES : ~z[k].empty
             PROVE  FALSE
  OBVIOUS
<1> DEFINE g == [k \in NODES |-> z[k].url]
           V == URLS \ {u}
<1>1. g \in [NODES -> V]
  BY DEF SNodesOK
<1>2. IsFiniteSet(V) /\ Cardinality(V) = Cardinality(URLS) - 1
  BY SConstants, FS_RemoveElement
<1>3. Cardinality(NODES) \in Nat /\ Cardinality(URLS) \in Nat
  BY SConstants, FS_CardinalityType
<1>4. Cardinality(V) < Cardinality(NODES)
  BY <1>2, <1>3, SConstants
<1> HIDE DEF V
<1>5. \E k, l \in NODES : k # l /\ g[k] = g[l]
  <2> HIDE DEF g
  <2> QED  BY <1>1, <1>2, <1>4, SConstants, FS_PigeonHole
<1> QED  BY <1>5 DEF SNodesOK

(* receive_new: the node that is set for client c, and the server opened for it. *)
SFirst(n, u, c) ==
  [[Shuvalov!init_cache_node EXCEPT !.subscribers = n.subscribers] EXCEPT
     !.url = u, !.empty = FALSE, !.count = Shuvalov!init_cache_node.count + 1,
     !.subscribers = Shuvalov!replaced(n.subscribers, Shuvalov!NONE, c)]

LEMMA SFirstNode ==
  ASSUME NEW n \in Shuvalov!Node, NEW u \in URLS, NEW c \in READERS,
         \A i \in Shuvalov!Slots : n.subscribers[i] = Shuvalov!NONE
  PROVE  /\ SFirst(n, u, c) \in Shuvalov!Node
         /\ ~SFirst(n, u, c).empty /\ SFirst(n, u, c).url = u
         /\ SFirst(n, u, c).status = "unknown" /\ SFirst(n, u, c).buf_len = 0
         /\ SFirst(n, u, c).count = 1 /\ SFirst(n, u, c).from = {}
         /\ \A i \in Shuvalov!Slots : SFirst(n, u, c).subscribers[i] = c
<1>1. n.subscribers \in [Shuvalov!Slots -> READERS \cup {Shuvalov!NONE}]
  BY DEF Shuvalov!Node
<1>2. PICK f \in [Shuvalov!Slots -> READERS \cup {Shuvalov!NONE}] :
        f = Shuvalov!replaced(n.subscribers, Shuvalov!NONE, c)
  BY <1>1, SReplaced
<1>3. \A i \in Shuvalov!Slots : f[i] = c
  BY <1>2 DEF Shuvalov!replaced
<1>4. PICK m \in -SUBSCRIBERS .. SUBSCRIBERS : m = Shuvalov!init_cache_node.count + 1
  BY SConstants, SEmptyNode
<1>5. PICK no \in BOOLEAN : no = FALSE
  OBVIOUS
<1>6. PICK b \in Shuvalov!Node : b = Shuvalov!init_cache_node
  BY SEmptyNode
<1>7. PICK g : g = n.subscribers
  OBVIOUS
<1> DEFINE w == [[b EXCEPT !.subscribers = g] EXCEPT
                   !.url = u, !.empty = no, !.count = m, !.subscribers = f]
<1>8. SFirst(n, u, c) = w
  BY <1>2, <1>4, <1>5, <1>6, <1>7, Zenon DEF SFirst
<1>9. /\ w \in Shuvalov!Node /\ w.empty = no /\ w.url = u /\ w.status = b.status
      /\ w.buf_len = b.buf_len /\ w.from = b.from /\ w.count = m /\ w.subscribers = f
  BY DEF Shuvalov!Node
<1>10. m = 1 /\ b.status = "unknown" /\ b.buf_len = 0 /\ b.from = {}
  BY <1>4, <1>6, SEmptyNode
<1> HIDE DEF w
<1> QED  BY <1>3, <1>5, <1>8, <1>9, <1>10

SOpened(k, c) ==
  [Shuvalov!setup_server EXCEPT !.fd = TRUE, !.response = k, !.request = c]

LEMMA SOpenedServer ==
  ASSUME NEW k \in NODES, NEW c \in READERS
  PROVE  /\ SOpened(k, c) \in Shuvalov!Server /\ SOpened(k, c).fd
         /\ SOpened(k, c).response = k /\ SOpened(k, c).request = c
         /\ SOpened(k, c).phase = "connect"
BY DEF SOpened, Shuvalov!setup_server, Shuvalov!Server

(* The client's record, after subscribe. *)
SAsked(r, k, u) ==
  [[r EXCEPT !.cache_node = k, !.response = k] EXCEPT !.request = u, !.events = "none"]

LEMMA SAskedClient ==
  ASSUME NEW r \in Shuvalov!Client, NEW k \in NODES, NEW u \in URLS
  PROVE  /\ SAsked(r, k, u) \in Shuvalov!Client
         /\ SAsked(r, k, u).fd = r.fd /\ SAsked(r, k, u).response = k
         /\ SAsked(r, k, u).request = u
         /\ SAsked(r, k, u).written = r.written /\ SAsked(r, k, u).events = "none"
BY DEF SAsked, Shuvalov!Client

LEMMA SNewInv ==
  ASSUME NEW x, NEW y, NEW z, SInv(x, y, z), NEW c \in READERS, NEW s \in SERVERS,
         NEW k \in NODES, NEW u \in URLS,
         x[c].fd, x[c].response = Shuvalov!NONE, ~y[s].fd, z[k].empty,
         \A l \in NODES : ~z[l].empty => z[l].url # u
  PROVE  SInv(SPut(x, c, SAsked(x[c], k, u)), SPutServer(y, s, SOpened(k, c)),
              SPutNode(z, k, SFirst(z[k], u, c)))
<1> DEFINE r == SAsked(x[c], k, u)
           X == SPut(x, c, r)
           v == SOpened(k, c)
           Y == SPutServer(y, s, v)
           n == SFirst(z[k], u, c)
           Z == SPutNode(z, k, n)
<1>1. /\ r \in Shuvalov!Client /\ r.fd /\ r.response = k /\ r.request = u
      /\ r.written = 0 /\ r.events = "none"
  <2>1. PICK q \in Shuvalov!Client : q = x[c]
    BY SFields
  <2>2. q.written = 0 /\ q.fd
    BY <2>1 DEF SInv, SClientsOK, SClientOK
  <2> HIDE DEF r
  <2>3. r = SAsked(q, k, u)
    BY <2>1 DEF r
  <2> QED  BY <2>2, <2>3, SAskedClient
<1> HIDE DEF r
<1>2. /\ X \in [READERS -> Shuvalov!Client] /\ X[c] = r
      /\ \A d \in READERS : d # c => X[d] = x[d]
  BY <1>1, SPutEffect, SFields
<1>3. /\ v \in Shuvalov!Server /\ v.fd /\ v.response = k /\ v.request = c
      /\ v.phase = "connect"
  BY SOpenedServer
<1> HIDE DEF v
<1>4. /\ Y \in [SERVERS -> Shuvalov!Server] /\ Y[s] = v
      /\ \A q \in SERVERS : q # s => Y[q] = y[q]
  BY <1>3, SPutServerEffect, SFields
<1>5. /\ n \in Shuvalov!Node /\ ~n.empty /\ n.url = u /\ n.status = "unknown"
      /\ n.buf_len = 0 /\ n.count = 1 /\ n.from = {}
      /\ \A i \in Shuvalov!Slots : n.subscribers[i] = c
  <2>1. PICK q \in Shuvalov!Node : q = z[k]
    BY SFields
  <2>2. \A i \in Shuvalov!Slots : q.subscribers[i] = Shuvalov!NONE
    BY <2>1 DEF SInv, SNodesOK
  <2> HIDE DEF n
  <2>3. n = SFirst(q, u, c)
    BY <2>1 DEF n
  <2> QED  BY <2>2, <2>3, SFirstNode
<1> HIDE DEF n
<1>6. /\ Z \in [NODES -> Shuvalov!Node] /\ Z[k] = n
      /\ \A l \in NODES : l # k => Z[l] = z[l]
  BY <1>5, SPutNodeEffect, SFields
<1> HIDE DEF X, Y, Z
<1>7. \A d \in READERS : x[d].response # k
  BY SNone DEF SInv, SClientsOK, SClientOK
<1>8. SReaders(X, k) = {c}
  BY <1>1, <1>2, <1>7 DEF SReaders
<1>9. \A l \in NODES : l # k => SReaders(X, l) = SReaders(x, l)
  BY <1>1, <1>2, SNone DEF SReaders
<1>10. STypes(X, Y, Z)
  BY <1>2, <1>4, <1>6 DEF STypes
<1>11. SClientsOK(X, Z)
  <2>1. SClientOK(X[c], Z)
    BY <1>1, <1>2, <1>5, <1>6, SNone DEF SClientOK
  <2>2. ASSUME NEW d \in READERS, d # c
        PROVE  SClientOK(X[d], Z)
    <3>1. SClientOK(x[d], z)
      BY DEF SInv, SClientsOK
    <3>2. x[d].response = Shuvalov!NONE \/ Z[x[d].response] = z[x[d].response]
      BY <1>6, <1>7, SFields
    <3> QED  BY <3>1, <3>2, <2>2, <1>2 DEF SClientOK
  <2> QED  BY <2>1, <2>2 DEF SClientsOK
<1>12. SCounted(X, Z)
  <2>1. Z[k].count = Cardinality(SReaders(X, k))
    <3>1. Cardinality({c}) = 1
      BY FS_Singleton, Zenon
    <3> QED  BY <1>5, <1>6, <1>8, <3>1
  <2> QED  BY <1>6, <1>9, <2>1 DEF SInv, SCounted
<1>13. SNodesOK(Z)
  <2>1. ASSUME NEW l \in NODES
        PROVE  /\ IF Z[l].empty
                  THEN \A i \in Shuvalov!Slots : Z[l].subscribers[i] = Shuvalov!NONE
                  ELSE Z[l].url \in URLS
               /\ Z[l].status # "bad" /\ Z[l].from \subseteq {Z[l].url}
    <3>1. CASE l = k
      BY <3>1, <1>5, <1>6
    <3>2. CASE l # k
      BY <3>2, <1>6 DEF SInv, SNodesOK
    <3> QED  BY <3>1, <3>2
  <2>2. \A l, m \in NODES : ~Z[l].empty /\ ~Z[m].empty /\ Z[l].url = Z[m].url => l = m
    BY <1>5, <1>6 DEF SInv, SNodesOK
  <2> QED  BY <2>1, <2>2 DEF SNodesOK
<1>14. \A q \in SERVERS : q # s /\ Y[q].fd =>
         y[q].fd /\ Y[q] = y[q] /\ y[q].response # k /\ y[q].response \in NODES
  BY <1>4 DEF SInv, SServersOK, SFills
<1>15. SServersOK(X, Y, Z)
  <2>1. ASSUME NEW q \in SERVERS, Y[q].fd
        PROVE  SFills(X, Z, Y[q].response, Y[q])
    <3>1. CASE q = s
      <4>1. SFills(X, Z, k, v)
        <5>1. PICK i0 \in Shuvalov!Slots : i0 = 0
          BY SSlots
        <5>2. Z[k].subscribers[0] = c
          BY <1>5, <1>6, <5>1
        <5>3. Z[k].buf_len # CHUNKS /\ ~Z[k].empty
          BY <1>5, <1>6, SConstants
        <5>4. v.request \in SReaders(X, k) /\ v.phase # "receive"
          BY <1>3, <1>8
        <5>5. \A i \in Shuvalov!Slots : Z[k].subscribers[i] = c
          BY <1>5, <1>6
        <5>6. \A d \in SReaders(X, k) : \E i \in Shuvalov!Slots : Z[k].subscribers[i] = d
          BY <1>8, <5>1, <5>5
        <5> QED  BY <1>8, <5>2, <5>3, <5>4, <5>5, <5>6 DEF SFills
      <4> QED  BY <3>1, <4>1, <1>3, <1>4
    <3>2. CASE q # s
      <4>1. PICK l : l = y[q].response
        OBVIOUS
      <4>2. Y[q] = y[q] /\ y[q].fd /\ l # k /\ l \in NODES
        BY <1>14, <2>1, <3>2, <4>1
      <4>3. SFills(x, z, l, y[q])
        BY <4>1, <4>2 DEF SInv, SServersOK
      <4>4. SReaders(X, l) = SReaders(x, l) /\ Z[l] = z[l]
        BY <1>6, <1>9, <4>2
      <4>5. SFills(X, Z, l, y[q])
        BY <4>3, <4>4, SFillsFrame
      <4> QED  BY <4>1, <4>2, <4>5
    <3> QED  BY <3>1, <3>2
  <2>2. ASSUME NEW q \in SERVERS, NEW p \in SERVERS, Y[q].fd, Y[p].fd,
               Y[q].response = Y[p].response
        PROVE  q = p
    <3>1. CASE q = s \/ p = s
      BY <2>2, <3>1, <1>3, <1>4, <1>14
    <3>2. CASE q # s /\ p # s
      BY <2>2, <3>2, <1>14 DEF SInv, SServersOK
    <3> QED  BY <3>1, <3>2
  <2> QED  BY <2>1, <2>2 DEF SServersOK
<1> QED  BY <1>10, <1>11, <1>12, <1>13, <1>15 DEF SInv, X, Y, Z, n, v, r

(* set_cache_node and subscribe. *)
SCleared(n) == [Shuvalov!init_cache_node EXCEPT !.subscribers = n.subscribers]

SNamed(n, u) == [n EXCEPT !.url = u, !.empty = FALSE]

LEMMA SSets ==
  ASSUME NEW x, NEW y, NEW z \in [NODES -> Shuvalov!Node], NEW k \in NODES, NEW u
  PROVE  Shuvalov!set_cache_node(STb(x, y, z), k, u)
           = STb(x, y, SPutNode(z, k, SNamed(SCleared(z[k]), u)))
<1> DEFINE t == STb(x, y, z)
<1>1. PICK n : n = SCleared(z[k])
  OBVIOUS
<1>2. Shuvalov!clear_cache_node(t, k) = STb(x, y, SPutNode(z, k, n))
  <2>1. t.cache = z
    BY DEF STb
  <2> HIDE DEF t
  <2>2. Shuvalov!clear_cache_node(t, k) = [t EXCEPT !.cache[k] = n]
    BY <1>1, <2>1, Zenon DEF Shuvalov!clear_cache_node, SCleared
  <2>3. [t EXCEPT !.cache[k] = n] = STb(x, y, SPutNode(z, k, n))
    BY DEF t, STb, SPutNode
  <2> QED  BY <2>2, <2>3
<1> HIDE DEF t
<1>3. PICK no : no = FALSE
  OBVIOUS
<1>4. Shuvalov!set_cache_node(t, k, u)
        = [STb(x, y, SPutNode(z, k, n)) EXCEPT !.cache[k].url = u, !.cache[k].empty = no]
  BY <1>2, <1>3, Zenon DEF Shuvalov!set_cache_node
<1>5. [STb(x, y, SPutNode(z, k, n)) EXCEPT !.cache[k].url = u, !.cache[k].empty = no]
        = STb(x, y, [SPutNode(z, k, n) EXCEPT ![k].url = u, ![k].empty = no])
  <2>1. PICK z1 : z1 = SPutNode(z, k, n)
    OBVIOUS
  <2>2. [STb(x, y, z1) EXCEPT !.cache[k].url = u] = STb(x, y, [z1 EXCEPT ![k].url = u])
    BY DEF STb
  <2>3. PICK z2 : z2 = [z1 EXCEPT ![k].url = u]
    OBVIOUS
  <2>4. [STb(x, y, z2) EXCEPT !.cache[k].empty = no] = STb(x, y, [z2 EXCEPT ![k].empty = no])
    BY DEF STb
  <2>5. [STb(x, y, z1) EXCEPT !.cache[k].url = u, !.cache[k].empty = no]
          = [[STb(x, y, z1) EXCEPT !.cache[k].url = u] EXCEPT !.cache[k].empty = no]
    OBVIOUS
  <2>6. [z1 EXCEPT ![k].url = u, ![k].empty = no] = [[z1 EXCEPT ![k].url = u] EXCEPT ![k].empty = no]
    OBVIOUS
  <2> QED  BY <2>1, <2>2, <2>3, <2>4, <2>5, <2>6, Zenon
<1>6. [SPutNode(z, k, n) EXCEPT ![k].url = u, ![k].empty = no]
        = SPutNode(z, k, [n EXCEPT !.url = u, !.empty = no])
  BY DEF SPutNode
<1>7. [n EXCEPT !.url = u, !.empty = no] = SNamed(n, u)
  BY <1>3, Zenon DEF SNamed
<1> QED  BY <1>1, <1>4, <1>5, <1>6, <1>7, Zenon DEF t

SSubscribed(n, c) ==
  [n EXCEPT !.count = n.count + 1,
            !.subscribers = Shuvalov!replaced(n.subscribers, Shuvalov!NONE, c)]

SOwns(r, k) == [r EXCEPT !.cache_node = k, !.response = k]

LEMMA SSubscribes ==
  ASSUME NEW x \in [READERS -> Shuvalov!Client], NEW y, NEW z \in [NODES -> Shuvalov!Node],
         NEW c \in READERS, NEW k \in NODES, NEW n
  PROVE  Shuvalov!subscribe(STb(x, y, SPutNode(z, k, n)), c, k)
           = STb(SPut(x, c, SOwns(x[c], k)), y,
                 SPutNode(z, k, SSubscribed(n, c)))
<1> DEFINE e(q) == [q EXCEPT !.cache_node = k, !.response = k]
           p(q) == q + 1
           f(q) == Shuvalov!replaced(q, Shuvalov!NONE, c)
           t == STb(x, y, SPutNode(z, k, n))
           N == [n EXCEPT !.count = p(n.count), !.subscribers = f(n.subscribers)]
<1>1. N = SSubscribed(n, c) /\ e(x[c]) = SOwns(x[c], k)
  BY Zenon DEF SSubscribed, SOwns
<1>2. Shuvalov!subscribe(t, c, k)
        = [t EXCEPT !.clients[c] = e(@), !.cache[k].count = p(@), !.cache[k].subscribers = f(@)]
  BY Zenon DEF Shuvalov!subscribe
<1> HIDE DEF e, p, f, N
<1>3. PICK r : r = e(x[c])
  OBVIOUS
<1>4. PICK m : m = p(n.count)
  OBVIOUS
<1>5. PICK g : g = f(n.subscribers)
  OBVIOUS
<1>6. t.clients[c] = x[c] /\ t.cache[k] = n
  BY DEF STb, SPutNode
<1>7. [t EXCEPT !.clients[c] = e(@), !.cache[k].count = p(@), !.cache[k].subscribers = f(@)]
        = [t EXCEPT !.clients[c] = r, !.cache[k].count = m, !.cache[k].subscribers = g]
  <2> HIDE DEF t
  <2> QED  BY <1>3, <1>4, <1>5, <1>6, Zenon
<1>8. [t EXCEPT !.clients[c] = r, !.cache[k].count = m, !.cache[k].subscribers = g]
        = STb(SPut(x, c, r), y, [SPutNode(z, k, n) EXCEPT ![k].count = m, ![k].subscribers = g])
  <2>1. PICK z1 : z1 = SPutNode(z, k, n)
    OBVIOUS
  <2>2. PICK X : X = SPut(x, c, r)
    OBVIOUS
  <2>3. [STb(x, y, z1) EXCEPT !.clients[c] = r] = STb(X, y, z1)
    BY <2>2 DEF STb, SPut
  <2>4. [STb(X, y, z1) EXCEPT !.cache[k].count = m] = STb(X, y, [z1 EXCEPT ![k].count = m])
    BY DEF STb
  <2>5. PICK z2 : z2 = [z1 EXCEPT ![k].count = m]
    OBVIOUS
  <2>6. [STb(X, y, z2) EXCEPT !.cache[k].subscribers = g]
          = STb(X, y, [z2 EXCEPT ![k].subscribers = g])
    BY DEF STb
  <2>7. [STb(x, y, z1) EXCEPT !.clients[c] = r, !.cache[k].count = m, !.cache[k].subscribers = g]
          = [[[STb(x, y, z1) EXCEPT !.clients[c] = r] EXCEPT !.cache[k].count = m]
               EXCEPT !.cache[k].subscribers = g]
    OBVIOUS
  <2>8. [z1 EXCEPT ![k].count = m, ![k].subscribers = g]
          = [[z1 EXCEPT ![k].count = m] EXCEPT ![k].subscribers = g]
    OBVIOUS
  <2> QED  BY <2>1, <2>2, <2>3, <2>4, <2>5, <2>6, <2>7, <2>8, Zenon
<1>9. [SPutNode(z, k, n) EXCEPT ![k].count = m, ![k].subscribers = g]
        = SPutNode(z, k, [n EXCEPT !.count = m, !.subscribers = g])
  BY DEF SPutNode
<1>10. [n EXCEPT !.count = m, !.subscribers = g] = N
  BY <1>4, <1>5, Zenon DEF N
<1> QED  BY <1>1, <1>2, <1>3, <1>7, <1>8, <1>9, <1>10, Zenon

LEMMA SFirstIs ==
  ASSUME NEW n, NEW u, NEW c
  PROVE  SSubscribed(SNamed(SCleared(n), u), c) = SFirst(n, u, c)
<1>1. PICK no : no = FALSE
  OBVIOUS
<1>2. PICK b \in Shuvalov!Node : b = Shuvalov!init_cache_node
  BY SEmptyNode
<1>3. PICK f : f = n.subscribers
  OBVIOUS
<1> DEFINE w1 == [b EXCEPT !.subscribers = f]
           w2 == [w1 EXCEPT !.url = u, !.empty = no]
           g == Shuvalov!replaced(f, Shuvalov!NONE, c)
<1>4. w2 = SNamed(SCleared(n), u)
  BY <1>1, <1>2, <1>3, Zenon DEF SNamed, SCleared
<1>5. w2.count = b.count /\ w2.subscribers = f
  BY DEF Shuvalov!Node
<1>6. PICK m : m = b.count + 1
  OBVIOUS
<1>7. PICK h : h = g
  OBVIOUS
<1>8. [w1 EXCEPT !.url = u, !.empty = no, !.count = m, !.subscribers = h]
        = [w2 EXCEPT !.count = m, !.subscribers = h]
  OBVIOUS
<1>9. SFirst(n, u, c) = [w1 EXCEPT !.url = u, !.empty = no, !.count = m, !.subscribers = h]
  BY <1>1, <1>2, <1>3, <1>6, <1>7, Zenon DEF SFirst
<1> HIDE DEF w1, w2
<1>10. SSubscribed(w2, c) = [w2 EXCEPT !.count = m, !.subscribers = h]
  BY <1>5, <1>6, <1>7, Zenon DEF SSubscribed
<1> QED  BY <1>4, <1>8, <1>9, <1>10, Zenon

(* The tables of receive_new. *)
SNewTables(t, c, s, k, u) ==
  [Shuvalov!subscribe(Shuvalov!set_cache_node(t, k, u), c, k) EXCEPT
     !.clients[c] = [@ EXCEPT !.request = u, !.events = "none"],
     !.servers[s] = SOpened(k, c)]

LEMMA SOpens ==
  ASSUME NEW x \in [READERS -> Shuvalov!Client], NEW y, NEW z \in [NODES -> Shuvalov!Node],
         NEW c \in READERS, NEW s \in SERVERS, NEW k \in NODES, NEW u
  PROVE  SNewTables(STb(x, y, z), c, s, k, u)
           = STb(SPut(x, c, SAsked(x[c], k, u)), SPutServer(y, s, SOpened(k, c)),
                 SPutNode(z, k, SFirst(z[k], u, c)))
<1> DEFINE r == SOwns(x[c], k)
           e(q) == [q EXCEPT !.request = u, !.events = "none"]
<1>1. PICK n : n = SFirst(z[k], u, c)
  OBVIOUS
<1>2. Shuvalov!subscribe(Shuvalov!set_cache_node(STb(x, y, z), k, u), c, k)
        = STb(SPut(x, c, r), y, SPutNode(z, k, n))
  <2>1. PICK q : q = SNamed(SCleared(z[k]), u)
    OBVIOUS
  <2>2. Shuvalov!set_cache_node(STb(x, y, z), k, u) = STb(x, y, SPutNode(z, k, q))
    BY <2>1, SSets
  <2>3. Shuvalov!subscribe(STb(x, y, SPutNode(z, k, q)), c, k)
          = STb(SPut(x, c, r), y, SPutNode(z, k, SSubscribed(q, c)))
    BY SSubscribes
  <2>4. SSubscribed(q, c) = n
    BY <1>1, <2>1, SFirstIs, Zenon
  <2> QED  BY <2>2, <2>3, <2>4, Zenon
<1>3. e(r) = SAsked(x[c], k, u)
  BY Zenon DEF SAsked, SOwns
<1> HIDE DEF e, r
<1>4. PICK v : v = SOpened(k, c)
  OBVIOUS
<1>5. PICK X : X = SPut(x, c, r)
  OBVIOUS
<1>6. X[c] = r /\ SPut(X, c, e(r)) = SPut(x, c, e(r))
  BY <1>5 DEF SPut
<1> DEFINE Z == SPutNode(z, k, n)
<1> HIDE DEF Z
<1>7. PICK q : q = e(r)
  OBVIOUS
<1>8. [STb(X, y, Z) EXCEPT !.clients[c] = e(@), !.servers[s] = v]
        = [STb(X, y, Z) EXCEPT !.clients[c] = q, !.servers[s] = v]
  BY <1>6, <1>7 DEF STb
<1>9. [STb(X, y, Z) EXCEPT !.clients[c] = q, !.servers[s] = v]
        = STb(SPut(X, c, q), SPutServer(y, s, v), Z)
  <2>1. [STb(X, y, Z) EXCEPT !.clients[c] = q] = STb(SPut(X, c, q), y, Z)
    BY DEF STb, SPut
  <2>2. PICK W : W = SPut(X, c, q)
    OBVIOUS
  <2>3. [STb(W, y, Z) EXCEPT !.servers[s] = v] = STb(W, SPutServer(y, s, v), Z)
    BY DEF STb, SPutServer
  <2>4. [STb(X, y, Z) EXCEPT !.clients[c] = q, !.servers[s] = v]
          = [[STb(X, y, Z) EXCEPT !.clients[c] = q] EXCEPT !.servers[s] = v]
    OBVIOUS
  <2> QED  BY <2>1, <2>2, <2>3, <2>4, Zenon
<1>10. SNewTables(STb(x, y, z), c, s, k, u)
         = [STb(X, y, Z) EXCEPT !.clients[c] = e(@), !.servers[s] = v]
  BY <1>2, <1>4, <1>5, Zenon DEF SNewTables, e, Z
<1> QED  BY <1>1, <1>3, <1>4, <1>6, <1>7, <1>8, <1>9, <1>10, Zenon DEF Z

LEMMA SReceiveNew ==
  ASSUME Shuvalov!IInv, NEW c \in READERS, NEW u \in URLS, Shuvalov!receive_new(c, u)
  PROVE  Shuvalov!IInv'
<1> DEFINE s == Shuvalov!Min(Shuvalov!add_fd_to_servers)
           k == Shuvalov!set
           free == {l \in NODES : cache[l].empty}
<1>1. SInv(clients, servers, cache)
  BY SStateInv
<1>2. \A l \in NODES : ~cache[l].empty => cache[l].url # u
  <2>1. \A l \in NODES : l \notin Shuvalov!Usable(u)
    BY DEF Shuvalov!receive_new
  <2>2. \A l \in NODES : cache[l].status # "bad"
    BY <1>1 DEF SInv, SNodesOK
  <2> QED  BY <2>1, <2>2 DEF Shuvalov!Usable, Shuvalov!get
<1>3. k \in NODES /\ cache[k].empty
  <2>1. cache \in [NODES -> Shuvalov!Node] /\ SNodesOK(cache)
    BY <1>1, SFields DEF SInv
  <2>2. \E l \in NODES : cache[l].empty
    BY <1>2, <2>1, SFreeNode
  <2>3. free # {} /\ free \in SUBSET Nat
    BY <2>2, Indices
  <2>4. k = Shuvalov!Min(free)
    BY <2>3, Zenon DEF Shuvalov!set
  <2>5. Shuvalov!Min(free) \in free
    BY <2>3, SMin
  <2> HIDE DEF k
  <2> QED  BY <2>4, <2>5
<1>4. s \in SERVERS /\ ~servers[s].fd
  <2>1. Shuvalov!add_fd_to_servers \in SUBSET Nat
    BY Indices DEF Shuvalov!add_fd_to_servers
  <2>2. s \in Shuvalov!add_fd_to_servers
    BY <2>1, SMin DEF Shuvalov!receive_new
  <2> QED  BY <2>2 DEF Shuvalov!add_fd_to_servers
<1>5. /\ clients[c].fd /\ clients[c].events = "in"
      /\ Shuvalov!Becomes(SNewTables(Shuvalov!Tables, c, s, k, u))
      /\ extra' = IF cache[k].empty THEN extra ELSE k
  BY Zenon DEF Shuvalov!receive_new, Shuvalov!Asks, SNewTables, SOpened
<1> HIDE DEF s, k
<1>6. UNCHANGED extra
  BY <1>3, <1>5
<1>7. clients[c].response = Shuvalov!NONE
  BY <1>1, <1>5 DEF SInv, SClientsOK, SClientOK
<1>8. clients \in [READERS -> Shuvalov!Client] /\ cache \in [NODES -> Shuvalov!Node]
  BY <1>1, SFields
<1>9. PICK q \in SERVERS : q = s
  BY <1>4
<1>10. PICK l \in NODES : l = k
  BY <1>3
<1> DEFINE X == SPut(clients, c, SAsked(clients[c], l, u))
           Y == SPutServer(servers, q, SOpened(l, c))
           Z == SPutNode(cache, l, SFirst(cache[l], u, c))
<1>11. SInv(X, Y, Z)
  BY <1>1, <1>2, <1>3, <1>4, <1>5, <1>7, <1>9, <1>10, SNewInv
<1>12. SNewTables(STb(clients, servers, cache), c, q, l, u) = STb(X, Y, Z)
  BY <1>8, SOpens
<1> HIDE DEF X, Y, Z
<1>13. Shuvalov!Becomes(STb(X, Y, Z))
  BY <1>5, <1>9, <1>10, <1>12, STables, Zenon
<1>14. SSound(STb(X, Y, Z))
  BY <1>11 DEF SSound
<1> QED  BY <1>6, <1>13, <1>14, SSoundState

LEMMA SBlank ==
  SInv([c \in READERS |-> Shuvalov!setup_client],
       [s \in SERVERS |-> Shuvalov!setup_server],
       [k \in NODES |-> Shuvalov!init_cache_node])
<1> DEFINE x == [c \in READERS |-> Shuvalov!setup_client]
           y == [s \in SERVERS |-> Shuvalov!setup_server]
           z == [k \in NODES |-> Shuvalov!init_cache_node]
<1>1. STypes(x, y, z)
  BY SEmpty, SEmptyNode DEF STypes
<1>2. SClientsOK(x, z)
  BY SEmpty DEF SClientsOK, SClientOK
<1>3. SCounted(x, z)
  <2>1. \A k \in NODES : SReaders(x, k) = {}
    BY SEmpty, SNone DEF SReaders
  <2>2. Cardinality({}) = 0
    BY FS_EmptySet
  <2>3. \A k \in NODES : z[k].count = 0
    BY SEmptyNode
  <2> HIDE DEF x, z
  <2> QED  BY <2>1, <2>2, <2>3 DEF SCounted
<1>4. SNodesOK(z)
  BY SEmptyNode DEF SNodesOK
<1>5. SServersOK(x, y, z)
  BY SEmpty DEF SServersOK
<1> QED  BY <1>1, <1>2, <1>3, <1>4, <1>5 DEF SInv

LEMMA SInit ==
  ASSUME Shuvalov!Init
  PROVE  Shuvalov!IInv
BY SBlank, SInvState DEF Shuvalov!Init

LEMMA SSignal ==
  ASSUME Shuvalov!IInv, Shuvalov!process_signal
  PROVE  Shuvalov!IInv'
BY SBlank, SInvNext DEF Shuvalov!process_signal

LEMMA SNext ==
  ASSUME Shuvalov!IInv, Shuvalov!Next
  PROVE  Shuvalov!IInv'
BY SAccept, SReceiveCached, SReceiveNew, SClientGone, SSendToClient, SConnect, SSend,
   SReceive, SServerGone, SSignal
   DEF Shuvalov!Next

LEMMA SStutter ==
  ASSUME Shuvalov!IInv, UNCHANGED <<running, clients, servers, cache, extra>>
  PROVE  Shuvalov!IInv'
<1>1. /\ SInv(clients, servers, cache) /\ running \in {"yes", "stopped"}
      /\ extra \in {Shuvalov!NONE} \cup NODES
  BY SStateInv DEF Shuvalov!IInv, Shuvalov!TypeOK
<1> QED  BY <1>1, SInvNext

LEMMA SWaiting ==
  ASSUME Shuvalov!IInv
  PROVE  Shuvalov!WaitingIsListed
<1>1. SInv(clients, servers, cache)
  BY SStateInv
<1>2. ASSUME NEW c \in READERS, clients[c].fd, clients[c].response # Shuvalov!NONE
      PROVE  /\ Shuvalov!Filling(clients[c].response) =>
                  \E i \in Shuvalov!Slots : cache[clients[c].response].subscribers[i] = c
             /\ clients[c].written < cache[clients[c].response].buf_len
                  => clients[c].events = "out"
  <2>1. ASSUME Shuvalov!Filling(clients[c].response)
        PROVE  \E i \in Shuvalov!Slots : cache[clients[c].response].subscribers[i] = c
    <3>1. PICK s \in SERVERS : servers[s].fd /\ servers[s].response = clients[c].response
      BY <2>1 DEF Shuvalov!Filling
    <3>2. SFills(clients, cache, clients[c].response, servers[s])
      BY <1>1, <3>1 DEF SInv, SServersOK
    <3> QED  BY <3>2 DEF SFills, SReaders
  <2>2. clients[c].written < cache[clients[c].response].buf_len => clients[c].events = "out"
    BY <1>1, <1>2 DEF SInv, SClientsOK, SClientOK
  <2> QED  BY <2>1, <2>2
<1> QED  BY <1>2, Zenon DEF Shuvalov!WaitingIsListed

LEMMA SOwn ==
  ASSUME Shuvalov!IInv
  PROVE  Shuvalov!OwnBytes
BY Zenon DEF Shuvalov!IInv, Shuvalov!NodesOK, Shuvalov!OwnBytes

-----------------------------------------------------------------------------
(* The three programs side by side. *)
IInv ==
  /\ program \in Programs
  /\ program = "matsko" => Matsko!IInv
  /\ program = "rybalko" => Rybalko!IInv
  /\ program = "shuvalov" => Shuvalov!IInv

LEMMA InitIInv ==
  ASSUME Init
  PROVE  IInv
<1>1. program = "matsko" => Matsko!IInv
  BY MInit DEF Init
<1>2. program = "rybalko" => Rybalko!IInv
  BY RInit DEF Init
<1>3. program = "shuvalov" => Shuvalov!IInv
  BY SInit DEF Init
<1> QED  BY <1>1, <1>2, <1>3 DEF Init, IInv

LEMMA NextIInv ==
  ASSUME IInv, [Next]_vars
  PROVE  IInv'
<1>1. program' = program
  BY DEF Next, vars
<1>2. CASE program = "matsko"
  <2>1. Matsko!IInv
    BY <1>2 DEF IInv
  <2>2. Matsko!Next \/ UNCHANGED <<running, clients, servers, cache>>
    BY <1>2 DEF Next, vars
  <2>3. Matsko!IInv'
    BY <2>1, <2>2, MNext, MStutter
  <2> QED  BY <1>1, <1>2, <2>3 DEF IInv, Programs
<1>3. CASE program = "rybalko"
  <2>1. Rybalko!IInv
    BY <1>3 DEF IInv
  <2>2. Rybalko!Next \/ UNCHANGED <<running, clients, servers, cache, extra>>
    BY <1>3 DEF Next, vars
  <2>3. Rybalko!IInv'
    BY <2>1, <2>2, RNext, RStutter
  <2> QED  BY <1>1, <1>3, <2>3 DEF IInv, Programs
<1>4. CASE program = "shuvalov"
  <2>1. Shuvalov!IInv
    BY <1>4 DEF IInv
  <2>2. Shuvalov!Next \/ UNCHANGED <<running, clients, servers, cache, extra>>
    BY <1>4 DEF Next, vars
  <2>3. Shuvalov!IInv'
    BY <2>1, <2>2, SNext, SStutter
  <2> QED  BY <1>1, <1>4, <2>3 DEF IInv, Programs
<1> QED  BY <1>2, <1>3, <1>4 DEF IInv, Programs

(* Every reachable state satisfies the inductive invariant of the program  *)
(* that is running.                                                        *)
THEOREM Invariance == Spec => []IInv
<1>1. Init => IInv  BY InitIInv
<1>2. IInv /\ [Next]_vars => IInv'  BY NextIInv
<1> QED  BY <1>1, <1>2, PTL DEF Spec

(* The indices and pointers between clients, servers and cache entries mean *)
(* what they meant when they were stored, whatever the order of requests,   *)
(* chunks, failures and evictions (disconnectClient, freeCacheRecord;       *)
(* DisconnectClient, CleanCacheItem; close_server_and_subscribers), and     *)
(* Matsko and Shuvalov do not fetch a URL into two records or nodes.        *)
THEOREM IndicesNeverStale == Spec => []TablesSound
<1>1. IInv => TablesSound
  BY MFresh, RFresh DEF IInv, TablesSound
<1> QED  BY Invariance, <1>1, PTL

(* A client with chunks to send is polled for writing, and one that is not  *)
(* polled is among those the next chunk wakes (notifySubscribers,           *)
(* NotifySub, receive_from_server).  Excepted are records of Rybalko that   *)
(* hold chunks of another record's host.                                    *)
THEOREM WakeUpsReachReaders == Spec => []NoneStranded
<1>1. Matsko!IInv => Matsko!UnreadIsPolled
  BY Zenon DEF Matsko!IInv
<1>2. Rybalko!IInv => Rybalko!UnreadIsPolled
  BY Zenon DEF Rybalko!IInv
<1>3. IInv => NoneStranded
  BY <1>1, <1>2, SWaiting DEF IInv, NoneStranded
<1> QED  BY Invariance, <1>3, PTL

(* Rybalko: although a record is charged and gives back different amounts,  *)
(* and records are evicted on what is freed alone                           *)
(* (FreeMemoryForNewCacheRecord), CURRENT_CACHE_SIZE never exceeds MAX_CACHE *)
(* and the unsigned difference of the two never wraps.  DRIFT bounds how    *)
(* far below zero the account goes, not how far up.                         *)
THEOREM AccountWithinBudget == Spec => []BudgetKept
<1>1. Rybalko!IInv => Rybalko!BudgetKept
  BY Zenon DEF Rybalko!IInv, Rybalko!AccountOK, Rybalko!BudgetKept
<1>2. IInv => BudgetKept
  BY <1>1 DEF IInv, BudgetKept
<1> QED  BY Invariance, <1>2, PTL

(* Shuvalov: send_to_server sends what the client's buffer holds by then,   *)
(* and still a node is only filled with the response to its own URL.        *)
THEOREM NodesHoldOwnBytes == Spec => []OwnBytes
<1>1. IInv => OwnBytes
  BY SOwn DEF IInv, OwnBytes
<1> QED  BY Invariance, <1>1, PTL
=============================================================================
