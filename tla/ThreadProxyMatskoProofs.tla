----------------------- MODULE ThreadProxyMatskoProofs -----------------------
(***************************************************************************)
(* Safety of ThreadProxyMatsko for any number of clients, URLs and records *)
(* and responses of any length, whatever fails.                            *)
(***************************************************************************)
EXTENDS ThreadProxyMatsko, FiniteSetTheorems, TLAPS

MainStep == sigCatch \/ cleanUpNotify \/ cleanUp

\* The steps of a client's thread that leave every record as it is.
ClientMove(c) ==
  \/ acceptNewClient(c) \/ disconnectClient(c) \/ \E u \in URLS : readRequest(c, u)
  \/ clientThread(c) \/ clientStops(c) \/ clientExits(c)
  \/ lockList(c) \/ visitOther(c) \/ checkResponse(c) \/ compareIndex(c)

\* Those that change one.
RecordMove(c) ==
  \/ visitInvalid(c) \/ visitFound(c) \/ \E r \in RECORDS : addRecord(c, r)
  \/ connectToServerHost(c) \/ attach(c) \/ writeToClient(c)

ServerMove(r) ==
  \/ serverThread(r) \/ serverStops(r) \/ serverExits(r) \/ writeToServer(r)
  \/ readFromServer(r) \/ serverCloses(r)

LEMMA StepKinds ==
  ASSUME [Next]_vars
  PROVE  \/ MainStep \/ UNCHANGED vars
         \/ \E c \in CLIENTS : ClientMove(c) \/ RecordMove(c) \/ readToken(c)
         \/ \E r \in RECORDS : ServerMove(r) \/ announce(r)
BY Zenon DEF Next, Environment, Threads, ClientThread, ServerThread, MainStep,
             ClientMove, RecordMove, ServerMove

-----------------------------------------------------------------------------
(***************************************************************************)
(* What the steps of a client's thread do to the client_t of it.           *)
(***************************************************************************)
\* The client has no other record, and has read and been told nothing.
KeepsReading(c) ==
  /\ clients'[c].record = clients[c].record
  /\ clients'[c].write_response_index = clients[c].write_response_index
  /\ clients'[c].due = clients[c].due
  /\ clients'[c].late = clients[c].late

KeepsEvents(c) == clients'[c].events = clients[c].events

KeepsWalk(c) ==
  /\ clients'[c].url = clients[c].url
  /\ clients'[c].at = clients[c].at
  /\ clients'[c].prev = clients[c].prev

\* Only the client of the thread changes.
Alone(c) ==
  /\ clients' \in [CLIENTS -> ClientType]
  /\ \A d \in CLIENTS : d # c => clients'[d] = clients[d]

LEMMA AloneIsEnough ==
  ASSUME TypeOK, NEW c \in CLIENTS, NEW new \in ClientType,
         clients' = [clients EXCEPT ![c] = new]
  PROVE  Alone(c) /\ clients'[c] = new
BY DEF TypeOK, Alone

ClientPCs == {"none", "created", "poll", "lock", "visit", "relock", "check",
              "connect", "attach", "compare", "exit", "gone"}

LEMMA OnlyPc ==
  ASSUME TypeOK, NEW c \in CLIENTS, NEW l \in ClientPCs,
         clients' = [clients EXCEPT ![c].pc = l]
  PROVE  /\ Alone(c) /\ KeepsReading(c) /\ KeepsEvents(c) /\ KeepsWalk(c)
         /\ clients'[c].pc = l
<1>1. clients[c] \in ClientType
  BY DEF TypeOK
<1>2. PICK new \in ClientType : new = [clients[c] EXCEPT !.pc = l]
  BY <1>1 DEF ClientType, ClientPCs
<1>3. clients' = [clients EXCEPT ![c] = new]
  BY <1>2
<1>4. Alone(c) /\ clients'[c] = new
  BY <1>3, AloneIsEnough
<1> QED  BY <1>1, <1>2, <1>4 DEF KeepsReading, KeepsEvents, KeepsWalk, ClientType

\* Where a thread goes when it has seen is_stop.
LEMMA LoopValues == Loop("poll") \in {"poll", "exit"} /\ Loop("request") \in {"request", "exit"}
BY DEF Loop

LEMMA AcceptEffect ==
  ASSUME TypeOK, NEW c \in CLIENTS, acceptNewClient(c)
  PROVE  /\ Alone(c) /\ KeepsReading(c) /\ KeepsEvents(c) /\ KeepsWalk(c)
         /\ clients[c].pc = "none" /\ clients'[c].pc \in {"created", "gone"}
<1>1. PICK l \in {"created", "gone"} : clients' = [clients EXCEPT ![c].pc = l]
  BY DEF acceptNewClient
<1> QED  BY <1>1, OnlyPc DEF acceptNewClient, At, ClientPCs

LEMMA StopEffect ==
  ASSUME TypeOK, NEW c \in CLIENTS, disconnectClient(c) \/ clientStops(c)
  PROVE  /\ Alone(c) /\ KeepsReading(c) /\ KeepsEvents(c) /\ KeepsWalk(c)
         /\ clients[c].pc = "poll" /\ clients'[c].pc = "exit"
BY OnlyPc DEF disconnectClient, clientStops, At, ClientPCs

LEMMA ClientThreadEffect ==
  ASSUME TypeOK, NEW c \in CLIENTS, clientThread(c)
  PROVE  /\ Alone(c) /\ KeepsReading(c) /\ KeepsEvents(c) /\ KeepsWalk(c)
         /\ clients[c].pc = "created" /\ clients'[c].pc = Loop("poll")
<1>1. PICK l \in ClientPCs : l = Loop("poll")
  BY LoopValues DEF ClientPCs
<1> QED  BY <1>1, OnlyPc DEF clientThread, At

LEMMA ClientExitsEffect ==
  ASSUME ProxyConstants, TypeOK, NEW c \in CLIENTS, clientExits(c)
  PROVE  /\ Alone(c) /\ clients[c].pc = "exit" /\ clients'[c].pc = "gone"
         /\ clients'[c] = [newClient EXCEPT !.pc = "gone"]
<1>2. newClient \in ClientType
  BY DEF ProxyConstants, newClient, ClientType
<1>1. PICK new \in ClientType : new = [newClient EXCEPT !.pc = "gone"] /\ new.pc = "gone"
  <2>1. [newClient EXCEPT !.pc = "gone"] \in ClientType
    BY <1>2 DEF ClientType
  <2>2. [newClient EXCEPT !.pc = "gone"].pc = "gone"
    BY DEF newClient
  <2> QED  BY <2>1, <2>2
<1> QED  BY <1>1, AloneIsEnough DEF clientExits, At

LEMMA ReadRequestEffect ==
  ASSUME TypeOK, NEW c \in CLIENTS, NEW u \in URLS, readRequest(c, u)
  PROVE  /\ Alone(c) /\ KeepsReading(c) /\ KeepsEvents(c)
         /\ clients[c].pc = "poll" /\ clients'[c].pc = "lock" /\ clients'[c].url = u
         /\ clients'[c].at = clients[c].at /\ clients'[c].prev = clients[c].prev
<1>1. clients[c] \in ClientType
  BY DEF TypeOK
<1>3. PICK new \in ClientType : new = [clients[c] EXCEPT !.pc = "lock", !.url = u]
  BY <1>1 DEF ClientType
<1>4. clients' = [clients EXCEPT ![c] = new]
  BY <1>3 DEF readRequest
<1>5. Alone(c) /\ clients'[c] = new
  BY <1>4, AloneIsEnough
<1>6. /\ new.pc = "lock" /\ new.url = u /\ new.record = clients[c].record
      /\ new.at = clients[c].at /\ new.prev = clients[c].prev
      /\ new.events = clients[c].events
      /\ new.write_response_index = clients[c].write_response_index
      /\ new.due = clients[c].due /\ new.late = clients[c].late
  BY <1>1, <1>3 DEF ClientType
<1> QED  BY <1>5, <1>6 DEF readRequest, At, KeepsReading, KeepsEvents, KeepsWalk

LEMMA LockListEffect ==
  ASSUME TypeOK, NEW c \in CLIENTS, lockList(c)
  PROVE  /\ Alone(c) /\ KeepsReading(c) /\ KeepsEvents(c)
         /\ clients[c].pc \in {"lock", "relock"} /\ clients'[c].pc = "visit"
         /\ clients'[c].url = clients[c].url /\ clients'[c].prev = clients[c].at
         /\ clients'[c].at = IF clients[c].at = Nil THEN head ELSE records[clients[c].at].next
<1>1. clients[c] \in ClientType
  BY DEF TypeOK
<1>2. PICK next \in RECORDS \cup {Nil} :
        next = IF clients[c].at = Nil THEN head ELSE records[clients[c].at].next
  BY <1>1 DEF TypeOK, RecordType, ClientType
<1>3. PICK new \in ClientType : new = 
          [clients[c] EXCEPT !.pc = "visit", !.prev = clients[c].at, !.at = next]
  BY <1>1 DEF ClientType
<1>4. clients' = [clients EXCEPT ![c] = new]
  BY <1>2, <1>3 DEF lockList
<1>5. Alone(c) /\ clients'[c] = new
  BY <1>4, AloneIsEnough
<1>6. /\ new.pc = "visit" /\ new.at = next /\ new.prev = clients[c].at
      /\ new.url = clients[c].url /\ new.record = clients[c].record
      /\ new.events = clients[c].events
      /\ new.write_response_index = clients[c].write_response_index
      /\ new.due = clients[c].due /\ new.late = clients[c].late
  BY <1>1, <1>3 DEF ClientType
<1> QED  BY <1>2, <1>5, <1>6 DEF lockList, At, KeepsReading, KeepsEvents, KeepsWalk

LEMMA VisitInvalidEffect ==
  ASSUME TypeOK, NEW c \in CLIENTS, visitInvalid(c)
  PROVE  /\ Alone(c) /\ KeepsReading(c) /\ KeepsEvents(c)
         /\ clients[c].pc = "visit" /\ clients'[c].pc = "visit"
         /\ clients'[c].url = clients[c].url /\ clients'[c].prev = clients[c].prev
         /\ clients[c].at \in RECORDS /\ clients'[c].at = records[clients[c].at].next
<1>1. clients[c] \in ClientType
  BY DEF TypeOK
<1>0. clients[c].at \in RECORDS
  BY <1>1 DEF visitInvalid, ClientType
<1>2. PICK next \in RECORDS \cup {Nil} : next = records[clients[c].at].next
  BY <1>0 DEF TypeOK, RecordType
<1>3. PICK new \in ClientType : new = [clients[c] EXCEPT !.at = next]
  BY <1>1 DEF ClientType
<1>4. clients' = [clients EXCEPT ![c] = new]
  BY <1>2, <1>3 DEF visitInvalid
<1>5. Alone(c) /\ clients'[c] = new
  BY <1>4, AloneIsEnough
<1>6. /\ new.at = next /\ new.pc = clients[c].pc /\ new.url = clients[c].url
      /\ new.record = clients[c].record /\ new.prev = clients[c].prev
      /\ new.events = clients[c].events
      /\ new.write_response_index = clients[c].write_response_index
      /\ new.due = clients[c].due /\ new.late = clients[c].late
  BY <1>1, <1>3 DEF ClientType
<1> QED  BY <1>0, <1>2, <1>5, <1>6 DEF visitInvalid, At, KeepsReading, KeepsEvents, KeepsWalk

LEMMA VisitOtherEffect ==
  ASSUME TypeOK, NEW c \in CLIENTS, visitOther(c)
  PROVE  /\ Alone(c) /\ KeepsReading(c) /\ KeepsEvents(c)
         /\ clients[c].pc = "visit" /\ clients'[c].pc = "relock" /\ clients'[c].prev = Nil
         /\ clients'[c].url = clients[c].url /\ clients'[c].at = clients[c].at
         /\ clients[c].at \in RECORDS
<1>1. clients[c] \in ClientType
  BY DEF TypeOK
<1>2. clients[c].at \in RECORDS
  BY <1>1 DEF visitOther, ClientType
<1>3. PICK new \in ClientType : new = [clients[c] EXCEPT !.pc = "relock", !.prev = Nil]
  BY <1>1 DEF ClientType
<1>4. clients' = [clients EXCEPT ![c] = new]
  BY <1>3 DEF visitOther
<1>5. Alone(c) /\ clients'[c] = new
  BY <1>4, AloneIsEnough
<1>6. /\ new.pc = "relock" /\ new.prev = Nil /\ new.url = clients[c].url
      /\ new.record = clients[c].record /\ new.at = clients[c].at
      /\ new.events = clients[c].events
      /\ new.write_response_index = clients[c].write_response_index
      /\ new.due = clients[c].due /\ new.late = clients[c].late
  BY <1>1, <1>3 DEF ClientType
<1> QED  BY <1>2, <1>5, <1>6 DEF visitOther, At, KeepsReading, KeepsEvents, KeepsWalk

LEMMA VisitFoundEffect ==
  ASSUME TypeOK, NEW c \in CLIENTS, visitFound(c)
  PROVE  /\ Alone(c) /\ KeepsEvents(c)
         /\ clients[c].pc = "visit" /\ clients'[c].pc = "check" /\ clients[c].at \in RECORDS
         /\ clients'[c].record = clients[c].at /\ clients'[c].at = Nil /\ clients'[c].prev = Nil
         /\ clients'[c].write_response_index = clients[c].write_response_index
         /\ clients'[c].due = clients[c].due /\ clients'[c].late = clients[c].late
<1>1. clients[c] \in ClientType
  BY DEF TypeOK
<1>2. clients[c].at \in RECORDS
  BY <1>1 DEF visitFound, ClientType
<1>3. PICK new \in ClientType : new = 
          [clients[c] EXCEPT !.pc = "check", !.record = clients[c].at, !.at = Nil, !.prev = Nil]
  BY <1>1 DEF ClientType
<1>4. clients' = [clients EXCEPT ![c] = new]
  BY <1>3 DEF visitFound
<1>5. Alone(c) /\ clients'[c] = new
  BY <1>4, AloneIsEnough
<1>6. /\ new.pc = "check" /\ new.record = clients[c].at /\ new.at = Nil
      /\ new.prev = Nil /\ new.url = clients[c].url
      /\ new.events = clients[c].events
      /\ new.write_response_index = clients[c].write_response_index
      /\ new.due = clients[c].due /\ new.late = clients[c].late
  BY <1>1, <1>3 DEF ClientType
<1> QED  BY <1>2, <1>5, <1>6 DEF visitFound, At, KeepsReading, KeepsEvents, KeepsWalk

LEMMA AddRecordEffect ==
  ASSUME TypeOK, NEW c \in CLIENTS, NEW r \in RECORDS, addRecord(c, r)
  PROVE  /\ Alone(c) /\ KeepsReading(c) /\ KeepsEvents(c)
         /\ clients[c].pc = "visit" /\ clients'[c].pc = "connect" /\ clients[c].at = Nil
         /\ clients'[c].at = r /\ clients'[c].prev = Nil /\ clients'[c].url = clients[c].url
<1>1. clients[c] \in ClientType
  BY DEF TypeOK
<1>3. PICK new \in ClientType : new = [clients[c] EXCEPT !.pc = "connect", !.at = r, !.prev = Nil]
  BY <1>1 DEF ClientType
<1>4. clients' = [clients EXCEPT ![c] = new]
  BY <1>3 DEF addRecord
<1>5. Alone(c) /\ clients'[c] = new
  BY <1>4, AloneIsEnough
<1>6. /\ new.pc = "connect" /\ new.at = r /\ new.prev = Nil
      /\ new.url = clients[c].url /\ new.record = clients[c].record
      /\ new.events = clients[c].events
      /\ new.write_response_index = clients[c].write_response_index
      /\ new.due = clients[c].due /\ new.late = clients[c].late
  BY <1>1, <1>3 DEF ClientType
<1> QED  BY <1>5, <1>6 DEF addRecord, At, KeepsReading, KeepsEvents, KeepsWalk

LEMMA CheckResponseEffect ==
  ASSUME TypeOK, NEW c \in CLIENTS, checkResponse(c), clients[c].record \in RECORDS
  PROVE  /\ Alone(c) /\ KeepsReading(c) /\ KeepsWalk(c)
         /\ clients[c].pc = "check" /\ clients'[c].pc = Loop("poll")
         /\ clients'[c].events = (records[clients[c].record].response_index # 0)
<1>1. clients[c] \in ClientType
  BY DEF TypeOK
<1>2. PICK l \in ClientPCs, b \in BOOLEAN :
        l = Loop("poll") /\ b = (records[clients[c].record].response_index # 0)
  BY LoopValues DEF ClientPCs
<1>3. PICK new \in ClientType : new = [clients[c] EXCEPT !.pc = l, !.events = b]
  BY <1>1 DEF ClientType, ClientPCs
<1>4. clients' = [clients EXCEPT ![c] = new]
  BY <1>2, <1>3 DEF checkResponse
<1>5. Alone(c) /\ clients'[c] = new
  BY <1>4, AloneIsEnough
<1>6. /\ new.pc = l /\ new.events = b /\ new.url = clients[c].url
      /\ new.record = clients[c].record /\ new.at = clients[c].at
      /\ new.prev = clients[c].prev
      /\ new.write_response_index = clients[c].write_response_index
      /\ new.due = clients[c].due /\ new.late = clients[c].late
  BY <1>1, <1>3 DEF ClientType, ClientPCs
<1> QED  BY <1>2, <1>5, <1>6 DEF checkResponse, At, KeepsReading, KeepsEvents, KeepsWalk

LEMMA ConnectEffect ==
  ASSUME TypeOK, NEW c \in CLIENTS, connectToServerHost(c)
  PROVE  /\ Alone(c) /\ KeepsReading(c) /\ KeepsEvents(c) /\ KeepsWalk(c)
         /\ clients[c].pc = "connect" 
         /\ \/ /\ clients'[c].pc = "exit" /\ servers' = servers
               /\ records' = freeCacheRecord(clients[c].at)
            \/ /\ clients'[c].pc = "attach" /\ records' = records
               /\ servers' = [servers EXCEPT ![clients[c].at] = "created"]
<1>1. PICK connected \in BOOLEAN :
        /\ records' = IF connected THEN records ELSE freeCacheRecord(clients[c].at)
        /\ servers' = IF connected THEN [servers EXCEPT ![clients[c].at] = "created"] ELSE servers
        /\ clients' = [clients EXCEPT ![c].pc = IF connected THEN "attach" ELSE "exit"]
  BY DEF connectToServerHost
<1>2. CASE connected
  BY <1>1, <1>2, OnlyPc DEF connectToServerHost, At, ClientPCs
<1>3. CASE ~connected
  BY <1>1, <1>3, OnlyPc DEF connectToServerHost, At, ClientPCs
<1> QED  BY <1>2, <1>3

LEMMA AttachEffect ==
  ASSUME TypeOK, NEW c \in CLIENTS, attach(c), clients[c].at \in RECORDS
  PROVE  /\ Alone(c) /\ KeepsEvents(c)
         /\ clients[c].pc = "attach" /\ clients'[c].pc = Loop("poll")
         /\ clients'[c].record = clients[c].at /\ clients'[c].at = Nil
         /\ clients'[c].prev = clients[c].prev
         /\ clients'[c].late = (records[clients[c].at].response_index > 0)
         /\ clients'[c].write_response_index = clients[c].write_response_index
         /\ clients'[c].due = clients[c].due
<1>1. clients[c] \in ClientType
  BY DEF TypeOK
<1>2. PICK l \in ClientPCs, b \in BOOLEAN :
        l = Loop("poll") /\ b = (records[clients[c].at].response_index > 0)
  <2>1. Loop("poll") \in ClientPCs  BY LoopValues DEF ClientPCs
  <2>2. (records[clients[c].at].response_index > 0) \in BOOLEAN  OBVIOUS
  <2> QED  BY <2>1, <2>2, Zenon
<1>3. PICK new \in ClientType :
        new = [clients[c] EXCEPT !.pc = l, !.record = clients[c].at, !.at = Nil, !.late = b]
  BY <1>1 DEF ClientType, ClientPCs
<1>4. clients' = [clients EXCEPT ![c] = new]
  BY <1>2, <1>3 DEF attach
<1>5. Alone(c) /\ clients'[c] = new
  BY <1>4, AloneIsEnough
<1>6. /\ new.pc = l /\ new.record = clients[c].at /\ new.at = Nil /\ new.late = b
      /\ new.url = clients[c].url /\ new.prev = clients[c].prev
      /\ new.events = clients[c].events
      /\ new.write_response_index = clients[c].write_response_index
      /\ new.due = clients[c].due
  BY <1>1, <1>3 DEF ClientType, ClientPCs
<1> QED  BY <1>2, <1>5, <1>6 DEF attach, At, KeepsReading, KeepsEvents, KeepsWalk

LEMMA WriteEffect ==
  ASSUME ProxyConstants, TypeOK, NEW c \in CLIENTS, writeToClient(c),
         clients[c].record \in RECORDS
  PROVE  /\ Alone(c) /\ KeepsEvents(c) /\ KeepsWalk(c)
         /\ clients[c].pc = "poll" /\ clients'[c].pc \in {"exit", "compare"}
         /\ clients'[c].record = clients[c].record
         /\ clients'[c].due = clients[c].due /\ clients'[c].late = clients[c].late
<1>1. clients[c] \in ClientType /\ records[clients[c].record] \in RecordType
  BY DEF TypeOK
<1>2. PICK n \in 0 .. CHUNKS :
        /\ n = 0 \/ n <= records[clients[c].record].response_index
                         - clients[c].write_response_index
        /\ clients' = [clients EXCEPT ![c].pc = IF n = 0 THEN "exit" ELSE "compare",
                                      ![c].write_response_index = @ + n]
  <2> DEFINE r == clients[c].record
             broken == ~records[r].server_alive /\ ~records[r].full
             unread == records[r].response_index - clients[c].write_response_index
  <2>1. PICK n \in 0 .. CHUNKS :
          /\ IF broken \/ unread < 0 THEN n = 0 ELSE n \in 1 .. unread
          /\ clients' = [clients EXCEPT ![c].pc = IF n = 0 THEN "exit" ELSE "compare",
                                        ![c].write_response_index = @ + n]
    BY DEF writeToClient
  <2>2. unread \in Int  BY <1>1 DEF ClientType, RecordType
  <2> HIDE DEF broken, unread
  <2>3. n = 0 \/ n <= unread  BY <2>1, <2>2
  <2> QED  BY <2>1, <2>3 DEF unread
<1>3. PICK l \in {"exit", "compare"} : l = IF n = 0 THEN "exit" ELSE "compare"
  OBVIOUS
<1>4. PICK w \in 0 .. CHUNKS : w = clients[c].write_response_index + n
  BY <1>1, <1>2 DEF ClientType, RecordType, ProxyConstants
<1>5. PICK new \in ClientType : new = [clients[c] EXCEPT !.pc = l, !.write_response_index = w]
  BY <1>1 DEF ClientType
<1>6. clients' = [clients EXCEPT ![c] = new]
  BY <1>2, <1>3, <1>4, <1>5
<1>7. Alone(c) /\ clients'[c] = new
  BY <1>6, AloneIsEnough
<1>8. /\ new.pc = l /\ new.write_response_index = w /\ new.url = clients[c].url
      /\ new.record = clients[c].record /\ new.at = clients[c].at
      /\ new.prev = clients[c].prev /\ new.events = clients[c].events
      /\ new.due = clients[c].due /\ new.late = clients[c].late
  BY <1>1, <1>5 DEF ClientType
<1> QED  BY <1>3, <1>7, <1>8 DEF writeToClient, At, KeepsReading, KeepsEvents, KeepsWalk

LEMMA CompareEffect ==
  ASSUME TypeOK, NEW c \in CLIENTS, compareIndex(c), clients[c].record \in RECORDS
  PROVE  /\ Alone(c) /\ KeepsReading(c) /\ KeepsWalk(c)
         /\ clients[c].pc = "compare" /\ clients'[c].pc = Loop("poll")
         /\ clients'[c].events =
              (clients[c].write_response_index # records[clients[c].record].response_index)
<1>1. clients[c] \in ClientType
  BY DEF TypeOK
<1>2. PICK l \in ClientPCs, b \in BOOLEAN :
        /\ l = Loop("poll")
        /\ b = (clients[c].write_response_index # records[clients[c].record].response_index)
  BY LoopValues DEF ClientPCs
<1>3. PICK new \in ClientType : new = [clients[c] EXCEPT !.pc = l, !.events = b]
  BY <1>1 DEF ClientType, ClientPCs
<1>4. clients' = [clients EXCEPT ![c] = new]
  BY <1>2, <1>3 DEF compareIndex
<1>5. Alone(c) /\ clients'[c] = new
  BY <1>4, AloneIsEnough
<1>6. /\ new.pc = l /\ new.events = b /\ new.url = clients[c].url
      /\ new.record = clients[c].record /\ new.at = clients[c].at
      /\ new.prev = clients[c].prev
      /\ new.write_response_index = clients[c].write_response_index
      /\ new.due = clients[c].due /\ new.late = clients[c].late
  BY <1>1, <1>3 DEF ClientType, ClientPCs
<1> QED  BY <1>2, <1>5, <1>6 DEF compareIndex, At, KeepsReading, KeepsEvents, KeepsWalk


LEMMA ReadTokenEffect ==
  ASSUME TypeOK, NEW c \in CLIENTS, readToken(c)
  PROVE  LET r == clients[c].record
             overtakes == records[r].overtaken \/ clients[c].due = 0
         IN
         /\ r \in RECORDS /\ clients[c].pc = "poll" /\ clients' \in [CLIENTS -> ClientType]
         /\ \A d \in CLIENTS :
              /\ clients'[d].pc = clients[d].pc /\ clients'[d].record = clients[d].record
              /\ KeepsWalk(d) /\ clients'[d].late = clients[d].late
              /\ clients'[d].write_response_index = clients[d].write_response_index
              /\ d # c => KeepsEvents(d)
              /\ clients'[d].due = IF overtakes /\ clients[d].record = r THEN 0
                                   ELSE IF d = c THEN clients[d].due - 1 ELSE clients[d].due
         /\ clients'[c].events = (clients[c].events
              \/ records[r].response_index > clients[c].write_response_index)
<1> DEFINE r == clients[c].record
           overtakes == records[r].overtaken \/ clients[c].due = 0
           more == records[r].response_index > clients[c].write_response_index
           Due(d) == IF overtakes /\ clients[d].record = r THEN 0
                     ELSE IF d = c THEN clients[d].due - 1 ELSE clients[d].due
           Events(d) == IF d = c THEN clients[d].events \/ more ELSE clients[d].events
<1>1. clients \in [CLIENTS -> ClientType]
  BY DEF TypeOK
<1>2. r \in RECORDS /\ clients[c].pc = "poll"
  BY <1>1 DEF readToken, At, ClientType
<1>3. clients' = [d \in CLIENTS |->
                    [clients[d] EXCEPT !.due = Due(d), !.events = Events(d)]]
  BY DEF readToken
<1>4. ASSUME NEW d \in CLIENTS
      PROVE  Due(d) \in Nat /\ Events(d) \in BOOLEAN
  <2>1. clients[d].due \in Nat /\ clients[d].events \in BOOLEAN
    BY <1>1 DEF ClientType
  <2>2. d = c /\ ~(overtakes /\ clients[d].record = r) => clients[d].due # 0
    OBVIOUS
  <2>3. Due(d) \in Nat  BY <2>1, <2>2
  <2>4. Events(d) \in BOOLEAN  BY <2>1
  <2> QED  BY <2>3, <2>4
<1> HIDE DEF Due, Events
<1>5. ASSUME NEW d \in CLIENTS
      PROVE  /\ clients'[d] \in ClientType
             /\ clients'[d].pc = clients[d].pc /\ clients'[d].record = clients[d].record
             /\ KeepsWalk(d) /\ clients'[d].late = clients[d].late
             /\ clients'[d].write_response_index = clients[d].write_response_index
             /\ clients'[d].due = Due(d) /\ clients'[d].events = Events(d)
  <2>1. clients'[d] = [clients[d] EXCEPT !.due = Due(d), !.events = Events(d)]
    BY <1>3
  <2>2. clients[d] \in ClientType
    BY <1>1
  <2> QED  BY <1>4, <2>1, <2>2 DEF ClientType, KeepsWalk
<1>6. clients' \in [CLIENTS -> ClientType]
  BY <1>3, <1>5
<1> QED  BY <1>2, <1>5, <1>6 DEF Due, Events, KeepsEvents

LEMMA AnnounceEffect ==
  ASSUME TypeOK, NEW r \in RECORDS, announce(r)
  PROVE  /\ clients' \in [CLIENTS -> ClientType]
         /\ \A d \in CLIENTS :
              /\ clients'[d].pc = clients[d].pc /\ clients'[d].record = clients[d].record
              /\ KeepsWalk(d) /\ KeepsEvents(d) /\ clients'[d].late = clients[d].late
              /\ clients'[d].write_response_index = clients[d].write_response_index
              /\ clients'[d].due = IF Subscribed(d, r) /\ ~records[r].overtaken
                                   THEN clients[d].due + 1 ELSE clients[d].due
<1> DEFINE Due(d) == IF Subscribed(d, r) /\ ~records[r].overtaken
                     THEN clients[d].due + 1 ELSE clients[d].due
<1>1. clients \in [CLIENTS -> ClientType]
  BY DEF TypeOK
<1>2. clients' = [d \in CLIENTS |->
         IF Subscribed(d, r) /\ ~records[r].overtaken
         THEN [clients[d] EXCEPT !.due = @ + 1] ELSE clients[d]]
  BY DEF announce, notifySubscribers
<1>3. ASSUME NEW d \in CLIENTS
      PROVE  /\ clients'[d] \in ClientType
             /\ clients'[d].pc = clients[d].pc /\ clients'[d].record = clients[d].record
             /\ KeepsWalk(d) /\ KeepsEvents(d) /\ clients'[d].late = clients[d].late
             /\ clients'[d].write_response_index = clients[d].write_response_index
             /\ clients'[d].due = Due(d)
  <2>1. clients[d] \in ClientType
    BY <1>1
  <2>2. CASE Subscribed(d, r) /\ ~records[r].overtaken
    <3>1. clients'[d] = [clients[d] EXCEPT !.due = @ + 1]  BY <1>2, <2>2
    <3> QED  BY <2>1, <2>2, <3>1 DEF ClientType, KeepsWalk, KeepsEvents
  <2>3. CASE ~(Subscribed(d, r) /\ ~records[r].overtaken)
    <3>1. clients'[d] = clients[d]  BY <1>2, <2>3
    <3> QED  BY <2>1, <2>3, <3>1 DEF KeepsWalk, KeepsEvents
  <2> QED  BY <2>2, <2>3
<1>4. clients' \in [CLIENTS -> ClientType]
  BY <1>2, <1>3
<1> QED  BY <1>3, <1>4

-----------------------------------------------------------------------------
(***************************************************************************)
(* What the steps do to the records.                                       *)
(***************************************************************************)
KeepsNode(r) ==
  /\ records'[r].mem = records[r].mem
  /\ records'[r].url = records[r].url
  /\ records'[r].next = records[r].next

KeepsResponse(r) ==
  /\ records'[r].response_index = records[r].response_index
  /\ records'[r].full = records[r].full
  /\ records'[r].server_alive = records[r].server_alive

KeepsSubs(r) ==
  /\ records'[r].subs = records[r].subs
  /\ records'[r].tokens = records[r].tokens
  /\ records'[r].overtaken = records[r].overtaken

AloneRecord(r) ==
  /\ records' \in [RECORDS -> RecordType]
  /\ \A q \in RECORDS : q # r => records'[q] = records[q]

LEMMA AloneRecordIsEnough ==
  ASSUME TypeOK, NEW r \in RECORDS, NEW new \in RecordType,
         records' = [records EXCEPT ![r] = new]
  PROVE  AloneRecord(r) /\ records'[r] = new
BY DEF TypeOK, AloneRecord

(* A client that has not subscribed yet has room in the subscribers of any  *)
(* record.                                                                  *)
LEMMA RoomForOne ==
  ASSUME ProxyConstants, TypeOK, SubsCounted, NEW r \in RECORDS, NEW c \in CLIENTS,
         clients[c].record = Nil, clients[c].pc # "gone"
  PROVE  records[r].subs + 1 \in 0 .. Cardinality(CLIENTS)
<1> DEFINE S == {d \in CLIENTS : clients[d].pc = "gone"} \cup Subscribers(r)
<1>1. IsFiniteSet(CLIENTS) /\ r # Nil
  BY DEF ProxyConstants, Nil
<1>2. IsFiniteSet(CLIENTS \ {c}) /\ Cardinality(CLIENTS \ {c}) = Cardinality(CLIENTS) - 1
  BY <1>1, FS_RemoveElement
<1>3. S \in SUBSET (CLIENTS \ {c})
  BY <1>1 DEF Subscribers
<1>4. Cardinality(S) <= Cardinality(CLIENTS) - 1 /\ Cardinality(S) \in Nat
  BY <1>2, <1>3, FS_Subset, FS_CardinalityType
<1>5. records[r].subs \in Nat /\ records[r].subs <= Cardinality(S)
  BY DEF TypeOK, RecordType, SubsCounted
<1>6. Cardinality(CLIENTS) \in Nat
  BY <1>1, FS_CardinalityType
<1> HIDE DEF S
<1> QED  BY <1>4, <1>5, <1>6

LEMMA VisitInvalidRecord ==
  ASSUME TypeOK, NEW c \in CLIENTS, visitInvalid(c), clients[c].at \in RECORDS
  PROVE  /\ AloneRecord(clients[c].at) /\ KeepsResponse(clients[c].at) /\ KeepsSubs(clients[c].at)
         /\ records'[clients[c].at].mem = "freed"
         /\ records'[clients[c].at].url = records[clients[c].at].url
         /\ records'[clients[c].at].next = records[clients[c].at].next
<1>1. records[clients[c].at] \in RecordType
  BY DEF TypeOK
<1>3. PICK new \in RecordType : new = [records[clients[c].at] EXCEPT !.mem = "freed"]
  BY <1>1 DEF RecordType
<1>4. records' = [records EXCEPT ![clients[c].at] = new]
  BY <1>3 DEF visitInvalid
<1>5. AloneRecord(clients[c].at) /\ records'[clients[c].at] = new
  BY <1>4, AloneRecordIsEnough
<1>6. /\ new.mem = "freed" /\ new.next = records[clients[c].at].next
      /\ new.url = records[clients[c].at].url
      /\ new.response_index = records[clients[c].at].response_index
      /\ new.full = records[clients[c].at].full
      /\ new.server_alive = records[clients[c].at].server_alive
      /\ new.subs = records[clients[c].at].subs
      /\ new.tokens = records[clients[c].at].tokens
      /\ new.overtaken = records[clients[c].at].overtaken
  BY <1>1, <1>3 DEF RecordType
<1> QED  BY <1>5, <1>6 DEF KeepsNode, KeepsResponse, KeepsSubs

LEMMA SubscribedRecord ==
  ASSUME ProxyConstants, TypeOK, SubsCounted, NEW c \in CLIENTS, NEW r \in RECORDS,
         clients[c].record = Nil, clients[c].pc # "gone",
         records' = [records EXCEPT ![r].subs = @ + 1]
  PROVE  /\ AloneRecord(r) /\ KeepsNode(r) /\ KeepsResponse(r)
         /\ records'[r].subs = records[r].subs + 1
         /\ records'[r].tokens = records[r].tokens
         /\ records'[r].overtaken = records[r].overtaken
<1>1. records[r] \in RecordType
  BY DEF TypeOK
<1>2. PICK n \in 0 .. Cardinality(CLIENTS) : n = records[r].subs + 1
  BY RoomForOne
<1>3. PICK new \in RecordType : new = [records[r] EXCEPT !.subs = n]
  BY <1>1, <1>2 DEF RecordType
<1>4. records' = [records EXCEPT ![r] = new]
  BY <1>3, <1>2 DEF RecordType
<1>5. AloneRecord(r) /\ records'[r] = new
  BY <1>4, AloneRecordIsEnough
<1>6. /\ new.subs = n /\ new.mem = records[r].mem /\ new.next = records[r].next
      /\ new.url = records[r].url
      /\ new.response_index = records[r].response_index
      /\ new.full = records[r].full /\ new.server_alive = records[r].server_alive
      /\ new.tokens = records[r].tokens /\ new.overtaken = records[r].overtaken
  BY <1>1, <1>3, <1>2 DEF RecordType
<1> QED  BY <1>5, <1>6, <1>2 DEF KeepsNode, KeepsResponse, KeepsSubs

LEMMA FreedRecord ==
  ASSUME ProxyConstants, TypeOK, NEW r \in RECORDS, records' = freeCacheRecord(r)
  PROVE  /\ AloneRecord(r) /\ records'[r].mem = "invalid" /\ records'[r].next = records[r].next
         /\ records'[r].response_index = 0 /\ records'[r].full = records[r].full
         /\ records'[r].server_alive = records[r].server_alive
         /\ records'[r].subs = 0 /\ records'[r].tokens = 0
<1>1. records[r] \in RecordType
  BY DEF TypeOK
<1>2. 0 \in 0 .. CHUNKS /\ 0 \in 0 .. Cardinality(CLIENTS)
  BY FS_CardinalityType DEF ProxyConstants
<1>3. PICK new \in RecordType : new = [records[r] EXCEPT !.mem = "invalid", !.url = NoUrl, !.response_index = 0, !.subs = 0, !.tokens = 0]
  BY <1>1, <1>2 DEF RecordType
<1>4. records' = [records EXCEPT ![r] = new]
  BY <1>3, <1>2 DEF freeCacheRecord
<1>5. AloneRecord(r) /\ records'[r] = new
  BY <1>4, AloneRecordIsEnough
<1>6. /\ new.mem = "invalid" /\ new.url = NoUrl /\ new.response_index = 0
      /\ new.subs = 0 /\ new.tokens = 0 /\ new.next = records[r].next
      /\ new.full = records[r].full /\ new.server_alive = records[r].server_alive
      /\ new.overtaken = records[r].overtaken
  BY <1>1, <1>3, <1>2 DEF RecordType
<1> QED  BY <1>5, <1>6, <1>2 DEF KeepsNode, KeepsResponse, KeepsSubs

LEMMA TokenRecord ==
  ASSUME TypeOK, NEW c \in CLIENTS, readToken(c), clients[c].record \in RECORDS
  PROVE  /\ AloneRecord(clients[c].record) /\ KeepsNode(clients[c].record) /\ KeepsResponse(clients[c].record)
         /\ records'[clients[c].record].subs = records[clients[c].record].subs
         /\ records'[clients[c].record].tokens = records[clients[c].record].tokens - 1
         /\ records'[clients[c].record].overtaken =
              (records[clients[c].record].overtaken \/ clients[c].due = 0)
<1>1. records[clients[c].record] \in RecordType
  BY DEF TypeOK
<1>2. PICK n \in Nat, b \in BOOLEAN :
        /\ n = records[clients[c].record].tokens - 1
        /\ b = (records[clients[c].record].overtaken \/ clients[c].due = 0)
  <2>1. records[clients[c].record].tokens - 1 \in Nat
    <3>1. records[clients[c].record].tokens > 0  BY DEF readToken
    <3>2. records[clients[c].record].tokens \in Nat  BY <1>1 DEF RecordType
    <3> QED  BY <3>1, <3>2
  <2>2. (records[clients[c].record].overtaken \/ clients[c].due = 0) \in BOOLEAN
    OBVIOUS
  <2> QED  BY <2>1, <2>2, Zenon
<1>3. PICK new \in RecordType : new = [records[clients[c].record] EXCEPT !.tokens = n, !.overtaken = b]
  BY <1>1, <1>2 DEF RecordType
<1>4. records' = [records EXCEPT ![clients[c].record] = new]
  BY <1>3, <1>2 DEF readToken
<1>5. AloneRecord(clients[c].record) /\ records'[clients[c].record] = new
  BY <1>4, AloneRecordIsEnough
<1>6. /\ new.tokens = n /\ new.overtaken = b
      /\ new.mem = records[clients[c].record].mem
      /\ new.next = records[clients[c].record].next
      /\ new.url = records[clients[c].record].url
      /\ new.response_index = records[clients[c].record].response_index
      /\ new.full = records[clients[c].record].full
      /\ new.server_alive = records[clients[c].record].server_alive
      /\ new.subs = records[clients[c].record].subs
  BY <1>1, <1>3, <1>2 DEF RecordType
<1> QED  BY <1>5, <1>6, <1>2 DEF KeepsNode, KeepsResponse, KeepsSubs

LEMMA ExitedRecord ==
  ASSUME TypeOK, NEW r \in RECORDS, serverExits(r)
  PROVE  /\ AloneRecord(r) /\ KeepsNode(r) /\ KeepsSubs(r) /\ ~records'[r].server_alive
         /\ records'[r].response_index = records[r].response_index
         /\ records'[r].full = records[r].full
<1>1. records[r] \in RecordType
  BY DEF TypeOK
<1>3. PICK new \in RecordType : new = [records[r] EXCEPT !.server_alive = FALSE]
  BY <1>1 DEF RecordType
<1>4. records' = [records EXCEPT ![r] = new]
  BY <1>3 DEF serverExits
<1>5. AloneRecord(r) /\ records'[r] = new
  BY <1>4, AloneRecordIsEnough
<1>6. /\ new.server_alive = FALSE /\ new.mem = records[r].mem
      /\ new.next = records[r].next /\ new.url = records[r].url
      /\ new.response_index = records[r].response_index
      /\ new.full = records[r].full /\ new.subs = records[r].subs
      /\ new.tokens = records[r].tokens /\ new.overtaken = records[r].overtaken
  BY <1>1, <1>3 DEF RecordType
<1> QED  BY <1>5, <1>6 DEF KeepsNode, KeepsResponse, KeepsSubs

LEMMA ReadRecord ==
  ASSUME ProxyConstants, TypeOK, NEW r \in RECORDS, readFromServer(r)
  PROVE  /\ AloneRecord(r) /\ KeepsNode(r) /\ KeepsSubs(r)
         /\ records'[r].response_index = records[r].response_index + 1
         /\ records'[r].server_alive = records[r].server_alive
         /\ records'[r].full = records[r].full
<1>1. records[r] \in RecordType
  BY DEF TypeOK
<1>2. PICK n \in 0 .. CHUNKS : n = records[r].response_index + 1
  BY <1>1 DEF readFromServer, RecordType, ProxyConstants
<1>3. PICK new \in RecordType : new = [records[r] EXCEPT !.response_index = n]
  BY <1>1, <1>2 DEF RecordType
<1>4. records' = [records EXCEPT ![r] = new]
  BY <1>3, <1>2 DEF readFromServer
<1>5. AloneRecord(r) /\ records'[r] = new
  BY <1>4, AloneRecordIsEnough
<1>6. /\ new.response_index = n /\ new.mem = records[r].mem
      /\ new.next = records[r].next /\ new.url = records[r].url
      /\ new.full = records[r].full /\ new.server_alive = records[r].server_alive
      /\ new.subs = records[r].subs /\ new.tokens = records[r].tokens
      /\ new.overtaken = records[r].overtaken
  BY <1>1, <1>3, <1>2 DEF RecordType
<1> QED  BY <1>5, <1>6, <1>2 DEF KeepsNode, KeepsResponse, KeepsSubs

LEMMA ClosedRecord ==
  ASSUME TypeOK, NEW r \in RECORDS, serverCloses(r)
  PROVE  /\ AloneRecord(r) /\ KeepsNode(r) /\ KeepsSubs(r)
         /\ records'[r].response_index = records[r].response_index
         /\ records'[r].server_alive = records[r].server_alive
<1>1. records[r] \in RecordType
  BY DEF TypeOK
<1>2. PICK b \in BOOLEAN : records' = [records EXCEPT ![r].full = b]
  BY DEF serverCloses
<1>3. PICK new \in RecordType : new = [records[r] EXCEPT !.full = b]
  BY <1>1, <1>2 DEF RecordType
<1>4. records' = [records EXCEPT ![r] = new]
  BY <1>3, <1>2 DEF serverCloses
<1>5. AloneRecord(r) /\ records'[r] = new
  BY <1>4, AloneRecordIsEnough
<1>6. /\ new.full = b /\ new.mem = records[r].mem /\ new.next = records[r].next
      /\ new.url = records[r].url
      /\ new.response_index = records[r].response_index
      /\ new.server_alive = records[r].server_alive /\ new.subs = records[r].subs
      /\ new.tokens = records[r].tokens /\ new.overtaken = records[r].overtaken
  BY <1>1, <1>3, <1>2 DEF RecordType
<1> QED  BY <1>5, <1>6, <1>2 DEF KeepsNode, KeepsResponse, KeepsSubs

LEMMA AnnouncedRecord ==
  ASSUME ProxyConstants, TypeOK, NEW r \in RECORDS, announce(r)
  PROVE  /\ AloneRecord(r) /\ KeepsNode(r) /\ KeepsResponse(r)
         /\ records'[r].tokens = records[r].tokens + records[r].subs
         /\ records'[r].subs = records[r].subs
         /\ records'[r].overtaken = records[r].overtaken
<1>1. records[r] \in RecordType
  BY DEF TypeOK
<1>2. PICK n \in Nat : n = records[r].tokens + records[r].subs
  <2>1. Cardinality(CLIENTS) \in Nat
    BY FS_CardinalityType DEF ProxyConstants
  <2> QED  BY <1>1, <2>1 DEF RecordType
<1>3. PICK new \in RecordType : new = [records[r] EXCEPT !.tokens = n]
  BY <1>1, <1>2 DEF RecordType
<1>4. records' = [records EXCEPT ![r] = new]
  BY <1>3, <1>2 DEF announce, notifySubscribers
<1>5. AloneRecord(r) /\ records'[r] = new
  BY <1>4, AloneRecordIsEnough
<1>6. /\ new.tokens = n /\ new.mem = records[r].mem /\ new.next = records[r].next
      /\ new.url = records[r].url
      /\ new.response_index = records[r].response_index
      /\ new.full = records[r].full /\ new.server_alive = records[r].server_alive
      /\ new.subs = records[r].subs /\ new.overtaken = records[r].overtaken
  BY <1>1, <1>3, <1>2 DEF RecordType
<1> QED  BY <1>5, <1>6, <1>2 DEF KeepsNode, KeepsResponse, KeepsSubs

LEMMA AddedRecord ==
  ASSUME ProxyConstants, TypeOK, NEW c \in CLIENTS, NEW r \in RECORDS, addRecord(c, r)
  PROVE  /\ records' \in [RECORDS -> RecordType]
         /\ records'[r].mem = "live" /\ records'[r].url = clients[c].url
         /\ records'[r].next = Nil /\ records'[r].response_index = 0 /\ ~records'[r].full
         /\ records'[r].server_alive /\ records'[r].subs = 0 /\ records'[r].tokens = 0
         /\ \A q \in RECORDS : q # r =>
              /\ records'[q].mem = records[q].mem /\ records'[q].url = records[q].url
              /\ KeepsResponse(q) /\ KeepsSubs(q)
              /\ records'[q].next = IF q = clients[c].prev THEN r ELSE records[q].next
<1> DEFINE prev == clients[c].prev
           new == [initEmptyCacheRecord EXCEPT !.mem = "live", !.url = clients[c].url]
<1>1. clients[c] \in ClientType /\ records \in [RECORDS -> RecordType]
  BY DEF TypeOK
<1>2. 0 \in 0 .. CHUNKS /\ 0 \in 0 .. Cardinality(CLIENTS)
  BY FS_CardinalityType DEF ProxyConstants
<1>3. new \in RecordType
  <2>1. initEmptyCacheRecord \in RecordType
    BY <1>2 DEF initEmptyCacheRecord, RecordType
  <2> QED  BY <1>1, <2>1 DEF RecordType, ClientType
<1> HIDE DEF new
<1>4. records' = [q \in RECORDS |-> IF q = r THEN new
                                    ELSE IF q = prev THEN [records[q] EXCEPT !.next = r]
                                    ELSE records[q]]
  BY DEF addRecord, new
<1>5. ASSUME NEW q \in RECORDS, q # r
      PROVE  /\ records'[q] \in RecordType
             /\ records'[q].mem = records[q].mem /\ records'[q].url = records[q].url
             /\ KeepsResponse(q) /\ KeepsSubs(q)
             /\ records'[q].next = IF q = prev THEN r ELSE records[q].next
  <2>1. records[q] \in RecordType
    BY <1>1
  <2>2. CASE q = prev
    <3>1. records'[q] = [records[q] EXCEPT !.next = r]
      BY <1>4, <1>5, <2>2
    <3> QED  BY <2>1, <2>2, <3>1 DEF RecordType, KeepsResponse, KeepsSubs
  <2>3. CASE q # prev
    BY <1>4, <1>5, <2>1, <2>3 DEF KeepsResponse, KeepsSubs
  <2> QED  BY <2>2, <2>3
<1>6. records'[r] = new
  BY <1>4
<1>7. records' \in [RECORDS -> RecordType]
  BY <1>3, <1>4, <1>5, <1>6
<1>8. /\ new.mem = "live" /\ new.url = clients[c].url /\ new.next = Nil
      /\ new.response_index = 0 /\ ~new.full /\ new.server_alive
      /\ new.subs = 0 /\ new.tokens = 0
  BY DEF new, initEmptyCacheRecord
<1> QED  BY <1>5, <1>6, <1>7, <1>8

LEMMA DestroyedRecords ==
  ASSUME TypeOK, cleanUp
  PROVE  /\ records' \in [RECORDS -> RecordType]
         /\ \A r \in RECORDS :
              /\ records'[r].mem = IF records[r].mem = "none" THEN "none" ELSE "freed"
              /\ records[r].mem = "none" => records'[r] = records[r]
              /\ records'[r].url = records[r].url /\ records'[r].next = records[r].next
              /\ KeepsResponse(r) /\ KeepsSubs(r)
<1>1. records \in [RECORDS -> RecordType]
  BY DEF TypeOK
<1>2. records' = [r \in RECORDS |->
         IF records[r].mem = "none" THEN records[r] ELSE [records[r] EXCEPT !.mem = "freed"]]
  BY DEF cleanUp
<1>3. ASSUME NEW r \in RECORDS
      PROVE  /\ records'[r] \in RecordType
             /\ records'[r].mem = IF records[r].mem = "none" THEN "none" ELSE "freed"
             /\ records[r].mem = "none" => records'[r] = records[r]
             /\ records'[r].url = records[r].url /\ records'[r].next = records[r].next
             /\ KeepsResponse(r) /\ KeepsSubs(r)
  <2>1. records[r] \in RecordType
    BY <1>1
  <2>2. CASE records[r].mem = "none"
    <3>1. records'[r] = records[r]  BY <1>2, <2>2
    <3> QED  BY <2>1, <2>2, <3>1 DEF KeepsResponse, KeepsSubs
  <2>3. CASE records[r].mem # "none"
    <3>1. records'[r] = [records[r] EXCEPT !.mem = "freed"]  BY <1>2, <2>3
    <3> QED  BY <2>1, <2>3, <3>1 DEF RecordType, KeepsResponse, KeepsSubs
  <2> QED  BY <2>2, <2>3
<1>4. records' \in [RECORDS -> RecordType]
  BY <1>2, <1>3
<1> QED  BY <1>3, <1>4

-----------------------------------------------------------------------------
(***************************************************************************)
(* num_threads counts the threads that are at work.                        *)
(***************************************************************************)
LEMMA CountsAreNumbers ==
  ASSUME ProxyConstants
  PROVE  /\ IsFiniteSet(AtWork) /\ Cardinality(AtWork) \in Nat
         /\ IsFiniteSet(Serving) /\ Cardinality(Serving) \in Nat
BY FS_Subset, FS_CardinalityType DEF ProxyConstants, AtWork, Serving

(* Steps that neither begin nor end a thread.                               *)
LEMMA CountKept ==
  ASSUME ThreadsCounted, num_threads' = num_threads,
         \A c \in CLIENTS : (clients'[c].pc \in {"none", "created", "gone"})
                              = (clients[c].pc \in {"none", "created", "gone"}),
         \A r \in RECORDS : (servers'[r] \in {"none", "created", "gone"})
                              = (servers[r] \in {"none", "created", "gone"})
  PROVE  ThreadsCounted'
<1>1. AtWork' = AtWork  BY DEF AtWork
<1>2. Serving' = Serving  BY DEF Serving
<1> QED  BY <1>1, <1>2 DEF ThreadsCounted

LEMMA ClientCounted ==
  ASSUME ProxyConstants, TypeOK, ThreadsCounted, NEW c \in CLIENTS,
         clientThread(c) \/ clientExits(c)
  PROVE  ThreadsCounted' /\ num_threads' \in Nat
<1>1. Serving' = Serving
  BY DEF Serving, clientThread, clientExits
<1>2. CASE clientThread(c)
  <2>1. /\ clients[c].pc = "created" /\ clients'[c].pc \notin {"none", "created", "gone"}
        /\ \A d \in CLIENTS : d # c => clients'[d] = clients[d]
    BY <1>2, ClientThreadEffect, LoopValues DEF Alone
  <2>2. AtWork' = AtWork \cup {c} /\ c \notin AtWork
    BY <2>1 DEF AtWork
  <2>3. Cardinality(AtWork') = Cardinality(AtWork) + 1
    BY <2>2, CountsAreNumbers, FS_AddElement
  <2>4. num_threads' = num_threads + 1 /\ num_threads \in Nat
    BY <1>2 DEF clientThread, TypeOK
  <2> QED  BY <1>1, <2>3, <2>4, CountsAreNumbers DEF ThreadsCounted
<1>3. CASE clientExits(c)
  <2>1. /\ clients[c].pc = "exit" /\ clients'[c].pc = "gone"
        /\ \A d \in CLIENTS : d # c => clients'[d] = clients[d]
    BY <1>3, ClientExitsEffect DEF Alone
  <2>2. AtWork' = AtWork \ {c} /\ c \in AtWork
    BY <2>1 DEF AtWork
  <2>3. Cardinality(AtWork') = Cardinality(AtWork) - 1 /\ AtWork # {}
    BY <2>2, CountsAreNumbers, FS_RemoveElement
  <2>4. Cardinality(AtWork) # 0
    BY <2>3, CountsAreNumbers, FS_EmptySet
  <2>5. num_threads' = num_threads - 1 /\ num_threads \in Nat
    BY <1>3 DEF clientExits, TypeOK
  <2> QED  BY <1>1, <2>3, <2>4, <2>5, CountsAreNumbers DEF ThreadsCounted
<1> QED  BY <1>2, <1>3

LEMMA ServerCounted ==
  ASSUME ProxyConstants, TypeOK, ThreadsCounted, NEW r \in RECORDS,
         serverThread(r) \/ serverExits(r)
  PROVE  ThreadsCounted' /\ num_threads' \in Nat
<1>1. AtWork' = AtWork
  BY DEF AtWork, serverThread, serverExits
<1>2. servers \in [RECORDS -> ServerPCs]
  BY DEF TypeOK
<1>3. CASE serverThread(r)
  <2>1. /\ servers[r] = "created" /\ servers'[r] \notin {"none", "created", "gone"}
        /\ \A q \in RECORDS : q # r => servers'[q] = servers[q]
    BY <1>2, <1>3, LoopValues DEF serverThread, ServerAt
  <2>2. Serving' = Serving \cup {r} /\ r \notin Serving
    BY <2>1 DEF Serving
  <2>3. Cardinality(Serving') = Cardinality(Serving) + 1
    BY <2>2, CountsAreNumbers, FS_AddElement
  <2>4. num_threads' = num_threads + 1 /\ num_threads \in Nat
    BY <1>3 DEF serverThread, TypeOK
  <2> QED  BY <1>1, <2>3, <2>4, CountsAreNumbers DEF ThreadsCounted
<1>4. CASE serverExits(r)
  <2>1. /\ servers[r] = "exit" /\ servers'[r] = "gone"
        /\ \A q \in RECORDS : q # r => servers'[q] = servers[q]
    BY <1>2, <1>4 DEF serverExits, ServerAt
  <2>2. Serving' = Serving \ {r} /\ r \in Serving
    BY <2>1 DEF Serving
  <2>3. Cardinality(Serving') = Cardinality(Serving) - 1 /\ Serving # {}
    BY <2>2, CountsAreNumbers, FS_RemoveElement
  <2>4. Cardinality(Serving) # 0
    BY <2>3, CountsAreNumbers, FS_EmptySet
  <2>5. num_threads' = num_threads - 1 /\ num_threads \in Nat
    BY <1>4 DEF serverExits, TypeOK
  <2> QED  BY <1>1, <2>3, <2>4, <2>5, CountsAreNumbers DEF ThreadsCounted
<1> QED  BY <1>3, <1>4

-----------------------------------------------------------------------------
(***************************************************************************)
(* The paths of the threads.                                               *)
(***************************************************************************)
(* What a client says about records names records.                          *)
LEMMA ClientNames ==
  ASSUME ProxyConstants, IInv, NEW c \in CLIENTS
  PROVE  /\ clients[c].record # Nil => clients[c].record \in RECORDS
         /\ clients[c].pc \in {"check", "compare"} => clients[c].record \in RECORDS
         /\ clients[c].events => clients[c].record \in RECORDS
         /\ clients[c].at # Nil => clients[c].at \in RECORDS
         /\ clients[c].pc \in {"relock", "connect", "attach"} => clients[c].at \in RECORDS
         /\ Nil \notin RECORDS /\ clients[c] \in ClientType /\ ClientOK(c)
<1>1. clients[c] \in ClientType /\ ClientOK(c)
  BY DEF IInv, TypeOK
<1>2. clients[c].record \in RECORDS \cup {Nil} /\ clients[c].at \in RECORDS \cup {Nil}
  BY <1>1 DEF ClientType
<1>3. Nil \notin RECORDS
  BY DEF ProxyConstants, Nil
<1> QED  BY <1>1, <1>2, <1>3 DEF ClientOK

\* A thread that has counted itself and not left its loop.
InLoop(l) == l \in {"poll", "lock", "visit", "relock", "check", "connect", "attach", "compare"}

LEMMA ClientPaths ==
  ASSUME ProxyConstants, IInv, NEW c \in CLIENTS,
         ClientMove(c) \/ RecordMove(c) \/ readToken(c)
  PROVE  /\ clients' \in [CLIENTS -> ClientType]
         /\ \A d \in CLIENTS : d # c => clients'[d].pc = clients[d].pc
         /\ UNCHANGED <<main, is_stop, stop_bytes>>
         /\ \/ clients[c].pc = "none" /\ main = "poll" /\ clients'[c].pc \in {"created", "gone"}
               /\ num_threads' = num_threads
            \/ clients[c].pc = "created" /\ clients'[c].pc = Loop("poll") /\ clientThread(c)
            \/ clients[c].pc = "exit" /\ clients'[c].pc = "gone" /\ clientExits(c)
            \/ InLoop(clients[c].pc) /\ (InLoop(clients'[c].pc) \/ clients'[c].pc = "exit")
               /\ num_threads' = num_threads
         /\ \/ servers' = servers
            \/ /\ clients[c].pc = "connect" /\ clients'[c].pc = "attach"
               /\ servers' = [servers EXCEPT ![clients[c].at] = "created"]
<1>1. TypeOK /\ Loop("poll") \in {"poll", "exit"}
  BY LoopValues DEF IInv
<1>2. CASE acceptNewClient(c)
  BY <1>1, <1>2, AcceptEffect DEF acceptNewClient, Alone
<1>3. CASE disconnectClient(c) \/ clientStops(c)
  BY <1>1, <1>3, StopEffect DEF disconnectClient, clientStops, Alone, InLoop
<1>4. CASE \E u \in URLS : readRequest(c, u)
  <2>1. PICK u \in URLS : readRequest(c, u)  BY <1>4
  <2> QED  BY <1>1, <2>1, ReadRequestEffect DEF readRequest, Alone, InLoop
<1>5. CASE clientThread(c)
  BY <1>1, <1>5, ClientThreadEffect DEF clientThread, Alone
<1>6. CASE clientExits(c)
  BY <1>1, <1>6, ClientExitsEffect DEF clientExits, Alone
<1>7. CASE lockList(c)
  BY <1>1, <1>7, LockListEffect DEF lockList, Alone, InLoop
<1>8. CASE visitOther(c)
  BY <1>1, <1>8, VisitOtherEffect DEF visitOther, Alone, InLoop
<1>9. CASE checkResponse(c)
  <2>1. clients[c].record \in RECORDS
    BY <1>9, ClientNames DEF checkResponse, At
  <2> QED  BY <1>1, <1>9, <2>1, CheckResponseEffect DEF checkResponse, Alone, InLoop
<1>10. CASE compareIndex(c)
  <2>1. clients[c].record \in RECORDS
    BY <1>10, ClientNames DEF compareIndex, At
  <2> QED  BY <1>1, <1>10, <2>1, CompareEffect DEF compareIndex, Alone, InLoop
<1>11. CASE visitInvalid(c)
  BY <1>1, <1>11, VisitInvalidEffect DEF visitInvalid, Alone, InLoop
<1>12. CASE visitFound(c)
  BY <1>1, <1>12, VisitFoundEffect DEF visitFound, Alone, InLoop
<1>13. CASE \E r \in RECORDS : addRecord(c, r)
  <2>1. PICK r \in RECORDS : addRecord(c, r)  BY <1>13
  <2> QED  BY <1>1, <2>1, AddRecordEffect DEF addRecord, Alone, InLoop
<1>14. CASE connectToServerHost(c)
  BY <1>1, <1>14, ConnectEffect DEF connectToServerHost, Alone, InLoop
<1>15. CASE attach(c)
  <2>1. clients[c].at \in RECORDS
    BY <1>15, ClientNames DEF attach, At
  <2> QED  BY <1>1, <1>15, <2>1, AttachEffect DEF attach, Alone, InLoop
<1>16. CASE writeToClient(c)
  <2>1. clients[c].record \in RECORDS
    BY <1>16, ClientNames DEF writeToClient
  <2> QED  BY <1>1, <1>16, <2>1, WriteEffect DEF writeToClient, Alone, InLoop
<1>17. CASE readToken(c)
  BY <1>1, <1>17, ReadTokenEffect DEF readToken, InLoop
<1> QED
  BY <1>2, <1>3, <1>4, <1>5, <1>6, <1>7, <1>8, <1>9, <1>10, <1>11, <1>12, <1>13, <1>14,
     <1>15, <1>16, <1>17 DEF ClientMove, RecordMove

LEMMA ServerPaths ==
  ASSUME ProxyConstants, IInv, NEW r \in RECORDS, ServerMove(r) \/ announce(r)
  PROVE  /\ clients' \in [CLIENTS -> ClientType]
         /\ \A c \in CLIENTS : clients'[c].pc = clients[c].pc
         /\ UNCHANGED <<main, is_stop, stop_bytes, head, list_mutex>>
         /\ servers' \in [RECORDS -> ServerPCs]
         /\ \A q \in RECORDS : q # r => servers'[q] = servers[q]
         /\ \/ servers[r] = "created" /\ servers'[r] = Loop("request") /\ serverThread(r)
            \/ servers[r] = "exit" /\ servers'[r] = "gone" /\ serverExits(r)
            \/ /\ servers[r] \in {"request", "poll", "announce", "last"}
               /\ servers'[r] \in {"poll", "announce", "last", "exit"}
               /\ num_threads' = num_threads
<1>1. /\ TypeOK /\ clients \in [CLIENTS -> ClientType] /\ servers \in [RECORDS -> ServerPCs]
      /\ Loop("poll") \in {"poll", "exit"} /\ Loop("request") \in {"request", "exit"}
  BY LoopValues DEF IInv, TypeOK
<1>2. CASE serverThread(r)
  BY <1>1, <1>2 DEF serverThread, ServerAt, ServerPCs
<1>3. CASE serverStops(r)
  BY <1>1, <1>3 DEF serverStops, ServerAt, ServerPCs
<1>4. CASE serverExits(r)
  BY <1>1, <1>4 DEF serverExits, ServerAt, ServerPCs
<1>5. CASE writeToServer(r)
  BY <1>1, <1>5 DEF writeToServer, ServerAt, ServerPCs
<1>6. CASE readFromServer(r)
  BY <1>1, <1>6 DEF readFromServer, ServerAt, ServerPCs
<1>7. CASE serverCloses(r)
  BY <1>1, <1>7 DEF serverCloses, ServerAt, ServerPCs
<1>8. CASE announce(r)
  <2>1. servers' = [servers EXCEPT ![r] = IF @ = "last" THEN "exit" ELSE Loop("poll")]
        /\ servers[r] \in {"announce", "last"}
        /\ UNCHANGED <<main, is_stop, num_threads, stop_bytes, head, list_mutex>>
    BY <1>8 DEF announce, ServerAt
  <2> QED  BY <1>1, <1>8, <2>1, AnnounceEffect DEF ServerPCs
<1> QED
  BY <1>2, <1>3, <1>4, <1>5, <1>6, <1>7, <1>8 DEF ServerMove

(* num_threads is the number of the threads at work.                        *)
LEMMA CountedStep ==
  ASSUME ProxyConstants, IInv, [Next]_vars
  PROVE  ThreadsCounted' /\ num_threads' \in Nat
<1>1. TypeOK /\ ThreadsCounted /\ num_threads \in Nat
  BY DEF IInv, TypeOK
<1>2. CASE MainStep \/ UNCHANGED vars
  <2>1. num_threads' = num_threads /\ clients' = clients /\ servers' = servers
    BY <1>2 DEF MainStep, sigCatch, cleanUpNotify, cleanUp, vars
  <2> QED  BY <1>1, <2>1, CountKept
<1>3. ASSUME NEW c \in CLIENTS, ClientMove(c) \/ RecordMove(c) \/ readToken(c)
      PROVE  ThreadsCounted' /\ num_threads' \in Nat
  <2>1. CASE clientThread(c) \/ clientExits(c)
    BY <1>1, <2>1, ClientCounted
  <2>2. CASE ~(clientThread(c) \/ clientExits(c))
    <3>1. /\ \A d \in CLIENTS : d # c => clients'[d].pc = clients[d].pc
          /\ num_threads' = num_threads
          /\ (clients'[c].pc \in {"none", "created", "gone"})
               = (clients[c].pc \in {"none", "created", "gone"})
      BY <1>3, <2>2, ClientPaths DEF InLoop
    <3>2. \A r \in RECORDS : (servers'[r] \in {"none", "created", "gone"})
                              = (servers[r] \in {"none", "created", "gone"})
      <4>1. CASE servers' = servers  BY <4>1
      <4>2. CASE /\ clients[c].pc = "connect"
                 /\ servers' = [servers EXCEPT ![clients[c].at] = "created"]
        <5>1. clients[c].at \in RECORDS /\ servers[clients[c].at] = "none"
          BY <4>2, ClientNames DEF ClientOK
        <5>2. servers \in [RECORDS -> ServerPCs]  BY <1>1 DEF TypeOK
        <5> QED  BY <4>2, <5>1, <5>2
      <4> QED  BY <1>3, <4>1, <4>2, ClientPaths
    <3> QED  BY <1>1, <3>1, <3>2, CountKept
  <2> QED  BY <2>1, <2>2
<1>4. ASSUME NEW r \in RECORDS, ServerMove(r) \/ announce(r)
      PROVE  ThreadsCounted' /\ num_threads' \in Nat
  <2>1. CASE serverThread(r) \/ serverExits(r)
    BY <1>1, <2>1, ServerCounted
  <2>2. CASE ~(serverThread(r) \/ serverExits(r))
    <3>1. /\ \A c \in CLIENTS : clients'[c].pc = clients[c].pc
          /\ num_threads' = num_threads
          /\ \A q \in RECORDS : q # r => servers'[q] = servers[q]
          /\ (servers'[r] \in {"none", "created", "gone"})
               = (servers[r] \in {"none", "created", "gone"})
      BY <1>4, <2>2, ServerPaths
    <3> QED  BY <1>1, <3>1, CountKept
  <2> QED  BY <2>1, <2>2
<1> QED  BY <1>2, <1>3, <1>4, StepKinds

(* cleanUp finds nobody at work, and whoever begins later leaves at once.   *)
LEMMA StoppedStep ==
  ASSUME ProxyConstants, IInv, [Next]_vars
  PROVE  Stopped'
<1>1. TypeOK /\ Stopped /\ ThreadsCounted
  BY DEF IInv
<1>2. CASE UNCHANGED vars \/ sigCatch \/ cleanUpNotify
  BY <1>1, <1>2 DEF vars, sigCatch, cleanUpNotify, Stopped
<1>3. CASE cleanUp
  <2>1. num_threads = 0 /\ main = "waiting" /\ clients' = clients /\ servers' = servers
        /\ is_stop' = is_stop
    BY <1>3 DEF cleanUp
  <2>2. Cardinality(AtWork) = 0 /\ Cardinality(Serving) = 0
    BY <1>1, <2>1, CountsAreNumbers DEF ThreadsCounted
  <2>3. AtWork = {} /\ Serving = {}
    BY <2>2, CountsAreNumbers, FS_EmptySet
  <2>4. /\ \A c \in CLIENTS : clients[c].pc \in {"none", "created", "gone"}
        /\ \A r \in RECORDS : servers[r] \in {"none", "created", "gone"}
    BY <2>3 DEF AtWork, Serving
  <2> QED  BY <1>1, <2>1, <2>4 DEF Stopped
<1>4. ASSUME NEW c \in CLIENTS, ClientMove(c) \/ RecordMove(c) \/ readToken(c)
      PROVE  Stopped'
  <2>1. /\ main' = main /\ is_stop' = is_stop
        /\ \A d \in CLIENTS : d # c => clients'[d].pc = clients[d].pc
        /\ servers' = servers \/ clients[c].pc = "connect"
    BY <1>4, ClientPaths
  <2>2. ASSUME main = "exited"
        PROVE  clients'[c].pc \in {"none", "created", "exit", "gone"}
               /\ clients[c].pc # "connect"
    BY <1>1, <1>4, <2>2, ClientPaths DEF Stopped, Loop, InLoop
  <2> QED  BY <1>1, <2>1, <2>2 DEF Stopped
<1>5. ASSUME NEW r \in RECORDS, ServerMove(r) \/ announce(r)
      PROVE  Stopped'
  <2>1. /\ main' = main /\ is_stop' = is_stop
        /\ \A c \in CLIENTS : clients'[c].pc = clients[c].pc
        /\ \A q \in RECORDS : q # r => servers'[q] = servers[q]
    BY <1>5, ServerPaths
  <2>2. ASSUME main = "exited"
        PROVE  servers'[r] \in {"none", "created", "exit", "gone"}
    BY <1>1, <1>5, <2>2, ServerPaths DEF Stopped, Loop
  <2> QED  BY <1>1, <2>1, <2>2 DEF Stopped
<1> QED  BY <1>2, <1>3, <1>4, <1>5, StepKinds DEF MainStep

-----------------------------------------------------------------------------
(***************************************************************************)
(* Types.                                                                  *)
(***************************************************************************)
LEMMA AttachRecord ==
  ASSUME ProxyConstants, IInv, NEW c \in CLIENTS, attach(c)
  PROVE  LET r == clients[c].at IN
         /\ r \in RECORDS /\ AloneRecord(r) /\ KeepsNode(r) /\ KeepsResponse(r)
         /\ records'[r].subs = IF records[r].mem = "live" THEN records[r].subs + 1
                               ELSE records[r].subs
         /\ records'[r].tokens = records[r].tokens
         /\ records'[r].overtaken = records[r].overtaken
         /\ clients[c].record = Nil /\ clients[c].pc = "attach"
<1> DEFINE r == clients[c].at
<1>1. clients[c].pc = "attach"
  BY DEF attach, At
<1>2. r \in RECORDS /\ clients[c].record = Nil
  BY <1>1, ClientNames DEF ClientOK
<1>3. TypeOK /\ SubsCounted /\ records \in [RECORDS -> RecordType]
  BY DEF IInv, TypeOK
<1>4. CASE records[r].mem = "live"
  <2>1. records' = [records EXCEPT ![r].subs = @ + 1]
    BY <1>4 DEF attach
  <2> QED  BY <1>1, <1>2, <1>3, <1>4, <2>1, SubscribedRecord
<1>5. CASE records[r].mem # "live"
  <2>1. records' = records
    BY <1>5 DEF attach
  <2> QED  BY <1>1, <1>2, <1>3, <1>5, <2>1 DEF AloneRecord, KeepsNode, KeepsResponse
<1> QED  BY <1>4, <1>5

LEMMA FoundRecord ==
  ASSUME ProxyConstants, IInv, NEW c \in CLIENTS, visitFound(c)
  PROVE  LET r == clients[c].at IN
         /\ r \in RECORDS /\ AloneRecord(r) /\ KeepsNode(r) /\ KeepsResponse(r)
         /\ records'[r].subs = records[r].subs + 1
         /\ records'[r].tokens = records[r].tokens
         /\ records'[r].overtaken = records[r].overtaken
         /\ clients[c].record = Nil /\ clients[c].pc = "visit"
<1> DEFINE r == clients[c].at
<1>1. /\ clients[c].pc = "visit" /\ r # Nil
      /\ records' = [records EXCEPT ![r].subs = @ + 1]
  BY DEF visitFound, At
<1>2. r \in RECORDS /\ clients[c].record = Nil
  BY <1>1, ClientNames DEF ClientOK
<1>3. TypeOK /\ SubsCounted
  BY DEF IInv
<1> QED  BY <1>1, <1>2, <1>3, SubscribedRecord

(* Records, the list and its mutex keep their types in the threads' steps.  *)
LEMMA TypeClient ==
  ASSUME ProxyConstants, IInv, NEW c \in CLIENTS,
         ClientMove(c) \/ RecordMove(c) \/ readToken(c)
  PROVE  /\ records' \in [RECORDS -> RecordType] /\ bad' \in BOOLEAN
         /\ head' \in RECORDS \cup {Nil} /\ list_mutex' \in CLIENTS \cup {Nil}
         /\ servers' \in [RECORDS -> ServerPCs]
<1>1. /\ TypeOK /\ records \in [RECORDS -> RecordType] /\ bad \in BOOLEAN
      /\ head \in RECORDS \cup {Nil} /\ list_mutex \in CLIENTS \cup {Nil}
      /\ servers \in [RECORDS -> ServerPCs]
  BY DEF IInv, TypeOK
<1>2. servers' \in [RECORDS -> ServerPCs]
  <2>1. CASE servers' = servers  BY <1>1, <2>1
  <2>2. CASE servers' = [servers EXCEPT ![clients[c].at] = "created"]
    BY <1>1, <2>2 DEF ServerPCs
  <2> QED  BY <2>1, <2>2, ClientPaths
<1>3. CASE ClientMove(c)
  <2>1. records' = records /\ head' = head /\ bad' \in BOOLEAN
    BY <1>1, <1>3
    DEF ClientMove, acceptNewClient, disconnectClient, readRequest, clientThread, clientStops,
        clientExits, lockList, visitOther, checkResponse, compareIndex, Touch, Freed
  <2>2. list_mutex' \in {list_mutex, c, Nil}
    BY <1>3
    DEF ClientMove, acceptNewClient, disconnectClient, readRequest, clientThread, clientStops,
        clientExits, lockList, visitOther, checkResponse, compareIndex
  <2> QED  BY <1>1, <1>2, <2>1, <2>2
<1>4. CASE visitInvalid(c)
  <2>1. clients[c].at \in RECORDS  BY <1>1, <1>4, VisitInvalidEffect
  <2>2. records' \in [RECORDS -> RecordType]
    BY <1>1, <1>4, <2>1, VisitInvalidRecord DEF AloneRecord
  <2> QED  BY <1>1, <1>2, <1>4, <2>2 DEF visitInvalid, Touch, Freed
<1>5. CASE visitFound(c)
  <2>1. records' \in [RECORDS -> RecordType]
    BY <1>5, FoundRecord DEF AloneRecord
  <2> QED  BY <1>1, <1>2, <1>5, <2>1 DEF visitFound
<1>6. CASE \E r \in RECORDS : addRecord(c, r)
  <2>1. PICK r \in RECORDS : addRecord(c, r)  BY <1>6
  <2>2. records' \in [RECORDS -> RecordType]
    BY <1>1, <2>1, AddedRecord
  <2> QED  BY <1>1, <1>2, <2>1, <2>2 DEF addRecord
<1>7. CASE connectToServerHost(c)
  <2>1. clients[c].at \in RECORDS
    BY <1>7, ClientNames DEF connectToServerHost, At
  <2>2. records' = records \/ records' = freeCacheRecord(clients[c].at)
    BY <1>1, <1>7, ConnectEffect
  <2>3. records' \in [RECORDS -> RecordType]
    BY <1>1, <2>1, <2>2, FreedRecord DEF AloneRecord
  <2> QED  BY <1>1, <1>2, <1>7, <2>3 DEF connectToServerHost
<1>8. CASE attach(c)
  <2>1. records' \in [RECORDS -> RecordType]
    BY <1>8, AttachRecord DEF AloneRecord
  <2> QED  BY <1>1, <1>2, <1>8, <2>1 DEF attach, Touch, Freed
<1>9. CASE writeToClient(c)
  <2>1. clients[c].record \in RECORDS
    BY <1>9, ClientNames DEF writeToClient
  <2>2. records' = records \/ records' = freeCacheRecord(clients[c].record)
    BY <1>9 DEF writeToClient
  <2>3. records' \in [RECORDS -> RecordType]
    BY <1>1, <2>1, <2>2, FreedRecord DEF AloneRecord
  <2> QED  BY <1>1, <1>2, <1>9, <2>3 DEF writeToClient, Touch, Freed
<1>10. CASE readToken(c)
  <2>1. clients[c].record \in RECORDS
    BY <1>1, <1>10, ReadTokenEffect
  <2>2. records' \in [RECORDS -> RecordType]
    BY <1>1, <1>10, <2>1, TokenRecord DEF AloneRecord
  <2> QED  BY <1>1, <1>2, <1>10, <2>2 DEF readToken
<1> QED  BY <1>3, <1>4, <1>5, <1>6, <1>7, <1>8, <1>9, <1>10 DEF RecordMove

LEMMA TypeServer ==
  ASSUME ProxyConstants, IInv, NEW r \in RECORDS, ServerMove(r) \/ announce(r)
  PROVE  records' \in [RECORDS -> RecordType] /\ bad' \in BOOLEAN
<1>1. TypeOK /\ records \in [RECORDS -> RecordType] /\ bad \in BOOLEAN
  BY DEF IInv, TypeOK
<1>2. CASE serverThread(r) \/ serverStops(r) \/ writeToServer(r)
  BY <1>1, <1>2 DEF serverThread, serverStops, writeToServer
<1>3. CASE serverExits(r)
  BY <1>1, <1>3, ExitedRecord DEF AloneRecord, serverExits, Touch, Freed
<1>4. CASE readFromServer(r)
  BY <1>1, <1>4, ReadRecord DEF AloneRecord, readFromServer, Touch, Freed
<1>5. CASE serverCloses(r)
  BY <1>1, <1>5, ClosedRecord DEF AloneRecord, serverCloses, Touch, Freed
<1>6. CASE announce(r)
  BY <1>1, <1>6, AnnouncedRecord DEF AloneRecord, announce, Touch, Freed
<1> QED  BY <1>2, <1>3, <1>4, <1>5, <1>6 DEF ServerMove

LEMMA TypeStep ==
  ASSUME ProxyConstants, IInv, [Next]_vars
  PROVE  TypeOK'
<1>1. TypeOK
  BY DEF IInv
<1>2. num_threads' \in Nat
  BY CountedStep
<1>3. CASE UNCHANGED vars
  BY <1>1, <1>3 DEF vars, TypeOK
<1>4. CASE sigCatch
  BY <1>1, <1>2, <1>4 DEF sigCatch, TypeOK
<1>5. CASE cleanUpNotify
  <2>1. stop_bytes' \in Nat
    BY <1>1, <1>5 DEF cleanUpNotify, TypeOK
  <2> QED  BY <1>1, <1>2, <1>5, <2>1 DEF cleanUpNotify, TypeOK
<1>6. CASE cleanUp
  <2>1. records' \in [RECORDS -> RecordType] /\ bad' \in BOOLEAN
    BY <1>1, <1>6, DestroyedRecords DEF cleanUp, Dangling, Freed
  <2> QED  BY <1>1, <1>2, <1>6, <2>1 DEF cleanUp, TypeOK
<1>7. ASSUME NEW c \in CLIENTS, ClientMove(c) \/ RecordMove(c) \/ readToken(c)
      PROVE  TypeOK'
  <2>1. UNCHANGED <<main, is_stop, stop_bytes>> /\ clients' \in [CLIENTS -> ClientType]
    BY <1>7, ClientPaths
  <2>2. /\ records' \in [RECORDS -> RecordType] /\ bad' \in BOOLEAN
        /\ head' \in RECORDS \cup {Nil} /\ list_mutex' \in CLIENTS \cup {Nil}
        /\ servers' \in [RECORDS -> ServerPCs]
    BY <1>7, TypeClient
  <2> QED  BY <1>1, <1>2, <2>1, <2>2 DEF TypeOK
<1>8. ASSUME NEW r \in RECORDS, ServerMove(r) \/ announce(r)
      PROVE  TypeOK'
  <2>1. /\ UNCHANGED <<main, is_stop, stop_bytes, head, list_mutex>>
        /\ clients' \in [CLIENTS -> ClientType] /\ servers' \in [RECORDS -> ServerPCs]
    BY <1>8, ServerPaths
  <2>2. records' \in [RECORDS -> RecordType] /\ bad' \in BOOLEAN
    BY <1>8, TypeServer
  <2> QED  BY <1>1, <1>2, <2>1, <2>2 DEF TypeOK
<1> QED  BY <1>3, <1>4, <1>5, <1>6, <1>7, <1>8, StepKinds DEF MainStep

-----------------------------------------------------------------------------
(***************************************************************************)
(* The life of a record.                                                   *)
(***************************************************************************)
(* A record leaves the state `live' only when its server could not be       *)
(* reached, or has broken off.                                              *)
LEMMA MemMoves ==
  ASSUME ProxyConstants, IInv, NEW c \in CLIENTS,
         ClientMove(c) \/ RecordMove(c) \/ readToken(c), NEW r \in RECORDS
  PROVE  \/ records'[r].mem = records[r].mem
         \/ /\ addRecord(c, r) /\ records[r].mem = "none" /\ records'[r].mem = "live"
         \/ /\ visitInvalid(c) /\ r = clients[c].at /\ records[r].mem \in {"invalid", "freed"}
            /\ records'[r].mem = "freed"
         \/ /\ connectToServerHost(c) /\ r = clients[c].at /\ clients[c].pc = "connect"
            /\ servers' = servers /\ clients'[c].pc = "exit" /\ records'[r].mem = "invalid"
         \/ /\ writeToClient(c) /\ r = clients[c].record /\ records'[r].mem = "invalid"
            /\ ~records[r].server_alive /\ ~records[r].full
<1>1. TypeOK
  BY DEF IInv
<1>2. CASE ClientMove(c)
  BY <1>2
  DEF ClientMove, acceptNewClient, disconnectClient, readRequest, clientThread, clientStops,
      clientExits, lockList, visitOther, checkResponse, compareIndex
<1>3. CASE visitInvalid(c)
  <2>1. clients[c].at \in RECORDS  BY <1>1, <1>3, VisitInvalidEffect
  <2>2. CASE r = clients[c].at
    BY <1>1, <1>3, <2>1, <2>2, VisitInvalidRecord DEF visitInvalid
  <2>3. CASE r # clients[c].at
    BY <1>1, <1>3, <2>1, <2>3, VisitInvalidRecord DEF AloneRecord
  <2> QED  BY <2>2, <2>3
<1>4. CASE visitFound(c)
  BY <1>4, FoundRecord DEF AloneRecord, KeepsNode
<1>5. CASE \E s \in RECORDS : addRecord(c, s)
  <2>1. PICK s \in RECORDS : addRecord(c, s)  BY <1>5
  <2>2. CASE r = s
    <3>1. addRecord(c, r)  BY <2>1, <2>2
    <3>2. records[r].mem = "none"  BY <3>1 DEF addRecord
    <3>3. records'[r].mem = "live"  BY <1>1, <3>1, AddedRecord
    <3> QED  BY <3>1, <3>2, <3>3
  <2>3. CASE r # s
    <3>1. \A p \in RECORDS : p # s => records'[p].mem = records[p].mem
      BY <1>1, <2>1, AddedRecord
    <3> QED  BY <2>3, <3>1
  <2> QED  BY <2>2, <2>3
<1>6. CASE connectToServerHost(c)
  <2>1. clients[c].at \in RECORDS
    BY <1>6, ClientNames DEF connectToServerHost, At
  <2>2. CASE records' = freeCacheRecord(clients[c].at) /\ servers' = servers
             /\ clients'[c].pc = "exit"
    BY <1>1, <1>6, <2>1, <2>2, FreedRecord, ConnectEffect DEF AloneRecord
  <2>3. CASE records' = records
    BY <2>3
  <2> QED  BY <1>1, <1>6, <2>2, <2>3, ConnectEffect
<1>7. CASE attach(c)
  BY <1>7, AttachRecord DEF AloneRecord, KeepsNode
<1>8. CASE writeToClient(c)
  <2>1. clients[c].record \in RECORDS
    BY <1>8, ClientNames DEF writeToClient
  <2>2. CASE ~records[clients[c].record].server_alive /\ ~records[clients[c].record].full
    <3>1. records' = freeCacheRecord(clients[c].record)
      BY <1>8, <2>2 DEF writeToClient
    <3> QED  BY <1>1, <1>8, <2>1, <2>2, <3>1, FreedRecord DEF AloneRecord
  <2>3. CASE ~(~records[clients[c].record].server_alive /\ ~records[clients[c].record].full)
    BY <1>8, <2>3 DEF writeToClient
  <2> QED  BY <2>2, <2>3
<1>9. CASE readToken(c)
  <2>1. clients[c].record \in RECORDS  BY <1>1, <1>9, ReadTokenEffect
  <2> QED  BY <1>1, <1>9, <2>1, TokenRecord DEF AloneRecord, KeepsNode
<1> QED  BY <1>2, <1>3, <1>4, <1>5, <1>6, <1>7, <1>8, <1>9 DEF RecordMove

LEMMA ServerKeepsNodes ==
  ASSUME ProxyConstants, IInv, NEW r \in RECORDS, ServerMove(r) \/ announce(r),
         NEW q \in RECORDS
  PROVE  KeepsNode(q)
<1>1. TypeOK
  BY DEF IInv
<1>2. CASE serverThread(r) \/ serverStops(r) \/ writeToServer(r)
  BY <1>2 DEF serverThread, serverStops, writeToServer, KeepsNode
<1>3. CASE serverExits(r)
  BY <1>1, <1>3, ExitedRecord DEF AloneRecord, KeepsNode
<1>4. CASE readFromServer(r)
  BY <1>1, <1>4, ReadRecord DEF AloneRecord, KeepsNode
<1>5. CASE serverCloses(r)
  BY <1>1, <1>5, ClosedRecord DEF AloneRecord, KeepsNode
<1>6. CASE announce(r)
  BY <1>1, <1>6, AnnouncedRecord DEF AloneRecord, KeepsNode
<1> QED  BY <1>2, <1>3, <1>4, <1>5, <1>6 DEF ServerMove

(* A record that was allocated stays allocated, and a client that connects  *)
(* loses neither its record nor the right to start its server.              *)
LEMMA Grows ==
  ASSUME ProxyConstants, IInv, [Next]_vars, NEW r \in RECORDS, records[r].mem # "none"
  PROVE  records'[r].mem # "none"
<1>1. TypeOK
  BY DEF IInv
<1>2. CASE UNCHANGED vars \/ sigCatch \/ cleanUpNotify
  BY <1>2 DEF vars, sigCatch, cleanUpNotify
<1>3. CASE cleanUp
  BY <1>1, <1>3, DestroyedRecords
<1>4. ASSUME NEW c \in CLIENTS, ClientMove(c) \/ RecordMove(c) \/ readToken(c)
      PROVE  records'[r].mem # "none"
  BY <1>4, MemMoves
<1>5. ASSUME NEW q \in RECORDS, ServerMove(q) \/ announce(q)
      PROVE  records'[r].mem # "none"
  BY <1>5, ServerKeepsNodes DEF KeepsNode
<1> QED  BY <1>2, <1>3, <1>4, <1>5, StepKinds DEF MainStep

LEMMA ConnectingKept ==
  ASSUME ProxyConstants, IInv, [Next]_vars,
         NEW d \in CLIENTS, clients[d].pc = "connect", clients'[d].pc = "connect"
  PROVE  servers'[clients[d].at] = "none" /\ records'[clients[d].at].mem = "live"
<1> DEFINE r == clients[d].at
<1>1. /\ TypeOK /\ r \in RECORDS /\ servers[r] = "none" /\ records[r].mem = "live"
      /\ RecordOK(r) /\ OneConnector
  BY ClientNames DEF IInv, ClientOK
<1>2. CASE UNCHANGED vars \/ sigCatch \/ cleanUpNotify
  BY <1>1, <1>2 DEF vars, sigCatch, cleanUpNotify
<1>3. CASE cleanUp
  <2>1. Stopped' /\ main' = "exited" /\ clients'[d].pc = "connect"
    BY <1>3, StoppedStep DEF cleanUp
  <2> QED  BY <2>1 DEF Stopped
<1>4. ASSUME NEW c \in CLIENTS, ClientMove(c) \/ RecordMove(c) \/ readToken(c)
      PROVE  servers'[r] = "none" /\ records'[r].mem = "live"
  <2>1. ~(c = d /\ connectToServerHost(c))
    BY <1>1, ConnectEffect
  <2>2. connectToServerHost(c) => clients[c].pc = "connect"
    BY <1>1, ConnectEffect
  <2>3. clients[c].pc = "connect" /\ c # d => clients[c].at # r
    BY <1>1 DEF OneConnector
  <2>4. records'[r].mem = "live"
    BY <1>1, <1>4, <2>1, <2>2, <2>3, MemMoves DEF RecordOK
  <2>5. servers'[r] = "none"
    <3>1. CASE servers' = servers  BY <1>1, <3>1
    <3>2. CASE /\ clients[c].pc = "connect" /\ clients'[c].pc = "attach"
               /\ servers' = [servers EXCEPT ![clients[c].at] = "created"]
      <4>1. c # d  BY <3>2
      <4>2. servers \in [RECORDS -> ServerPCs]  BY <1>1 DEF TypeOK
      <4> QED  BY <1>1, <2>3, <3>2, <4>1, <4>2
    <3> QED  BY <1>4, <3>1, <3>2, ClientPaths
  <2> QED  BY <2>4, <2>5
<1>5. ASSUME NEW q \in RECORDS, ServerMove(q) \/ announce(q)
      PROVE  servers'[r] = "none" /\ records'[r].mem = "live"
  <2>1. r # q /\ servers'[r] = servers[r]
    BY <1>1, <1>5, ServerPaths
  <2>2. records'[r].mem = records[r].mem
    BY <1>1, <1>5, ServerKeepsNodes DEF KeepsNode
  <2> QED  BY <1>1, <2>1, <2>2
<1> QED  BY <1>2, <1>3, <1>4, <1>5, StepKinds DEF MainStep

-----------------------------------------------------------------------------
(***************************************************************************)
(* What the threads say about themselves.                                  *)
(***************************************************************************)
(* cache_list->mutex has one holder, who is looking at a node or has just   *)
(* found its record.                                                        *)
LEMMA MutexMoves ==
  ASSUME ProxyConstants, IInv, NEW c \in CLIENTS,
         ClientMove(c) \/ RecordMove(c) \/ readToken(c)
  PROVE  \/ /\ list_mutex' = list_mutex
            /\ (clients'[c].pc \in {"visit", "check"} <=> clients[c].pc \in {"visit", "check"})
         \/ /\ list_mutex = c /\ list_mutex' = Nil /\ clients'[c].pc \notin {"visit", "check"}
         \/ /\ list_mutex = Nil /\ list_mutex' = c /\ clients'[c].pc = "visit"
            /\ lockList(c)
<1>1. TypeOK /\ Loop("poll") \in {"poll", "exit"}
      /\ (clients[c].pc \in {"visit", "check"} <=> list_mutex = c)
  BY LoopValues, ClientNames DEF IInv, ClientOK
<1>2. /\ clients[c].pc \in {"check", "compare"} => clients[c].record \in RECORDS
      /\ clients[c].pc = "attach" => clients[c].at \in RECORDS
      /\ clients[c].events => clients[c].record \in RECORDS
  BY ClientNames
<1>3. CASE \/ acceptNewClient(c) \/ disconnectClient(c) \/ \E u \in URLS : readRequest(c, u)
           \/ clientThread(c) \/ clientStops(c) \/ clientExits(c) \/ compareIndex(c)
  <2>1. list_mutex' = list_mutex
    BY <1>3 DEF acceptNewClient, disconnectClient, readRequest, clientThread, clientStops,
                clientExits, compareIndex
  <2>2. compareIndex(c) => clients[c].pc = "compare"
    BY DEF compareIndex, At
  <2>3. clients'[c].pc \notin {"visit", "check"} /\ clients[c].pc \notin {"visit", "check"}
    BY <1>1, <1>2, <1>3, <2>2, AcceptEffect, StopEffect, ReadRequestEffect, ClientThreadEffect,
       ClientExitsEffect, CompareEffect
  <2> QED  BY <2>1, <2>3
<1>4. CASE lockList(c)
  <2>1. list_mutex = Nil /\ list_mutex' = c
    BY <1>4 DEF lockList
  <2> QED  BY <1>1, <1>4, <2>1, LockListEffect
<1>5. CASE visitOther(c) \/ checkResponse(c) \/ \E r \in RECORDS : addRecord(c, r)
  <2>1. list_mutex' = Nil
    BY <1>5 DEF visitOther, checkResponse, addRecord
  <2>2. checkResponse(c) => clients[c].pc = "check"
    BY DEF checkResponse, At
  <2>3. clients'[c].pc \notin {"visit", "check"} /\ clients[c].pc \in {"visit", "check"}
    BY <1>1, <1>2, <1>5, <2>2, VisitOtherEffect, CheckResponseEffect, AddRecordEffect
  <2> QED  BY <1>1, <2>1, <2>3
<1>6. CASE visitInvalid(c) \/ visitFound(c)
  <2>1. list_mutex' = list_mutex
    BY <1>6 DEF visitInvalid, visitFound
  <2>2. clients'[c].pc \in {"visit", "check"} /\ clients[c].pc \in {"visit", "check"}
    BY <1>1, <1>6, VisitInvalidEffect, VisitFoundEffect
  <2> QED  BY <2>1, <2>2
<1>7. CASE connectToServerHost(c) \/ attach(c) \/ writeToClient(c) \/ readToken(c)
  <2>1. list_mutex' = list_mutex
    BY <1>7 DEF connectToServerHost, attach, writeToClient, readToken
  <2>2. attach(c) => clients[c].pc = "attach"
    BY DEF attach, At
  <2>3. writeToClient(c) => clients[c].events
    BY DEF writeToClient
  <2>4. clients'[c].pc \notin {"visit", "check"} /\ clients[c].pc \notin {"visit", "check"}
    <3>1. CASE readToken(c)
      BY <1>1, <3>1, ReadTokenEffect
    <3>2. CASE ~readToken(c)
      BY <1>1, <1>2, <1>7, <2>2, <2>3, <3>2, ConnectEffect, AttachEffect, WriteEffect
    <3> QED  BY <3>1, <3>2
  <2> QED  BY <2>1, <2>4
<1> QED
  BY <1>3, <1>4, <1>5, <1>6, <1>7 DEF ClientMove, RecordMove

(* A step of another client's thread changes at most what is due to a       *)
(* client that has subscribed.                                              *)
LEMMA OthersMove ==
  ASSUME ProxyConstants, IInv, NEW c \in CLIENTS, NEW d \in CLIENTS, d # c,
         ClientMove(c) \/ RecordMove(c) \/ readToken(c)
  PROVE  /\ clients'[d].pc = clients[d].pc /\ KeepsWalk(d) /\ KeepsEvents(d)
         /\ clients'[d].record = clients[d].record /\ clients'[d].late = clients[d].late
         /\ clients'[d].write_response_index = clients[d].write_response_index
         /\ \/ clients'[d].due = clients[d].due
            \/ /\ readToken(c) /\ clients[d].record = clients[c].record
               /\ clients[d].record \in RECORDS /\ records'[clients[d].record].overtaken
<1>1. TypeOK
  BY DEF IInv
<1>2. CASE readToken(c)
  <2>1. clients[c].record \in RECORDS
    BY <1>1, <1>2, ReadTokenEffect
  <2>2. records'[clients[c].record].overtaken =
          (records[clients[c].record].overtaken \/ clients[c].due = 0)
    BY <1>1, <1>2, <2>1, TokenRecord
  <2> QED  BY <1>1, <1>2, <2>1, <2>2, ReadTokenEffect
<1>3. ASSUME clients'[d] = clients[d]
      PROVE  /\ clients'[d].pc = clients[d].pc /\ KeepsWalk(d) /\ KeepsEvents(d)
             /\ clients'[d].record = clients[d].record /\ clients'[d].late = clients[d].late
             /\ clients'[d].write_response_index = clients[d].write_response_index
             /\ clients'[d].due = clients[d].due
  BY <1>3 DEF KeepsWalk, KeepsEvents
<1>4. CASE ~readToken(c)
  <2>1. clients[c].pc \in {"check", "compare"} => clients[c].record \in RECORDS
    BY ClientNames
  <2>2. clients[c].pc = "attach" => clients[c].at \in RECORDS
    BY ClientNames
  <2>3. clients[c].events => clients[c].record \in RECORDS
    BY ClientNames
  <2>4. ClientMove(c) => Alone(c)
    <3>1. checkResponse(c) => clients[c].pc = "check"  BY DEF checkResponse, At
    <3>2. compareIndex(c) => clients[c].pc = "compare"  BY DEF compareIndex, At
    <3> QED
      BY <1>1, <2>1, <3>1, <3>2, AcceptEffect, StopEffect, ReadRequestEffect,
         ClientThreadEffect, ClientExitsEffect, LockListEffect, VisitOtherEffect,
         CheckResponseEffect, CompareEffect DEF ClientMove
  <2>5. RecordMove(c) => Alone(c)
    <3>1. attach(c) => clients[c].pc = "attach"  BY DEF attach, At
    <3>2. writeToClient(c) => clients[c].events  BY DEF writeToClient
    <3> QED
      BY <1>1, <2>2, <2>3, <3>1, <3>2, VisitInvalidEffect, VisitFoundEffect,
         AddRecordEffect, ConnectEffect, AttachEffect, WriteEffect DEF RecordMove
  <2> QED  BY <1>3, <1>4, <2>4, <2>5 DEF Alone
<1> QED  BY <1>2, <1>4

LEMMA OtherClientOK ==
  ASSUME ProxyConstants, IInv, [Next]_vars, NEW c \in CLIENTS, NEW d \in CLIENTS, d # c,
         ClientMove(c) \/ RecordMove(c) \/ readToken(c)
  PROVE  ClientOK(d)'
<1>1. ClientOK(d) /\ clients[d].record \in RECORDS \cup {Nil}
      /\ clients[d].at \in RECORDS \cup {Nil} /\ Nil \notin RECORDS /\ Nil \notin CLIENTS
  BY ClientNames DEF ClientType, ProxyConstants
<1>2. /\ clients'[d].pc = clients[d].pc /\ clients'[d].at = clients[d].at
      /\ clients'[d].prev = clients[d].prev /\ clients'[d].events = clients[d].events
      /\ clients'[d].record = clients[d].record /\ clients'[d].late = clients[d].late
      /\ clients'[d].write_response_index = clients[d].write_response_index
      /\ clients'[d].due = clients[d].due \/ clients[d].record # Nil
  BY <1>1, OthersMove DEF KeepsWalk, KeepsEvents
<1>3. clients[d].pc \in {"visit", "check"} <=> list_mutex' = d
  BY <1>1, MutexMoves DEF ClientOK
<1>4. clients[d].record # Nil => records'[clients[d].record].mem # "none"
  BY <1>1, Grows DEF ClientOK
<1>5. clients[d].pc \in {"relock", "connect", "attach"} => records'[clients[d].at].mem # "none"
  BY <1>1, Grows DEF ClientOK
<1>6. clients[d].pc = "connect" =>
        servers'[clients[d].at] = "none" /\ records'[clients[d].at].mem = "live"
  BY <1>2, ConnectingKept
<1> QED  BY <1>1, <1>2, <1>3, <1>4, <1>5, <1>6 DEF ClientOK

LEMMA SelfClientOK ==
  ASSUME ProxyConstants, IInv, [Next]_vars, NEW c \in CLIENTS,
         ClientMove(c) \/ RecordMove(c) \/ readToken(c)
  PROVE  ClientOK(c)'
<1>1. /\ TypeOK /\ ClientOK(c) /\ clients[c].record \in RECORDS \cup {Nil}
      /\ clients[c].at \in RECORDS \cup {Nil} /\ Nil \notin RECORDS /\ Nil \notin CLIENTS
      /\ Loop("poll") \in {"poll", "exit"}
  BY ClientNames, LoopValues DEF IInv, ClientType, ProxyConstants
<1>2. clients'[c].pc \in {"visit", "check"} <=> list_mutex' = c
  BY <1>1, MutexMoves DEF ClientOK
<1>3. \A r \in RECORDS : records[r].mem # "none" => records'[r].mem # "none"
  BY Grows
<1>4. SUFFICES /\ clients'[c].record # Nil =>
                    /\ clients'[c].pc \in {"poll", "check", "compare", "exit"}
                    /\ records'[clients'[c].record].mem # "none"
               /\ clients'[c].record = Nil =>
                    /\ ~clients'[c].events /\ clients'[c].due = 0 /\ ~clients'[c].late
                    /\ clients'[c].write_response_index = 0
               /\ clients'[c].pc \in {"check", "compare"} => clients'[c].record # Nil
               /\ clients'[c].pc \in {"none", "created", "poll", "lock", "check", "compare"}
                    => clients'[c].at = Nil
               /\ clients'[c].pc # "visit" => clients'[c].prev = Nil
               /\ clients'[c].pc \in {"relock", "connect", "attach"} =>
                    clients'[c].at # Nil /\ records'[clients'[c].at].mem # "none"
               /\ clients'[c].pc = "connect" =>
                    servers'[clients'[c].at] = "none" /\ records'[clients'[c].at].mem = "live"
  BY <1>2, <1>4 DEF ClientOK
<1> USE DEF ClientOK, KeepsReading, KeepsEvents, KeepsWalk
<1>5. CASE acceptNewClient(c)
  BY <1>1, <1>3, <1>5, AcceptEffect
<1>6. CASE disconnectClient(c) \/ clientStops(c)
  BY <1>1, <1>3, <1>6, StopEffect
<1>7. CASE \E u \in URLS : readRequest(c, u)
  <2>1. PICK u \in URLS : readRequest(c, u)  BY <1>7
  <2>2. clients[c].record = Nil  BY <2>1 DEF readRequest
  <2> QED  BY <1>1, <1>3, <2>1, <2>2, ReadRequestEffect
<1>8. CASE clientThread(c)
  BY <1>1, <1>3, <1>8, ClientThreadEffect
<1>9. CASE clientExits(c)
  <2>1. /\ clients'[c].pc = "gone" /\ clients'[c].record = Nil /\ clients'[c].at = Nil
        /\ clients'[c].prev = Nil /\ ~clients'[c].events /\ clients'[c].due = 0
        /\ ~clients'[c].late /\ clients'[c].write_response_index = 0
    BY <1>1, <1>9, ClientExitsEffect DEF newClient
  <2> QED  BY <1>1, <2>1
<1>10. CASE lockList(c)
  BY <1>1, <1>3, <1>10, LockListEffect
<1>11. CASE visitOther(c)
  <2>1. records[clients[c].at].mem = "live"  BY <1>11 DEF visitOther
  <2> QED  BY <1>1, <1>3, <1>11, <2>1, VisitOtherEffect
<1>12. CASE checkResponse(c)
  <2>1. clients[c].pc = "check"  BY <1>12 DEF checkResponse, At
  <2>2. clients[c].record \in RECORDS  BY <2>1, ClientNames
  <2> QED  BY <1>1, <1>3, <1>12, <2>2, CheckResponseEffect
<1>13. CASE compareIndex(c)
  <2>1. clients[c].pc = "compare"  BY <1>13 DEF compareIndex, At
  <2>2. clients[c].record \in RECORDS  BY <2>1, ClientNames
  <2> QED  BY <1>1, <1>3, <1>13, <2>2, CompareEffect
<1>14. CASE visitInvalid(c)
  BY <1>1, <1>3, <1>14, VisitInvalidEffect
<1>15. CASE visitFound(c)
  <2>1. records[clients[c].at].mem = "live"  BY <1>15 DEF visitFound
  <2> QED  BY <1>1, <1>3, <1>15, <2>1, VisitFoundEffect
<1>16. CASE \E r \in RECORDS : addRecord(c, r)
  <2>1. PICK r \in RECORDS : addRecord(c, r)  BY <1>16
  <2>2. records[r].mem = "none" /\ servers' = servers  BY <2>1 DEF addRecord
  <2>3. servers'[r] = "none"  BY <2>2 DEF IInv, RecordOK
  <2>4. records'[r].mem = "live"  BY <1>1, <2>1, AddedRecord
  <2> QED  BY <1>1, <1>3, <2>1, <2>3, <2>4, AddRecordEffect
<1>17. CASE connectToServerHost(c)
  BY <1>1, <1>3, <1>17, ConnectEffect
<1>18. CASE attach(c)
  <2>1. clients[c].pc = "attach"  BY <1>18 DEF attach, At
  <2>2. clients[c].at \in RECORDS  BY <2>1, ClientNames
  <2> QED  BY <1>1, <1>3, <1>18, <2>1, <2>2, AttachEffect
<1>19. CASE writeToClient(c)
  <2>1. clients[c].record \in RECORDS  BY <1>19, ClientNames DEF writeToClient
  <2> QED  BY <1>1, <1>3, <1>19, <2>1, WriteEffect
<1>20. CASE readToken(c)
  BY <1>1, <1>3, <1>20, ReadTokenEffect
<1> QED
  BY <1>5, <1>6, <1>7, <1>8, <1>9, <1>10, <1>11, <1>12, <1>13, <1>14, <1>15, <1>16,
     <1>17, <1>18, <1>19, <1>20 DEF ClientMove, RecordMove

LEMMA ClientStep ==
  ASSUME ProxyConstants, IInv, [Next]_vars, NEW d \in CLIENTS
  PROVE  ClientOK(d)'
<1>1. ClientOK(d) /\ clients[d].record \in RECORDS \cup {Nil}
      /\ clients[d].at \in RECORDS \cup {Nil} /\ Nil \notin RECORDS
  BY ClientNames DEF ClientType
<1>2. \A r \in RECORDS : records[r].mem # "none" => records'[r].mem # "none"
  BY Grows
<1>3. clients[d].pc = "connect" /\ clients'[d].pc = "connect" =>
        servers'[clients[d].at] = "none" /\ records'[clients[d].at].mem = "live"
  BY ConnectingKept
<1>4. CASE UNCHANGED vars
  BY <1>1, <1>4 DEF vars, ClientOK
<1>5. CASE MainStep
  <2>1. clients' = clients /\ list_mutex' = list_mutex /\ servers' = servers
    BY <1>5 DEF MainStep, sigCatch, cleanUpNotify, cleanUp
  <2> QED  BY <1>1, <1>2, <1>3, <2>1 DEF ClientOK
<1>6. ASSUME NEW c \in CLIENTS, ClientMove(c) \/ RecordMove(c) \/ readToken(c)
      PROVE  ClientOK(d)'
  BY <1>6, SelfClientOK, OtherClientOK
<1>7. ASSUME NEW r \in RECORDS, ServerMove(r) \/ announce(r)
      PROVE  ClientOK(d)'
  <2>1. clients'[d].pc = clients[d].pc /\ list_mutex' = list_mutex
    BY <1>7, ServerPaths
  <2>2. CASE ServerMove(r)
    <3>1. clients' = clients
      BY <2>2 DEF ServerMove, serverThread, serverStops, serverExits, writeToServer,
                  readFromServer, serverCloses
    <3> QED  BY <1>1, <1>2, <1>3, <2>1, <3>1 DEF ClientOK
  <2>3. CASE announce(r)
    <3>1. /\ clients'[d].record = clients[d].record /\ KeepsWalk(d) /\ KeepsEvents(d)
          /\ clients'[d].late = clients[d].late
          /\ clients'[d].write_response_index = clients[d].write_response_index
          /\ clients[d].record # r => clients'[d].due = clients[d].due
      BY <2>3, AnnounceEffect DEF IInv, Subscribed
    <3> QED
      BY <1>1, <1>2, <1>3, <2>1, <3>1 DEF ClientOK, KeepsWalk, KeepsEvents
  <2> QED  BY <1>7, <2>2, <2>3
<1> QED  BY <1>4, <1>5, <1>6, <1>7, StepKinds

\* A new record has nobody who connects to its server.
LEMMA OneConnectorStep ==
  ASSUME ProxyConstants, IInv, [Next]_vars
  PROVE  OneConnector'
<1> SUFFICES ASSUME NEW d \in CLIENTS, NEW e \in CLIENTS, clients'[d].pc = "connect",
                    clients'[e].pc = "connect", clients'[d].at = clients'[e].at
             PROVE  d = e
  BY DEF OneConnector
<1>0. TypeOK /\ OneConnector
  BY DEF IInv
<1>1. \A x \in CLIENTS : clients[x].pc = "connect" =>
        clients[x].at \in RECORDS /\ records[clients[x].at].mem = "live"
  BY ClientNames DEF ClientOK
<1>2. CASE UNCHANGED vars \/ MainStep
  <2>1. clients' = clients
    BY <1>2 DEF vars, MainStep, sigCatch, cleanUpNotify, cleanUp
  <2> QED  BY <1>0, <2>1 DEF OneConnector
<1>3. ASSUME NEW c \in CLIENTS, ClientMove(c) \/ RecordMove(c) \/ readToken(c)
      PROVE  d = e
  <2>1. \A x \in CLIENTS : x # c =>
          clients'[x].pc = clients[x].pc /\ clients'[x].at = clients[x].at
    BY <1>3, OthersMove DEF KeepsWalk
  <2>2. CASE \E r \in RECORDS : addRecord(c, r)
    <3>1. PICK r \in RECORDS : addRecord(c, r)  BY <2>2
    <3>2. clients'[c].at = r  BY <1>0, <3>1, AddRecordEffect
    <3>3. records[r].mem = "none"  BY <3>1 DEF addRecord
    <3> QED  BY <1>0, <1>1, <2>1, <3>2, <3>3 DEF OneConnector
  <2>3. CASE ~\E r \in RECORDS : addRecord(c, r)
    <3>1. clients'[c].pc # "connect"
      <4>1. /\ clients[c].pc \in {"check", "compare"} => clients[c].record \in RECORDS
            /\ clients[c].pc = "attach" => clients[c].at \in RECORDS
            /\ clients[c].events => clients[c].record \in RECORDS
        BY ClientNames
      <4>2. /\ compareIndex(c) => clients[c].pc = "compare"
            /\ checkResponse(c) => clients[c].pc = "check"
            /\ attach(c) => clients[c].pc = "attach"
            /\ writeToClient(c) => clients[c].events
        BY DEF compareIndex, checkResponse, attach, writeToClient, At
      <4>3. CASE ClientMove(c)
        BY <1>0, <4>1, <4>2, <4>3, LoopValues, AcceptEffect, StopEffect, ReadRequestEffect,
           ClientThreadEffect, ClientExitsEffect, LockListEffect, VisitOtherEffect,
           CheckResponseEffect, CompareEffect DEF ClientMove
      <4>4. CASE RecordMove(c)
        BY <1>0, <2>3, <4>1, <4>2, <4>4, LoopValues, VisitInvalidEffect, VisitFoundEffect,
           ConnectEffect, AttachEffect, WriteEffect DEF RecordMove
      <4>5. CASE readToken(c)
        BY <1>0, <4>5, ReadTokenEffect
      <4> QED  BY <1>3, <4>3, <4>4, <4>5
    <3> QED  BY <1>0, <2>1, <3>1 DEF OneConnector
  <2> QED  BY <2>2, <2>3
<1>4. ASSUME NEW r \in RECORDS, ServerMove(r) \/ announce(r)
      PROVE  d = e
  <2>1. \A x \in CLIENTS : clients'[x].pc = clients[x].pc
    BY <1>4, ServerPaths
  <2>2. \A x \in CLIENTS : clients'[x].at = clients[x].at
    <3>1. CASE ServerMove(r)
      BY <3>1 DEF ServerMove, serverThread, serverStops, serverExits, writeToServer,
                  readFromServer, serverCloses
    <3>2. CASE announce(r)
      BY <1>0, <3>2, AnnounceEffect DEF KeepsWalk
    <3> QED  BY <1>4, <3>1, <3>2
  <2> QED  BY <1>0, <2>1, <2>2 DEF OneConnector
<1> QED  BY <1>2, <1>3, <1>4, StepKinds

-----------------------------------------------------------------------------
(***************************************************************************)
(* What a record says about its server.                                    *)
(***************************************************************************)
\* No field changes that RecordOK speaks of.
LEMMA RecordKept ==
  ASSUME NEW r \in RECORDS, RecordOK(r), KeepsNode(r), KeepsResponse(r),
         servers'[r] = servers[r], main' = main,
         records[r].mem = "none" => records'[r] = records[r]
  PROVE  RecordOK(r)'
BY DEF RecordOK, KeepsNode, KeepsResponse

LEMMA RecordClientStep ==
  ASSUME ProxyConstants, IInv, NEW c \in CLIENTS,
         ClientMove(c) \/ RecordMove(c) \/ readToken(c), NEW r \in RECORDS
  PROVE  RecordOK(r)'
<1>1. TypeOK /\ RecordOK(r) /\ main' = main /\ ClientOK(c)
      /\ records[r] \in RecordType
  BY ClientPaths DEF IInv, TypeOK
<1>2. CASE ClientMove(c)
  <2>1. records' = records /\ servers' = servers
    BY <1>2 DEF ClientMove, acceptNewClient, disconnectClient, readRequest, clientThread,
                clientStops, clientExits, lockList, visitOther, checkResponse, compareIndex
  <2> QED  BY <1>1, <2>1 DEF RecordOK
<1>3. CASE visitInvalid(c)
  <2>1. servers' = servers  BY <1>3 DEF visitInvalid
  <2>2. clients[c].at \in RECORDS  BY <1>1, <1>3, VisitInvalidEffect
  <2>3. CASE r = clients[c].at
    <3>1. records[r].mem \in {"invalid", "freed"}
      BY <1>3, <2>3 DEF visitInvalid
    <3>2. KeepsResponse(r) /\ records'[r].mem = "freed"
      BY <1>1, <1>3, <2>2, <2>3, VisitInvalidRecord
    <3> QED  BY <1>1, <2>1, <3>1, <3>2 DEF RecordOK, KeepsResponse
  <2>4. CASE r # clients[c].at
    <3>1. records'[r] = records[r]
      BY <1>1, <1>3, <2>2, <2>4, VisitInvalidRecord DEF AloneRecord
    <3> QED  BY <1>1, <2>1, <3>1 DEF RecordOK
  <2> QED  BY <2>3, <2>4
<1>4. CASE visitFound(c)
  <2>1. servers' = servers /\ records[clients[c].at].mem = "live"
    BY <1>4 DEF visitFound
  <2>2. CASE r = clients[c].at
    BY <1>1, <1>4, <2>1, <2>2, FoundRecord, RecordKept
  <2>3. CASE r # clients[c].at
    <3>1. records'[r] = records[r]  BY <1>4, <2>3, FoundRecord DEF AloneRecord
    <3> QED  BY <1>1, <2>1, <3>1 DEF RecordOK
  <2> QED  BY <2>2, <2>3
<1>5. CASE \E s \in RECORDS : addRecord(c, s)
  <2>1. PICK s \in RECORDS : addRecord(c, s)  BY <1>5
  <2>2. servers' = servers /\ records[s].mem = "none" /\ ~bad /\ clients[c].pc = "visit"
    BY <2>1 DEF addRecord, At
  <2>3. CASE r = s
    <3>1. /\ records'[r].mem = "live" /\ records'[r].response_index = 0
          /\ ~records'[r].full /\ records'[r].server_alive
      BY <1>1, <2>1, <2>3, AddedRecord
    <3>2. servers[r] = "none"
      BY <1>1, <2>2, <2>3 DEF RecordOK
    <3> QED  BY <2>2, <3>1, <3>2 DEF RecordOK
  <2>4. CASE r # s
    <3>1. records'[r].mem = records[r].mem /\ KeepsResponse(r)
      BY <1>1, <2>1, <2>4, AddedRecord
    <3>2. records[r].mem = "none" => records'[r] = records[r]
      <4>1. WalkOK(c)  BY <2>2 DEF IInv
      <4>2. records[r].mem = "none" => r # clients[c].prev
        BY <2>2, <4>1 DEF WalkOK, InUse, ProxyConstants, Nil
      <4> QED  BY <2>1, <2>4, <4>2 DEF addRecord
    <3> QED  BY <1>1, <2>2, <3>1, <3>2 DEF RecordOK, KeepsResponse
  <2> QED  BY <2>3, <2>4
<1>6. CASE connectToServerHost(c)
  <2>1. clients[c].pc = "connect"  BY <1>1, <1>6, ConnectEffect
  <2>2. /\ clients[c].at \in RECORDS /\ servers[clients[c].at] = "none"
        /\ records[clients[c].at].mem = "live"
    BY <2>1, ClientNames DEF ClientOK
  <2>3. CASE servers' = servers /\ records' = freeCacheRecord(clients[c].at)
    <3>1. CASE r = clients[c].at
      <4>1. /\ records'[r].mem = "invalid" /\ records'[r].response_index = 0
            /\ records'[r].full = records[r].full
            /\ records'[r].server_alive = records[r].server_alive
        BY <1>1, <2>2, <2>3, <3>1, FreedRecord
      <4> QED  BY <1>1, <2>2, <2>3, <3>1, <4>1 DEF RecordOK
    <3>2. CASE r # clients[c].at
      <4>1. records'[r] = records[r]
        BY <1>1, <2>2, <2>3, <3>2, FreedRecord DEF AloneRecord
      <4> QED  BY <1>1, <2>3, <4>1 DEF RecordOK
    <3> QED  BY <3>1, <3>2
  <2>4. CASE records' = records /\ servers' = [servers EXCEPT ![clients[c].at] = "created"]
    <3>1. servers'[r] = IF r = clients[c].at THEN "created" ELSE servers[r]
      BY <1>1, <2>4 DEF TypeOK
    <3> QED  BY <1>1, <2>2, <2>4, <3>1 DEF RecordOK
  <2> QED  BY <1>1, <1>6, <2>3, <2>4, ConnectEffect
<1>7. CASE attach(c)
  <2>1. servers' = servers  BY <1>7 DEF attach
  <2>2. clients[c].pc = "attach" /\ clients[c].at \in RECORDS
    BY <1>7, AttachRecord
  <2>3. records[clients[c].at].mem # "none"  BY <1>1, <2>2 DEF ClientOK
  <2>4. CASE r = clients[c].at
    BY <1>1, <1>7, <2>1, <2>3, <2>4, AttachRecord, RecordKept
  <2>5. CASE r # clients[c].at
    <3>1. records'[r] = records[r]  BY <1>7, <2>5, AttachRecord DEF AloneRecord
    <3> QED  BY <1>1, <2>1, <3>1 DEF RecordOK
  <2> QED  BY <2>4, <2>5
<1>8. CASE writeToClient(c)
  <2>1. servers' = servers  BY <1>8 DEF writeToClient
  <2>2. clients[c].record \in RECORDS
    BY <1>8, ClientNames DEF writeToClient
  <2>3. CASE ~records[clients[c].record].server_alive /\ ~records[clients[c].record].full
    <3>1. records' = freeCacheRecord(clients[c].record)
      BY <1>8, <2>3 DEF writeToClient
    <3>2. CASE r = clients[c].record
      <4>1. /\ records'[r].mem = "invalid" /\ records'[r].response_index = 0
            /\ records'[r].full = records[r].full
            /\ records'[r].server_alive = records[r].server_alive
        BY <1>1, <2>2, <3>1, <3>2, FreedRecord
      <4> QED  BY <1>1, <2>1, <2>3, <3>2, <4>1 DEF RecordOK
    <3>3. CASE r # clients[c].record
      <4>1. records'[r] = records[r]
        BY <1>1, <2>2, <3>1, <3>3, FreedRecord DEF AloneRecord
      <4> QED  BY <1>1, <2>1, <4>1 DEF RecordOK
    <3> QED  BY <3>2, <3>3
  <2>4. CASE ~(~records[clients[c].record].server_alive /\ ~records[clients[c].record].full)
    <3>1. records' = records  BY <1>8, <2>4 DEF writeToClient
    <3> QED  BY <1>1, <2>1, <3>1 DEF RecordOK
  <2> QED  BY <2>3, <2>4
<1>9. CASE readToken(c)
  <2>1. servers' = servers  BY <1>9 DEF readToken
  <2>2. clients[c].record \in RECORDS  BY <1>1, <1>9, ReadTokenEffect
  <2>3. records[clients[c].record].mem # "none"
    BY <1>1, <2>2, ClientNames DEF ClientOK
  <2>4. CASE r = clients[c].record
    BY <1>1, <1>9, <2>1, <2>2, <2>3, <2>4, TokenRecord, RecordKept
  <2>5. CASE r # clients[c].record
    <3>1. records'[r] = records[r]
      BY <1>1, <1>9, <2>2, <2>5, TokenRecord DEF AloneRecord
    <3> QED  BY <1>1, <2>1, <3>1 DEF RecordOK
  <2> QED  BY <2>4, <2>5
<1> QED
  BY <1>2, <1>3, <1>4, <1>5, <1>6, <1>7, <1>8, <1>9 DEF RecordMove

LEMMA RecordServerStep ==
  ASSUME ProxyConstants, IInv, NEW q \in RECORDS, ServerMove(q) \/ announce(q),
         NEW r \in RECORDS
  PROVE  RecordOK(r)'
<1>1. TypeOK /\ RecordOK(r) /\ RecordOK(q) /\ main' = main /\ records[q] \in RecordType
      /\ Loop("poll") \in {"poll", "exit"} /\ Loop("request") \in {"request", "exit"}
  BY ServerPaths, LoopValues DEF IInv, TypeOK
<1>2. KeepsNode(r)
  BY ServerKeepsNodes
<1>3. CASE r # q
  <2>1. servers'[r] = servers[r]
    BY <1>3, ServerPaths
  <2>2. records'[r] = records[r]
    <3>1. CASE serverThread(q) \/ serverStops(q) \/ writeToServer(q)
      BY <3>1 DEF serverThread, serverStops, writeToServer
    <3>2. CASE serverExits(q) \/ readFromServer(q) \/ serverCloses(q) \/ announce(q)
      BY <1>1, <1>3, <3>2, ExitedRecord, ReadRecord, ClosedRecord, AnnouncedRecord
      DEF AloneRecord
    <3> QED  BY <3>1, <3>2 DEF ServerMove
  <2> QED  BY <1>1, <2>1, <2>2 DEF RecordOK
<1>4. CASE r = q
  <2>1. servers[r] # "none" /\ records[r].mem # "none" /\ records'[r].mem = records[r].mem
    BY <1>1, <1>2, <1>4, ServerPaths DEF RecordOK, KeepsNode
  <2>2. CASE serverThread(r)
    <3>1. servers[r] = "created" /\ servers'[r] = Loop("request") /\ records' = records
      BY <1>1, <2>2 DEF serverThread, ServerAt, TypeOK
    <3> QED  BY <1>1, <2>1, <3>1 DEF RecordOK
  <2>3. CASE serverStops(r)
    <3>1. servers[r] \in {"request", "poll"} /\ servers'[r] = "exit" /\ records' = records
      BY <1>1, <2>3 DEF serverStops, ServerAt, TypeOK
    <3> QED  BY <1>1, <2>1, <3>1 DEF RecordOK
  <2>4. CASE writeToServer(r)
    <3>1. servers[r] = "request" /\ servers'[r] \in {"poll", "exit", "last"} /\ records' = records
      BY <1>1, <2>4 DEF writeToServer, ServerAt, TypeOK
    <3> QED  BY <1>1, <2>1, <3>1 DEF RecordOK
  <2>5. CASE serverExits(r)
    <3>1. servers[r] = "exit" /\ servers'[r] = "gone"
      BY <1>1, <2>5 DEF serverExits, ServerAt, TypeOK
    <3>2. /\ ~records'[r].server_alive /\ records'[r].full = records[r].full
          /\ records'[r].response_index = records[r].response_index
      BY <1>1, <2>5, ExitedRecord
    <3> QED  BY <1>1, <2>1, <3>1, <3>2 DEF RecordOK
  <2>6. CASE readFromServer(r)
    <3>1. servers[r] = "poll" /\ servers'[r] = "announce"
      BY <1>1, <2>6 DEF readFromServer, ServerAt, TypeOK
    <3>2. /\ records'[r].server_alive = records[r].server_alive
          /\ records'[r].full = records[r].full
      BY <1>1, <2>6, ReadRecord
    <3> QED  BY <1>1, <2>1, <3>1, <3>2 DEF RecordOK
  <2>7. CASE serverCloses(r)
    <3>1. servers[r] = "poll" /\ servers'[r] = "last"
      BY <1>1, <2>7 DEF serverCloses, ServerAt, TypeOK
    <3>2. /\ records'[r].server_alive = records[r].server_alive
          /\ records'[r].response_index = records[r].response_index
      BY <1>1, <2>7, ClosedRecord
    <3> QED  BY <1>1, <2>1, <3>1, <3>2 DEF RecordOK
  <2>8. CASE announce(r)
    <3>1. \/ servers[r] = "announce" /\ servers'[r] \in {"poll", "exit"}
          \/ servers[r] = "last" /\ servers'[r] = "exit"
      BY <1>1, <2>8 DEF announce, ServerAt, TypeOK
    <3>2. KeepsResponse(r)
      BY <1>1, <2>8, AnnouncedRecord
    <3> QED  BY <1>1, <2>1, <3>1, <3>2 DEF RecordOK, KeepsResponse
  <2> QED  BY <1>4, <2>2, <2>3, <2>4, <2>5, <2>6, <2>7, <2>8 DEF ServerMove
<1> QED  BY <1>3, <1>4

LEMMA RecordStep ==
  ASSUME ProxyConstants, IInv, [Next]_vars, NEW r \in RECORDS
  PROVE  RecordOK(r)'
<1>1. TypeOK /\ RecordOK(r)
  BY DEF IInv
<1>2. CASE UNCHANGED vars \/ sigCatch \/ cleanUpNotify
  BY <1>1, <1>2 DEF vars, sigCatch, cleanUpNotify, RecordOK
<1>3. CASE cleanUp
  <2>1. servers' = servers /\ main' = "exited"
    BY <1>3 DEF cleanUp
  <2>2. /\ records'[r].mem = "none" => records'[r] = records[r]
        /\ records[r].mem = "none" => records'[r] = records[r]
        /\ KeepsResponse(r)
    BY <1>1, <1>3, DestroyedRecords
  <2> QED  BY <1>1, <2>1, <2>2 DEF RecordOK, KeepsResponse
<1>4. ASSUME NEW c \in CLIENTS, ClientMove(c) \/ RecordMove(c) \/ readToken(c)
      PROVE  RecordOK(r)'
  BY <1>4, RecordClientStep
<1>5. ASSUME NEW q \in RECORDS, ServerMove(q) \/ announce(q)
      PROVE  RecordOK(r)'
  BY <1>5, RecordServerStep
<1> QED  BY <1>2, <1>3, <1>4, <1>5, StepKinds DEF MainStep

-----------------------------------------------------------------------------
(***************************************************************************)
(* The list.                                                               *)
(***************************************************************************)
\* A bad access ends the behaviour.
LEMMA NotBadBefore ==
  ASSUME [Next]_vars, ~bad'
  PROVE  ~bad
<1>1. CASE UNCHANGED vars
  BY <1>1 DEF vars
<1>2. CASE MainStep
  BY <1>2 DEF MainStep, sigCatch, cleanUpNotify, cleanUp
<1>3. ASSUME NEW c \in CLIENTS, ClientMove(c) \/ RecordMove(c) \/ readToken(c)
      PROVE  ~bad
  <2>1. CASE ClientMove(c)
    BY <2>1 DEF ClientMove, At, acceptNewClient, disconnectClient, readRequest, clientThread,
                clientStops, clientExits, lockList, visitOther, checkResponse, compareIndex
  <2>2. CASE RecordMove(c) \/ readToken(c)
    BY <2>2 DEF RecordMove, At, visitInvalid, visitFound, addRecord, connectToServerHost,
                attach, writeToClient, readToken
  <2> QED  BY <1>3, <2>1, <2>2
<1>4. ASSUME NEW r \in RECORDS, ServerMove(r) \/ announce(r)
      PROVE  ~bad
  BY <1>4 DEF ServerMove, ServerAt, serverThread, serverStops, serverExits, writeToServer,
              readFromServer, serverCloses, announce
<1> QED  BY <1>1, <1>2, <1>3, <1>4, StepKinds

\* Steps other than addRecord link nothing and bring no record into use.
LEMMA NodesKept ==
  ASSUME ProxyConstants, IInv, [Next]_vars,
         ~\E c \in CLIENTS, s \in RECORDS : addRecord(c, s)
  PROVE  /\ head' = head
         /\ \A r \in RECORDS :
              /\ records'[r].next = records[r].next
              /\ InUse(r)' => InUse(r) \/ bad'
              /\ records'[r].mem = "live" =>
                   records[r].mem = "live" /\ records'[r].url = records[r].url
<1>1. TypeOK
  BY DEF IInv
<1>2. CASE UNCHANGED vars \/ sigCatch \/ cleanUpNotify
  BY <1>2 DEF vars, sigCatch, cleanUpNotify, InUse
<1>3. CASE cleanUp
  <2>1. head' = head  BY <1>3 DEF cleanUp
  <2>2. \A r \in RECORDS : records'[r].mem \in {"none", "freed"}
                           /\ records'[r].next = records[r].next
    BY <1>1, <1>3, DestroyedRecords
  <2> QED  BY <2>1, <2>2 DEF InUse
<1>4. ASSUME NEW c \in CLIENTS, ClientMove(c) \/ RecordMove(c) \/ readToken(c)
      PROVE  /\ head' = head
             /\ \A r \in RECORDS :
                  /\ records'[r].next = records[r].next
                  /\ InUse(r)' => InUse(r) \/ bad'
                  /\ records'[r].mem = "live" =>
                       records[r].mem = "live" /\ records'[r].url = records[r].url
  <2>1. head' = head
    <3>1. CASE ClientMove(c)
      BY <3>1 DEF ClientMove, acceptNewClient, disconnectClient, readRequest, clientThread,
                  clientStops, clientExits, lockList, visitOther, checkResponse, compareIndex
    <3>2. CASE RecordMove(c) \/ readToken(c)
      BY <3>2 DEF RecordMove, visitInvalid, visitFound, connectToServerHost, attach,
                  writeToClient, readToken
    <3> QED  BY <1>4, <3>1, <3>2
  <2>2. ASSUME NEW r \in RECORDS
        PROVE  /\ records'[r].next = records[r].next
               /\ InUse(r)' => InUse(r) \/ bad'
               /\ records'[r].mem = "live" =>
                    records[r].mem = "live" /\ records'[r].url = records[r].url
    <3> USE DEF InUse
    <3>1. CASE records'[r] = records[r] \/ KeepsNode(r)
      BY <3>1 DEF KeepsNode
    <3>2. CASE ClientMove(c)
      <4>1. records' = records
        BY <3>2 DEF ClientMove, acceptNewClient, disconnectClient, readRequest, clientThread,
                    clientStops, clientExits, lockList, visitOther, checkResponse, compareIndex
      <4> QED  BY <3>1, <4>1
    <3>3. CASE visitInvalid(c)
      <4>1. clients[c].at \in RECORDS  BY <1>1, <3>3, VisitInvalidEffect
      <4>2. CASE r = clients[c].at
        BY <1>1, <3>3, <4>1, <4>2, VisitInvalidRecord
      <4>3. CASE r # clients[c].at
        BY <1>1, <3>1, <3>3, <4>1, <4>3, VisitInvalidRecord DEF AloneRecord
      <4> QED  BY <4>2, <4>3
    <3>4. CASE visitFound(c)
      BY <3>1, <3>4, FoundRecord DEF AloneRecord
    <3>5. CASE connectToServerHost(c)
      <4>1. clients[c].pc = "connect"  BY <1>1, <3>5, ConnectEffect
      <4>2. clients[c].at \in RECORDS /\ records[clients[c].at].mem = "live"
        BY <4>1, ClientNames DEF ClientOK
      <4>3. CASE records' = freeCacheRecord(clients[c].at)
        <5>1. r # clients[c].at => records'[r] = records[r]
          BY <1>1, <4>2, <4>3, FreedRecord DEF AloneRecord
        <5>2. r = clients[c].at =>
                records'[r].mem = "invalid" /\ records'[r].next = records[r].next
          BY <1>1, <4>2, <4>3, FreedRecord
        <5> QED  BY <3>1, <4>2, <5>1, <5>2
      <4>4. CASE records' = records
        BY <3>1, <4>4
      <4> QED  BY <1>1, <3>5, <4>3, <4>4, ConnectEffect
    <3>6. CASE attach(c)
      BY <3>1, <3>6, AttachRecord DEF AloneRecord
    <3>7. CASE writeToClient(c)
      <4>1. bad' = Freed(clients[c].record)  BY <3>7 DEF writeToClient, Touch
      <4>2. clients[c].record \in RECORDS /\ records[clients[c].record].mem # "none"
        BY <3>7, ClientNames DEF writeToClient, ClientOK
      <4>3. bad' \/ records[clients[c].record].mem \in {"live", "invalid"}
        BY <1>1, <4>1, <4>2, ClientNames DEF Freed, TypeOK, RecordType
      <4>4. CASE ~records[clients[c].record].server_alive /\ ~records[clients[c].record].full
        <5>1. records' = freeCacheRecord(clients[c].record)
          BY <3>7, <4>4 DEF writeToClient
        <5>2. r # clients[c].record => records'[r] = records[r]
          BY <1>1, <4>2, <5>1, FreedRecord DEF AloneRecord
        <5>3. r = clients[c].record =>
                records'[r].mem = "invalid" /\ records'[r].next = records[r].next
          BY <1>1, <4>2, <5>1, FreedRecord
        <5> QED  BY <3>1, <4>3, <5>2, <5>3
      <4>5. CASE ~(~records[clients[c].record].server_alive /\ ~records[clients[c].record].full)
        <5>1. records' = records  BY <3>7, <4>5 DEF writeToClient
        <5> QED  BY <3>1, <5>1
      <4> QED  BY <4>4, <4>5
    <3>8. CASE readToken(c)
      <4>1. clients[c].record \in RECORDS  BY <1>1, <3>8, ReadTokenEffect
      <4> QED  BY <1>1, <3>1, <3>8, <4>1, TokenRecord DEF AloneRecord
    <3> QED  BY <1>4, <3>2, <3>3, <3>4, <3>5, <3>6, <3>7, <3>8 DEF RecordMove
  <2> QED  BY <2>1, <2>2
<1>5. ASSUME NEW q \in RECORDS, ServerMove(q) \/ announce(q)
      PROVE  /\ head' = head
             /\ \A r \in RECORDS :
                  /\ records'[r].next = records[r].next
                  /\ InUse(r)' => InUse(r) \/ bad'
                  /\ records'[r].mem = "live" =>
                       records[r].mem = "live" /\ records'[r].url = records[r].url
  <2>1. head' = head  BY <1>5, ServerPaths
  <2>2. \A r \in RECORDS : KeepsNode(r)  BY <1>5, ServerKeepsNodes
  <2> QED  BY <2>1, <2>2 DEF KeepsNode, InUse
<1> QED  BY <1>2, <1>3, <1>4, <1>5, StepKinds DEF MainStep

\* Records come into the list in order.
LEMMA NewIsLast ==
  ASSUME ProxyConstants, IInv, NEW c \in CLIENTS, NEW r \in RECORDS, addRecord(c, r),
         NEW q \in RECORDS, records[q].mem # "none"
  PROVE  q < r
<1>1. records[r].mem = "none"  BY DEF addRecord
<1>2. ~(r < q)  BY <1>1 DEF IInv, Alloc
<1> QED  BY <1>1, <1>2 DEF ProxyConstants

LEMMA AllocStep ==
  ASSUME ProxyConstants, IInv, [Next]_vars
  PROVE  Alloc'
<1> SUFFICES ASSUME NEW q \in RECORDS, NEW r \in RECORDS, q < r, records'[r].mem # "none"
             PROVE  records'[q].mem # "none"
  BY DEF Alloc
<1>1. TypeOK /\ Alloc
  BY DEF IInv
<1>2. CASE records[r].mem # "none"
  BY <1>1, <1>2, Grows DEF Alloc
<1>3. CASE records[r].mem = "none"
  <2>1. CASE UNCHANGED vars \/ sigCatch \/ cleanUpNotify
    BY <1>3, <2>1 DEF vars, sigCatch, cleanUpNotify
  <2>2. CASE cleanUp
    BY <1>1, <1>3, <2>2, DestroyedRecords
  <2>3. ASSUME NEW c \in CLIENTS, ClientMove(c) \/ RecordMove(c) \/ readToken(c)
        PROVE  records'[q].mem # "none"
    <3>1. addRecord(c, r)
      <4>1. clients[c].pc = "connect" => records[clients[c].at].mem = "live"
        BY ClientNames DEF ClientOK
      <4>2. writeToClient(c) => records[clients[c].record].mem # "none"
        BY ClientNames DEF writeToClient, ClientOK
      <4> QED  BY <1>3, <2>3, <4>1, <4>2, MemMoves
    <3>2. records[q].mem # "none"  BY <3>1 DEF addRecord
    <3> QED  BY <3>2, Grows
  <2>4. ASSUME NEW s \in RECORDS, ServerMove(s) \/ announce(s)
        PROVE  records'[q].mem # "none"
    BY <1>3, <2>4, ServerKeepsNodes DEF KeepsNode
  <2> QED  BY <2>1, <2>2, <2>3, <2>4, StepKinds DEF MainStep
<1> QED  BY <1>2, <1>3

LEMMA OneRecordStep ==
  ASSUME ProxyConstants, IInv, [Next]_vars
  PROVE  OneRecordPerUrl'
<1> SUFFICES ASSUME NEW q \in RECORDS, NEW r \in RECORDS, records'[q].mem = "live",
                    records'[r].mem = "live", records'[q].url = records'[r].url
             PROVE  q = r
  BY DEF OneRecordPerUrl
<1>1. TypeOK /\ OneRecordPerUrl
  BY DEF IInv
<1>2. ASSUME NEW c \in CLIENTS, NEW s \in RECORDS, addRecord(c, s)
      PROVE  q = r
  <2>1. ~bad /\ clients[c].pc = "visit" /\ clients[c].at = Nil  BY <1>2 DEF addRecord, At
  <2>2. WalkOK(c)  BY <2>1 DEF IInv
  <2>3. \A p \in RECORDS : records[p].mem = "live" => records[p].url # clients[c].url
    BY <2>1, <2>2 DEF WalkOK, InUse
  <2>4. records'[s].url = clients[c].url  BY <1>1, <1>2, AddedRecord
  <2>5. \A p \in RECORDS : p # s =>
          records'[p].mem = records[p].mem /\ records'[p].url = records[p].url
    BY <1>1, <1>2, AddedRecord
  <2> QED  BY <1>1, <2>3, <2>4, <2>5 DEF OneRecordPerUrl
<1>3. CASE ~\E c \in CLIENTS, s \in RECORDS : addRecord(c, s)
  <2>1. \A p \in RECORDS : records'[p].mem = "live" =>
          records[p].mem = "live" /\ records'[p].url = records[p].url
    BY <1>3, NodesKept
  <2> QED  BY <1>1, <2>1 DEF OneRecordPerUrl
<1> QED  BY <1>2, <1>3

\* A node that is remembered by whoever walks stays in use.
LEMMA PrevKept ==
  ASSUME ProxyConstants, IInv, [Next]_vars, NEW d \in CLIENTS,
         clients[d].pc = "visit", clients'[d].pc = "visit", ~visitInvalid(d),
         NEW p \in RECORDS, InUse(p)
  PROVE  InUse(p)'
<1> USE DEF InUse
<1>1. TypeOK /\ list_mutex = d
  BY ClientNames DEF IInv, ClientOK
<1>2. CASE UNCHANGED vars \/ sigCatch \/ cleanUpNotify
  BY <1>2 DEF vars, sigCatch, cleanUpNotify
<1>3. CASE cleanUp
  <2>1. Stopped' /\ main' = "exited"  BY <1>3, StoppedStep DEF cleanUp
  <2> QED  BY <2>1 DEF Stopped
<1>4. ASSUME NEW c \in CLIENTS, ClientMove(c) \/ RecordMove(c) \/ readToken(c)
      PROVE  InUse(p)'
  <2>1. ~visitInvalid(c)
    <3>1. visitInvalid(c) => list_mutex = c
      BY <1>1, VisitInvalidEffect, ClientNames DEF ClientOK
    <3> QED  BY <1>1, <3>1
  <2> QED  BY <1>4, <2>1, MemMoves
<1>5. ASSUME NEW q \in RECORDS, ServerMove(q) \/ announce(q)
      PROVE  InUse(p)'
  BY <1>5, ServerKeepsNodes DEF KeepsNode
<1> QED  BY <1>2, <1>3, <1>4, <1>5, StepKinds DEF MainStep

LEMMA ListAdd ==
  ASSUME ProxyConstants, IInv, NEW c \in CLIENTS, NEW r \in RECORDS, addRecord(c, r)
  PROVE  ListOK'
<1> DEFINE prev == clients[c].prev
<1>1. /\ TypeOK /\ clients[c].pc = "visit" /\ clients[c].at = Nil /\ ~bad
      /\ clients[c].prev \in RECORDS \cup {Nil}
  BY ClientNames DEF addRecord, At, ClientType, IInv
<1>2. ListOK /\ WalkOK(c)
  BY <1>1 DEF IInv
<1>3. /\ \A q \in RECORDS : InUse(q)' => InUse(q) \/ q = r
      /\ \A q \in RECORDS : q # r => records'[q].next = IF q = prev THEN r ELSE records[q].next
      /\ records'[r].next = Nil
  BY <1>1, AddedRecord DEF InUse
<1>4. head' = IF prev = Nil THEN r ELSE head
  BY DEF addRecord
<1>5. /\ prev # Nil => prev \in RECORDS /\ InUse(prev)
      /\ \A q \in RECORDS : InUse(q) => q <= prev
  BY <1>1, <1>2 DEF WalkOK
<1>6. \A q \in RECORDS : InUse(q) => q < r
  BY NewIsLast DEF InUse
<1>7. Nil = 0 /\ \A q \in RECORDS : q \in Nat /\ q > 0
  BY DEF ProxyConstants, Nil
<1> HIDE DEF prev
<1>8. ASSUME NEW q \in RECORDS, InUse(q)'
      PROVE  head' # Nil /\ head' <= q
  <2>1. CASE prev = Nil
    <3>1. q = r  BY <1>3, <1>5, <1>7, <1>8, <2>1
    <3> QED  BY <1>4, <1>7, <2>1, <3>1
  <2>2. CASE prev # Nil
    <3>1. head' = head /\ head # Nil /\ head <= prev /\ prev < r
      BY <1>2, <1>4, <1>5, <1>6, <2>2 DEF ListOK
    <3>2. InUse(q) => head <= q  BY <1>2 DEF ListOK
    <3>3. head \in RECORDS  BY <1>1, <3>1 DEF TypeOK
    <3> QED  BY <1>3, <1>5, <1>7, <1>8, <2>2, <3>1, <3>2, <3>3
  <2> QED  BY <2>1, <2>2
<1>9. ASSUME NEW p \in RECORDS, InUse(p)'
      PROVE  /\ records'[p].next # Nil => p < records'[p].next
             /\ \A q \in RECORDS : p < q /\ InUse(q)' =>
                  records'[p].next # Nil /\ records'[p].next <= q
  <2>1. CASE p = r
    <3>1. \A q \in RECORDS : InUse(q)' => ~(p < q)
      BY <1>3, <1>6, <1>7, <2>1
    <3> QED  BY <1>3, <2>1, <3>1
  <2>2. CASE p = prev /\ p # r
    <3>1. records'[p].next = r /\ p < r
      BY <1>3, <1>6, <1>9, <2>2
    <3>2. \A q \in RECORDS : p < q /\ InUse(q)' => q = r
      BY <1>3, <1>5, <1>7, <2>2
    <3> QED  BY <1>7, <3>1, <3>2
  <2>3. CASE p # prev /\ p # r
    <3>1. InUse(p) /\ records'[p].next = records[p].next
      BY <1>3, <1>9, <2>3
    <3>2. prev \in RECORDS /\ p < prev /\ prev < r /\ InUse(prev)
      BY <1>5, <1>6, <1>7, <2>3, <3>1
    <3>3. records[p].next # Nil /\ p < records[p].next /\ records[p].next <= prev
      BY <1>2, <3>1, <3>2 DEF ListOK
    <3>4. \A q \in RECORDS : p < q /\ InUse(q) => records[p].next <= q
      BY <1>2, <3>1 DEF ListOK
    <3>5. records[p].next \in Nat
      BY <1>1, <1>7 DEF TypeOK, RecordType
    <3>6. records[p].next <= r
      BY <1>7, <3>2, <3>3, <3>5
    <3> QED  BY <1>3, <3>1, <3>3, <3>4, <3>6
  <2> QED  BY <2>1, <2>2, <2>3
<1> QED  BY <1>8, <1>9 DEF ListOK

LEMMA ListStep ==
  ASSUME ProxyConstants, IInv, [Next]_vars, ~bad'
  PROVE  ListOK'
<1>1. ListOK
  BY NotBadBefore DEF IInv
<1>2. CASE \E c \in CLIENTS, r \in RECORDS : addRecord(c, r)
  BY <1>2, ListAdd
<1>3. CASE ~\E c \in CLIENTS, r \in RECORDS : addRecord(c, r)
  <2>1. head' = head /\ \A r \in RECORDS : records'[r].next = records[r].next
                                           /\ (InUse(r)' => InUse(r))
    BY <1>3, NodesKept
  <2> QED  BY <1>1, <2>1 DEF ListOK
<1> QED  BY <1>2, <1>3

\* The walk of the client whose thread takes the step.
LEMMA SelfWalk ==
  ASSUME ProxyConstants, IInv, [Next]_vars, ~bad', NEW c \in CLIENTS,
         ClientMove(c) \/ RecordMove(c) \/ readToken(c)
  PROVE  WalkOK(c)'
<1>1. /\ TypeOK /\ ClientOK(c) /\ ~bad
      /\ clients[c].prev \in RECORDS \cup {Nil} /\ clients[c].at \in RECORDS \cup {Nil}
      /\ Nil = 0 /\ \A q \in RECORDS : q \in Nat /\ q > 0
  BY ClientNames, NotBadBefore DEF IInv, ClientType, ProxyConstants, Nil
<1>2. ListOK /\ WalkOK(c)
  BY <1>1 DEF IInv
<1>3. CASE lockList(c)
  <2>1. records' = records /\ bad' = Freed(clients[c].at)
    BY <1>3 DEF lockList, Touch
  <2>2. /\ clients[c].pc \in {"lock", "relock"} /\ clients'[c].pc = "visit"
        /\ clients'[c].url = clients[c].url /\ clients'[c].prev = clients[c].at
        /\ clients'[c].at = IF clients[c].at = Nil THEN head ELSE records[clients[c].at].next
    BY <1>1, <1>3, LockListEffect
  <2>3. CASE clients[c].at = Nil
    <3>1. \A q \in RECORDS : InUse(q) => head # Nil /\ head <= q
      BY <1>2 DEF ListOK
    <3>2. head # Nil => 0 < head
      BY <1>1 DEF TypeOK
    <3>3. \A q \in RECORDS : ~(q <= 0)
      BY <1>1
    <3>4. clients'[c].prev = 0 /\ clients'[c].at = head
      BY <1>1, <2>2, <2>3
    <3> QED  BY <1>1, <2>1, <2>2, <3>1, <3>2, <3>3, <3>4 DEF WalkOK, InUse
  <2>4. CASE clients[c].at # Nil
    <3> DEFINE p == clients[c].at
    <3>1. p \in RECORDS /\ clients[c].pc = "relock" /\ records[p].mem # "none"
      BY <1>1, <2>2, <2>4 DEF ClientOK
    <3>2. InUse(p)
      BY <1>1, <2>1, <2>4, <3>1 DEF Freed, InUse, TypeOK, RecordType
    <3>3. /\ records[p].next # Nil => p < records[p].next
          /\ \A q \in RECORDS :
               p < q /\ InUse(q) => records[p].next # Nil /\ records[p].next <= q
      BY <1>2, <3>1, <3>2 DEF ListOK
    <3>4. \A q \in RECORDS : records[q].mem = "live" /\ q <= p => records[q].url # clients[c].url
      BY <1>2, <3>1 DEF WalkOK
    <3>5. \A q \in RECORDS : q <= p \/ p < q
      BY <1>1, <3>1
    <3>6. clients'[c].prev = p /\ clients'[c].at = records[p].next
      BY <2>2, <2>4
    <3> HIDE DEF p
    <3> QED  BY <2>1, <2>2, <3>2, <3>3, <3>4, <3>5, <3>6 DEF WalkOK, InUse
  <2> QED  BY <2>3, <2>4
<1>4. CASE visitInvalid(c)
  <2> DEFINE p == clients[c].at
             prev == clients[c].prev
  <2>1. /\ clients[c].pc = "visit" /\ clients'[c].pc = "visit" /\ p \in RECORDS
        /\ clients'[c].url = clients[c].url /\ clients'[c].prev = prev
        /\ clients'[c].at = records[p].next
    BY <1>1, <1>4, VisitInvalidEffect
  <2>2. InUse(p)
    BY <1>1, <1>4 DEF visitInvalid, Touch, Freed, InUse
  <2>3. records'[p].mem = "freed" /\ \A q \in RECORDS : q # p => records'[q] = records[q]
    BY <1>1, <1>4, <2>1, VisitInvalidRecord DEF AloneRecord
  <2>4. /\ prev # Nil => InUse(prev)
        /\ prev < p
        /\ \A q \in RECORDS : InUse(q) => q <= prev \/ p <= q
        /\ \A q \in RECORDS : records[q].mem = "live" /\ q <= prev =>
             records[q].url # clients[c].url
    BY <1>1, <1>2, <2>1 DEF WalkOK, InUse
  <2>5. /\ records[p].next # Nil => p < records[p].next
        /\ \A q \in RECORDS :
             p < q /\ InUse(q) => records[p].next # Nil /\ records[p].next <= q
    BY <1>2, <2>1, <2>2 DEF ListOK
  <2>6. records[p].next \in Nat /\ prev \in Nat /\ p \in Nat
    BY <1>1, <2>1 DEF TypeOK, RecordType
  <2>7. prev # Nil => records'[prev].mem \in {"live", "invalid"}
    <3>1. prev # Nil => prev \in RECORDS /\ prev # p
      BY <1>1, <2>4, <2>6
    <3> QED  BY <2>3, <2>4, <3>1 DEF InUse
  <2>8. records[p].next # Nil => prev < records[p].next
    BY <2>4, <2>5, <2>6
  <2>9. ASSUME NEW q \in RECORDS, InUse(q)'
        PROVE  /\ q <= prev \/ (records[p].next # Nil /\ records[p].next <= q)
               /\ records'[q].mem = "live" /\ q <= prev => records'[q].url # clients[c].url
    <3>1. q # p /\ records'[q] = records[q] /\ InUse(q)
      BY <2>3, <2>9 DEF InUse
    <3>2. q <= prev \/ p < q
      BY <1>1, <2>1, <2>4, <3>1
    <3> QED  BY <2>4, <2>5, <3>1, <3>2
  <2> HIDE DEF p, prev
  <2> QED  BY <2>1, <2>7, <2>8, <2>9 DEF WalkOK, InUse
<1>5. CASE visitOther(c)
  <2> DEFINE p == clients[c].at
             prev == clients[c].prev
  <2>1. /\ clients[c].pc = "visit" /\ clients'[c].pc = "relock" /\ p \in RECORDS
        /\ clients'[c].url = clients[c].url /\ clients'[c].at = p
    BY <1>1, <1>5, VisitOtherEffect
  <2>2. records' = records /\ records[p].url # clients[c].url
    BY <1>5 DEF visitOther
  <2>3. /\ \A q \in RECORDS : InUse(q) => q <= prev \/ p <= q
        /\ \A q \in RECORDS : records[q].mem = "live" /\ q <= prev =>
             records[q].url # clients[c].url
    BY <1>1, <1>2, <2>1 DEF WalkOK, InUse
  <2>4. ASSUME NEW q \in RECORDS, records[q].mem = "live", q <= p
        PROVE  records[q].url # clients[c].url
    <3>1. q <= prev \/ p <= q  BY <2>3, <2>4 DEF InUse
    <3>2. p <= q => p = q  BY <1>1, <2>1, <2>4
    <3> QED  BY <2>2, <2>3, <2>4, <3>1, <3>2
  <2> HIDE DEF p, prev
  <2> QED  BY <2>1, <2>2, <2>4 DEF WalkOK
<1>6. CASE ~lockList(c) /\ ~visitInvalid(c) /\ ~visitOther(c)
  <2>1. clients'[c].pc \notin {"visit", "relock"}
    <3>1. /\ clients[c].pc \in {"check", "compare"} => clients[c].record \in RECORDS
          /\ clients[c].pc = "attach" => clients[c].at \in RECORDS
          /\ clients[c].events => clients[c].record \in RECORDS
      BY ClientNames
    <3>2. /\ compareIndex(c) => clients[c].pc = "compare"
          /\ checkResponse(c) => clients[c].pc = "check"
          /\ attach(c) => clients[c].pc = "attach"
          /\ writeToClient(c) => clients[c].events
      BY DEF compareIndex, checkResponse, attach, writeToClient, At
    <3>3. CASE ClientMove(c)
      BY <1>1, <1>6, <3>1, <3>2, <3>3, LoopValues, AcceptEffect, StopEffect, ReadRequestEffect,
         ClientThreadEffect, ClientExitsEffect, CheckResponseEffect, CompareEffect
      DEF ClientMove
    <3>4. CASE RecordMove(c)
      BY <1>1, <1>6, <3>1, <3>2, <3>4, LoopValues, VisitFoundEffect, AddRecordEffect,
         ConnectEffect, AttachEffect, WriteEffect DEF RecordMove
    <3>5. CASE readToken(c)
      BY <1>1, <3>5, ReadTokenEffect
    <3> QED  BY <3>3, <3>4, <3>5
  <2> QED  BY <2>1 DEF WalkOK
<1> QED  BY <1>3, <1>4, <1>5, <1>6

\* The walk of a client whose thread does not take the step.
LEMMA OtherWalk ==
  ASSUME ProxyConstants, IInv, [Next]_vars, ~bad', NEW d \in CLIENTS,
         clients'[d].pc = clients[d].pc, KeepsWalk(d)
  PROVE  WalkOK(d)'
<1>1. /\ TypeOK /\ ClientOK(d) /\ ~bad
      /\ clients[d].prev \in RECORDS \cup {Nil} /\ clients[d].at \in RECORDS \cup {Nil}
  BY ClientNames, NotBadBefore DEF IInv, ClientType
<1>2. /\ WalkOK(d) /\ ListOK
      /\ \A q \in RECORDS : q \in Nat /\ q > 0
  <2>1. WalkOK(d) /\ ListOK  BY <1>1 DEF IInv
  <2>2. \A q \in RECORDS : q \in Nat /\ q > 0  BY DEF ProxyConstants
  <2> QED  BY <2>1, <2>2
<1>0. ~visitInvalid(d) /\ \A r \in RECORDS : ~addRecord(d, r)
  <2>1. ASSUME visitInvalid(d)
        PROVE  FALSE
    <3>1. clients[d].at \in RECORDS /\ clients'[d].at = records[clients[d].at].next
      BY <1>1, <2>1, VisitInvalidEffect
    <3>2. InUse(clients[d].at)
      BY <1>1, <2>1 DEF visitInvalid, Touch, Freed, InUse
    <3>3. records[clients[d].at].next = clients[d].at
      BY <3>1 DEF KeepsWalk
    <3>4. clients[d].at < clients[d].at
      BY <1>1, <1>2, <3>1, <3>2, <3>3 DEF ListOK, ProxyConstants, Nil
    <3> QED  BY <1>2, <3>1, <3>4
  <2>2. ASSUME NEW r \in RECORDS, addRecord(d, r)
        PROVE  FALSE
    BY <1>1, <2>2, AddRecordEffect
  <2> QED  BY <2>1, <2>2
<1>3. CASE \E c \in CLIENTS, r \in RECORDS : addRecord(c, r)
  <2>1. PICK c \in CLIENTS, r \in RECORDS : addRecord(c, r)
    BY <1>3
  <2>2. list_mutex = c /\ c # d
    BY <1>0, <1>1, <2>1, AddRecordEffect, ClientNames DEF ClientOK
  <2>3. clients[d].pc # "visit"
    BY <1>1, <2>2 DEF ClientOK
  <2>4. CASE clients[d].pc = "relock"
    <3>1. clients[d].at \in RECORDS /\ clients[d].at < r
      BY <1>1, <2>1, <2>4, NewIsLast DEF ClientOK
    <3>2. \A q \in RECORDS : q # r =>
            records'[q].mem = records[q].mem /\ records'[q].url = records[q].url
      BY <1>1, <2>1, AddedRecord
    <3>3. ~(r <= clients[d].at)
      BY <1>2, <3>1
    <3> QED  BY <1>2, <2>4, <3>2, <3>3 DEF WalkOK, KeepsWalk
  <2> QED  BY <2>3, <2>4 DEF WalkOK
<1>4. CASE ~\E c \in CLIENTS, r \in RECORDS : addRecord(c, r)
  <2>1. \A r \in RECORDS :
          /\ InUse(r)' => InUse(r)
          /\ records'[r].mem = "live" =>
               records[r].mem = "live" /\ records'[r].url = records[r].url
    BY <1>4, NodesKept
  <2>2. CASE clients[d].pc = "visit"
    <3>1. clients[d].prev # Nil => InUse(clients[d].prev)'
      <4>1. SUFFICES ASSUME clients[d].prev # Nil PROVE InUse(clients[d].prev)'
        BY <4>1
      <4>2. PICK p \in RECORDS : p = clients[d].prev  BY <1>1, <4>1
      <4>3. InUse(p)  BY <1>2, <2>2, <4>1, <4>2 DEF WalkOK
      <4>4. InUse(p)'  BY <1>0, <2>2, <4>3, PrevKept
      <4> QED  BY <4>2, <4>4 DEF InUse, KeepsWalk
    <3> QED  BY <1>2, <2>1, <2>2, <3>1 DEF WalkOK, KeepsWalk, InUse
  <2>3. CASE clients[d].pc = "relock"
    BY <1>2, <2>1, <2>3 DEF WalkOK, KeepsWalk
  <2> QED  BY <2>2, <2>3 DEF WalkOK
<1> QED  BY <1>3, <1>4

LEMMA WalkStep ==
  ASSUME ProxyConstants, IInv, [Next]_vars, ~bad', NEW d \in CLIENTS
  PROVE  WalkOK(d)'
<1>1. TypeOK /\ ~bad /\ WalkOK(d)
  BY NotBadBefore DEF IInv
<1>2. CASE UNCHANGED vars
  BY <1>1, <1>2 DEF vars, WalkOK, InUse
<1>3. CASE MainStep
  <2>1. clients' = clients
    BY <1>3 DEF MainStep, sigCatch, cleanUpNotify, cleanUp
  <2> QED  BY <2>1, OtherWalk DEF KeepsWalk
<1>4. ASSUME NEW c \in CLIENTS, ClientMove(c) \/ RecordMove(c) \/ readToken(c)
      PROVE  WalkOK(d)'
  <2>1. CASE c = d
    BY <1>4, <2>1, SelfWalk
  <2>2. CASE c # d
    BY <1>4, <2>2, OthersMove, OtherWalk
  <2> QED  BY <2>1, <2>2
<1>5. ASSUME NEW r \in RECORDS, ServerMove(r) \/ announce(r)
      PROVE  WalkOK(d)'
  <2>1. clients'[d].pc = clients[d].pc
    BY <1>5, ServerPaths
  <2>2. KeepsWalk(d)
    <3>1. CASE ServerMove(r)
      BY <3>1 DEF ServerMove, serverThread, serverStops, serverExits, writeToServer,
                  readFromServer, serverCloses, KeepsWalk
    <3>2. CASE announce(r)
      BY <1>1, <3>2, AnnounceEffect
    <3> QED  BY <1>5, <3>1, <3>2
  <2> QED  BY <2>1, <2>2, OtherWalk
<1> QED  BY <1>2, <1>3, <1>4, <1>5, StepKinds

-----------------------------------------------------------------------------
(***************************************************************************)
(* Subscribers and tokens.                                                 *)
(***************************************************************************)
\* How a step of a client's thread changes what a record counts.
LEMMA CountsMove ==
  ASSUME ProxyConstants, IInv, NEW c \in CLIENTS,
         ClientMove(c) \/ RecordMove(c) \/ readToken(c), NEW r \in RECORDS
  PROVE  \/ KeepsSubs(r) /\ KeepsResponse(r)
         \/ /\ records'[r].mem = "invalid" /\ records'[r].subs = 0
            /\ records'[r].response_index = 0
         \/ addRecord(c, r)
         \/ /\ visitFound(c) \/ attach(c)
            /\ r = clients[c].at /\ KeepsNode(r) /\ KeepsResponse(r)
            /\ records'[r].subs = IF records[r].mem = "live" THEN records[r].subs + 1
                                  ELSE records[r].subs
            /\ records'[r].tokens = records[r].tokens
            /\ records'[r].overtaken = records[r].overtaken
         \/ /\ readToken(c) /\ r = clients[c].record /\ KeepsNode(r) /\ KeepsResponse(r)
            /\ records'[r].subs = records[r].subs
            /\ records'[r].tokens = records[r].tokens - 1
            /\ records'[r].overtaken = (records[r].overtaken \/ clients[c].due = 0)
<1>1. TypeOK
  BY DEF IInv
<1>2. records'[r] = records[r] => KeepsSubs(r) /\ KeepsResponse(r)
  BY DEF KeepsSubs, KeepsResponse
<1>3. CASE ClientMove(c)
  <2>1. records' = records
    BY <1>3 DEF ClientMove, acceptNewClient, disconnectClient, readRequest, clientThread,
                clientStops, clientExits, lockList, visitOther, checkResponse, compareIndex
  <2> QED  BY <1>2, <2>1
<1>4. CASE visitInvalid(c)
  <2>1. clients[c].at \in RECORDS  BY <1>1, <1>4, VisitInvalidEffect
  <2> QED  BY <1>1, <1>2, <1>4, <2>1, VisitInvalidRecord DEF AloneRecord
<1>5. CASE visitFound(c)
  <2>1. records[clients[c].at].mem = "live"  BY <1>5 DEF visitFound
  <2> QED  BY <1>2, <1>5, <2>1, FoundRecord DEF AloneRecord
<1>6. CASE \E s \in RECORDS : addRecord(c, s)
  <2>1. PICK s \in RECORDS : addRecord(c, s)  BY <1>6
  <2>2. \A q \in RECORDS : q # s => KeepsResponse(q) /\ KeepsSubs(q)
    BY <1>1, <2>1, AddedRecord
  <2> QED  BY <2>1, <2>2
<1>7. CASE connectToServerHost(c)
  <2>1. clients[c].pc = "connect"  BY <1>1, <1>7, ConnectEffect
  <2>2. clients[c].at \in RECORDS  BY <2>1, ClientNames
  <2>3. CASE records' = freeCacheRecord(clients[c].at)
    BY <1>1, <1>2, <2>2, <2>3, FreedRecord DEF AloneRecord
  <2> QED  BY <1>1, <1>2, <1>7, <2>3, ConnectEffect
<1>8. CASE attach(c)
  BY <1>2, <1>8, AttachRecord DEF AloneRecord
<1>9. CASE writeToClient(c)
  <2>1. clients[c].record \in RECORDS
    BY <1>9, ClientNames DEF writeToClient
  <2>2. records' = freeCacheRecord(clients[c].record) \/ records' = records
    BY <1>9 DEF writeToClient
  <2> QED  BY <1>1, <1>2, <2>1, <2>2, FreedRecord DEF AloneRecord
<1>10. CASE readToken(c)
  <2>1. clients[c].record \in RECORDS  BY <1>1, <1>10, ReadTokenEffect
  <2> QED  BY <1>1, <1>2, <1>10, <2>1, TokenRecord DEF AloneRecord
<1> QED
  BY <1>3, <1>4, <1>5, <1>6, <1>7, <1>8, <1>9, <1>10 DEF RecordMove

\* How a step of a server's thread changes what a record counts.
LEMMA ServerKeepsCounts ==
  ASSUME ProxyConstants, IInv, NEW q \in RECORDS, ServerMove(q) \/ announce(q),
         NEW r \in RECORDS
  PROVE  /\ records'[r].subs = records[r].subs
         /\ records'[r].overtaken = records[r].overtaken
         /\ \/ records'[r].tokens = records[r].tokens
            \/ /\ announce(q) /\ r = q
               /\ records'[r].tokens = records[r].tokens + records[r].subs
         /\ \/ records'[r].response_index = records[r].response_index
            \/ readFromServer(q) /\ r = q
<1>1. TypeOK
  BY DEF IInv
<1> USE DEF KeepsSubs, KeepsResponse, AloneRecord
<1>2. CASE serverThread(q) \/ serverStops(q) \/ writeToServer(q)
  BY <1>2 DEF serverThread, serverStops, writeToServer
<1>3. CASE serverExits(q)
  BY <1>1, <1>3, ExitedRecord
<1>4. CASE readFromServer(q)
  BY <1>1, <1>4, ReadRecord
<1>5. CASE serverCloses(q)
  BY <1>1, <1>5, ClosedRecord
<1>6. CASE announce(q)
  BY <1>1, <1>6, AnnouncedRecord
<1> QED  BY <1>2, <1>3, <1>4, <1>5, <1>6 DEF ServerMove

\* A client subscribes at most once, and only the end of its thread forgets it.
LEMMA SubscriptionMoves ==
  ASSUME ProxyConstants, IInv, NEW c \in CLIENTS,
         ClientMove(c) \/ RecordMove(c) \/ readToken(c)
  PROVE  /\ \/ clients'[c].record = clients[c].record
            \/ clients'[c].record = Nil /\ clients'[c].pc = "gone"
            \/ /\ visitFound(c) \/ attach(c)
               /\ clients[c].record = Nil /\ clients[c].due = 0 /\ clients[c].pc # "gone"
               /\ clients[c].at \in RECORDS
               /\ clients'[c].record = clients[c].at /\ clients'[c].due = 0
         /\ clients[c].pc # "gone"
         /\ readToken(c) \/ clients'[c].due = clients[c].due \/ clients'[c].record = Nil
<1>1. TypeOK /\ ClientOK(c)
  BY ClientNames DEF IInv
<1>2. clients[c].pc # "gone"
  BY ClientPaths DEF InLoop
<1>3. /\ clients[c].pc \in {"check", "compare"} => clients[c].record \in RECORDS
      /\ clients[c].pc = "attach" => clients[c].at \in RECORDS
      /\ clients[c].events => clients[c].record \in RECORDS
  BY ClientNames
<1>4. /\ compareIndex(c) => clients[c].pc = "compare"
      /\ checkResponse(c) => clients[c].pc = "check"
      /\ attach(c) => clients[c].pc = "attach"
      /\ writeToClient(c) => clients[c].events
  BY DEF compareIndex, checkResponse, attach, writeToClient, At
<1>5. CASE clientExits(c)
  <2>1. clients'[c].pc = "gone" /\ clients'[c].record = Nil
    BY <1>1, <1>5, ClientExitsEffect DEF newClient
  <2> QED  BY <1>2, <2>1
<1>6. CASE ClientMove(c) /\ ~clientExits(c)
  <2>1. KeepsReading(c)
    BY <1>1, <1>3, <1>4, <1>6, AcceptEffect, StopEffect, ReadRequestEffect,
       ClientThreadEffect, LockListEffect, VisitOtherEffect, CheckResponseEffect,
       CompareEffect DEF ClientMove
  <2> QED  BY <1>2, <2>1 DEF KeepsReading
<1>7. CASE visitFound(c) \/ attach(c)
  <2>1. clients[c].record = Nil /\ clients[c].due = 0
    BY <1>1, <1>4, <1>7, VisitFoundEffect DEF ClientOK
  <2> QED
    BY <1>1, <1>2, <1>3, <1>4, <1>7, <2>1, VisitFoundEffect, AttachEffect
<1>8. CASE RecordMove(c) /\ ~visitFound(c) /\ ~attach(c)
  <2>1. clients'[c].record = clients[c].record /\ clients'[c].due = clients[c].due
    BY <1>1, <1>3, <1>4, <1>8, VisitInvalidEffect, AddRecordEffect, ConnectEffect,
       WriteEffect DEF RecordMove, KeepsReading
  <2> QED  BY <1>2, <2>1
<1>9. CASE readToken(c)
  BY <1>1, <1>2, <1>9, ReadTokenEffect
<1> QED  BY <1>5, <1>6, <1>7, <1>8, <1>9

SubsCountedAt(r) ==
  /\ records[r].mem = "live" => Cardinality(Subscribers(r)) <= records[r].subs
  /\ records[r].subs <= Cardinality({c \in CLIENTS : clients[c].pc = "gone"}
                                      \cup Subscribers(r))

\* Clients are finitely many.
LEMMA ClientSets ==
  ASSUME ProxyConstants, NEW S, S \subseteq CLIENTS
  PROVE  /\ IsFiniteSet(S) /\ Cardinality(S) \in Nat
         /\ \A T : T \subseteq S => Cardinality(T) <= Cardinality(S)
BY FS_Subset, FS_CardinalityType DEF ProxyConstants

\* Steps that bring a record no subscriber.
LEMMA SubsKept ==
  ASSUME ProxyConstants, SubsCounted, NEW r \in RECORDS, records[r].subs \in Nat,
         \A c \in CLIENTS : clients'[c].record = r => clients[c].record = r,
         \A c \in CLIENTS : clients[c].record = r =>
           clients'[c].record = r \/ clients'[c].pc = "gone",
         \A c \in CLIENTS : clients[c].pc = "gone" => clients'[c].pc = "gone",
         records'[r].mem = "live" => records[r].mem = "live",
         \/ records'[r].subs = records[r].subs
         \/ records'[r].mem # "live" /\ records'[r].subs = 0
  PROVE  SubsCountedAt(r)'
<1> DEFINE S == {c \in CLIENTS : clients[c].record = r}
           SN == {c \in CLIENTS : clients'[c].record = r}
           All == {c \in CLIENTS : clients[c].pc = "gone"} \cup S
           AllN == {c \in CLIENTS : clients'[c].pc = "gone"} \cup SN
<1>1. SN \subseteq S /\ All \subseteq AllN /\ S \subseteq CLIENTS /\ AllN \subseteq CLIENTS
  OBVIOUS
<1>2. /\ records[r].mem = "live" => Cardinality(S) <= records[r].subs
      /\ records[r].subs <= Cardinality(All)
  BY DEF SubsCounted, Subscribers
<1> SUFFICES /\ records'[r].mem = "live" => Cardinality(SN) <= records'[r].subs
             /\ records'[r].subs <= Cardinality(AllN)
  BY DEF SubsCountedAt, Subscribers
<1> HIDE DEF S, SN, All, AllN
<1>3. /\ Cardinality(SN) <= Cardinality(S) /\ Cardinality(All) <= Cardinality(AllN)
      /\ Cardinality(SN) \in Nat /\ Cardinality(S) \in Nat
      /\ Cardinality(All) \in Nat /\ Cardinality(AllN) \in Nat
  <2>1. SN \subseteq CLIENTS /\ All \subseteq CLIENTS  BY <1>1
  <2> QED  BY <1>1, <2>1, ClientSets
<1> QED  BY <1>2, <1>3

\* One client subscribes to a record.
LEMMA SubsAdded ==
  ASSUME ProxyConstants, SubsCounted, NEW r \in RECORDS, records[r].subs \in Nat,
         NEW d \in CLIENTS, clients[d].record # r, clients[d].pc # "gone",
         clients'[d].record = r,
         \A c \in CLIENTS : c # d =>
           clients'[c].record = clients[c].record /\ clients'[c].pc = clients[c].pc,
         records'[r].mem = records[r].mem,
         records'[r].subs = IF records[r].mem = "live" THEN records[r].subs + 1
                            ELSE records[r].subs
  PROVE  SubsCountedAt(r)'
<1> DEFINE S == {c \in CLIENTS : clients[c].record = r}
           SN == {c \in CLIENTS : clients'[c].record = r}
           All == {c \in CLIENTS : clients[c].pc = "gone"} \cup S
           AllN == {c \in CLIENTS : clients'[c].pc = "gone"} \cup SN
<1>1. /\ SN = S \cup {d} /\ All \cup {d} \subseteq AllN /\ d \notin S /\ d \notin All
      /\ S \subseteq CLIENTS /\ All \subseteq CLIENTS /\ AllN \subseteq CLIENTS
  OBVIOUS
<1>2. /\ records[r].mem = "live" => Cardinality(S) <= records[r].subs
      /\ records[r].subs <= Cardinality(All)
  BY DEF SubsCounted, Subscribers
<1> SUFFICES /\ records'[r].mem = "live" => Cardinality(SN) <= records'[r].subs
             /\ records'[r].subs <= Cardinality(AllN)
  BY DEF SubsCountedAt, Subscribers
<1> HIDE DEF S, SN, All, AllN
<1>3. /\ IsFiniteSet(S) /\ Cardinality(S) \in Nat
      /\ IsFiniteSet(All) /\ Cardinality(All) \in Nat /\ Cardinality(AllN) \in Nat
  BY <1>1, ClientSets
<1>4. Cardinality(SN) = Cardinality(S) + 1
  BY <1>1, <1>3, FS_AddElement
<1>5. Cardinality(All \cup {d}) = Cardinality(All) + 1
  BY <1>1, <1>3, FS_AddElement
<1>6. Cardinality(All \cup {d}) <= Cardinality(AllN)
  BY <1>1, ClientSets
<1> QED  BY <1>2, <1>3, <1>4, <1>5, <1>6

LEMMA SubsStep ==
  ASSUME ProxyConstants, IInv, [Next]_vars
  PROVE  SubsCounted'
<1> SUFFICES ASSUME NEW r \in RECORDS PROVE SubsCountedAt(r)'
  BY DEF SubsCounted, SubsCountedAt
<1>1. /\ TypeOK /\ SubsCounted /\ records[r].subs \in Nat
      /\ records[r].mem = "none" => \A c \in CLIENTS : clients[c].record # r
      /\ Nil \notin RECORDS
  <2>1. records[r] \in RecordType  BY DEF IInv, TypeOK
  <2>2. records[r].subs \in Nat
    <3>1. Cardinality(CLIENTS) \in Nat  BY FS_CardinalityType DEF ProxyConstants
    <3> QED  BY <2>1, <3>1 DEF RecordType
  <2> QED  BY <2>2, ClientNames DEF IInv, ClientOK, ProxyConstants, Nil
<1>2. CASE UNCHANGED vars \/ sigCatch \/ cleanUpNotify
  BY <1>1, <1>2, SubsKept DEF vars, sigCatch, cleanUpNotify
<1>3. CASE cleanUp
  <2>1. clients' = clients  BY <1>3 DEF cleanUp
  <2>2. records'[r].mem # "live" /\ records'[r].subs = records[r].subs
    BY <1>1, <1>3, DestroyedRecords DEF KeepsSubs
  <2> QED  BY <1>1, <2>1, <2>2, SubsKept
<1>4. ASSUME NEW c \in CLIENTS, ClientMove(c) \/ RecordMove(c) \/ readToken(c)
      PROVE  SubsCountedAt(r)'
  <2>1. \A d \in CLIENTS : d # c =>
          clients'[d].record = clients[d].record /\ clients'[d].pc = clients[d].pc
    BY <1>4, OthersMove
  <2>2. /\ \/ clients'[c].record = clients[c].record
           \/ clients'[c].record = Nil /\ clients'[c].pc = "gone"
           \/ /\ visitFound(c) \/ attach(c)
              /\ clients[c].record = Nil /\ clients[c].pc # "gone"
              /\ clients'[c].record = clients[c].at
        /\ clients[c].pc # "gone"
    BY <1>4, SubscriptionMoves
  <2>3. CASE addRecord(c, r)
    <3>1. clients'[c].record = clients[c].record
      BY <1>1, <2>3, AddRecordEffect DEF KeepsReading
    <3>2. records[r].mem = "none"  BY <2>3 DEF addRecord
    <3>3. \A d \in CLIENTS : clients'[d].record # r
      BY <1>1, <2>1, <3>1, <3>2
    <3>4. Subscribers(r)' = {}  BY <3>3 DEF Subscribers
    <3>5. records'[r].subs = 0  BY <1>1, <2>3, AddedRecord
    <3>6. Cardinality(Subscribers(r)') = 0  BY <3>4, FS_EmptySet
    <3>7. Cardinality(({d \in CLIENTS : clients[d].pc = "gone"} \cup Subscribers(r))') \in Nat
      <4>1. ({d \in CLIENTS : clients[d].pc = "gone"} \cup Subscribers(r))' \subseteq CLIENTS
        BY DEF Subscribers
      <4> QED  BY <4>1, ClientSets
    <3> QED  BY <3>5, <3>6, <3>7 DEF SubsCountedAt
  <2>4. CASE (visitFound(c) \/ attach(c)) /\ r = clients[c].at
    <3>1. /\ records'[r].mem = records[r].mem
          /\ records'[r].subs = IF records[r].mem = "live" THEN records[r].subs + 1
                                ELSE records[r].subs
      <4>1. CASE visitFound(c)
        <5>1. records[r].mem = "live"  BY <2>4, <4>1 DEF visitFound
        <5> QED  BY <2>4, <4>1, <5>1, FoundRecord DEF KeepsNode
      <4>2. CASE attach(c)
        BY <2>4, <4>2, AttachRecord DEF KeepsNode
      <4> QED  BY <2>4, <4>1, <4>2
    <3>2. clients[c].record # r /\ clients'[c].record = r
      <4>1. CASE visitFound(c)
        BY <1>1, <2>4, <4>1, VisitFoundEffect, FoundRecord
      <4>2. CASE attach(c)
        BY <1>1, <2>4, <4>2, AttachEffect, AttachRecord
      <4> QED  BY <2>4, <4>1, <4>2
    <3> QED  BY <1>1, <2>1, <2>2, <3>1, <3>2, SubsAdded
  <2>5. CASE ~addRecord(c, r) /\ ~((visitFound(c) \/ attach(c)) /\ r = clients[c].at)
    <3>1. \/ records'[r].subs = records[r].subs
          \/ records'[r].mem # "live" /\ records'[r].subs = 0
      BY <1>4, <2>5, CountsMove DEF KeepsSubs
    <3>2. records'[r].mem = "live" => records[r].mem = "live"
      BY <1>4, <2>5, MemMoves
    <3>3. /\ clients'[c].record = r => clients[c].record = r
          /\ clients[c].record = r => clients'[c].record = r \/ clients'[c].pc = "gone"
      BY <1>1, <2>2, <2>5
    <3> QED  BY <1>1, <2>1, <2>2, <3>1, <3>2, <3>3, SubsKept
  <2> QED  BY <2>3, <2>4, <2>5
<1>5. ASSUME NEW q \in RECORDS, ServerMove(q) \/ announce(q)
      PROVE  SubsCountedAt(r)'
  <2>1. \A d \in CLIENTS : clients'[d].pc = clients[d].pc /\ clients'[d].record = clients[d].record
    <3>1. CASE ServerMove(q)
      BY <3>1 DEF ServerMove, serverThread, serverStops, serverExits, writeToServer,
                  readFromServer, serverCloses
    <3>2. CASE announce(q)
      BY <1>1, <3>2, AnnounceEffect
    <3> QED  BY <1>5, <3>1, <3>2
  <2>2. records'[r].mem = records[r].mem
    BY <1>5, ServerKeepsNodes DEF KeepsNode
  <2>3. records'[r].subs = records[r].subs
    BY <1>5, ServerKeepsCounts
  <2> QED  BY <1>1, <2>1, <2>2, <2>3, SubsKept
<1> QED  BY <1>2, <1>3, <1>4, <1>5, StepKinds DEF MainStep

\* Owed(r), in the client_t's of a state.
Pairs(cls, r) == UNION {{c} \X (1 .. cls[c].due) : c \in {d \in CLIENTS : cls[d].record = r}}

LEMMA PairMembers ==
  ASSUME NEW cls, NEW r
  PROVE  \A p : p \in Pairs(cls, r) <=>
           \E c \in CLIENTS : cls[c].record = r /\ \E k \in 1 .. cls[c].due : p = <<c, k>>
<1>1. ASSUME NEW p, p \in Pairs(cls, r)
      PROVE  \E c \in CLIENTS : cls[c].record = r /\ \E k \in 1 .. cls[c].due : p = <<c, k>>
  <2>1. PICK c \in {d \in CLIENTS : cls[d].record = r} : p \in {c} \X (1 .. cls[c].due)
    BY <1>1 DEF Pairs
  <2>2. PICK k \in 1 .. cls[c].due : p = <<c, k>>
    BY <2>1
  <2> QED  BY <2>1, <2>2
<1>2. ASSUME NEW c \in CLIENTS, cls[c].record = r, NEW k \in 1 .. cls[c].due
      PROVE  <<c, k>> \in Pairs(cls, r)
  <2>1. <<c, k>> \in {c} \X (1 .. cls[c].due)
    OBVIOUS
  <2>2. c \in {d \in CLIENTS : cls[d].record = r}
    BY <1>2
  <2> QED  BY <2>1, <2>2 DEF Pairs
<1> QED  BY <1>1, <1>2

TokensOwedAt(r) ==
  records[r].mem = "live" /\ ~records[r].overtaken =>
    IsFiniteSet(Owed(r)) /\ Cardinality(Owed(r)) <= records[r].tokens

LEMMA OwedIsPairs ==
  ASSUME NEW r
  PROVE  Owed(r) = Pairs(clients, r) /\ Owed(r)' = Pairs(clients', r)
BY DEF Owed, Pairs, Subscribers

\* Steps after which nobody is due more, and no token is gone.
LEMMA TokensKept ==
  ASSUME TypeOK, TokensOwed, NEW r \in RECORDS, clients' \in [CLIENTS -> ClientType],
         \A c \in CLIENTS : clients'[c].record = r /\ clients'[c].due # 0 =>
           clients[c].record = r /\ clients'[c].due = clients[c].due,
         records'[r].mem = "live" /\ ~records'[r].overtaken =>
           /\ records[r].mem = "live" /\ ~records[r].overtaken
           /\ records'[r].tokens = records[r].tokens
  PROVE  TokensOwedAt(r)'
<1> DEFINE P == Pairs(clients, r)
           PN == Pairs(clients', r)
<1>1. ASSUME NEW p, p \in PN
      PROVE  p \in P
  <2>1. PICK c \in CLIENTS : /\ clients'[c].record = r
                             /\ \E k \in 1 .. clients'[c].due : p = <<c, k>>
    BY <1>1, PairMembers
  <2>2. clients'[c].due # 0
    BY <2>1
  <2>3. clients[c].record = r /\ \E k \in 1 .. clients[c].due : p = <<c, k>>
    BY <2>1, <2>2
  <2> QED  BY <2>3, PairMembers
<1>2. SUFFICES ASSUME records'[r].mem = "live", ~records'[r].overtaken
               PROVE  IsFiniteSet(PN) /\ Cardinality(PN) <= records'[r].tokens
  BY OwedIsPairs DEF TokensOwedAt
<1>3. IsFiniteSet(P) /\ Cardinality(P) <= records[r].tokens
      /\ records'[r].tokens = records[r].tokens
  BY <1>2, OwedIsPairs DEF TokensOwed
<1>4. PN \in SUBSET P
  BY <1>1
<1>5. records[r].tokens \in Nat
  BY DEF TypeOK, RecordType
<1> HIDE DEF P, PN
<1>6. IsFiniteSet(PN) /\ Cardinality(PN) <= Cardinality(P)
  BY <1>3, <1>4, FS_Subset
<1>7. Cardinality(PN) \in Nat /\ Cardinality(P) \in Nat
  BY <1>3, <1>6, FS_CardinalityType
<1> QED  BY <1>3, <1>5, <1>6, <1>7

\* A client takes the token of its oldest announcement.
LEMMA TokenTaken ==
  ASSUME ProxyConstants, IInv, NEW c \in CLIENTS, readToken(c), NEW r \in RECORDS
  PROVE  TokensOwedAt(r)'
<1>1. TypeOK /\ TokensOwed /\ clients \in [CLIENTS -> ClientType]
  BY DEF IInv, TypeOK
<1> DEFINE own == clients[c].record
           overtakes == records[own].overtaken \/ clients[c].due = 0
<1>2. /\ own \in RECORDS /\ clients' \in [CLIENTS -> ClientType]
      /\ \A d \in CLIENTS :
           /\ clients'[d].record = clients[d].record
           /\ clients'[d].due = IF overtakes /\ clients[d].record = own THEN 0
                                ELSE IF d = c THEN clients[d].due - 1 ELSE clients[d].due
  BY <1>1, ReadTokenEffect
<1>3. /\ AloneRecord(own) /\ KeepsNode(own)
      /\ records'[own].tokens = records[own].tokens - 1
      /\ records'[own].overtaken = overtakes
  BY <1>1, <1>2, TokenRecord
<1>4. CASE r # own
  <2>1. records'[r] = records[r]
    BY <1>3, <1>4 DEF AloneRecord
  <2>2. \A d \in CLIENTS : clients[d].record = r => clients'[d].due = clients[d].due
    BY <1>2, <1>4
  <2> QED  BY <1>1, <1>2, <2>1, <2>2, TokensKept
<1>5. CASE r = own /\ overtakes
  BY <1>3, <1>5 DEF TokensOwedAt
<1>6. CASE r = own /\ ~overtakes
  <2> DEFINE P == Pairs(clients, r)
             PN == Pairs(clients', r)
             taken == <<c, clients[c].due>>
  <2>1. clients[c].due \in Nat /\ clients[c].due > 0 /\ clients[c].record = r
    BY <1>1, <1>6 DEF ClientType
  <2>2. taken \in P
    <3>1. \E k \in 1 .. clients[c].due : taken = <<c, k>>
      BY <2>1
    <3> QED  BY <2>1, <3>1, PairMembers
  <2>3. ASSUME NEW p, p \in PN
        PROVE  p \in P \ {taken}
    <3>1. PICK d \in CLIENTS : /\ clients'[d].record = r
                               /\ \E k \in 1 .. clients'[d].due : p = <<d, k>>
      BY <2>3, PairMembers
    <3>2. PICK k \in 1 .. clients'[d].due : p = <<d, k>>
      BY <3>1
    <3>3. clients[d].record = r /\ clients[d].due \in Nat
      BY <1>1, <1>2, <3>1 DEF ClientType
    <3>4. k \in 1 .. clients[d].due /\ ~(d = c /\ k = clients[c].due)
      BY <1>2, <1>6, <3>2, <3>3
    <3>5. p \in P  BY <3>2, <3>3, <3>4, PairMembers
    <3>6. p # taken  BY <3>2, <3>4
    <3> QED  BY <3>5, <3>6
  <2>4. SUFFICES ASSUME records'[r].mem = "live", ~records'[r].overtaken
                 PROVE  IsFiniteSet(PN) /\ Cardinality(PN) <= records'[r].tokens
    BY OwedIsPairs DEF TokensOwedAt
  <2>5. IsFiniteSet(P) /\ Cardinality(P) <= records[r].tokens
    BY <1>1, <1>3, <1>6, <2>4, OwedIsPairs DEF TokensOwed, KeepsNode
  <2>6. records[r].tokens \in Nat /\ records'[r].tokens = records[r].tokens - 1
    BY <1>1, <1>3, <1>6 DEF TypeOK, RecordType
  <2>7. PN \in SUBSET (P \ {taken})
    BY <2>3
  <2> HIDE DEF P, PN, taken
  <2>8. IsFiniteSet(P \ {taken}) /\ Cardinality(P \ {taken}) = Cardinality(P) - 1
    BY <2>2, <2>5, FS_RemoveElement
  <2>9. IsFiniteSet(PN) /\ Cardinality(PN) <= Cardinality(P \ {taken})
    BY <2>7, <2>8, FS_Subset
  <2>10. Cardinality(PN) \in Nat /\ Cardinality(P) \in Nat
    BY <2>5, <2>9, FS_CardinalityType
  <2> QED  BY <2>5, <2>6, <2>8, <2>9, <2>10
<1> QED  BY <1>4, <1>5, <1>6

\* An announcement adds a token for every subscriber.
LEMMA TokensAdded ==
  ASSUME ProxyConstants, IInv, NEW r \in RECORDS, announce(r)
  PROVE  TokensOwedAt(r)'
<1>1. /\ TypeOK /\ TokensOwed /\ SubsCounted /\ clients \in [CLIENTS -> ClientType]
      /\ records[r].tokens \in Nat /\ records[r].subs \in Nat
  <2>1. records[r] \in RecordType  BY DEF IInv, TypeOK
  <2>2. Cardinality(CLIENTS) \in Nat  BY FS_CardinalityType DEF ProxyConstants
  <2>3. records[r].subs \in Nat /\ records[r].tokens \in Nat
    BY <2>1, <2>2 DEF RecordType
  <2> QED  BY <2>3 DEF IInv, TypeOK
<1>2. /\ KeepsNode(r) /\ records'[r].overtaken = records[r].overtaken
      /\ records'[r].tokens = records[r].tokens + records[r].subs
  BY <1>1, AnnouncedRecord
<1>3. /\ clients' \in [CLIENTS -> ClientType]
      /\ \A d \in CLIENTS :
           /\ clients'[d].record = clients[d].record
           /\ clients'[d].due = IF Subscribed(d, r) /\ ~records[r].overtaken
                                THEN clients[d].due + 1 ELSE clients[d].due
  BY <1>1, AnnounceEffect
<1> DEFINE P == Pairs(clients, r)
           PN == Pairs(clients', r)
           S == Subscribers(r)
           last == [d \in S |-> <<d, clients[d].due + 1>>]
           L == {last[d] : d \in S}
<1>4. SUFFICES ASSUME records'[r].mem = "live", ~records'[r].overtaken
               PROVE  IsFiniteSet(PN) /\ Cardinality(PN) <= records'[r].tokens
  BY OwedIsPairs DEF TokensOwedAt
<1>5. /\ IsFiniteSet(P) /\ Cardinality(P) <= records[r].tokens
      /\ Cardinality(S) <= records[r].subs
  BY <1>1, <1>2, <1>4, OwedIsPairs DEF TokensOwed, SubsCounted, KeepsNode
<1>6. ASSUME NEW p, p \in PN
      PROVE  p \in P \cup L
  <2>1. PICK d \in CLIENTS : /\ clients'[d].record = r
                             /\ \E k \in 1 .. clients'[d].due : p = <<d, k>>
    BY <1>6, PairMembers
  <2>2. PICK k \in 1 .. clients'[d].due : p = <<d, k>>
    BY <2>1
  <2>3. clients[d].record = r /\ clients[d].due \in Nat /\ d \in S
    BY <1>1, <1>3, <2>1 DEF ClientType, Subscribers
  <2>4. k \in 1 .. clients[d].due \/ k = clients[d].due + 1
    BY <1>3, <2>2, <2>3
  <2>5. CASE k \in 1 .. clients[d].due
    BY <2>2, <2>3, <2>5, PairMembers
  <2>6. CASE k = clients[d].due + 1
    BY <2>2, <2>3, <2>6
  <2> QED  BY <2>4, <2>5, <2>6
<1>7. IsFiniteSet(S) /\ Cardinality(S) \in Nat
  <2>1. S \subseteq CLIENTS  BY DEF Subscribers
  <2> QED  BY <2>1, ClientSets
<1>8. last \in Surjection(S, L)
  BY DEF Surjection
<1> HIDE DEF P, PN, S, last, L
<1>9. IsFiniteSet(L) /\ Cardinality(L) <= Cardinality(S)
  BY <1>7, <1>8, FS_Surjection
<1>10. /\ IsFiniteSet(P \cup L)
       /\ Cardinality(P \cup L) = Cardinality(P) + Cardinality(L) - Cardinality(P \cap L)
  BY <1>5, <1>9, FS_Union
<1>11. PN \in SUBSET (P \cup L)
  BY <1>6
<1>12. IsFiniteSet(PN) /\ Cardinality(PN) <= Cardinality(P \cup L)
  BY <1>10, <1>11, FS_Subset
<1>13. /\ Cardinality(PN) \in Nat /\ Cardinality(P) \in Nat /\ Cardinality(L) \in Nat
       /\ Cardinality(P \cap L) \in Nat
  <2>1. P \cap L \in SUBSET P  OBVIOUS
  <2>2. IsFiniteSet(P \cap L)  BY <1>5, <2>1, FS_Subset
  <2> QED  BY <1>5, <1>9, <1>12, <2>2, FS_CardinalityType
<1> QED  BY <1>1, <1>2, <1>5, <1>7, <1>9, <1>10, <1>12, <1>13

LEMMA TokensStep ==
  ASSUME ProxyConstants, IInv, [Next]_vars
  PROVE  TokensOwed'
<1> SUFFICES ASSUME NEW r \in RECORDS PROVE TokensOwedAt(r)'
  BY DEF TokensOwed, TokensOwedAt
<1>1. /\ TypeOK /\ TokensOwed /\ Nil \notin RECORDS
      /\ records[r].mem = "none" => \A c \in CLIENTS : clients[c].record # r
  BY ClientNames DEF IInv, ClientOK, ProxyConstants, Nil
<1>0. clients' \in [CLIENTS -> ClientType]
  BY TypeStep DEF TypeOK
<1>2. CASE UNCHANGED vars \/ sigCatch \/ cleanUpNotify
  BY <1>0, <1>1, <1>2, TokensKept DEF vars, sigCatch, cleanUpNotify
<1>3. CASE cleanUp
  <2>1. records'[r].mem # "live"
    BY <1>1, <1>3, DestroyedRecords
  <2> QED  BY <2>1 DEF TokensOwedAt
<1>4. ASSUME NEW c \in CLIENTS, ClientMove(c) \/ RecordMove(c)
      PROVE  TokensOwedAt(r)'
  <2>0. CASE readToken(c)
    BY <2>0, TokenTaken
  <2>1. CASE ~readToken(c)
    <3>1. \A d \in CLIENTS : d # c =>
            clients'[d].record = clients[d].record /\ clients'[d].due = clients[d].due
      BY <1>4, <2>1, OthersMove
    <3>2. /\ \/ clients'[c].record = clients[c].record
             \/ clients'[c].record = Nil
             \/ clients'[c].due = 0
          /\ clients'[c].due = clients[c].due \/ clients'[c].record = Nil
      BY <1>4, <2>1, SubscriptionMoves
    <3>3. CASE addRecord(c, r)
      <4>1. records[r].mem = "none"  BY <3>3 DEF addRecord
      <4>2. clients'[c].record = clients[c].record
        BY <1>1, <3>3, AddRecordEffect DEF KeepsReading
      <4>3. \A d \in CLIENTS : clients'[d].record # r
        BY <1>1, <3>1, <4>1, <4>2
      <4>4. \A p : p \notin Pairs(clients', r)
        BY <4>3, PairMembers
      <4>5. Owed(r)' = {}
        BY <4>4, OwedIsPairs
      <4>6. records'[r].tokens = 0
        BY <1>1, <3>3, AddedRecord
      <4> QED  BY <4>5, <4>6, FS_EmptySet DEF TokensOwedAt
    <3>4. CASE ~addRecord(c, r)
      <4>1. \A d \in CLIENTS : clients'[d].record = r /\ clients'[d].due # 0 =>
              clients[d].record = r /\ clients'[d].due = clients[d].due
        BY <1>1, <3>1, <3>2
      <4>2. records'[r].mem = "live" => records[r].mem = "live"
        BY <1>4, <3>4, MemMoves
      <4>3. records'[r].mem = "live" =>
              /\ records'[r].tokens = records[r].tokens
              /\ records'[r].overtaken = records[r].overtaken
        BY <1>4, <2>1, <3>4, CountsMove DEF KeepsSubs
      <4> QED  BY <1>0, <1>1, <4>1, <4>2, <4>3, TokensKept
    <3> QED  BY <3>3, <3>4
  <2> QED  BY <2>0, <2>1
<1>5. ASSUME NEW c \in CLIENTS, readToken(c)
      PROVE  TokensOwedAt(r)'
  BY <1>5, TokenTaken
<1>6. ASSUME NEW q \in RECORDS, ServerMove(q)
      PROVE  TokensOwedAt(r)'
  <2>1. clients' = clients
    BY <1>6 DEF ServerMove, serverThread, serverStops, serverExits, writeToServer,
                readFromServer, serverCloses
  <2>2. records'[r].mem = records[r].mem
    BY <1>6, ServerKeepsNodes DEF KeepsNode
  <2>3. CASE announce(q) /\ r = q
    BY <2>3, TokensAdded
  <2>4. CASE ~(announce(q) /\ r = q)
    <3>1. records'[r].overtaken = records[r].overtaken /\ records'[r].tokens = records[r].tokens
      BY <1>6, <2>4, ServerKeepsCounts
    <3> QED  BY <1>0, <1>1, <2>1, <2>2, <3>1, TokensKept
  <2> QED  BY <2>3, <2>4
<1>7. ASSUME NEW q \in RECORDS, announce(q)
      PROVE  TokensOwedAt(r)'
  <2>1. CASE r = q
    BY <1>7, <2>1, TokensAdded
  <2>2. CASE r # q
    <3>1. \A d \in CLIENTS : clients'[d].record = clients[d].record
            /\ (clients[d].record = r => clients'[d].due = clients[d].due)
      BY <1>1, <1>7, <2>2, AnnounceEffect DEF Subscribed
    <3>2. records'[r] = records[r]
      BY <1>1, <1>7, <2>2, AnnouncedRecord DEF AloneRecord
    <3> QED  BY <1>0, <1>1, <3>1, <3>2, TokensKept
  <2> QED  BY <2>1, <2>2
<1> QED  BY <1>2, <1>3, <1>4, <1>5, <1>6, <1>7, StepKinds DEF MainStep

-----------------------------------------------------------------------------
(***************************************************************************)
(* Who has unread data knows of it, or will be told.                       *)
(***************************************************************************)
LEMMA SelfTold ==
  ASSUME ProxyConstants, IInv, NEW c \in CLIENTS,
         ClientMove(c) \/ RecordMove(c) \/ readToken(c)
  PROVE  Told(c)'
<1>1. /\ TypeOK /\ ClientOK(c) /\ clients[c] \in ClientType
      /\ Loop("poll") \in {"poll", "exit"}
  BY ClientNames, LoopValues DEF IInv
<1>2. /\ clients[c].pc \in {"check", "compare"} => clients[c].record \in RECORDS
      /\ clients[c].pc = "attach" => clients[c].at \in RECORDS
      /\ clients[c].events => clients[c].record \in RECORDS
  BY ClientNames
<1>3. CASE clientThread(c)
  <2>1. clients'[c].record = Nil
    BY <1>1, <1>3, ClientThreadEffect DEF ClientOK, KeepsReading
  <2> QED  BY <2>1 DEF Told
<1>4. CASE checkResponse(c)
  <2>1. clients[c].pc = "check" /\ records' = records
    BY <1>4 DEF checkResponse, At
  <2>2. /\ clients'[c].record = clients[c].record
        /\ clients'[c].write_response_index = clients[c].write_response_index
        /\ clients'[c].events = (records[clients[c].record].response_index # 0)
    BY <1>1, <1>2, <1>4, <2>1, CheckResponseEffect DEF KeepsReading
  <2>3. clients[c].write_response_index \in Nat
        /\ records[clients[c].record].response_index \in Nat
    BY <1>1, <1>2, <2>1 DEF ClientType, TypeOK, RecordType
  <2>4. clients[c].write_response_index < records[clients[c].record].response_index
          => records[clients[c].record].response_index # 0
    BY <2>3
  <2>5. records[clients[c].record].response_index # 0 => clients'[c].events
    BY <2>2, Zenon
  <2> QED  BY <2>1, <2>2, <2>4, <2>5 DEF Told
<1>5. CASE compareIndex(c)
  <2>1. clients[c].pc = "compare" /\ records' = records
    BY <1>5 DEF compareIndex, At
  <2>2. /\ clients'[c].record = clients[c].record
        /\ clients'[c].write_response_index = clients[c].write_response_index
        /\ clients'[c].events =
             (clients[c].write_response_index # records[clients[c].record].response_index)
    BY <1>1, <1>2, <1>5, <2>1, CompareEffect DEF KeepsReading
  <2>3. clients[c].write_response_index \in Nat
        /\ records[clients[c].record].response_index \in Nat
    BY <1>1, <1>2, <2>1 DEF ClientType, TypeOK, RecordType
  <2>4. clients[c].write_response_index < records[clients[c].record].response_index
          => clients[c].write_response_index # records[clients[c].record].response_index
    BY <2>3
  <2>5. clients[c].write_response_index # records[clients[c].record].response_index
          => clients'[c].events
    BY <2>2, Zenon
  <2> QED  BY <2>1, <2>2, <2>4, <2>5 DEF Told
<1>6. CASE attach(c)
  <2>1. clients[c].pc = "attach" /\ clients[c].at \in RECORDS
    BY <1>6, AttachRecord
  <2>2. KeepsResponse(clients[c].at)
    BY <1>6, AttachRecord
  <2>3. /\ clients'[c].record = clients[c].at
        /\ clients'[c].write_response_index = clients[c].write_response_index
        /\ clients'[c].late = (records[clients[c].at].response_index > 0)
    BY <1>1, <1>6, <2>1, AttachEffect
  <2>4. clients[c].write_response_index \in Nat
        /\ records[clients[c].at].response_index \in Nat
    BY <1>1, <2>1 DEF ClientType, TypeOK, RecordType
  <2>5. clients[c].write_response_index < records[clients[c].at].response_index
          => records[clients[c].at].response_index > 0
    BY <2>4
  <2>6. records[clients[c].at].response_index > 0 => clients'[c].late
    BY <2>3, Zenon
  <2> QED  BY <2>2, <2>3, <2>5, <2>6 DEF Told, KeepsResponse
<1>7. CASE readToken(c)
  <2>1. /\ clients[c].record \in RECORDS
        /\ clients'[c].record = clients[c].record
        /\ clients'[c].write_response_index = clients[c].write_response_index
        /\ clients'[c].events = (clients[c].events
             \/ records[clients[c].record].response_index > clients[c].write_response_index)
    BY <1>1, <1>7, ReadTokenEffect
  <2>2. KeepsResponse(clients[c].record)
    BY <1>1, <1>7, <2>1, TokenRecord
  <2>3. clients[c].write_response_index \in Nat
        /\ records[clients[c].record].response_index \in Nat
    BY <1>1, <2>1 DEF ClientType, TypeOK, RecordType
  <2> QED  BY <2>1, <2>2, <2>3 DEF Told, KeepsResponse
<1>8. CASE ~clientThread(c) /\ ~checkResponse(c) /\ ~compareIndex(c) /\ ~attach(c) /\ ~readToken(c)
  <2>1. writeToClient(c) => clients[c].events
    BY DEF writeToClient
  <2>2. clients'[c].pc # "poll"
    <3>1. CASE ClientMove(c)
      BY <1>1, <1>8, <3>1, AcceptEffect, StopEffect, ReadRequestEffect, ClientExitsEffect,
         LockListEffect, VisitOtherEffect DEF ClientMove
    <3>2. CASE RecordMove(c)
      BY <1>1, <1>2, <1>8, <2>1, <3>2, VisitInvalidEffect, VisitFoundEffect,
         AddRecordEffect, ConnectEffect, WriteEffect DEF RecordMove
    <3> QED  BY <1>8, <3>1, <3>2
  <2> QED  BY <2>2 DEF Told
<1> QED  BY <1>3, <1>4, <1>5, <1>6, <1>7, <1>8

\* A step of another thread takes no reason to wake away from a client.
LEMMA StillTold ==
  ASSUME TypeOK, NEW d \in CLIENTS, Told(d), clients'[d].pc = clients[d].pc,
         clients'[d].record = clients[d].record, KeepsEvents(d),
         clients'[d].late = clients[d].late,
         clients'[d].write_response_index = clients[d].write_response_index,
         clients[d].record # Nil =>
           LET r == clients[d].record IN
           \/ records'[r].response_index = 0
           \/ /\ records'[r].response_index = records[r].response_index
              /\ \/ clients'[d].due = clients[d].due
                 \/ clients'[d].due = clients[d].due + 1
                 \/ records'[r].overtaken
              /\ records[r].overtaken => records'[r].overtaken
              /\ \/ servers[r] = "announce" => servers'[r] = "announce"
                 \/ clients[d].pc = "poll" => clients'[d].due > 0 \/ records'[r].overtaken
           \/ servers'[r] = "announce"
  PROVE  Told(d)'
<1>1. clients[d].write_response_index \in Nat /\ clients[d].due \in Nat
  BY DEF TypeOK, ClientType
<1>2. SUFFICES ASSUME clients[d].pc = "poll", clients[d].record # Nil,
                      clients[d].write_response_index < records'[clients[d].record].response_index
               PROVE  \/ clients'[d].events \/ clients'[d].late \/ clients'[d].due > 0
                      \/ servers'[clients[d].record] = "announce"
                      \/ records'[clients[d].record].overtaken
  BY DEF Told
<1>3. records'[clients[d].record].response_index # 0
  BY <1>1, <1>2
<1>4. CASE servers'[clients[d].record] = "announce"
  BY <1>4
<1>5. CASE servers'[clients[d].record] # "announce"
  <2>1. \/ clients[d].events \/ clients[d].late \/ clients[d].due > 0
        \/ servers[clients[d].record] = "announce" \/ records[clients[d].record].overtaken
    BY <1>2, <1>3, <1>5 DEF Told
  <2> QED  BY <1>1, <1>2, <1>3, <1>5, <2>1 DEF KeepsEvents
<1> QED  BY <1>4, <1>5

LEMMA ToldStep ==
  ASSUME ProxyConstants, IInv, [Next]_vars, NEW d \in CLIENTS
  PROVE  Told(d)'
<1> DEFINE r == clients[d].record
<1>1. /\ TypeOK /\ Told(d) /\ clients[d] \in ClientType /\ ClientOK(d)
      /\ r # Nil => r \in RECORDS /\ records[r].mem # "none"
      /\ r # Nil => clients[d].pc # "gone"
  BY ClientNames DEF IInv, ClientOK
<1>2. CASE UNCHANGED vars \/ sigCatch \/ cleanUpNotify
  BY <1>1, <1>2, StillTold DEF vars, sigCatch, cleanUpNotify, KeepsEvents
<1>3. CASE cleanUp
  <2>1. clients' = clients /\ servers' = servers  BY <1>3 DEF cleanUp
  <2>2. r # Nil => KeepsResponse(r) /\ KeepsSubs(r)
    BY <1>1, <1>3, DestroyedRecords
  <2> QED  BY <1>1, <2>1, <2>2, StillTold DEF KeepsEvents, KeepsResponse, KeepsSubs
<1>4. ASSUME NEW c \in CLIENTS, ClientMove(c) \/ RecordMove(c) \/ readToken(c)
      PROVE  Told(d)'
  <2>1. CASE c = d
    BY <1>4, <2>1, SelfTold
  <2>2. CASE c # d
    <3>1. /\ clients'[d].pc = clients[d].pc /\ KeepsEvents(d)
          /\ clients'[d].record = clients[d].record /\ clients'[d].late = clients[d].late
          /\ clients'[d].write_response_index = clients[d].write_response_index
          /\ clients'[d].due = clients[d].due \/ records'[r].overtaken
      BY <1>4, <2>2, OthersMove
    <3>2. r # Nil =>
            \/ records'[r].response_index = 0
            \/ /\ records'[r].response_index = records[r].response_index
               /\ records[r].overtaken => records'[r].overtaken
      <4>1. r # Nil => ~addRecord(c, r)
        BY <1>1 DEF addRecord
      <4> QED  BY <1>1, <1>4, <4>1, CountsMove DEF KeepsSubs, KeepsResponse
    <3>3. r # Nil => (servers[r] = "announce" => servers'[r] = "announce")
      <4>1. CASE servers' = servers
        BY <4>1
      <4>2. CASE /\ clients[c].pc = "connect"
                 /\ servers' = [servers EXCEPT ![clients[c].at] = "created"]
        <5>1. servers[clients[c].at] = "none"
          BY <4>2, ClientNames DEF ClientOK
        <5> QED  BY <1>1, <4>2, <5>1 DEF TypeOK
      <4> QED  BY <1>4, <4>1, <4>2, ClientPaths
    <3> QED  BY <1>1, <3>1, <3>2, <3>3, StillTold
  <2> QED  BY <2>1, <2>2
<1>5. ASSUME NEW q \in RECORDS, ServerMove(q) \/ announce(q)
      PROVE  Told(d)'
  <2>1. r # Nil =>
          /\ records'[r].overtaken = records[r].overtaken
          /\ \/ records'[r].response_index = records[r].response_index
             \/ readFromServer(q) /\ r = q
    BY <1>1, <1>5, ServerKeepsCounts
  <2>2. readFromServer(q) => servers'[q] = "announce"
    BY <1>1 DEF readFromServer, TypeOK
  <2>3. CASE ServerMove(q)
    <3>1. clients' = clients
      BY <2>3 DEF ServerMove, serverThread, serverStops, serverExits, writeToServer,
                  readFromServer, serverCloses
    <3>2. servers[q] # "announce"
      BY <1>1, <2>3 DEF ServerMove, ServerAt, serverThread, serverStops, serverExits,
                        writeToServer, readFromServer, serverCloses
    <3>3. r # Nil => (servers[r] = "announce" => servers'[r] = "announce")
      BY <1>1, <2>3, <3>2, ServerPaths
    <3> QED  BY <1>1, <2>1, <2>2, <3>1, <3>3, StillTold DEF KeepsEvents
  <2>4. CASE announce(q)
    <3>1. /\ clients'[d].pc = clients[d].pc /\ clients'[d].record = clients[d].record
          /\ KeepsEvents(d) /\ clients'[d].late = clients[d].late
          /\ clients'[d].write_response_index = clients[d].write_response_index
          /\ clients'[d].due = IF Subscribed(d, q) /\ ~records[q].overtaken
                               THEN clients[d].due + 1 ELSE clients[d].due
      BY <1>1, <2>4, AnnounceEffect
    <3>2. r # Nil => records'[r].response_index = records[r].response_index
      BY <1>1, <2>4, AnnouncedRecord DEF AloneRecord, KeepsResponse
    <3>3. CASE r = q
      <4>1. clients[d].due \in Nat  BY <1>1 DEF ClientType
      <4>2. r # Nil => clients'[d].due > 0 \/ records'[r].overtaken
        BY <1>1, <2>1, <3>1, <3>3, <4>1 DEF Subscribed
      <4> QED  BY <1>1, <2>1, <3>1, <3>2, <4>2, StillTold
    <3>4. CASE r # q
      <4>1. r # Nil => servers'[r] = servers[r]
        BY <1>1, <2>4, <3>4, ServerPaths
      <4> QED  BY <1>1, <2>1, <3>1, <3>2, <4>1, StillTold
    <3> QED  BY <3>3, <3>4
  <2> QED  BY <1>5, <2>3, <2>4
<1> QED  BY <1>2, <1>3, <1>4, <1>5, StepKinds DEF MainStep

-----------------------------------------------------------------------------
(***************************************************************************)
(* The theorems.                                                           *)
(***************************************************************************)
LEMMA InitIInv ==
  ASSUME ProxyConstants, Init
  PROVE  IInv
<1>1. /\ main = "poll" /\ is_stop = FALSE /\ num_threads = 0 /\ stop_bytes = 0
      /\ head = Nil /\ list_mutex = Nil /\ bad = FALSE
      /\ \A r \in RECORDS : records[r] = initEmptyCacheRecord /\ servers[r] = "none"
      /\ \A c \in CLIENTS : clients[c] = newClient
      /\ Nil \notin CLIENTS /\ Nil \notin RECORDS
  BY DEF Init, ProxyConstants, Nil
<1>2. TypeOK
  <2>1. Cardinality(CLIENTS) \in Nat  BY FS_CardinalityType DEF ProxyConstants
  <2>2. initEmptyCacheRecord \in RecordType
    BY <2>1 DEF ProxyConstants, initEmptyCacheRecord, RecordType
  <2>3. newClient \in ClientType
    BY DEF ProxyConstants, newClient, ClientType
  <2> QED  BY <2>2, <2>3 DEF Init, TypeOK, ServerPCs
<1>3. ThreadsCounted
  <2>1. AtWork = {} /\ Serving = {}
    BY <1>1 DEF AtWork, Serving, newClient
  <2> QED  BY <1>1, <2>1, FS_EmptySet DEF ThreadsCounted
<1>4. Stopped
  BY <1>1 DEF Stopped
<1>5. ASSUME NEW c \in CLIENTS
      PROVE  ClientOK(c) /\ Told(c) /\ WalkOK(c)
  <2>1. /\ clients[c].pc = "none" /\ clients[c].record = Nil /\ clients[c].at = Nil
        /\ clients[c].prev = Nil /\ ~clients[c].events /\ clients[c].due = 0
        /\ ~clients[c].late /\ clients[c].write_response_index = 0
    BY <1>1 DEF newClient
  <2>2. list_mutex # c
    BY <1>1
  <2>3. ClientOK(c)
    BY <2>1, <2>2 DEF ClientOK
  <2>4. Told(c)
    BY <2>1 DEF Told
  <2>5. WalkOK(c)
    BY <2>1 DEF WalkOK
  <2> QED  BY <2>3, <2>4, <2>5
<1>6. ASSUME NEW r \in RECORDS
      PROVE  RecordOK(r)
  <2>1. /\ records[r].mem = "none" /\ ~records[r].full /\ records[r].server_alive
        /\ records[r].response_index = 0
    BY <1>1 DEF initEmptyCacheRecord
  <2> QED  BY <1>1, <2>1 DEF RecordOK
<1>7. OneConnector /\ Alloc /\ OneRecordPerUrl /\ ListOK
  BY <1>1 DEF OneConnector, Alloc, OneRecordPerUrl, ListOK, InUse, newClient,
              initEmptyCacheRecord
<1>8. SubsCounted /\ TokensOwed
  <2>1. ASSUME NEW r \in RECORDS
        PROVE  /\ records[r].mem = "none"
               /\ records[r].subs <= Cardinality({c \in CLIENTS : clients[c].pc = "gone"}
                                                   \cup Subscribers(r))
    <3>1. {c \in CLIENTS : clients[c].pc = "gone"} \cup Subscribers(r) \subseteq CLIENTS
      BY DEF Subscribers
    <3> QED  BY <1>1, <3>1, ClientSets DEF initEmptyCacheRecord
  <2> QED  BY <2>1 DEF SubsCounted, TokensOwed
<1> QED  BY <1>2, <1>3, <1>4, <1>5, <1>6, <1>7, <1>8 DEF IInv

LEMMA NextIInv ==
  ASSUME ProxyConstants, IInv, [Next]_vars
  PROVE  IInv'
<1>1. TypeOK' /\ ThreadsCounted' /\ Stopped'
  BY TypeStep, CountedStep, StoppedStep
<1>2. \A c \in CLIENTS : ClientOK(c)' /\ Told(c)'
  BY ClientStep, ToldStep
<1>3. \A r \in RECORDS : RecordOK(r)'
  BY RecordStep
<1>4. OneConnector' /\ Alloc' /\ OneRecordPerUrl'
  BY OneConnectorStep, AllocStep, OneRecordStep
<1>5. ~bad' => ListOK' /\ \A c \in CLIENTS : WalkOK(c)'
  BY ListStep, WalkStep
<1>6. SubsCounted' /\ TokensOwed'
  BY SubsStep, TokensStep
<1> QED  BY <1>1, <1>2, <1>3, <1>4, <1>5, <1>6 DEF IInv

\* What the theorems below rest on: the threads are counted, the list passes by
\* no record that is in use, and every announcement has its token.
THEOREM Invariance ==
  ASSUME ProxyConstants
  PROVE  Spec => []IInv
<1>1. Init => IInv
  BY InitIInv
<1>2. IInv /\ [Next]_vars => IInv'
  BY NextIInv
<1> QED  BY <1>1, <1>2, PTL DEF Spec

\* However many clients walk the list at once, each of them without the mutex
\* between two nodes, no two live records have one URL (findAndAddCacheRecord).
THEOREM RecordsOnce ==
  ASSUME ProxyConstants
  PROVE  Spec => []OneRecordPerUrl
<1>1. IInv => OneRecordPerUrl
  BY DEF IInv
<1> QED  BY <1>1, Invariance, PTL

\* After cleanUp has destroyed the cache nobody is between two accesses to it:
\* the threads left began after num_threads was 0, and find is_stop set.
THEOREM CacheDestroyedAlone ==
  ASSUME ProxyConstants
  PROVE  Spec => []DestroyedAlone
<1>1. IInv => DestroyedAlone
  BY DEF IInv, Stopped, DestroyedAlone
<1> QED  BY <1>1, Invariance, PTL

\* writeToClient, which reads server_alive and full without a lock, takes no
\* complete response for one whose server broke off.
THEOREM FullResponsesKept ==
  ASSUME ProxyConstants
  PROVE  Spec => []FullIsKept
<1>1. IInv => FullIsKept
  BY DEF IInv, RecordOK, FullIsKept
<1> QED  BY <1>1, Invariance, PTL

LEMMA AwakeOrReason ==
  ASSUME ProxyConstants, IInv
  PROVE  AsleepHasReason
<1> SUFFICES ASSUME NEW c \in CLIENTS, clients[c].pc = "poll", clients[c].record # Nil,
                    ~clients[c].events,
                    clients[c].write_response_index
                      < records[clients[c].record].response_index,
                    records[clients[c].record].tokens = 0,
                    servers[clients[c].record] # "announce", ~clients[c].late,
                    ~records[clients[c].record].overtaken
             PROVE  FALSE
  BY DEF AsleepHasReason
<1> DEFINE r == clients[c].record
<1>1. /\ r \in RECORDS /\ Told(c) /\ RecordOK(r) /\ Stopped /\ TokensOwed
      /\ clients[c] \in ClientType
  BY ClientNames DEF IInv
<1>2. clients[c].due > 0
  BY <1>1 DEF Told
<1>3. main # "exited"
  BY <1>1 DEF Stopped
<1>4. records[r].mem = "live"
  BY <1>1, <1>3 DEF RecordOK, ClientType
<1>5. IsFiniteSet(Owed(r)) /\ Cardinality(Owed(r)) <= 0
  BY <1>1, <1>4 DEF TokensOwed
<1>6. <<c, 1>> \in Owed(r)
  <2>1. 1 \in 1 .. clients[c].due
    BY <1>1, <1>2 DEF ClientType
  <2> QED  BY <2>1, OwedIsPairs, PairMembers
<1>7. Cardinality(Owed(r)) = 0
  BY <1>5, FS_CardinalityType
<1> QED  BY <1>5, <1>6, <1>7, FS_EmptySet

\* A client that sleeps over unread data subscribed when the data had been
\* announced already, or a token of the shared eventfd was taken by another
\* client than the one it was for: notifySubscribers itself loses nobody.
THEOREM SleepersHaveReason ==
  ASSUME ProxyConstants
  PROVE  Spec => []AsleepHasReason
<1>1. IInv => AsleepHasReason
  BY AwakeOrReason
<1> QED  BY <1>1, Invariance, PTL
=============================================================================
