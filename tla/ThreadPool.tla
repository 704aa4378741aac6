----------------------------- MODULE ThreadPool -----------------------------
(***************************************************************************)
(* The thread pool of matsko/33_proxy_with_thread_pool: main accepts       *)
(* clients, puts their descriptors into a task queue (task_queue.c) and    *)
(* writes one byte per client into a pipe that every pooled thread polls   *)
(* (sync_pipe.c); a thread that reads a byte pops a task and keeps the     *)
(* client until it disconnects.  The same pipe carries one byte per thread *)
(* at shutdown.                                                            *)
(*                                                                         *)
(* The read end of the pipe is one descriptor shared by all threads: the   *)
(* first thread that ends closes it for everybody (destroyPollFds).  What  *)
(* a thread does for its clients is reduced to waking up and to losing a   *)
(* client; module CacheRecord models it.                                   *)
(***************************************************************************)
EXTENDS Integers, Sequences, FiniteSets

CONSTANTS
  Workers,        \* the THREAD_POOL_SIZE pooled threads
  Clients,        \* the connections that arrive at the listener
  PipeSize,       \* bytes the pipe can hold before write blocks
  InitMayFail,    \* eventfd, calloc, pthread_create, listen may fail
  IdleTimeouts    \* whether TIMEOUT seconds may pass without any event

NoClient == "no client"

ASSUME PoolAssumption ==
  /\ IsFiniteSet(Workers) /\ IsFiniteSet(Clients) /\ NoClient \notin Clients
  /\ PipeSize \in Nat \ {0}
  /\ InitMayFail \in BOOLEAN /\ IdleTimeouts \in BOOLEAN

VARIABLES
  mpc,       \* where main is
  hand,      \* the client main has accepted and not yet handed over
  waiting,   \* clients that have not been accepted
  task_queue,
  pipe,      \* bytes in the sync pipe
  start_fd,  \* the read end is open (in the process's descriptor table)
  is_stop,
  real_size, \* REAL_THREAD_POOL_SIZE
  wpc,       \* where each pooled thread is
  polling,   \* threads inside poll() on an open read end
  own,       \* the clients of each thread
  gone       \* clients whose connection the proxy has closed or forgotten

vars == <<mpc, hand, waiting, task_queue, pipe, start_fd, is_stop, real_size,
          wpc, polling, own, gone>>

MainPCs == {"create", "count", "listen", "poll", "submit", "notify",
            "cleanUp", "stopNotify", "join", "exit", "killed"}
WorkerPCs == {"none", "init", "loop", "poll", "read", "pop", "stop", "done"}

Init ==
  /\ mpc = "create"
  /\ hand = NoClient
  /\ waiting = Clients
  /\ task_queue = <<>>
  /\ pipe = 0
  /\ start_fd = TRUE
  /\ is_stop = FALSE
  /\ real_size = 0
  /\ wpc = [w \in Workers |-> "none"]
  /\ polling = {}
  /\ own = [w \in Workers |-> {}]
  /\ gone = {}

WGoto(w, l) == wpc' = [wpc EXCEPT ![w] = l]

\* The pipe has a reader as long as its read end is open or a thread that
\* entered poll() before it was closed still sleeps there.
HasReader == start_fd \/ polling # {}

-----------------------------------------------------------------------------
(***************************************************************************)
(* threadFunc.  A failing initialisation takes itself out of the count and *)
(* ends; once the poll table exists, ending means destroyPollFds.          *)
(***************************************************************************)
InitSucceeds(w) ==
  /\ wpc[w] = "init"
  /\ WGoto(w, "loop")
  /\ UNCHANGED <<mpc, hand, waiting, task_queue, pipe, start_fd, is_stop,
                 real_size, polling, own, gone>>

InitFails(w) ==
  /\ InitMayFail
  /\ wpc[w] = "init"
  /\ real_size' = real_size - 1
  /\ start_fd' \in {start_fd, FALSE}   \* before or after the poll table
  /\ WGoto(w, "done")
  /\ UNCHANGED <<mpc, hand, waiting, task_queue, pipe, is_stop, polling, own,
                 gone>>

\* while (!is_stop), then the call of poll().
EnterPoll(w) ==
  /\ wpc[w] = "loop"
  /\ IF is_stop
     THEN WGoto(w, "stop") /\ UNCHANGED polling
     ELSE /\ WGoto(w, "poll")
          /\ polling' = IF start_fd THEN polling \cup {w} ELSE polling
  /\ UNCHANGED <<mpc, hand, waiting, task_queue, pipe, start_fd, is_stop,
                 real_size, own, gone>>

LeavePoll(w, l) ==
  /\ wpc[w] = "poll"
  /\ WGoto(w, l)
  /\ polling' = polling \ {w}
  /\ UNCHANGED <<mpc, hand, waiting, task_queue, pipe, start_fd, is_stop,
                 real_size>>

\* poll() reports the pipe readable.
PollPipe(w) ==
  /\ w \in polling /\ pipe > 0
  /\ LeavePoll(w, IF is_stop THEN "stop" ELSE "read")
  /\ UNCHANGED <<own, gone>>

\* poll() on the closed read end returns at once with POLLNVAL, which no
\* branch handles.
PollInvalid(w) ==
  /\ w \notin polling
  /\ LeavePoll(w, IF is_stop THEN "stop" ELSE "loop")
  /\ UNCHANGED <<own, gone>>

\* poll() reports an event of one of the thread's clients only (the pipe would
\* be handled first), and handling it may end with disconnectClient.
PollClient(w) ==
  \E c \in own[w] :
    /\ ~(w \in polling /\ pipe > 0)
    /\ IF is_stop
       THEN LeavePoll(w, "stop") /\ UNCHANGED <<own, gone>>
       ELSE /\ LeavePoll(w, "loop")
            /\ \/ UNCHANGED <<own, gone>>
               \/ /\ own' = [own EXCEPT ![w] = @ \ {c}]
                  /\ gone' = gone \cup {c}

\* poll() returns 0 after TIMEOUT seconds.
PollTimeout(w) ==
  /\ IdleTimeouts
  /\ w \in polling /\ pipe = 0
  /\ LeavePoll(w, "stop")
  /\ UNCHANGED <<own, gone>>

\* Mutant: the byte is counted off although the read failed.
ReadPipeUnderflow(w) ==
  /\ wpc[w] = "read"
  /\ pipe' = pipe - 1
  /\ WGoto(w, "pop")
  /\ UNCHANGED <<mpc, hand, waiting, task_queue, start_fd, is_stop, real_size,
                 polling, own, gone>>

\* The non-blocking read: another thread may have taken the byte (EAGAIN) or
\* closed the descriptor (EBADF); both leave read_res negative.
ReadPipe(w) ==
  /\ wpc[w] = "read"
  /\ IF pipe > 0 /\ start_fd
     THEN pipe' = pipe - 1 /\ WGoto(w, "pop")
     ELSE pipe' = pipe /\ WGoto(w, "loop")
  /\ UNCHANGED <<mpc, hand, waiting, task_queue, start_fd, is_stop, real_size,
                 polling, own, gone>>

\* Mutant: popTask reads the head without taking it out of the list.
PopTaskKeepsHead(w) ==
  /\ wpc[w] = "pop"
  /\ IF task_queue = <<>>
     THEN UNCHANGED <<task_queue, own>>
     ELSE /\ own' = [own EXCEPT ![w] = @ \cup {Head(task_queue)}]
          /\ UNCHANGED task_queue
  /\ WGoto(w, "loop")
  /\ UNCHANGED <<mpc, hand, waiting, pipe, start_fd, is_stop, real_size,
                 polling, gone>>

\* Mutant: the new client takes the table entry of an earlier one.
PopTaskOverwrites(w) ==
  /\ wpc[w] = "pop"
  /\ IF task_queue = <<>>
     THEN UNCHANGED <<task_queue, own>>
     ELSE /\ own' = [own EXCEPT ![w] = {Head(task_queue)}]
          /\ task_queue' = Tail(task_queue)
  /\ WGoto(w, "loop")
  /\ UNCHANGED <<mpc, hand, waiting, pipe, start_fd, is_stop, real_size,
                 polling, gone>>

\* popTask, and the new entry in the thread's client table.
PopTask(w) ==
  /\ wpc[w] = "pop"
  /\ IF task_queue = <<>>
     THEN UNCHANGED <<task_queue, own>>
     ELSE /\ own' = [own EXCEPT ![w] = @ \cup {Head(task_queue)}]
          /\ task_queue' = Tail(task_queue)
  /\ WGoto(w, "loop")
  /\ UNCHANGED <<mpc, hand, waiting, pipe, start_fd, is_stop, real_size,
                 polling, gone>>

\* destroyServers, destroyClients, destroyPollFds, pthread_exit.
StopWorker(w) ==
  /\ wpc[w] = "stop"
  /\ gone' = gone \cup own[w]
  /\ own' = [own EXCEPT ![w] = {}]
  /\ start_fd' = FALSE
  /\ WGoto(w, "done")
  /\ UNCHANGED <<mpc, hand, waiting, task_queue, pipe, is_stop, real_size,
                 polling>>

-----------------------------------------------------------------------------
(***************************************************************************)
(* main.  A write into a pipe without readers raises SIGPIPE, which the    *)
(* program neither handles nor ignores.                                    *)
(***************************************************************************)
CreateThread(w) ==
  /\ mpc = "create"
  /\ wpc[w] = "none"
  /\ WGoto(w, "init")
  /\ mpc' = "count"
  /\ UNCHANGED <<hand, waiting, task_queue, pipe, start_fd, is_stop, real_size,
                 polling, own, gone>>

CreateFails(w) ==
  /\ InitMayFail
  /\ mpc = "create"
  /\ wpc[w] = "none"
  /\ WGoto(w, "done")
  /\ UNCHANGED <<mpc, hand, waiting, task_queue, pipe, start_fd, is_stop,
                 real_size, polling, own, gone>>

CountThread ==
  /\ mpc = "count"
  /\ real_size' = real_size + 1
  /\ mpc' = "create"
  /\ UNCHANGED <<hand, waiting, task_queue, pipe, start_fd, is_stop, wpc,
                 polling, own, gone>>

\* The end of the loop, then initListener.
InitListener ==
  /\ mpc = "create"
  /\ \A w \in Workers : wpc[w] # "none"
  /\ mpc' \in IF InitMayFail THEN {"poll", "cleanUp"} ELSE {"poll"}
  /\ UNCHANGED <<hand, waiting, task_queue, pipe, start_fd, is_stop, real_size,
                 wpc, polling, own, gone>>

\* acceptNewClient: accept and fcntl.
AcceptNewClient(c) ==
  /\ mpc = "poll"
  /\ c \in waiting
  /\ waiting' = waiting \ {c}
  /\ hand' = c
  /\ mpc' = "submit"
  /\ UNCHANGED <<task_queue, pipe, start_fd, is_stop, real_size, wpc, polling,
                 own, gone>>

AcceptFails(c) ==
  /\ InitMayFail
  /\ mpc = "poll"
  /\ c \in waiting
  /\ waiting' = waiting \ {c}
  /\ gone' = gone \cup {c}
  /\ UNCHANGED <<mpc, hand, task_queue, pipe, start_fd, is_stop, real_size,
                 wpc, polling, own>>

\* submitTask; acceptNewClient ignores that its calloc may fail.
SubmitTask ==
  /\ mpc = "submit"
  /\ \/ task_queue' = Append(task_queue, hand) /\ UNCHANGED gone
     \/ /\ InitMayFail
        /\ gone' = gone \cup {hand} /\ UNCHANGED task_queue
  /\ hand' = NoClient
  /\ mpc' = "notify"
  /\ UNCHANGED <<waiting, pipe, start_fd, is_stop, real_size, wpc, polling, own>>

\* Mutant: no byte for a client while an earlier byte is still in the pipe.
NotifyOnlyIfEmpty ==
  /\ mpc = "notify"
  /\ HasReader
  /\ pipe' = IF pipe = 0 THEN 1 ELSE pipe
  /\ mpc' = "poll"
  /\ UNCHANGED <<hand, waiting, task_queue, start_fd, is_stop, real_size, wpc,
                 polling, own, gone>>

\* sync_pipe_notify(1).
NotifyWorkers ==
  /\ mpc = "notify"
  /\ HasReader
  /\ pipe < PipeSize
  /\ pipe' = pipe + 1
  /\ mpc' = "poll"
  /\ UNCHANGED <<hand, waiting, task_queue, start_fd, is_stop, real_size, wpc,
                 polling, own, gone>>

\* A stop byte from sigCatch, an error or a timeout of main's poll: the loop
\* ends and cleanUp is called.
StopMain ==
  /\ mpc = "poll"
  /\ mpc' = "cleanUp"
  /\ UNCHANGED <<hand, waiting, task_queue, pipe, start_fd, is_stop, real_size,
                 wpc, polling, own, gone>>

CleanUpSetStop ==
  /\ mpc = "cleanUp"
  /\ is_stop' = TRUE
  /\ mpc' = "stopNotify"
  /\ UNCHANGED <<hand, waiting, task_queue, pipe, start_fd, real_size, wpc,
                 polling, own, gone>>

\* Mutant: cleanUp forgets one of the threads.
StopNotifyOneShort ==
  /\ mpc = "stopNotify"
  /\ IF real_size > 1
     THEN HasReader /\ pipe + real_size <= PipeSize /\ pipe' = pipe + real_size - 1
     ELSE pipe' = pipe
  /\ mpc' = "join"
  /\ UNCHANGED <<hand, waiting, task_queue, start_fd, is_stop, real_size, wpc,
                 polling, own, gone>>

\* sync_pipe_notify(REAL_THREAD_POOL_SIZE): nothing to write for 0.
StopNotify ==
  /\ mpc = "stopNotify"
  /\ IF real_size > 0
     THEN HasReader /\ pipe + real_size <= PipeSize /\ pipe' = pipe + real_size
     ELSE pipe' = pipe
  /\ mpc' = "join"
  /\ UNCHANGED <<hand, waiting, task_queue, start_fd, is_stop, real_size, wpc,
                 polling, own, gone>>

\* Either write without a reader.
Sigpipe ==
  /\ mpc = "notify" \/ (mpc = "stopNotify" /\ real_size > 0)
  /\ ~HasReader
  /\ mpc' = "killed"
  /\ UNCHANGED <<hand, waiting, task_queue, pipe, start_fd, is_stop, real_size,
                 wpc, polling, own, gone>>

Elems(q) == {q[i] : i \in 1 .. Len(q)}
NoRepeats(q) == \A i, j \in 1 .. Len(q) : q[i] = q[j] => i = j
Queued == Elems(task_queue)

\* Mutant: cleanUp does not join.
CleanUpWithoutJoin ==
  /\ mpc = "join"
  /\ task_queue' = <<>>
  /\ gone' = gone \cup Queued
  /\ start_fd' = FALSE
  /\ mpc' = "exit"
  /\ UNCHANGED <<hand, waiting, pipe, is_stop, real_size, wpc, polling, own>>

\* The joins, then destroyCacheList, destroyTaskQueue, sync_pipe_close: the
\* clients still queued are forgotten.
CleanUp ==
  /\ mpc = "join"
  /\ \A w \in Workers : wpc[w] = "done"
  /\ task_queue' = <<>>
  /\ gone' = gone \cup Queued
  /\ start_fd' = FALSE
  /\ mpc' = "exit"
  /\ UNCHANGED <<hand, waiting, pipe, is_stop, real_size, wpc, polling, own>>

-----------------------------------------------------------------------------
WorkerStep(w) ==
  /\ mpc # "killed"
  /\ \/ InitSucceeds(w) \/ InitFails(w)
     \/ EnterPoll(w) \/ PollPipe(w) \/ PollInvalid(w) \/ PollClient(w)
     \/ PollTimeout(w) \/ ReadPipe(w) \/ PopTask(w) \/ StopWorker(w)

\* What main does on its own account, without waiting for a client or a signal.
MainWork ==
  \/ \E w \in Workers : CreateThread(w) \/ CreateFails(w)
  \/ CountThread \/ InitListener \/ SubmitTask \/ NotifyWorkers
  \/ CleanUpSetStop \/ StopNotify \/ Sigpipe \/ CleanUp

MainStep ==
  \/ MainWork
  \/ \E c \in Clients : AcceptNewClient(c) \/ AcceptFails(c)
  \/ StopMain

Ended == mpc \in {"exit", "killed"} /\ UNCHANGED vars

Next == (\E w \in Workers : WorkerStep(w)) \/ MainStep \/ Ended

\* The scheduler runs every thread that can continue; poll() returns when the
\* pipe is readable.  Nobody is obliged to connect or to press Ctrl-C, and
\* nothing may depend on a timeout.
Fairness ==
  /\ \A w \in Workers : WF_vars(WorkerStep(w) /\ ~PollTimeout(w))
  /\ WF_vars(MainWork)

Spec == Init /\ [][Next]_vars
FairSpec == Spec /\ Fairness

-----------------------------------------------------------------------------
TypeOK ==
  /\ mpc \in MainPCs
  /\ hand \in Clients \cup {NoClient}
  /\ waiting \subseteq Clients
  /\ task_queue \in Seq(Clients)
  /\ pipe \in Nat
  /\ start_fd \in BOOLEAN
  /\ is_stop \in BOOLEAN
  /\ real_size \in Int
  /\ wpc \in [Workers -> WorkerPCs]
  /\ polling \subseteq Workers
  /\ own \in [Workers -> SUBSET Clients]
  /\ gone \subseteq Clients

Owned == {c \in Clients : \E w \in Workers : c \in own[w]}

\* A client is served by one thread at most, is queued at most once, and is
\* nowhere else once a thread has it: the descriptor that goes through
\* submitTask and popTask is never shared and never used again.
SingleOwner ==
  /\ \A v, w \in Workers : v # w => own[v] \cap own[w] = {}
  /\ NoRepeats(task_queue)
  /\ Queued \cap Owned = {}
  /\ waiting \cap gone = {}
  /\ (waiting \cup gone) \cap (Queued \cup Owned \cup {hand}) = {}
  /\ hand \notin Queued \cup Owned

\* No connection is lost inside the proxy: every client is still to be
\* accepted, in main's hands, queued, with a thread, or closed.
NoClientForgotten ==
  Clients \subseteq waiting \cup {hand} \cup Queued \cup Owned \cup gone

PopPending == {w \in Workers : wpc[w] = "pop"}
NotifyPending == IF mpc = "notify" THEN 1 ELSE 0

\* There is a byte for every queued task: it is in the pipe, with a thread
\* that has read it and is about to pop, or main is about to write it.  So a
\* thread that takes a byte before shutdown always finds a task, unless an
\* allocation failed in submitTask.
ByteForTask ==
  mpc # "killed" =>
    LET bytes == pipe + Cardinality(PopPending) + NotifyPending
    IN  /\ Len(task_queue) <= bytes
        /\ ~InitMayFail /\ ~is_stop => Len(task_queue) = bytes

\* When cleanUp destroys the cache, the task queue and the pipe, no pooled
\* thread runs any more.
CleanUpAlone ==
  mpc = "exit" => \A w \in Workers : wpc[w] = "done" /\ own[w] = {}

(***************************************************************************)
(* What makes the invariants above inductive: main's position tells what   *)
(* it holds and whether the pool is being stopped; a thread that is not    *)
(* running has no clients.                                                 *)
(***************************************************************************)
PoolPhases ==
  /\ hand # NoClient <=> mpc = "submit"
  /\ is_stop => mpc \in {"stopNotify", "join", "exit", "killed"}
  /\ mpc \in {"stopNotify", "join", "exit"} => is_stop
  /\ \A w \in Workers :
       wpc[w] \in {"none", "init", "done"} => own[w] = {}

IInv ==
  /\ TypeOK
  /\ PoolPhases
  /\ SingleOwner
  /\ NoClientForgotten
  /\ ByteForTask
  /\ CleanUpAlone

\* A queued client gets a thread, unless the proxy is being stopped, every thread
\* is gone, or one that ended has closed the pipe's read end for the others.
QueuedIsServed ==
  \A c \in Clients :
    c \in Queued ~> \/ c \notin Queued \/ is_stop \/ ~start_fd
                     \/ \A w \in Workers : wpc[w] = "done"

\* After cleanUp has set is_stop the process ends: the bytes it writes reach
\* every thread that sleeps in poll(), although threads that are awake may
\* still take some of them.
StopTerminates == is_stop ~> mpc \in {"exit", "killed"}

\* README rule 4: the program does not crash, whatever happens.
NeverKilled == mpc # "killed"
=============================================================================
