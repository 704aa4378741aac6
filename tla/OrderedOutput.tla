--------------------------- MODULE OrderedOutput ---------------------------
(***************************************************************************)
(* The synchronised output of exercises 11, 13 and 14: the parent (thread  *)
(* 0) and its children print NUM_LINES lines each, one line in turn.       *)
(*   "mutexes"     matsko/11_sync_output: a ring of one mutex more than    *)
(*                 threads; a thread locks the next mutex, prints and      *)
(*                 unlocks the one before.  Who starts first is left to    *)
(*                 usleep; `prompt' says whether it was long enough.       *)
(*   "cond"        matsko/13_sync_output_cond: one child, a mutex, a       *)
(*                 condition variable and is_main_printing.                *)
(*   "semaphores"  matsko/14_sync_output_sem: a ring of semaphores.        *)
(* `solution' says which program is running; it never changes.             *)
(***************************************************************************)
EXTENDS Integers, FiniteSets

CONSTANTS THREADS, NUM_LINES

Solutions == {"mutexes", "cond", "semaphores"}
Threads == 0 .. (THREADS - 1)
MUTEX_NUM == THREADS + 1
Mutexes == 0 .. (MUTEX_NUM - 1)
Free == THREADS   \* the owner of a free mutex

VARIABLES
  solution,
  prompt,     \* every usleep outlasts the start of the other threads
  failed,     \* the children that pthread_create could not start
  pc,         \* where each thread is
  at,         \* printFunc's index of the mutex a thread locks next
  owner,      \* the owner of each mutex; mutex 0 is the one of exercise 13
  turn,       \* "main" or "child": is_main_printing
  sems,       \* the values of the semaphores
  lines       \* how many lines each thread has printed

vars == <<solution, prompt, failed, pc, at, owner, turn, sems, lines>>

PCs == {"new", "first", "usleep", "enter", "test", "wait", "print", "leave",
        "end", "exit"}

Team == IF solution = "cond" THEN {0, 1} ELSE Threads
Children == Team \ {0}

\* What main does before it creates the children.
Init ==
  /\ solution \in Solutions
  /\ prompt \in IF solution = "mutexes" THEN BOOLEAN ELSE {FALSE}
  /\ failed = {}
  /\ pc = [t \in Threads |-> "new"]
  /\ at = [t \in Threads |-> (MUTEX_NUM - t + 1) % MUTEX_NUM]
  /\ owner = [m \in Mutexes |->
                IF m = 0 /\ solution = "mutexes" THEN 0 ELSE Free]
  /\ turn = "main"
  /\ sems = [t \in Threads |-> IF t = 0 THEN 1 ELSE 0]
  /\ lines = [t \in Threads |-> 0]

Goto(t, l) == pc' = [pc EXCEPT ![t] = l]

\* The children main has not tried to create yet, in the order it tries them.
Pending == {t \in Children : pc[t] = "new" /\ t \notin failed}
NextChild(t) == t \in Pending /\ \A u \in Pending : t <= u

\* pthread_create, which may fail.  The ring programs go on without the child;
\* exercise 13 cleans up and exits.
Create(t) ==
  /\ pc[0] = "new"
  /\ NextChild(t)
  /\ Goto(t, IF solution = "mutexes" THEN "first" ELSE "enter")
  /\ UNCHANGED <<solution, prompt, failed, at, owner, turn, sems, lines>>

CreateFails(t) ==
  /\ pc[0] = "new"
  /\ NextChild(t)
  /\ failed' = failed \cup {t}
  /\ pc' = IF solution = "cond" THEN [pc EXCEPT ![0] = "exit"] ELSE pc
  /\ UNCHANGED <<solution, prompt, at, owner, turn, sems, lines>>

\* main calls printFunc itself when the children are created.
ParentStarts ==
  /\ pc[0] = "new"
  /\ Pending = {}
  /\ Goto(0, IF solution = "mutexes" THEN "usleep" ELSE "enter")
  /\ UNCHANGED <<solution, prompt, failed, at, owner, turn, sems, lines>>

-----------------------------------------------------------------------------
(***************************************************************************)
(* Exercise 11: acquireMutex, releaseMutex, printFunc, childThread.        *)
(***************************************************************************)
Previous(m) == (m + MUTEX_NUM - 1) % MUTEX_NUM

\* childThread takes its first mutex, the one before the first it prints with.
LockFirst(t) ==
  /\ pc[t] = "first"
  /\ owner[Previous(at[t])] = Free
  /\ owner' = [owner EXCEPT ![Previous(at[t])] = t]
  /\ Goto(t, "usleep")
  /\ UNCHANGED <<solution, prompt, failed, at, turn, sems, lines>>

Started == \A t \in Team \ failed : pc[t] \notin {"new", "first"}

Awake(t) ==
  /\ pc[t] = "usleep"
  /\ prompt => Started
  /\ Goto(t, "enter")
  /\ UNCHANGED <<solution, prompt, failed, at, owner, turn, sems, lines>>

\* Mutant: the mutex is not waited for (a trylock whose failure is only logged).
AcquireMutexTry(t) ==
  /\ solution = "mutexes"
  /\ pc[t] = "enter"
  /\ owner' = IF owner[at[t]] = Free THEN [owner EXCEPT ![at[t]] = t] ELSE owner
  /\ Goto(t, "print")
  /\ UNCHANGED <<solution, prompt, failed, at, turn, sems, lines>>

AcquireMutex(t) ==
  /\ solution = "mutexes"
  /\ pc[t] = "enter"
  /\ owner[at[t]] = Free
  /\ owner' = [owner EXCEPT ![at[t]] = t]
  /\ Goto(t, "print")
  /\ UNCHANGED <<solution, prompt, failed, at, turn, sems, lines>>

\* releaseMutex of the mutex before; after the last line also of every mutex
\* mutex_owner names this thread for.
ReleaseMutex(t) ==
  /\ solution = "mutexes"
  /\ pc[t] = "leave"
  /\ owner' = IF lines[t] < NUM_LINES
              THEN [owner EXCEPT ![Previous(at[t])] = Free]
              ELSE [m \in Mutexes |-> IF owner[m] = t THEN Free ELSE owner[m]]
  /\ at' = [at EXCEPT ![t] = (@ + 1) % MUTEX_NUM]
  /\ Goto(t, IF lines[t] < NUM_LINES THEN "enter" ELSE "end")
  /\ UNCHANGED <<solution, prompt, failed, turn, sems, lines>>

-----------------------------------------------------------------------------
(***************************************************************************)
(* Exercise 13: the loop of main and childFunc.                            *)
(***************************************************************************)
MyTurn(t) == turn = IF t = 0 THEN "main" ELSE "child"

LockMutex(t) ==
  /\ solution = "cond"
  /\ pc[t] = "enter"
  /\ owner[0] = Free
  /\ owner' = [owner EXCEPT ![0] = t]
  /\ Goto(t, "test")
  /\ UNCHANGED <<solution, prompt, failed, at, turn, sems, lines>>

\* The while loop: pthread_cond_wait unlocks the mutex and sleeps.
CondWait(t) ==
  /\ pc[t] = "test"
  /\ IF MyTurn(t)
     THEN Goto(t, "print") /\ UNCHANGED owner
     ELSE Goto(t, "wait") /\ owner' = [owner EXCEPT ![0] = Free]
  /\ UNCHANGED <<solution, prompt, failed, at, turn, sems, lines>>

\* pthread_cond_wait may return without a signal; it locks the mutex again.
SpuriousWakeUp(t) ==
  /\ pc[t] = "wait"
  /\ Goto(t, "enter")
  /\ UNCHANGED <<solution, prompt, failed, at, owner, turn, sems, lines>>

\* is_main_printing changes, pthread_cond_signal wakes the other thread if it
\* sleeps, and the mutex is unlocked.
CondSignal(t) ==
  /\ solution = "cond"
  /\ pc[t] = "leave"
  /\ turn' = IF turn = "main" THEN "child" ELSE "main"
  /\ pc' = [u \in Threads |->
              IF u = t THEN (IF lines[t] < NUM_LINES THEN "enter" ELSE "end")
              ELSE IF pc[u] = "wait" THEN "enter" ELSE pc[u]]
  /\ owner' = [owner EXCEPT ![0] = Free]
  /\ UNCHANGED <<solution, prompt, failed, at, sems, lines>>

-----------------------------------------------------------------------------
(***************************************************************************)
(* Exercise 14: printFunc.                                                 *)
(***************************************************************************)
SemWait(t) ==
  /\ solution = "semaphores"
  /\ pc[t] = "enter"
  /\ sems[t] > 0
  /\ sems' = [sems EXCEPT ![t] = @ - 1]
  /\ Goto(t, "print")
  /\ UNCHANGED <<solution, prompt, failed, at, owner, turn, lines>>

SemPost(t) ==
  /\ solution = "semaphores"
  /\ pc[t] = "leave"
  /\ sems' = [sems EXCEPT ![(t + 1) % THREADS] = @ + 1]
  /\ Goto(t, IF lines[t] < NUM_LINES THEN "enter" ELSE "end")
  /\ UNCHANGED <<solution, prompt, failed, at, owner, turn, lines>>

-----------------------------------------------------------------------------
\* The printf of all three programs.
PrintLine(t) ==
  /\ pc[t] = "print"
  /\ lines' = [lines EXCEPT ![t] = @ + 1]
  /\ Goto(t, "leave")
  /\ UNCHANGED <<solution, prompt, failed, at, owner, turn, sems>>

\* main joins the children it created and destroys the locks.
JoinAndDestroy ==
  /\ pc[0] = "end"
  /\ \A t \in Children \ failed : pc[t] = "end"
  /\ Goto(0, "exit")
  /\ UNCHANGED <<solution, prompt, failed, at, owner, turn, sems, lines>>

PrintFunc(t) ==
  \/ LockFirst(t) \/ Awake(t) \/ AcquireMutex(t) \/ ReleaseMutex(t)
  \/ LockMutex(t) \/ CondWait(t) \/ CondSignal(t)
  \/ SemWait(t) \/ SemPost(t)
  \/ PrintLine(t)

Main ==
  \/ \E t \in Threads : Create(t) \/ CreateFails(t)
  \/ ParentStarts \/ JoinAndDestroy

Next == Main \/ \E t \in Threads : PrintFunc(t) \/ SpuriousWakeUp(t)

\* Every thread that can go on does.  Nothing makes a spurious wake-up happen,
\* and they do not go on for ever, always before the other thread's lock.
Fairness ==
  /\ WF_vars(Main) /\ \A t \in Threads : WF_vars(PrintFunc(t))
  /\ <>[][\A t \in Threads : ~SpuriousWakeUp(t)]_vars

Spec == Init /\ [][Next]_vars
FairSpec == Spec /\ Fairness

-----------------------------------------------------------------------------
TypeOK ==
  /\ solution \in Solutions
  /\ prompt \in BOOLEAN
  /\ failed \subseteq Children
  /\ pc \in [Threads -> PCs]
  /\ at \in [Threads -> Mutexes]
  /\ owner \in [Mutexes -> Threads \cup {Free}]
  /\ turn \in {"main", "child"}
  /\ sems \in [Threads -> Nat]
  /\ lines \in [Threads -> 0 .. NUM_LINES]

\* The lines come in turn, parent first: nobody prints a line before the thread
\* before it has, and the parent is at most one line ahead of the last child.
\* The condition variable and the semaphores guarantee it for every schedule,
\* the mutexes only when all children exist and usleep was long enough.
InTurn ==
  (solution = "mutexes" => prompt /\ failed = {}) =>
    \A t, u \in Team : t < u => lines[t] \in {lines[u], lines[u] + 1}

\* The mutexes are ERRORCHECK ones, and an error of unlock is only logged: every
\* thread owns what it is about to unlock, late or early.
UnlocksItsOwn ==
  \A t \in Threads :
    pc[t] = "leave" =>
      CASE solution = "mutexes" ->
             owner[at[t]] = t /\ owner[Previous(at[t])] = t
        [] solution = "cond" -> owner[0] = t
        [] OTHER -> TRUE

-----------------------------------------------------------------------------
(***************************************************************************)
(* The inductive invariant.                                                *)
(***************************************************************************)
\* What the theorems of ExercisesProofs assume.
OutputConstants ==
  THREADS \in Nat /\ THREADS > 1 /\ NUM_LINES \in Nat /\ NUM_LINES > 0

Busy(t) == pc[t] \in {"print", "leave"}

\* How often a thread has printed its line and passed the turn on.
Rounds(t) == IF pc[t] = "leave" THEN lines[t] - 1 ELSE lines[t]

\* Those before t have had their turn in this round, those behind it have not.
HasTurn(t) ==
  \A u \in Team : (u < t => Rounds(u) = Rounds(t) + 1) /\ (t < u => Rounds(u) = Rounds(t))

Orderly == solution = "mutexes" => prompt /\ failed = {}

TurnOK ==
  Orderly =>
    /\ \A t, u \in Team : t < u => Rounds(t) \in {Rounds(u), Rounds(u) + 1}
    /\ \A t \in Team : Busy(t) => HasTurn(t)

\* Which positions a program has, and the lines that are left there.
PositionOK(t) ==
  /\ pc[t] \in {"first", "usleep"} => solution = "mutexes"
  /\ pc[t] \in {"test", "wait"} => solution = "cond"
  /\ pc[t] = "first" => t # 0
  /\ pc[t] = "leave" => lines[t] > 0
  /\ pc[t] \notin {"leave", "end", "exit"} => lines[t] < NUM_LINES
  /\ pc[t] = "end" => lines[t] = NUM_LINES
  /\ pc[t] = "exit" => t = 0 /\ (solution = "mutexes" => lines[t] = NUM_LINES)
  /\ t \notin Team \/ t \in failed => pc[t] = "new"

\* A thread that prints has waited for the start of the others.
PromptOK ==
  solution = "mutexes" /\ prompt =>
    Started \/ \A t \in Threads : pc[t] \in {"new", "first", "usleep"} /\ lines[t] = 0

\* Exercise 11: between two lines a thread holds the mutex before the one it
\* locks next, while it prints both.
HoldsOK ==
  solution = "mutexes" => \A t \in Threads :
    /\ pc[t] \in {"usleep", "enter", "print", "leave"} \/ (t = 0 /\ pc[t] = "new")
         => owner[Previous(at[t])] = t
    /\ Busy(t) => owner[at[t]] = t

\* What a thread holds is what the next one waits for, until it passes it on.
Following(m) == (m + 1) % MUTEX_NUM

RingOK ==
  solution = "mutexes" /\ prompt /\ failed = {} =>
    /\ \A t \in Threads \ {0} :
         Previous(at[t - 1]) = IF Rounds(t - 1) = Rounds(t) THEN at[t] ELSE Following(at[t])
    /\ Previous(at[THREADS - 1]) =
         IF Rounds(0) = Rounds(THREADS - 1) THEN Following(at[0]) ELSE at[0]

\* Exercise 13.
CondOK ==
  solution = "cond" =>
    /\ \A t \in Team : /\ pc[t] \in {"test", "print", "leave"} => owner[0] = t
                       /\ Busy(t) => MyTurn(t)
    /\ Rounds(0) = IF turn = "main" THEN Rounds(1) ELSE Rounds(1) + 1

\* Exercise 14: whoever has the token has the turn.
SemsOK ==
  solution = "semaphores" => \A t \in Threads :
    sems[t] \in {0, 1} /\ (sems[t] = 1 => HasTurn(t) /\ ~Busy(t))

IInv ==
  /\ TypeOK /\ PromptOK /\ \A t \in Threads : PositionOK(t)
  /\ TurnOK /\ HoldsOK /\ RingOK /\ CondOK /\ SemsOK

-----------------------------------------------------------------------------
\* Everybody prints all lines and main ends, whether or not the threads start
\* in time.  A semaphore ring is broken for good by one missing child; the
\* other programs end without it.
RingBroken == solution = "semaphores" /\ failed # {}
OutputEnds == <>(pc[0] = "exit" \/ RingBroken)
=============================================================================
