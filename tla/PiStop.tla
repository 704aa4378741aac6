------------------------------- MODULE PiStop -------------------------------
(***************************************************************************)
(* Exercise 9: the threads sum until SIGINT.  Each thread works on one     *)
(* block of terms after another and looks between two blocks whether it is *)
(* to stop; the sum is only good if all of them stop after about the same  *)
(* number of blocks.  Five solutions:                                      *)
(*   "shuvalov9", "shuvalov92"  a flag under a mutex, set after sigwait    *)
(*   "muratov9"     go on up to the last block anybody has completed       *)
(*   "shinkevich9"  the first to see the flag names the step to stop at    *)
(*   "tamplon9"     only the thread that gets ahead looks at the flag      *)
(***************************************************************************)
EXTENDS Integers, FiniteSets

CONSTANTS N,            \* the number of threads
          SUPPLEMENT,   \* tamplon9: how far ahead counts, in rounds of N terms
          RUN           \* the most blocks of a thread before SIGINT

VARIABLES
  program,
  main,      \* "create", "sigwait", "join", "report", "gone" or "undefined"
  stop,      \* the signal has come: is_time_to_stop, ~isRunning, finished
  last,      \* lastBlockNum, stepFinished, max_iteration_completed
  pc, block, \* of every thread; block counts the ones it has completed
  raced      \* two threads have stored into `last' from the same old value

vars == <<program, main, stop, last, pc, block, raced>>

Programs == {"shuvalov9", "shuvalov92", "muratov9", "shinkevich9", "tamplon9"}
Threads == 0 .. N - 1

Init ==
  /\ program \in Programs
  /\ main = "create"
  /\ stop = FALSE
  /\ last = 0
  /\ pc = [t \in Threads |-> "none"]
  /\ block = [t \in Threads |-> 0]
  /\ raced = FALSE

Goto(t, l) == pc' = [pc EXCEPT ![t] = l]
Ended == {t \in Threads : pc[t] = "end"}
Existing == {t \in Threads : pc[t] # "none"}

-----------------------------------------------------------------------------
(***************************************************************************)
(* The main functions.  Creation is one step: a thread before the one that *)
(* fails may have begun, which makes no difference.                        *)
(***************************************************************************)
Created(count) ==
  pc' = [t \in Threads |-> IF t < count THEN "work" ELSE "none"]

\* The loop of pthread_create, the last of which may fail.
Create(onFailure) ==
  /\ main = "create"
  /\ \E count \in 0 .. N :
       /\ Created(count)
       /\ main' = IF count < N THEN onFailure ELSE "sigwait"
  /\ UNCHANGED <<program, stop, last, block, raced>>

\* SIGINT, for a main that waits for it or joins.
signal ==
  /\ main \in {"sigwait", "join"}
  /\ ~stop
  /\ stop' = TRUE
  /\ main' = "join"
  /\ UNCHANGED <<program, last, pc, block, raced>>

\* pthread_join of all threads; `missing' is the outcome when one is missing.
Join(missing) ==
  /\ main = "join"
  /\ Ended = Existing
  /\ main' = IF Existing # Threads THEN missing ELSE "report"
  /\ UNCHANGED <<program, stop, last, pc, block, raced>>

\* main leaves its threads alone; SIGINT is blocked, nothing can stop them.
shuvalov9Main == program = "shuvalov9" /\ (Create("gone") \/ Join("report"))
shuvalov92Main == program = "shuvalov92" /\ (Create("gone") \/ Join("report"))
\* threadCount becomes the number of threads there are.
muratov9Main == program = "muratov9" /\ (Create("join") \/ Join("report"))
\* A thread is joined that could not be created.
shinkevich9Main == program = "shinkevich9" /\ (Create("sigwait") \/ Join("undefined"))
tamplon9Main == program = "tamplon9" /\ (Create("sigwait") \/ Join("undefined"))

-----------------------------------------------------------------------------
(***************************************************************************)
(* The threads.                                                            *)
(***************************************************************************)
\* One block of terms.  Before the signal RUN bounds the run.
Work(t, then) ==
  /\ pc[t] = "work"
  /\ stop \/ block[t] < RUN
  /\ block' = [block EXCEPT ![t] = @ + 1]
  /\ Goto(t, then)
  /\ UNCHANGED <<program, main, stop, last, raced>>

\* The flag is read under the mutex.
CheckFlag(t) ==
  \/ Work(t, "check")
  \/ /\ pc[t] = "check"
     /\ Goto(t, IF stop THEN "end" ELSE "work")
     /\ UNCHANGED <<program, main, stop, last, block, raced>>

calculate_pi_part(t) == program = "shuvalov9" /\ CheckFlag(t)
calculate_pi_part2(t) == program = "shuvalov92" /\ CheckFlag(t)

\* muratov9: the block just completed is block[t] - 1 in the code's numbering,
\* the one to come block[t].
muratovStore(t) ==
  \/ /\ pc[t] = "test"      \* if (lastBlockNum < blockNumber)
     /\ Goto(t, IF last < block[t] - 1 THEN "store" ELSE "head")
     /\ UNCHANGED <<program, main, stop, last, block, raced>>
  \/ /\ pc[t] = "store"
     /\ last' = block[t] - 1
     /\ raced' = (raced \/ last > block[t] - 1)
     /\ Goto(t, "head")
     /\ UNCHANGED <<program, main, stop, block>>

\* Mutant: the threads stop at once.
muratovHeadAtOnce(t) ==
  /\ pc[t] = "head"
  /\ Goto(t, IF stop THEN "end" ELSE "work")
  /\ UNCHANGED <<program, main, stop, last, block, raced>>

\* The condition of the loop; last is read after isRunning.
muratovHead(t) ==
  \/ /\ pc[t] = "head"
     /\ Goto(t, IF stop THEN "compare" ELSE "work")
     /\ UNCHANGED <<program, main, stop, last, block, raced>>
  \/ /\ pc[t] = "compare"
     /\ Goto(t, IF block[t] <= last THEN "work" ELSE "end")
     /\ UNCHANGED <<program, main, stop, last, block, raced>>

GetPartialSum(t) ==
  program = "muratov9" /\ (Work(t, "test") \/ muratovStore(t) \/ muratovHead(t))

\* shinkevich9: step is block[t].
shinkevichCheck(t) ==
  \/ /\ pc[t] = "check"
     /\ Goto(t, CASE ~stop -> "work"
                  [] stop /\ last = 0 -> "store"
                  [] stop /\ last # 0 -> IF block[t] >= last THEN "end" ELSE "work")
     /\ UNCHANGED <<program, main, stop, last, block, raced>>
  \/ /\ pc[t] = "store"
     /\ last' = block[t]
     /\ raced' = (raced \/ last # 0)
     /\ Goto(t, "end")
     /\ UNCHANGED <<program, main, stop, block>>

calcPartSum(t) ==
  program = "shinkevich9" /\ (Work(t, "check") \/ shinkevichCheck(t))

\* tamplon9: i is the last term of thread t; the limit is tested again under the
\* mutex, and only then the flag.
Term(t) == t + (block[t] - 1) * N
Ahead(t) == Term(t) >= last + SUPPLEMENT * N

tamplonAhead(t) ==
  \/ /\ pc[t] = "check"
     /\ Goto(t, IF Ahead(t) THEN "lock" ELSE "work")
     /\ UNCHANGED <<program, main, stop, last, block, raced>>
  \/ /\ pc[t] = "lock"
     /\ last' = IF Ahead(t) THEN Term(t) ELSE last
     /\ Goto(t, IF Ahead(t) THEN "flag" ELSE "work")
     /\ UNCHANGED <<program, main, stop, block, raced>>
  \/ /\ pc[t] = "flag"
     /\ Goto(t, IF stop THEN "end" ELSE "work")
     /\ UNCHANGED <<program, main, stop, last, block, raced>>

calc_partial_sum(t) ==
  program = "tamplon9" /\ (Work(t, "check") \/ tamplonAhead(t))

Thread(t) ==
  \/ calculate_pi_part(t) \/ calculate_pi_part2(t)
  \/ GetPartialSum(t) \/ calcPartSum(t) \/ calc_partial_sum(t)

Mains ==
  \/ shuvalov9Main \/ shuvalov92Main \/ muratov9Main
  \/ shinkevich9Main \/ tamplon9Main

Next == Mains \/ signal \/ \E t \in Threads : Thread(t)

Spec == Init /\ [][Next]_vars
\* Threads run; nothing makes the signal come.
FairSpec ==
  Spec /\ WF_vars(Mains) /\ \A t \in Threads : WF_vars(Thread(t))

-----------------------------------------------------------------------------
TypeOK ==
  /\ program \in Programs
  /\ main \in {"create", "sigwait", "join", "report", "gone", "undefined"}
  /\ stop \in BOOLEAN /\ raced \in BOOLEAN
  /\ last \in Nat
  /\ pc \in [Threads -> {"none", "work", "check", "test", "store", "head", "compare",
                         "lock", "flag", "end"}]
  /\ block \in [Threads -> Nat]

\* The threads stop about where the others do.  muratov9: at most one block
\* apart; shinkevich9: nobody before the step that was named; both unless two
\* threads stored at once.  tamplon9: every thread that stops is a supplement
\* ahead of the one that stopped before it, and of nothing else.
StopsTogether ==
  /\ program = "muratov9" /\ main = "report" /\ ~raced =>
       \A t, u \in Ended : block[t] <= block[u] + 1
  /\ program = "shinkevich9" /\ main = "report" /\ ~raced =>
       \A t \in Ended : block[t] >= last
  /\ program = "tamplon9" =>
       \A t, u \in Ended : t # u => Term(t) >= Term(u) + SUPPLEMENT * N
                                   \/ Term(u) >= Term(t) + SUPPLEMENT * N

(***************************************************************************)
(* The inductive invariant, of which one conjunct belongs to each program  *)
(* whose threads agree on something.                                       *)
(***************************************************************************)
NobodyYet == main = "create" => ~stop /\ \A t \in Threads : pc[t] = "none"
Counted == \A t \in Threads : pc[t] \in {"check", "test", "store"} => block[t] > 0

\* muratov9: whoever has passed the store is at most one block ahead of `last'.
\* After one thread has ended nobody goes on that would have to raise `last'
\* above the blocks of that thread.
MuratovOK ==
  program = "muratov9" /\ ~raced =>
    /\ \A t \in Threads :
         /\ block[t] <= last + IF pc[t] \in {"test", "store"} THEN 2 ELSE 1
         /\ pc[t] = "compare" => stop
    /\ \A u \in Ended :
         /\ stop /\ last <= block[u]
         /\ \A t \in Threads :
              /\ pc[t] = "work" => block[t] <= block[u]
              /\ pc[t] \in {"test", "store"} => block[t] - 1 <= block[u]

\* shinkevich9: the step is named once, before anybody ends.
ShinkevichOK ==
  program = "shinkevich9" /\ ~raced =>
    \A t \in Ended : last # 0 /\ last <= block[t]

\* tamplon9: the threads that got ahead did so one after the other.
GotAhead == {t \in Threads : pc[t] \in {"flag", "end"}}
TamplonOK ==
  program = "tamplon9" =>
    /\ \A t \in GotAhead : Term(t) <= last
    /\ \A t, u \in GotAhead : t # u => Term(t) >= Term(u) + SUPPLEMENT * N
                                     \/ Term(u) >= Term(t) + SUPPLEMENT * N

IInv == TypeOK /\ NobodyYet /\ Counted /\ MuratovOK /\ ShinkevichOK /\ TamplonOK

\* max_iteration_completed and, but for the race, lastBlockNum only grow.
LastStep == program # "shinkevich9" /\ ~raced' => last' >= last
LastGrows == [][LastStep]_vars

\* After SIGINT all threads end and main reports, unless main is gone.
PiStops == stop ~> main \in {"report", "undefined"}
=============================================================================
