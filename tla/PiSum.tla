------------------------------- MODULE PiSum -------------------------------
(***************************************************************************)
(* Exercise 8: n threads sum up parts of the series for pi and main adds   *)
(* the parts.  Thirteen solutions differ in how the terms are divided, how *)
(* the threads are made to start together, and what a failed               *)
(* pthread_create does; each is given by the terms of a thread (from its   *)
(* thread function) and by a record about its main.  The sum is            *)
(* represented by the number of times it contains each term.               *)
(***************************************************************************)
EXTENDS Integers, FiniteSets

CONSTANTS MAX_THREADS, STEPS     \* STEPS: the numbers of steps to try

VARIABLES
  program,
  n, steps,    \* the number of threads asked for, and of steps
  pc,          \* of main: "create", "notify", "join", "report", "exit", "hang"
  next,        \* the thread main creates or joins next
  failed,      \* the threads that could not be created
  part,        \* what each thread is doing
  bytes,       \* in the pipe
  sum          \* how often main has added each term

vars == <<program, n, steps, pc, next, failed, part, bytes, sum>>

-----------------------------------------------------------------------------
(***************************************************************************)
(* The terms of thread k.                                                  *)
(***************************************************************************)
\* Blocks; the remainder goes to the first threads, one term each, and a block
\* begins where the one before it ends.
Size(k) == (steps \div n) + IF k < steps % n THEN 1 ELSE 0

Block(k) ==
  LET start[j \in 0 .. k] == IF j = 0 THEN 0 ELSE start[j - 1] + Size(j - 1)
  IN  start[k] .. start[k] + Size(k) - 1

\* From STEP_COUNT * offset / thread_count up to the same of offset + 1.
Slice(k) == (steps * k) \div n .. (steps * (k + 1)) \div n - 1

\* Every n-th term, `steps' of them for each thread.
Strided(k) == {i * n + k : i \in 0 .. steps - 1}

\* Every n-th term below `steps'.
StridedBelow(k) == {i \in 0 .. steps - 1 : i % n = k}

CalcPartOfPi(k) == Block(k)
shuvalov8sCalcPartOfPi(k) == Block(k)
shuvalov9sCalcPartOfPi(k) == Block(k)
calc_partial_sum(k) == Block(k)
calculate_batch(k) == Block(k)
partical_sum(k) == Slice(k)
shunina8Sum(k) == Slice(k)
roma2Part(k) == Strided(k)
roma3Part(k) == Strided(k)
shuvalov8Part(k) == Strided(k)
shuvalov82Part(k) == Strided(k)
shuvalov83Part(k) == Strided(k)
calcPartSum(k) == StridedBelow(k)

-----------------------------------------------------------------------------
(***************************************************************************)
(* The main functions.                                                     *)
(*   start   what the threads wait for: a byte of a "pipe", a "barrier" of *)
(*           all threads, or nothing                                       *)
(*   worker  main takes part 0 itself, and a byte too                      *)
(*   fails   a failed pthread_create: "skip" the part, "stop" creating,    *)
(*           main "leaves" alone, the process "exits", or the failure is   *)
(*           not noticed and a thread that does not exist is "joined"      *)
(*   clean   the parts start from 0 and are handed over properly           *)
(***************************************************************************)
Pipe(worker, fails) ==
  [start |-> "pipe", worker |-> worker, fails |-> fails, clean |-> TRUE]
Barrier == [start |-> "barrier", worker |-> FALSE, fails |-> "leave", clean |-> TRUE]
AtOnce(fails, clean) ==
  [start |-> "none", worker |-> FALSE, fails |-> fails, clean |-> clean]

matsko8Main == Pipe(TRUE, "skip")
shuvalov8sMain == Pipe(TRUE, "skip")
shuvalov9sMain == Pipe(TRUE, "skip")
roma2Main == Pipe(FALSE, "leave")
shuvalov82Main == Pipe(FALSE, "leave")
roma3Main == Barrier
shuvalov83Main == Barrier
\* The sum of a thread begins with what malloc returned; a pointer is expected
\* where the thread returns a double.
shuvalov8Main == AtOnce("leave", FALSE)
tamplon8Main == AtOnce("join", FALSE)
\* running = 0 makes the other threads stop early.
arkhipov8Main == AtOnce("leave", TRUE)
muratov8Main == AtOnce("stop", TRUE)
shunina8Main == AtOnce("join", TRUE)
shinkevich8Main == AtOnce("exit", TRUE)

Mains == [
  matsko8 |-> matsko8Main, shuvalov8s |-> shuvalov8sMain,
  shuvalov9s |-> shuvalov9sMain, roma2 |-> roma2Main, roma3 |-> roma3Main,
  shuvalov82 |-> shuvalov82Main, shuvalov83 |-> shuvalov83Main,
  shuvalov8 |-> shuvalov8Main, tamplon8 |-> tamplon8Main,
  arkhipov8 |-> arkhipov8Main, muratov8 |-> muratov8Main,
  shunina8 |-> shunina8Main, shinkevich8 |-> shinkevich8Main]

Part(k) ==
  CASE program = "matsko8" -> CalcPartOfPi(k)
    [] program = "shuvalov8s" -> shuvalov8sCalcPartOfPi(k)
    [] program = "shuvalov9s" -> shuvalov9sCalcPartOfPi(k)
    [] program = "tamplon8" -> calc_partial_sum(k)
    [] program = "arkhipov8" -> calculate_batch(k)
    [] program = "muratov8" -> partical_sum(k)
    [] program = "shunina8" -> shunina8Sum(k)
    [] program = "roma2" -> roma2Part(k)
    [] program = "roma3" -> roma3Part(k)
    [] program = "shuvalov8" -> shuvalov8Part(k)
    [] program = "shuvalov82" -> shuvalov82Part(k)
    [] program = "shuvalov83" -> shuvalov83Part(k)
    [] program = "shinkevich8" -> calcPartSum(k)

Programs == DOMAIN Mains
Main == Mains[program]
Workers == 0 .. MAX_THREADS - 1
MaxTerm == MAX_THREADS * (CHOOSE m \in STEPS : \A l \in STEPS : l <= m) - 1
\* The terms the program means to add.
Wanted ==
  IF program \in {"roma2", "roma3", "shuvalov8", "shuvalov82", "shuvalov83"}
  THEN 0 .. n * steps - 1 ELSE 0 .. steps - 1

Init ==
  /\ program \in Programs
  /\ n \in 1 .. MAX_THREADS
  /\ steps \in STEPS
  /\ pc = "create"
  /\ next = IF Main.worker THEN 1 ELSE 0
  /\ failed = {}
  /\ part = [k \in Workers |-> "none"]
  /\ bytes = 0
  /\ sum = [i \in 0 .. MaxTerm |-> 0]

-----------------------------------------------------------------------------
pthread_create ==
  /\ pc = "create" /\ next < n
  /\ part' = [part EXCEPT ![next] = IF Main.start = "none" THEN "sum" ELSE "wait"]
  /\ next' = next + 1
  /\ UNCHANGED <<program, n, steps, pc, failed, bytes, sum>>

\* When main leaves, the threads that wait for the start wait for ever.
createFails ==
  /\ pc = "create" /\ next < n
  /\ failed' = failed \cup {next}
  /\ CASE Main.fails \in {"skip", "join"} -> next' = next + 1 /\ UNCHANGED pc
       [] Main.fails = "stop" -> next' = n /\ UNCHANGED pc
       [] Main.fails = "exit" -> pc' = "exit" /\ UNCHANGED next
       [] Main.fails = "leave" ->
            /\ pc' = IF Main.start # "none" /\ \E k \in Workers : part[k] = "wait"
                     THEN "hang" ELSE "exit"
            /\ UNCHANGED next
  /\ UNCHANGED <<program, n, steps, part, bytes, sum>>

\* All threads that could be created are: main writes a byte for each that waits,
\* itself included.
Created == {k \in Workers : part[k] # "none"}

notify ==
  /\ pc = "create" /\ next = n
  /\ pc' = "join" /\ next' = 0
  /\ bytes' = IF Main.start = "pipe"
              THEN Cardinality(Created) + IF Main.worker THEN 1 ELSE 0 ELSE 0
  /\ part' = IF Main.worker THEN [part EXCEPT ![0] = "wait"] ELSE part
  /\ UNCHANGED <<program, n, steps, failed, sum>>

\* The read of one byte, or the return of pthread_barrier_wait, which lets all
\* threads_count threads through at once.
Started(k) ==
  /\ part[k] = "wait"
  /\ CASE Main.start = "pipe" ->
            /\ bytes > 0
            /\ bytes' = bytes - 1
            /\ part' = [part EXCEPT ![k] = "sum"]
       [] Main.start = "barrier" ->
            /\ Cardinality(Created) = n
            /\ part' = [l \in Workers |-> IF part[l] = "wait" THEN "sum" ELSE part[l]]
            /\ UNCHANGED bytes
  /\ UNCHANGED <<program, n, steps, pc, next, failed, sum>>

Summed(k) ==
  /\ part[k] = "sum"
  /\ part' = [part EXCEPT ![k] = "done"]
  /\ UNCHANGED <<program, n, steps, pc, next, failed, bytes, sum>>

\* main joins thread `next' and adds its part; the part of a thread that was
\* skipped is 0, and the join of a thread that never was is undefined.  A sum
\* that begins with fresh memory is right only if that happened to be 0.
pthread_join ==
  /\ pc = "join" /\ next < n
  /\ IF next \in failed \/ part[next] = "none"
     THEN /\ IF Main.fails = "join" THEN pc' = "undefined" ELSE UNCHANGED pc
          /\ UNCHANGED sum
     ELSE /\ part[next] = "done"
          /\ sum' = [i \in DOMAIN sum |->
                       IF i \in Part(next) THEN sum[i] + 1 ELSE sum[i]]
          /\ pc' \in IF Main.clean THEN {pc} ELSE {pc, "undefined"}
  /\ next' = next + 1
  /\ UNCHANGED <<program, n, steps, failed, part, bytes>>

report ==
  /\ pc = "join" /\ next = n
  /\ pc' = "report"
  /\ UNCHANGED <<program, n, steps, next, failed, part, bytes, sum>>

Next ==
  \/ pthread_create \/ createFails \/ notify \/ pthread_join \/ report
  \/ \E k \in Workers : Started(k) \/ Summed(k)

Spec == Init /\ [][Next]_vars
\* main and the threads go on.
FairSpec == Spec /\ WF_vars(Next)

-----------------------------------------------------------------------------
TypeOK ==
  /\ program \in Programs
  /\ n \in 1 .. MAX_THREADS /\ steps \in STEPS
  /\ pc \in {"create", "join", "report", "exit", "hang", "undefined"}
  /\ next \in 0 .. n
  /\ failed \subseteq Workers
  /\ part \in [Workers -> {"none", "wait", "sum", "done"}]
  /\ bytes \in 0 .. MAX_THREADS
  /\ sum \in [0 .. MaxTerm -> Nat]

\* The sum main reports contains every term once, whatever the remainder and
\* even when there are more threads than terms.  After failures it contains the
\* terms of the threads that ran, each once.
TermsOnce ==
  pc = "report" =>
    /\ failed = {} => \A i \in DOMAIN sum : sum[i] = IF i \in Wanted THEN 1 ELSE 0
    /\ \A i \in DOMAIN sum :
         sum[i] = Cardinality({k \in Created : i \in Part(k)}) /\ sum[i] <= 1

\* Where the threads are to start together, nobody sums before the last of them
\* was created, and at the end no byte is left for nobody.
StartTogether ==
  Main.start # "none" =>
    /\ pc = "create" /\ next < n => \A k \in Workers : part[k] \notin {"sum", "done"}
    /\ pc = "report" => bytes = 0

(***************************************************************************)
(* The inductive invariant.                                                *)
(***************************************************************************)
Waiting == {k \in Workers : part[k] = "wait"}
Joining == pc \in {"join", "report", "undefined"}

\* Threads are created in order, and main knows which of them failed.
CreatedOK ==
  /\ \A k \in Created : k < n /\ k \notin failed /\ (pc = "create" => k < next)
  /\ \A k \in failed : k < n /\ (pc = "create" => k < next)
  /\ Main.worker => 0 \notin failed
  /\ Main.worker /\ pc = "create" => next > 0 /\ 0 \notin Created
  /\ failed = {} /\ pc = "create" =>
       \A k \in 0 .. next - 1 : k \in Created \/ (Main.worker /\ k = 0)
  /\ failed = {} /\ Joining => \A k \in 0 .. n - 1 : k \in Created

\* There is a byte for every thread that waits, from the time main writes them.
BytesOK == bytes = IF Main.start = "pipe" /\ Joining THEN Cardinality(Waiting) ELSE 0

\* Where the threads wait for the start, none sums while main creates the others.
HeldBack ==
  /\ Main.start = "none" => Waiting = {}
  /\ pc = "create" =>
       /\ Main.start = "pipe" => Created = Waiting
       /\ Main.start = "barrier" /\ next < n => Created = Waiting

\* main has added the terms of the threads it has joined.
SumOK ==
  /\ pc = "create" => \A i \in 0 .. MaxTerm : sum[i] = 0
  /\ pc = "report" => next = n
  /\ pc \in {"join", "report"} =>
       /\ \A k \in Created : k < next => part[k] = "done"
       /\ \A i \in 0 .. MaxTerm :
            sum[i] = IF \E k \in Created : k < next /\ i \in Part(k) THEN 1 ELSE 0

IInv == TypeOK /\ CreatedOK /\ BytesOK /\ HeldBack /\ SumOK

\* main ends, unless it left threads behind that wait for the start.
Reported == pc \in {"report", "exit", "undefined"} \/ (pc = "hang" /\ failed # {})
PiEnds == <>Reported
=============================================================================
