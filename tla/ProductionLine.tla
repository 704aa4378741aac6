--------------------------- MODULE ProductionLine ---------------------------
(***************************************************************************)
(* Exercise 24: threads make the parts A, B and C, one puts an A and a B   *)
(* together to a module, one a module and a C to a widget.  Every kind has *)
(* a semaphore that counts what is in stock.  Two solutions, "rybalko24",  *)
(* which ends after SIGINT, and "tamplon24", which ends after ORDER        *)
(* widgets.  DestroySems, which rybalko24 calls right after InitSems and   *)
(* in the handler, does nothing in the C library: semaphores live on.      *)
(***************************************************************************)
EXTENDS Integers, FiniteSets

CONSTANTS STOCK,    \* the most parts of a kind in stock while the line runs
          ORDER     \* the widgets tamplon24 waits for (5 in the code)

VARIABLES
  program,
  main,       \* "create", "join", "left", "cleanup", "exited", "crashed"
  running,    \* running, ~need_to_exit
  sems,       \* what is in stock
  pc,
  cancelled   \* tamplon24: the threads that were cancelled and freed

vars == <<program, main, running, sems, pc, cancelled>>

Kinds == {"A", "B", "C", "module", "widget"}
Parts == {"A", "B", "C"}
\* What a product is made of, in the order of the sem_waits.
First == [module |-> "A", widget |-> "module"]
Second == [module |-> "B", widget |-> "C"]
Signalled == program = "rybalko24" /\ ~running

\* The order in which main creates the threads and tamplon24 cleans up.
Order ==
  IF program = "rybalko24" THEN <<"A", "B", "C", "module", "widget">>
  ELSE <<"A", "B", "module", "C", "widget">>
Created == {k \in Kinds : pc[k] # "none"}

Init ==
  /\ program \in {"rybalko24", "tamplon24"}
  /\ main = "create"
  /\ running = TRUE
  /\ sems = [k \in Kinds |-> 0]
  /\ pc = [k \in Kinds |-> "none"]
  /\ cancelled = {}

Goto(k, l) == pc' = [pc EXCEPT ![k] = l]

-----------------------------------------------------------------------------
(***************************************************************************)
(* The threads.  A cancelled thread ends in sem_wait or sleep; elsewhere   *)
(* it goes on with memory that cleanup has freed.                          *)
(***************************************************************************)
Test(k) ==
  /\ pc[k] = "test"
  /\ Goto(k, CASE ~running -> "end" [] running /\ k \in Parts -> "post"
               [] running /\ k \notin Parts -> "first")
  /\ UNCHANGED <<program, main, running, sems, cancelled>>

Take(k, from, to, then) ==
  /\ pc[k] = from
  /\ sems[to] > 0
  /\ sems' = [sems EXCEPT ![to] = @ - 1]
  /\ Goto(k, then)
  /\ UNCHANGED <<program, main, running, cancelled>>

\* The sleep, in which a thread can be cancelled, and sem_post; rybalko24 only
\* prints its widgets.
Post(k) ==
  /\ pc[k] = "post"
  /\ running => sems[k] < IF k = "widget" THEN ORDER ELSE STOCK
  /\ sems' = IF k = "widget" /\ program = "rybalko24" THEN sems
             ELSE [sems EXCEPT ![k] = @ + 1]
  /\ Goto(k, "test")
  /\ UNCHANGED <<program, main, running, cancelled>>

CreateA == Test("A") \/ Post("A")
CreateB == Test("B") \/ Post("B")
CreateC == Test("C") \/ Post("C")

Assemble(k) ==
  \/ Test(k)
  \/ Take(k, "first", First[k], "second")
  \/ Take(k, "second", Second[k], "post")
  \/ Post(k)

CreateModule == Assemble("module")
CreateWidget == Assemble("widget")

rybalkoThread(k) ==
  /\ program = "rybalko24"
  /\ CASE k = "A" -> CreateA [] k = "B" -> CreateB [] k = "C" -> CreateC
       [] k = "module" -> CreateModule [] k = "widget" -> CreateWidget

detailRoutine(k) ==
  /\ program = "tamplon24"
  /\ k \notin cancelled
  /\ IF k \in Parts THEN Test(k) \/ Post(k) ELSE Assemble(k)

\* A thread used what cleanup had freed: nothing is known of the program.
Undefined ==
  /\ main' = "crashed"
  /\ sems' = [k \in Kinds |-> 0] /\ pc' = [k \in Kinds |-> "none"]
  /\ cancelled' = {}
  /\ UNCHANGED <<program, running>>

Cancelled(k) ==
  /\ k \in cancelled
  /\ \/ pc[k] \in {"test", "post"} /\ Undefined
     \/ /\ pc[k] \in {"first", "second", "post"}
        /\ Goto(k, "end")
        /\ UNCHANGED <<program, main, running, sems, cancelled>>

Thread(k) == rybalkoThread(k) \/ detailRoutine(k) \/ Cancelled(k)

-----------------------------------------------------------------------------
(***************************************************************************)
(* The main functions.                                                     *)
(***************************************************************************)
\* The creation of all threads or of those before the one that fails; it is one
\* step, because a thread that begins earlier only has to wait for the others.
create(count, then) ==
  /\ main = "create"
  /\ pc' = [k \in Kinds |->
              IF \E i \in 1 .. count : Order[i] = k THEN "test" ELSE "none"]
  /\ main' = then
  /\ UNCHANGED <<program, running, sems, cancelled>>

\* Mutant: the handler forgets the part B.
SigintHandleNoB ==
  /\ program = "rybalko24" /\ running
  /\ running' = FALSE
  /\ sems' = [sems EXCEPT !["A"] = @ + 2, !["C"] = @ + 1]
  /\ UNCHANGED <<program, main, pc, cancelled>>

SigintHandle ==
  /\ program = "rybalko24" /\ running
  /\ running' = FALSE
  /\ sems' = [sems EXCEPT !["A"] = @ + 2, !["B"] = @ + 1, !["C"] = @ + 1]
  /\ UNCHANGED <<program, main, pc, cancelled>>

joinAll ==
  /\ main = "join"
  /\ \A k \in Kinds : pc[k] = "end"
  /\ main' = "exited"
  /\ UNCHANGED <<program, running, sems, pc, cancelled>>

rybalkoMain ==
  /\ program = "rybalko24"
  /\ \/ create(5, "join") \/ joinAll
     \/ \E count \in 0 .. 4 : create(count, "left")

\* main reads the stock again and again.
watch ==
  /\ main = "join"
  /\ sems["widget"] = ORDER
  /\ main' = "cleanup"
  /\ UNCHANGED <<program, running, sems, pc, cancelled>>

\* destroy_detail of one detail after the other, none of which waits.
cleanup ==
  /\ main = "cleanup"
  /\ cancelled' = Created
  /\ main' = "exited"
  /\ UNCHANGED <<program, running, sems, pc>>

\* After the creation of the module `B' is tested and not `module'.
tamplonMain ==
  /\ program = "tamplon24"
  /\ \/ create(5, "join") \/ watch \/ cleanup
     \/ \E count \in 0 .. 4 :
          create(count, IF Order[count + 1] = "module" THEN "crashed" ELSE "cleanup")

Work ==
  main # "crashed" /\ (rybalkoMain \/ tamplonMain \/ \E k \in Kinds : Thread(k))
Next == Work \/ SigintHandle

Spec == Init /\ [][Next]_vars
\* Somebody runs; nothing makes SIGINT come.
Fairness == WF_vars(Work)
FairSpec == Spec /\ Fairness

-----------------------------------------------------------------------------
TypeOK ==
  /\ main \in {"create", "join", "left", "cleanup", "exited", "crashed"}
  /\ sems \in [Kinds -> Nat]
  /\ cancelled \subseteq Kinds
  /\ pc \in [Kinds -> {"none", "test", "first", "second", "post", "end"}]

\* After SIGINT all threads end, although only one of them tests the flag at the
\* right moment; but the handler posts no module, so that the last thread waits
\* for ever if the module's thread ended before it made another one.
LineStopped ==
  \A k \in Created :
    \/ pc[k] = "end"
    \/ k = "widget" /\ pc[k] = "first" /\ sems["module"] = 0
       /\ (main = "left" \/ pc["module"] = "end")
    \/ main = "left"   \* threads are missing
LineEnds == Signalled ~> LineStopped

\* cleanup ends all threads or uses freed memory.
CleanedUp ==
  main = "crashed" \/ (main = "exited" /\ \A k \in Created : pc[k] = "end")
CleanupEnds == main = "cleanup" ~> CleanedUp
=============================================================================
