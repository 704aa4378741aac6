----------------------------- MODULE Exercises -----------------------------
(***************************************************************************)
(* The smaller programs in one run.  `family' says which module describes  *)
(* the program that is running and never changes; v1 to v9 are the         *)
(* variables of that module and are 0 where it has fewer.                  *)
(***************************************************************************)
EXTENDS Integers

CONSTANTS
  LINES, THREADS,            \* PrintTurns, OrderedOutput: lines of a thread, threads
  VALUES, INPUTS,            \* SortedList
  MAX_THREADS, STEPS,        \* PiSum
  N, SUPPLEMENT, RUN,        \* PiStop
  SLEEPERS, LENGTHS, SLOW,   \* SleepSort; SLEEPERS is its number of lines
  STOCK, ORDER,              \* ProductionLine
  Addrs, Strings             \* ListQueue

VARIABLES family, program, v1, v2, v3, v4, v5, v6, v7, v8, v9

vars == <<family, program, v1, v2, v3, v4, v5, v6, v7, v8, v9>>

Turns == INSTANCE PrintTurns WITH
  prompt <- v1, failed <- v2, pc <- v3, asleep <- v4, owner <- v5, sems <- v6,
  turn <- v7, ready <- v8, lines <- v9

Ring == INSTANCE OrderedOutput WITH
  NUM_LINES <- LINES,
  solution <- program, prompt <- v1, failed <- v2, pc <- v3, at <- v4,
  owner <- v5, sems <- v6, turn <- v7, lines <- v9

Lists == INSTANCE SortedList WITH
  created <- v1, finished <- v2, mainlist <- v3, list <- v4, owner <- v5,
  adders <- v6, sorters <- v7, pushed <- v8, bad <- v9

Sum == INSTANCE PiSum WITH
  n <- v1, failed <- v2, pc <- v3, next <- v4, part <- v5, steps <- v6,
  bytes <- v7, sum <- v8

Stop == INSTANCE PiStop WITH
  main <- v1, stop <- v2, pc <- v3, last <- v4, block <- v5, raced <- v6

Queue == INSTANCE ListQueue WITH
  head <- v1, tail <- v2, next <- v3, value <- v4, nodes <- v5, strs <- v6,
  destroyed <- v7, fifo <- v8

Sort == INSTANCE SleepSort WITH
  N <- SLEEPERS,
  prompt <- v1, len <- v2, main <- v3, tmp <- v4, next <- v5, thread <- v6,
  clock <- v7, bytes <- v8, out <- v9

Line == INSTANCE ProductionLine WITH
  main <- v1, running <- v2, sems <- v3, pc <- v4, cancelled <- v5

\* A line that main reads is not the empty one, which a read that SIGINT interrupts
\* leaves; a newline is no line (ReadNewline).
ASSUME ExerciseConstants ==
  /\ Ring!OutputConstants
  /\ VALUES \subseteq Int /\ INPUTS \in Nat /\ INPUTS >= 2
  /\ Lists!Empty \notin VALUES
  /\ MAX_THREADS \in Nat \ {0}
  /\ STEPS \subseteq Nat /\ \E m \in STEPS : \A l \in STEPS : l <= m
  /\ N \in Nat \ {0} /\ SUPPLEMENT \in Nat \ {0} /\ RUN \in Nat
  /\ SLEEPERS \in Nat \ {0} /\ LENGTHS \subseteq Nat /\ SLOW \in Nat
  /\ Queue!QueueConstants

Init ==
  \/ family = "turns" /\ Turns!Init
  \/ family = "ring" /\ Ring!Init /\ v8 = 0
  \/ family = "lists" /\ Lists!Init
  \/ family = "sum" /\ Sum!Init /\ v9 = 0
  \/ family = "stop" /\ Stop!Init /\ v7 = 0 /\ v8 = 0 /\ v9 = 0
  \/ family = "sort" /\ Sort!Init
  \/ family = "line" /\ Line!Init /\ v6 = 0 /\ v7 = 0 /\ v8 = 0 /\ v9 = 0
  \/ family = "queue" /\ Queue!Init /\ program = "queue" /\ v9 = 0

Only(f) == family = f /\ UNCHANGED family

Next ==
  \/ Only("turns") /\ Turns!Next
  \/ Only("ring") /\ Ring!Next /\ UNCHANGED v8
  \/ Only("lists") /\ Lists!Next
  \/ Only("sum") /\ Sum!Next /\ UNCHANGED v9
  \/ Only("stop") /\ Stop!Next /\ UNCHANGED <<v7, v8, v9>>
  \/ Only("sort") /\ Sort!Next
  \/ Only("line") /\ Line!Next /\ UNCHANGED <<v6, v7, v8, v9>>
  \/ Only("queue") /\ Queue!Next /\ UNCHANGED <<program, v9>>

\* The fairness of each module (see there).
Spurious ==
  \/ family = "turns" /\ \E t \in Turns!Team : Turns!SpuriousWakeUp(t)
  \/ family = "ring" /\ \E t \in Ring!Threads : Ring!SpuriousWakeUp(t)

\* Thread 0 is main.
Threads == Turns!Threads \cup Ring!Threads \cup Stop!Threads

Thread(t) ==
  \/ Only("turns") /\ t \in Turns!Team /\ Turns!Call(t)
  \/ Only("ring") /\ t \in Ring!Threads /\ Ring!PrintFunc(t) /\ UNCHANGED v8
  \/ Only("stop") /\ t \in Stop!Threads /\ Stop!Thread(t)
     /\ UNCHANGED <<v7, v8, v9>>

Mains ==
  \/ Only("ring") /\ Ring!Main /\ UNCHANGED v8
  \/ Only("sum") /\ Sum!Next /\ UNCHANGED v9
  \/ Only("stop") /\ Stop!Mains /\ UNCHANGED <<v7, v8, v9>>
  \/ Only("sort") /\ Sort!Next
  \/ Only("line") /\ Line!Work /\ UNCHANGED <<v6, v7, v8, v9>>

Fairness ==
  /\ WF_vars(Mains) /\ \A t \in Threads : WF_vars(Thread(t))
  /\ <>[][~Spurious]_vars
  /\ SF_vars(Only("lists") /\ Lists!AddersGoOn)
  /\ \A i \in {1, 2} : SF_vars(Only("lists") /\ Lists!SorterGoesOn(i))

Spec == Init /\ [][Next]_vars /\ Fairness

-----------------------------------------------------------------------------
\* Types, and the undefined behaviour the programs are free of: nobody unlocks a
\* mutex of another thread (PrintTurns, OrderedOutput), muratov's sort follows a
\* null pointer only when a line came late (SortedList), and the nodes of the
\* queue are the allocated ones (ListQueue).
WellDefined ==
  /\ family = "turns" => Turns!TypeOK /\ Turns!UnlocksItsOwn
  /\ family = "ring" => Ring!TypeOK /\ Ring!UnlocksItsOwn
  /\ family = "lists" => Lists!TypeOK /\ Lists!CrashNeedsLateLines
  /\ family = "sum" => Sum!TypeOK
  /\ family = "stop" => Stop!TypeOK
  /\ family = "sort" => Sort!TypeOK
  /\ family = "line" => Line!TypeOK
  /\ family = "queue" => Queue!ListIsHeap

\* What comes out comes in the order the exercise asks for: the threads' lines in
\* turn, lines by length if the threads are prompt, messages as they were put.  Two
\* inductive invariants are checked with them.
InTurn ==
  /\ family = "turns" => Turns!InTurn
  /\ family = "ring" => Ring!InTurn /\ Ring!IInv
  /\ family = "sort" => Sort!ByLength
  /\ family = "queue" => Queue!ListIsFifo /\ Queue!IInv

\* Threads at work together lose and double nothing: lines while others sort
\* (SortedList), terms of the sum (PiSum), lines whose thread exists (SleepSort).
\* The inductive invariants are checked with them.
NothingLost ==
  /\ family = "lists" => Lists!LinesKept /\ Lists!IInv
  /\ family = "sum" => Sum!TermsOnce
  /\ family = "sort" => Sort!LinesOut /\ Sort!IInv

\* PiSum: nobody begins before all threads exist, where that is meant.
\* PiStop: after SIGINT the threads stop about where the others do.
StartAndStopTogether ==
  /\ family = "sum" => Sum!StartTogether /\ Sum!IInv
  /\ family = "stop" => Stop!StopsTogether /\ Stop!IInv

\* No step undoes what was achieved: every swap brings the list closer to order
\* (SortedList), the number the threads agree on only grows (PiStop).
NeverBackwards ==
  [][/\ family = "lists" => Lists!SortStep
     /\ family = "stop" => Stop!LastStep]_vars

\* SortedList: the lines that were read end up in order.
EventuallySorted == <>[](family = "lists" => Lists!SortedOrOver)

Stopping ==
  \/ family \in {"lists", "stop"} /\ v2
  \/ family = "line" /\ (Line!Signalled \/ v1 = "cleanup")

\* PrintTurns, OrderedOutput: every thread prints all its lines, but for failed
\* creations; PiSum: main reports a sum or gives up; SleepSort: all lines come
\* out.  SortedList, PiStop: after SIGINT all threads end, and main does;
\* ProductionLine: so they do unless a module is missing, and cleanup ends.
EverythingEnds ==
  /\ <>(/\ family = "turns" => Turns!AllPrinted
        /\ family = "ring" => v3[0] = "exit" \/ Ring!RingBroken
        /\ family = "sum" => Sum!Reported
        /\ family = "sort" => Sort!AllOut)
  /\ Stopping ~> (/\ family = "lists" => Lists!Over
                  /\ family = "stop" => v1 \in {"report", "undefined"}
                  /\ family = "line" => IF Line!Signalled THEN Line!LineStopped
                                        ELSE Line!CleanedUp)
=============================================================================
