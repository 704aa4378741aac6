----------------------------- MODULE SleepSort -----------------------------
(***************************************************************************)
(* Exercises 6 and 23: a thread for every line sleeps as long as its line  *)
(* is and then prints it, or appends it to a list that main prints.  Two   *)
(* solutions hold all threads back with a pipe until the last of them is   *)
(* created.  Solutions:                                                    *)
(*   "matsko6"    the pipe; threads print                                  *)
(*   "matsko23"   the pipe; the nodes of the input list move to final_list *)
(*   "shuvalov6", "arkhipov6", "tamplon6"   no pipe; threads print         *)
(***************************************************************************)
EXTENDS Integers, Sequences, FiniteSets

CONSTANTS N,         \* the number of lines
          LENGTHS,   \* the lengths a line may have
          SLOW       \* the most time the creation of all threads takes

VARIABLES
  program,
  prompt,    \* a thread that can run does so before time goes on
  len,       \* the lengths of the lines
  main,      \* "create", "next", "join", "end", "left", "exited", "undefined"
  tmp,       \* the node main is at; 0 is NULL
  next,      \* the pointers of the nodes
  thread,    \* what each thread does, and when its sleep is over
  clock, bytes,
  out        \* the lines that are out, or the nodes of final_list

vars == <<program, prompt, len, main, tmp, next, thread, clock, bytes, out>>

Programs == {"matsko6", "matsko23", "shuvalov6", "arkhipov6", "tamplon6"}
Piped == program \in {"matsko6", "matsko23"}
Lines == 1 .. N
Created == {t \in Lines : thread[t].pc \notin {"none", "failed"}}

Init ==
  /\ program \in Programs
  /\ prompt \in BOOLEAN
  /\ len \in [Lines -> LENGTHS]
  /\ main = "create" /\ tmp = 1
  /\ next = [t \in Lines |-> IF t < N THEN t + 1 ELSE 0]
  /\ thread = [t \in Lines |-> [pc |-> "none", due |-> 0]]
  /\ clock = 0 /\ bytes = 0
  /\ out = << >>

-----------------------------------------------------------------------------
(***************************************************************************)
(* The threads.                                                            *)
(***************************************************************************)
\* What pthread_create starts: a wait for a byte, or the sleep.
Begin(t) ==
  IF Piped THEN [pc |-> "wait", due |-> 0]
  ELSE [pc |-> "sleep", due |-> clock + len[t]]

sync_pipe_wait(t) ==
  /\ thread[t].pc = "wait"
  /\ bytes > 0
  /\ bytes' = bytes - 1
  /\ thread' = [thread EXCEPT ![t] = [pc |-> "sleep", due |-> clock + len[t]]]
  /\ UNCHANGED <<program, prompt, len, main, tmp, next, clock, out>>

\* addNodeToList links the node behind the last one and ends the list with it.
addNodeToList(t) ==
  LET cut == [next EXCEPT ![t] = 0]
  IN  next' = IF out = << >> THEN cut ELSE [cut EXCEPT ![out[Len(out)]] = t]

\* The end of the sleep and what comes after it.
Out(t) ==
  /\ thread[t].pc = "sleep"
  /\ prompt => thread[t].due <= clock
  /\ out' = Append(out, t)
  /\ thread' = [thread EXCEPT ![t].pc = "done"]
  /\ UNCHANGED <<program, prompt, len, main, tmp, clock, bytes>>

mythread(t) == program = "matsko23" /\ Out(t) /\ addNodeToList(t)
matsko6thread(t) == program = "matsko6" /\ Out(t) /\ UNCHANGED next
sort_by_length(t) == program = "shuvalov6" /\ Out(t) /\ UNCHANGED next
print_line(t) == program = "arkhipov6" /\ Out(t) /\ UNCHANGED next
new_thread_func(t) ==
  program = "tamplon6" /\ main # "exited" /\ Out(t) /\ UNCHANGED next

Thread(t) ==
  \/ sync_pipe_wait(t) \/ mythread(t) \/ matsko6thread(t) \/ sort_by_length(t)
  \/ print_line(t) \/ new_thread_func(t)

-----------------------------------------------------------------------------
(***************************************************************************)
(* The main functions.                                                     *)
(***************************************************************************)
pthread_create ==
  /\ main = "create" /\ tmp # 0
  /\ thread' = [thread EXCEPT ![tmp] = Begin(tmp)]
  /\ main' = "next"
  /\ UNCHANGED <<program, prompt, len, tmp, next, clock, bytes, out>>

createFails(then) ==
  /\ main = "create" /\ tmp # 0
  /\ thread' = [thread EXCEPT ![tmp].pc = "failed"]
  /\ main' = then
  /\ UNCHANGED <<program, prompt, len, tmp, clock, bytes, out>>

\* tmp = tmp->next, or i++.
advance ==
  /\ main = "next"
  /\ tmp' = next[tmp]
  /\ main' = "create"
  /\ UNCHANGED <<program, prompt, len, next, thread, clock, bytes, out>>

sync_pipe_notify ==
  /\ main = "create" /\ tmp = 0
  /\ bytes' = IF Piped THEN Cardinality(Created) ELSE 0
  /\ main' = "join"
  /\ UNCHANGED <<program, prompt, len, tmp, next, thread, clock, out>>

join(then) ==
  /\ main = "join"
  /\ \A t \in Created : thread[t].pc = "done"
  /\ main' \in then
  /\ UNCHANGED <<program, prompt, len, tmp, next, thread, clock, bytes, out>>

Walk == pthread_create \/ advance \/ sync_pipe_notify

\* The node of a failed creation moves to another list, which cuts off the rest
\* of the nodes: was_created is read for them although it was never set.
matsko23Main ==
  /\ program = "matsko23"
  /\ \/ Walk
     \/ createFails("next") /\ next' = [next EXCEPT ![tmp] = 0]
     \/ join(IF \E t \in Lines : thread[t].pc = "none"
             THEN {"end", "undefined"} ELSE {"end"})

matsko6Main ==
  /\ program = "matsko6"
  /\ Walk \/ (createFails("next") /\ UNCHANGED next) \/ join({"end"})

\* main leaves the other threads to themselves.
shuvalov6Main ==
  /\ program = "shuvalov6"
  /\ Walk \/ (createFails("left") /\ UNCHANGED next) \/ join({"end"})
arkhipov6Main ==
  /\ program = "arkhipov6"
  /\ Walk \/ (createFails("left") /\ UNCHANGED next) \/ join({"end"})

\* main returns: the process ends.
tamplon6Main ==
  /\ program = "tamplon6"
  /\ Walk \/ (createFails("exited") /\ UNCHANGED next) \/ join({"end"})

Mains ==
  \/ matsko23Main \/ matsko6Main \/ shuvalov6Main \/ arkhipov6Main \/ tamplon6Main

\* Time passes only when the machine is prompt; without that a sleep may take as
\* long as it likes.
Tick ==
  /\ prompt
  /\ \/ main \in {"create", "next"} /\ clock < SLOW
     \/ main \in {"join", "left"}
  /\ \E t \in Lines : thread[t].pc = "sleep"
  /\ \A t \in Lines : thread[t].pc = "sleep" => thread[t].due > clock
  /\ bytes = 0
  /\ clock' = clock + 1
  /\ UNCHANGED <<program, prompt, len, main, tmp, next, thread, bytes, out>>

Next == Mains \/ Tick \/ \E t \in Lines : Thread(t)

Spec == Init /\ [][Next]_vars
FairSpec == Spec /\ WF_vars(Next)

-----------------------------------------------------------------------------
TypeOK ==
  /\ tmp \in 0 .. N /\ bytes \in 0 .. N /\ clock \in Nat
  /\ next \in [Lines -> 0 .. N]
  /\ out \in Seq(Lines)

\* Every line whose thread could be created comes out, once; if all could, all
\* lines do: no node moves to final_list before main has read its next pointer.
LinesOut ==
  main = "end" =>
    /\ Len(out) = Cardinality(Created)
    /\ {out[i] : i \in DOMAIN out} = Created
    /\ (\A t \in Lines : thread[t].pc # "failed") => Created = Lines

\* If threads are prompt, lines come out by length; without the pipe the time
\* main needs to create the threads may upset that.
ByLength ==
  prompt =>
    \A i, j \in DOMAIN out :
      i < j => len[out[i]] <= len[out[j]] + IF Piped THEN 0 ELSE SLOW

\* main ends, and all lines are out that main does not take with it.
AllOut ==
  \/ main \in {"end", "exited", "undefined"}
  \/ main = "left" /\ \A t \in Created : thread[t].pc = "done"
SortEnds == <>AllOut

-----------------------------------------------------------------------------
(***************************************************************************)
(* What makes the properties inductive.                                    *)
(***************************************************************************)
Creating == main \in {"create", "next"}
Failed == {t \in Lines : thread[t].pc = "failed"}
Waiting == {t \in Lines : thread[t].pc = "wait"}
Started == {t \in Lines : thread[t].pc \in {"sleep", "done"}}
Straight == [t \in Lines |-> IF t < N THEN t + 1 ELSE 0]

StateOK ==
  /\ TypeOK
  /\ program \in Programs /\ prompt \in BOOLEAN /\ len \in [Lines -> LENGTHS]
  /\ main \in {"create", "next", "join", "end", "left", "exited", "undefined"}
  /\ thread \in [Lines -> [pc : {"none", "failed", "wait", "sleep", "done"}, due : Nat]]
  /\ main = "next" => tmp # 0

\* The lines that main has not come to.
Ahead(t) ==
  \/ main = "create" /\ tmp # 0 /\ t >= tmp
  \/ main = "next" /\ t > tmp

\* main reads the next pointers in the order of the lines.  Only "matsko23" changes
\* them: after a failure, or when main reads them no more.
WalkOK ==
  /\ \A t \in Lines : Ahead(t) => thread[t].pc = "none"
  /\ Creating => \A t \in Lines : next[t] \in {0, t + 1}
  /\ Failed = {} => /\ Creating => next = Straight
                    /\ \A t \in Lines : Ahead(t) \/ thread[t].pc # "none"

\* The threads that have to wait for a byte wait until all are created, and begin
\* before any time passes.
PipeOK ==
  /\ Piped /\ Creating => Started = {} /\ bytes = 0
  /\ Piped /\ ~Creating => bytes = Cardinality(Waiting)
  /\ Piped /\ (Creating \/ Waiting # {}) => clock = 0
  /\ ~Piped => Waiting = {}
  /\ Creating => clock <= SLOW

\* A line comes out once, and main does not end before the last.
OutOK ==
  /\ \A i, j \in DOMAIN out : out[i] = out[j] => i = j
  /\ \A t \in Lines : thread[t].pc = "done" <=> \E i \in DOMAIN out : out[i] = t
  /\ main = "end" => \A t \in Created : thread[t].pc = "done"

\* A prompt thread wakes up when it is due, so that the lines come out as they are.
TimesOK ==
  /\ \A t \in Started :
       len[t] <= thread[t].due /\ thread[t].due <= len[t] + IF Piped THEN 0 ELSE SLOW
  /\ prompt =>
       /\ \A t \in Lines : thread[t].pc = "sleep" => thread[t].due >= clock
       /\ \A t \in Lines : thread[t].pc = "done" => thread[t].due <= clock
       /\ \A i, j \in DOMAIN out : i < j => thread[out[i]].due <= thread[out[j]].due

IInv == StateOK /\ WalkOK /\ PipeOK /\ OutOK /\ TimesOK
=============================================================================
