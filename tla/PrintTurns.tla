----------------------------- MODULE PrintTurns -----------------------------
(***************************************************************************)
(* Eleven more solutions of exercises 11, 13 and 14, where main (thread 0) *)
(* and its children print their lines in turn.  What matters in them is    *)
(* the order of the calls to the threads library, so each thread is given  *)
(* as the sequence of its calls, one step each, with the loops unrolled:   *)
(* Calls[p][t].  `program' says which solution is running.                 *)
(*   <<"lock", m>> <<"unlock", m>>    pthread_mutex_lock, _unlock          *)
(*   <<"wait", s>> <<"post", s>>      sem_wait, sem_post                   *)
(*   <<"await", i>>   the loop around pthread_cond_wait: till `turn' is i  *)
(*   <<"flip", 0>> <<"signal", 0>>    the turn changes; pthread_cond_signal*)
(*   <<"print", 0>>   printf of a line                                     *)
(*   <<"create", t>> <<"join", t>>    pthread_create, pthread_join         *)
(*   <<"ready", 0>> <<"spin", 0>>     a flag is set; a loop until it is    *)
(*   <<"sleep", 0>>   a sleep, or nothing, while the child should start    *)
(*   <<"branch", k>>  arkhipov/11: barrier_cnt; the second skips k calls   *)
(*   <<"skip", k>>    a jump over k calls                                  *)
(*   <<"until", k>>   arkhipov/13: skips k calls once all lines are out    *)
(***************************************************************************)
EXTENDS Integers, Sequences, SequencesExt

CONSTANTS LINES     \* the lines of every thread (10 or 5 in the code)

VARIABLES
  program,
  prompt,    \* the child gets its first mutex while main sleeps or spins
  failed,    \* a pthread_create has failed
  pc,        \* the calls every thread has still to make
  asleep,    \* the threads in pthread_cond_wait
  owner,     \* of every mutex
  sems,      \* the values of the semaphores
  turn,      \* whose turn it is in exercise 13; barrier_cnt in arkhipov/11
  ready,     \* ping, second_thread_is_ready
  lines      \* the lines every thread has printed

vars == <<program, prompt, failed, pc, asleep, owner, sems, turn, ready, lines>>

Threads == 0 .. 2
Mutexes == 0 .. 2
Free == -1
Destroyed == -2

\* A loop of n rounds, unrolled.
Rounds(n, Body(_)) == FlattenSeq([i \in 1 .. n |-> Body(i - 1)])

-----------------------------------------------------------------------------
(***************************************************************************)
(* Exercise 11: mutexes only.                                              *)
(***************************************************************************)
\* Mutant: the second arriver lets the neighbour in again before it has locked.
barrier_for_two_early(idx) ==
  << <<"lock", 2>>, <<"branch", 4>>,
     <<"unlock", 2>>, <<"lock", 1 - idx>>, <<"unlock", idx>>, <<"skip", 3>>,
     <<"unlock", idx>>, <<"unlock", 2>>, <<"lock", 1 - idx>> >>

\* arkhipov/11.  The first to arrive lets the other in and waits for its mutex;
\* the second gives its own away before it takes the other's.
barrier_for_two(idx) ==
  << <<"lock", 2>>, <<"branch", 4>>,
     <<"unlock", 2>>, <<"lock", 1 - idx>>, <<"unlock", idx>>, <<"skip", 3>>,
     <<"unlock", idx>>, <<"lock", 1 - idx>>, <<"unlock", 2>> >>

main_th ==
  << <<"spin", 0>> >>
    \o Rounds(2 * LINES, LAMBDA i : barrier_for_two(i % 2)
                \o IF i % 2 = 0 THEN << <<"print", 0>> >> ELSE << >>)
    \o << <<"unlock", 0>> >>

child_th ==
  << <<"lock", 1>>, <<"ready", 0>> >>
    \o Rounds(2 * LINES, LAMBDA i : barrier_for_two(1 - (i % 2))
                \o IF i % 2 = 1 THEN << <<"print", 0>> >> ELSE << >>)
    \o << <<"unlock", 1>> >>

arkhipov11Main ==
  << <<"lock", 0>>, <<"create", 1>> >> \o main_th \o << <<"join", 1>> >>

\* tamplon/lab11.  The child says it is ready before it has its mutex.
printing_function(first) ==
  Rounds(LINES, LAMBDA i : << <<"lock", (first + i + 1) % 3>>, <<"print", 0>>,
                              <<"unlock", (first + i) % 3>> >>)
    \o << <<"unlock", (first + LINES) % 3>> >>

tamplon11Child == << <<"ready", 0>>, <<"lock", 2>> >> \o printing_function(2)

tamplon11Main ==
  << <<"lock", 0>>, <<"create", 1>>, <<"spin", 0>> >> \o printing_function(0)
    \o << <<"join", 1>> >>

\* Shunina/lab11: n goes 0, 2, 1; at the end a thread unlocks what it has left.
shunina11Child ==
  << <<"lock", 1>> >>
    \o Rounds(LINES, LAMBDA i : << <<"lock", (2 * i) % 3>>, <<"print", 0>>,
                                   <<"unlock", (2 * i + 1) % 3>> >>)
    \o << <<"unlock", (2 * LINES + 1) % 3>> >>

shunina11First ==
  Rounds(LINES, LAMBDA i : << <<"print", 0>>, <<"unlock", (2 * i) % 3>>,
                              <<"lock", (2 * i + 1) % 3>> >>)

shunina11Main ==
  << <<"lock", 0>>, <<"lock", 2>>, <<"create", 1>>, <<"sleep", 0>> >>
    \o shunina11First
    \o << <<"unlock", (2 * LINES) % 3>>, <<"unlock", (2 * LINES + 2) % 3>>,
          <<"join", 1>> >>

\* Shunina/lab11with2mutexes: mutex 0 is startMutex.  Each thread unlocks the
\* mutex the other has locked, which the default type of mutex allows.
shunina2mChild ==
  << <<"lock", 0>> >>
    \o Rounds(LINES, LAMBDA i : << <<"lock", 2>>, <<"print", 0>>, <<"unlock", 1>> >>)
    \o << <<"unlock", 0>>, <<"unlock", 2>> >>

shunina2mMain ==
  << <<"lock", 0>>, <<"create", 1>>, <<"lock", 2>>, <<"unlock", 0>> >>
    \o Rounds(LINES, LAMBDA i : << <<"lock", 1>>, <<"print", 0>>, <<"unlock", 2>> >>)

\* Shinkevich/11: COMMON is 0, PARENT 1 and CHILD 2.  main does not join the
\* child: it destroys the mutexes under its feet.
shinkevich11Child ==
  << <<"lock", 2>> >>
    \o Rounds(LINES, LAMBDA i :
         << <<"lock", 1>>, <<"print", 0>>, <<"unlock", 2>>, <<"lock", 0>>,
            <<"unlock", 1>>, <<"lock", 2>>, <<"unlock", 0>> >>)
    \o << <<"unlock", 2>> >>

shinkevich11Loop ==
  Rounds(LINES, LAMBDA i :
    << <<"print", 0>>, <<"lock", 0>>, <<"unlock", 1>>, <<"lock", 2>>,
       <<"unlock", 0>>, <<"lock", 1>>, <<"unlock", 2>> >>)

shinkevich11Main ==
  << <<"lock", 1>>, <<"create", 1>>, <<"sleep", 0>> >> \o shinkevich11Loop
    \o << <<"unlock", 1>>, <<"destroy", 0>> >>

-----------------------------------------------------------------------------
(***************************************************************************)
(* Exercise 13: one mutex (0), one condition variable, two threads.        *)
(***************************************************************************)
\* arkhipov/13: `turn' is the parity of i, and i the number of lines.
inc_i == << <<"lock", 0>>, <<"print", 0>>, <<"flip", 0>>, <<"signal", 0>>,
            <<"unlock", 0>> >>
wait_i(id) == << <<"lock", 0>>, <<"await", id>>, <<"unlock", 0>> >>

arkhipov13Child ==
  Rounds(LINES + 1, LAMBDA i : << <<"until", 9 * (LINES + 1 - i) - 1>> >>
                                 \o wait_i(1) \o inc_i)

arkhipov13Main ==
  << <<"create", 1>> >>
    \o Rounds(LINES + 1, LAMBDA i : << <<"until", 9 * (LINES + 1 - i) - 1>> >>
                                      \o inc_i \o wait_i(0))
    \o << <<"join", 1>> >>

\* shuvalov/13: the time-out of pthread_cond_timedwait is a spurious wake-up.
print_lines(thread_num) ==
  Rounds(LINES, LAMBDA i :
    << <<"lock", 0>>, <<"await", thread_num>>, <<"print", 0>>, <<"flip", 0>>,
       <<"signal", 0>>, <<"unlock", 0>> >>)

shuvalov13Main == << <<"create", 1>> >> \o print_lines(0) \o << <<"join", 1>> >>

\* Shunina/lab13 changes the turn before the line and signals unlocked.
shunina13(threadIndex) ==
  Rounds(LINES, LAMBDA i :
    << <<"lock", 0>>, <<"await", threadIndex>>, <<"flip", 0>>, <<"print", 0>>,
       <<"unlock", 0>>, <<"signal", 0>> >>)

shunina13Main == << <<"create", 1>> >> \o shunina13(0) \o << <<"join", 1>> >>

-----------------------------------------------------------------------------
(***************************************************************************)
(* Exercise 14: semaphores.                                                *)
(***************************************************************************)
\* arkhipov/14 with three threads; worker 0 posts the first token itself.
worker(idx) ==
  (IF idx = 0 THEN << <<"post", 0>> >> ELSE << >>)
    \o Rounds(LINES, LAMBDA i : << <<"wait", idx>>, <<"print", 0>>,
                                   <<"post", (idx + 1) % 3>> >>)

arkhipov14Main ==
  << <<"create", 1>>, <<"create", 2>> >> \o worker(0)
    \o << <<"join", 1>>, <<"join", 2>> >>

\* Shunina/lab14 and Shinkevich/14: semaphore 0 begins with 1, 1 with 0.
shunina14Child ==
  Rounds(LINES, LAMBDA i : << <<"wait", 1>>, <<"print", 0>>, <<"post", 0>> >>)

mainThread ==
  Rounds(LINES, LAMBDA i : << <<"wait", 0>>, <<"print", 0>>, <<"post", 1>> >>)

shunina14Main == << <<"create", 1>> >> \o mainThread \o << <<"join", 1>> >>

shinkevich14Child ==
  Rounds(LINES, LAMBDA i : << <<"wait", 1>>, <<"print", 0>>, <<"post", 0>> >>)

shinkevich14Main ==
  << <<"create", 1>> >>
    \o Rounds(LINES, LAMBDA i : << <<"wait", 0>>, <<"print", 0>>, <<"post", 1>> >>)
    \o << <<"join", 1>> >>

-----------------------------------------------------------------------------
Calls == [
  arkhipov11   |-> <<arkhipov11Main, child_th>>,
  tamplon11    |-> <<tamplon11Main, tamplon11Child>>,
  shunina11    |-> <<shunina11Main, shunina11Child>>,
  shunina2m    |-> <<shunina2mMain, shunina2mChild>>,
  shinkevich11 |-> <<shinkevich11Main, shinkevich11Child>>,
  arkhipov13   |-> <<arkhipov13Main, arkhipov13Child>>,
  shuvalov13   |-> <<shuvalov13Main, print_lines(1)>>,
  shunina13    |-> <<shunina13Main, shunina13(1)>>,
  arkhipov14   |-> <<arkhipov14Main, worker(1), worker(2)>>,
  shunina14    |-> <<shunina14Main, shunina14Child>>,
  shinkevich14 |-> <<shinkevich14Main, shinkevich14Child>>]

Programs == DOMAIN Calls
Team == IF program = "arkhipov14" THEN Threads ELSE {0, 1}
NotCreated == << <<"", 0>> >>
\* The children whose start is a matter of time.
Timed == {"tamplon11", "shunina11", "shinkevich11"}
Ended(t) == pc[t] = << >>
\* The next call of thread t is op.
Calling(t, op) == ~Ended(t) /\ Head(pc[t])[1] = op
Arg(t) == Head(pc[t])[2]
\* The call has returned, and k calls are skipped.
SkipTo(t, k) == pc' = [pc EXCEPT ![t] = SubSeq(@, 2 + k, Len(@))]
Continue(t) == SkipTo(t, 0)

Init ==
  /\ program \in Programs
  /\ prompt \in IF program \in Timed THEN BOOLEAN ELSE {FALSE}
  /\ failed = FALSE
  /\ pc = [t \in Threads |-> IF t = 0 THEN Calls[program][1] ELSE NotCreated]
  /\ asleep = {}
  /\ owner = [m \in Mutexes |-> Free]
  /\ sems = [s \in Threads |->
               IF s = 0 /\ program \in {"shunina14", "shinkevich14"} THEN 1 ELSE 0]
  /\ turn = 0
  /\ ready = FALSE
  /\ lines = [t \in Threads |-> 0]

pthread_create(t) ==
  /\ Calling(t, "create")
  /\ pc' = [pc EXCEPT ![t] = Tail(@), ![Arg(t)] = Calls[program][Arg(t) + 1]]
  /\ UNCHANGED <<program, prompt, failed, asleep, owner, sems, turn, ready, lines>>

\* main gives up, in every program.
pthread_create_fails(t) ==
  /\ Calling(t, "create")
  /\ failed' = TRUE
  /\ pc' = [pc EXCEPT ![t] = << >>]
  /\ UNCHANGED <<program, prompt, asleep, owner, sems, turn, ready, lines>>

pthread_join(t) ==
  /\ Calling(t, "join")
  /\ Ended(Arg(t))
  /\ Continue(t)
  /\ UNCHANGED <<program, prompt, failed, asleep, owner, sems, turn, ready, lines>>

\* The lock of a destroyed mutex returns an error that the code ignores.
pthread_mutex_lock(t) ==
  /\ Calling(t, "lock")
  /\ owner[Arg(t)] \in {Free, Destroyed}
  /\ owner' = IF owner[Arg(t)] = Free THEN [owner EXCEPT ![Arg(t)] = t] ELSE owner
  /\ Continue(t)
  /\ UNCHANGED <<program, prompt, failed, asleep, sems, turn, ready, lines>>

\* An ERRORCHECK mutex cannot be unlocked by another thread.
pthread_mutex_unlock(t) ==
  /\ Calling(t, "unlock")
  /\ owner' = IF owner[Arg(t)] = t \/ program = "shunina2m"
              THEN [owner EXCEPT ![Arg(t)] = Free] ELSE owner
  /\ Continue(t)
  /\ UNCHANGED <<program, prompt, failed, asleep, sems, turn, ready, lines>>

\* A locked mutex is not destroyed (EBUSY).
pthread_mutex_destroy(t) ==
  /\ Calling(t, "destroy")
  /\ owner' = [m \in Mutexes |-> IF owner[m] = Free THEN Destroyed ELSE owner[m]]
  /\ Continue(t)
  /\ UNCHANGED <<program, prompt, failed, asleep, sems, turn, ready, lines>>

sem_wait(t) ==
  /\ Calling(t, "wait")
  /\ sems[Arg(t)] > 0
  /\ sems' = [sems EXCEPT ![Arg(t)] = @ - 1]
  /\ Continue(t)
  /\ UNCHANGED <<program, prompt, failed, asleep, owner, turn, ready, lines>>

sem_post(t) ==
  /\ Calling(t, "post")
  /\ sems' = [sems EXCEPT ![Arg(t)] = @ + 1]
  /\ Continue(t)
  /\ UNCHANGED <<program, prompt, failed, asleep, owner, turn, ready, lines>>

\* The test of the loop, and pthread_cond_wait, which unlocks the mutex.
pthread_cond_wait(t) ==
  /\ Calling(t, "await")
  /\ owner[0] = t
  /\ IF turn = Arg(t)
     THEN Continue(t) /\ UNCHANGED <<asleep, owner>>
     ELSE /\ asleep' = asleep \cup {t}
          /\ owner' = [owner EXCEPT ![0] = Free]
          /\ UNCHANGED pc
  /\ UNCHANGED <<program, prompt, failed, sems, turn, ready, lines>>

\* The return of pthread_cond_wait, with the mutex.
relock(t) ==
  /\ Calling(t, "await")
  /\ t \notin asleep
  /\ owner[0] = Free
  /\ owner' = [owner EXCEPT ![0] = t]
  /\ UNCHANGED <<program, prompt, failed, pc, asleep, sems, turn, ready, lines>>

SpuriousWakeUp(t) ==
  /\ t \in asleep
  /\ asleep' = asleep \ {t}
  /\ UNCHANGED <<program, prompt, failed, pc, owner, sems, turn, ready, lines>>

\* There are two threads: at most the other one sleeps.
pthread_cond_signal(t) ==
  /\ Calling(t, "signal")
  /\ asleep' = {}
  /\ Continue(t)
  /\ UNCHANGED <<program, prompt, failed, owner, sems, turn, ready, lines>>

print(t) ==
  /\ Calling(t, "print")
  /\ lines' = [lines EXCEPT ![t] = @ + 1]
  /\ Continue(t)
  /\ UNCHANGED <<program, prompt, failed, asleep, owner, sems, turn, ready>>

flip(t) ==
  /\ Calling(t, "flip")
  /\ turn' = 1 - turn
  /\ Continue(t)
  /\ UNCHANGED <<program, prompt, failed, asleep, owner, sems, ready, lines>>

setReady(t) ==
  /\ Calling(t, "ready")
  /\ ready' = TRUE
  /\ Continue(t)
  /\ UNCHANGED <<program, prompt, failed, asleep, owner, sems, turn, lines>>

\* The child owns its first mutex.
ChildStarted == \E m \in Mutexes : owner[m] = 1

pause(t) ==
  /\ Calling(t, "spin") \/ Calling(t, "sleep")
  /\ Calling(t, "spin") => ready
  /\ prompt => ChildStarted
  /\ Continue(t)
  /\ UNCHANGED <<program, prompt, failed, asleep, owner, sems, turn, ready, lines>>

\* barrier_cnt, under mutex 2: 1 for the first of two arrivals.
branch(t) ==
  /\ Calling(t, "branch")
  /\ turn' = 1 - turn
  /\ SkipTo(t, IF turn = 0 THEN 0 ELSE Arg(t))
  /\ UNCHANGED <<program, prompt, failed, asleep, owner, sems, ready, lines>>

skip(t) ==
  /\ \/ Calling(t, "skip") /\ SkipTo(t, Arg(t))
     \/ /\ Calling(t, "until")
        /\ SkipTo(t, IF lines[0] + lines[1] < 2 * LINES THEN 0 ELSE Arg(t))
  /\ UNCHANGED <<program, prompt, failed, asleep, owner, sems, turn, ready, lines>>

Call(t) ==
  \/ pthread_create(t) \/ pthread_create_fails(t) \/ pthread_join(t)
  \/ pthread_mutex_lock(t) \/ pthread_mutex_unlock(t) \/ pthread_mutex_destroy(t)
  \/ sem_wait(t) \/ sem_post(t) \/ pthread_cond_wait(t) \/ relock(t)
  \/ pthread_cond_signal(t) \/ print(t) \/ flip(t) \/ setReady(t) \/ pause(t)
  \/ branch(t) \/ skip(t)

Next == \E t \in Team : Call(t) \/ SpuriousWakeUp(t)

Spec == Init /\ [][Next]_vars
\* Every thread that can go on does; spurious wake-ups do not go on for ever.
Fairness ==
  /\ \A t \in Threads : WF_vars(t \in Team /\ Call(t))
  /\ <>[][\A t \in Team : ~SpuriousWakeUp(t)]_vars
FairSpec == Spec /\ Fairness

-----------------------------------------------------------------------------
TypeOK ==
  /\ program \in Programs
  /\ prompt \in BOOLEAN /\ failed \in BOOLEAN /\ ready \in BOOLEAN
  /\ \A t \in Threads : \A i \in DOMAIN pc[t] : pc[t][i][2] \in Nat
  /\ asleep \subseteq Threads
  /\ owner \in [Mutexes -> Threads \cup {Free, Destroyed}]
  /\ sems \in [Threads -> Nat]
  /\ turn \in {0, 1}
  /\ lines \in [Threads -> Nat]

\* The lines come in turn, main's first; the solutions with three mutexes other
\* than arkhipov/11 rely on the child being quick.
InTurn ==
  (program \in Timed => prompt) =>
    \A t, u \in Team : t < u => lines[t] \in {lines[u], lines[u] + 1}

\* Nobody unlocks an ERRORCHECK mutex it does not own, which would only be
\* reported, or locks one it owns, whether or not the child is quick; but
\* Shinkevich's child may find its mutexes destroyed.
UnlocksItsOwn ==
  program # "shunina2m" =>
    \A t \in Team :
      /\ Calling(t, "unlock")
           => owner[Arg(t)] = t \/ (program = "shinkevich11" /\ Ended(0))
      /\ Calling(t, "lock") => owner[Arg(t)] # t

\* Everybody prints all lines and ends, unless a thread could not be created.
AllPrinted == failed \/ \A t \in Team : Ended(t) /\ lines[t] = LINES
OutputEnds == <>AllPrinted
=============================================================================
