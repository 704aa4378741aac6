----------------------------- MODULE SortedList -----------------------------
(***************************************************************************)
(* Exercises 17 to 19: main adds the lines it reads to a list that other   *)
(* threads sort all the time.  `program' says which solution is running:   *)
(*   "s17"  Shinkevich/17   one mutex, one sorter                          *)
(*   "a17"  arkhipov/17     one mutex, one sorter                          *)
(*   "m17"  muratov/lab17   one mutex, but comparisons are made without it *)
(*   "s18"  Shinkevich/18   a mutex in every node, many sorters            *)
(*   "s19"  Shinkevich/19   the same, and a second thread that adds lines  *)
(* Only the lines are swapped, never the nodes, so a node is its index in  *)
(* `list'.  muratov's list grows at the front: there `list' is backwards.  *)
(* What is done under the one mutex of "s17" and "a17" is one step.        *)
(***************************************************************************)
EXTENDS Integers, Sequences, FiniteSets

CONSTANTS VALUES,     \* the lines main may read, numbers in strcmp's order
          INPUTS      \* the most lines that are read

VARIABLES
  program,
  created,    \* the pthread_create of the last sorter succeeded
  finished,   \* `finished', ~running, or "." was read
  mainlist,   \* "null", "raw" (allocated and published, not yet set) or "set"
  list,       \* the lines of the nodes
  owner,      \* of the mutex of every node
  adders,     \* the threads that add lines
  sorters,    \* the threads that sort
  pushed,     \* how often each line was handed to pushLine
  bad         \* what has made the program undefined, or "no"

vars == <<program, created, finished, mainlist, list, owner, adders, sorters,
          pushed, bad>>

Programs == {"s17", "a17", "m17", "s18", "s19"}
PerNode == {"s18", "s19"}     \* the programs with a mutex in every node
Empty == 0                    \* the line an interrupted read leaves
FileLines == <<2, 1>>         \* input.txt of "s19"
Lines == VALUES \cup {Empty} \cup {1, 2}
\* Two of the lines of "s19" come from the file; "s18" does nothing to a third
\* line that "s19" does not.
InputsOfMain ==
  CASE program = "s18" -> INPUTS - 1
    [] program = "s19" -> INPUTS - Len(FileLines)
    [] OTHER -> INPUTS
MaxLen == INPUTS + 1
Free == 0
SorterIds == IF program \in PerNode THEN {1, 2} ELSE {1}
Running == {i \in SorterIds : created \/ i # Cardinality(SorterIds)}

Init ==
  /\ program \in Programs
  /\ created \in BOOLEAN
  /\ finished = FALSE
  /\ mainlist = "null" /\ list = <<>>
  /\ owner = [n \in 1 .. MaxLen |-> Free]
  /\ adders = [p \in {"main", "reader"} |->
                 [pc |-> IF IF p = "main" THEN program # "m17" \/ created
                                          ELSE program = "s19"
                         THEN "read" ELSE "end",
                  node |-> 0, line |-> Empty, count |-> 0]]
  /\ sorters = [i \in {1, 2} |->
                  [pc |-> IF i \in Running THEN "sleep" ELSE "end",
                   node |-> 0, pair |-> <<>>, sorted |-> TRUE,
                   pos |-> 0, shift |-> 0, seen |-> 0]]
  /\ pushed = [v \in Lines |-> 0]
  /\ bad = "no"

Swap(s, i, j) == [s EXCEPT ![i] = s[j], ![j] = s[i]]

\* One walk of k comparisons from the front.
Walk(s, k) ==
  LET w[i \in 0 .. k] ==
        IF i = 0 THEN s
        ELSE IF w[i - 1][i] > w[i - 1][i + 1]
             THEN Swap(w[i - 1], i, i + 1) ELSE w[i - 1]
  IN  w[k]

-----------------------------------------------------------------------------
(***************************************************************************)
(* Reading.  read() returns a line, a newline, or is interrupted by SIGINT;*)
(* then line[0] is still 0 and an empty line is added.                     *)
(***************************************************************************)
sig_handler ==
  /\ program # "m17"
  /\ ~finished
  /\ finished' = TRUE
  /\ UNCHANGED <<program, created, mainlist, list, owner, adders, sorters, pushed, bad>>

\* main of "m17" ends when it reads ".".
ReadDot ==
  /\ program = "m17"
  /\ adders["main"].pc = "read"
  /\ finished' = TRUE
  /\ adders' = [adders EXCEPT !["main"].pc = "join"]
  /\ UNCHANGED <<program, created, mainlist, list, owner, sorters, pushed, bad>>

ReadLine(line) ==
  /\ adders["main"].pc = "read"
  /\ line = Empty \/ adders["main"].count < InputsOfMain
  /\ LET m == adders["main"]
     IN  adders' = [adders EXCEPT !["main"] =
           [m EXCEPT !.pc = "push", !.line = line, !.count = m.count + 1,
                     !.node = IF mainlist = "null" THEN 0 ELSE 1]]
  /\ UNCHANGED <<program, created, finished, mainlist, list, owner, sorters, pushed, bad>>

\* A newline prints the list: "s17" does not expect it to be empty, "s18" and
\* "s19" lock node by node, the others only print.
ReadNewline ==
  /\ adders["main"].pc = "read"
  /\ IF mainlist = "null"
     THEN program = "s17" /\ bad' = "null list" /\ UNCHANGED adders
     ELSE /\ program \in PerNode
          /\ adders' = [adders EXCEPT !["main"].pc = "print", !["main"].node = 1]
          /\ UNCHANGED bad
  /\ UNCHANGED <<program, created, finished, mainlist, list, owner, sorters, pushed>>

\* readThread of "s19" reads the file, and sleeps a second after every line.
readThread ==
  /\ program = "s19"
  /\ adders["reader"].pc = "read"
  /\ LET k == adders["reader"].count + 1
     IN  adders' = [adders EXCEPT !["reader"] =
           IF finished \/ k > Len(FileLines)
           THEN [@ EXCEPT !.pc = "end"]
           ELSE [@ EXCEPT !.pc = "push", !.line = FileLines[k], !.count = k,
                          !.node = IF mainlist = "null" THEN 0 ELSE 1]]
  /\ UNCHANGED <<program, created, finished, mainlist, list, owner, sorters, pushed, bad>>

\* The line has been added: main's loop tests the flag.
Added(p) ==
  [adders[p] EXCEPT !.pc = IF p = "main" /\ finished THEN "join" ELSE "read",
                    !.node = 0, !.line = Empty]

-----------------------------------------------------------------------------
(***************************************************************************)
(* Adding a line.                                                          *)
(***************************************************************************)
Push(p) ==
  /\ adders[p].pc = "push"
  /\ list' = Append(list, adders[p].line)
  /\ pushed' = [pushed EXCEPT ![adders[p].line] = @ + 1]
  /\ mainlist' = "set"
  /\ adders' = [adders EXCEPT ![p] = Added(p)]
  /\ UNCHANGED <<program, created, finished, owner, sorters, bad>>

\* pushLine of "s17" is called with the mutex locked.
pushLine17 == program = "s17" /\ Push("main")

\* handle_input of "a17" keeps a pointer to the last node.
handle_input == program = "a17" /\ Push("main")

\* add_string of "m17" makes the new item the first.
add_string == program = "m17" /\ Push("main")

\* "s18", "s19": the first node is reachable before its fields are set, and
\* nothing prevents two threads from creating it.
pushFirst(p) ==
  /\ program \in PerNode
  /\ adders[p].pc = "push" /\ adders[p].node = 0
  /\ mainlist' = "raw"
  /\ bad' = IF mainlist = "null" THEN bad ELSE "two first nodes"
  /\ adders' = [adders EXCEPT ![p].pc = "fill"]
  /\ UNCHANGED <<program, created, finished, list, owner, sorters, pushed>>

fillFirst(p) ==
  /\ adders[p].pc = "fill"
  /\ mainlist' = "set"
  /\ list' = <<adders[p].line>>
  /\ pushed' = [pushed EXCEPT ![adders[p].line] = @ + 1]
  /\ adders' = [adders EXCEPT ![p] = Added(p)]
  /\ UNCHANGED <<program, created, finished, owner, sorters, bad>>

\* A raw node has no mutex yet.
Raw ==
  /\ mainlist = "raw"
  /\ bad' = "raw node"
  /\ UNCHANGED <<program, created, finished, mainlist, list, owner, adders,
                 sorters, pushed>>

\* Mutant: the node is not locked, so that two threads append to the same one.
PushNodeUnlocked(p) ==
  /\ adders[p].pc = "push" /\ adders[p].node > 0 /\ mainlist = "set"
  /\ list' = Append(SubSeq(list, 1, adders[p].node), adders[p].line)
  /\ pushed' = [pushed EXCEPT ![adders[p].line] = @ + 1]
  /\ adders' = [adders EXCEPT ![p] = Added(p)]
  /\ UNCHANGED <<program, created, finished, mainlist, owner, sorters, bad>>

\* One node: lock it, add behind it if it is the last, unlock it, go on.
PushNode(p) ==
  /\ adders[p].pc = "push" /\ adders[p].node > 0
  /\ \/ Raw
     \/ /\ mainlist = "set"
        /\ owner[adders[p].node] = Free
        /\ IF adders[p].node = Len(list)
           THEN /\ list' = Append(list, adders[p].line)
                /\ pushed' = [pushed EXCEPT ![adders[p].line] = @ + 1]
                /\ adders' = [adders EXCEPT ![p] = Added(p)]
           ELSE /\ adders' = [adders EXCEPT ![p].node = @ + 1]
                /\ UNCHANGED <<list, pushed>>
        /\ UNCHANGED <<program, created, finished, mainlist, owner, sorters, bad>>

pushLine18 == program = "s18" /\ PushNode("main")
pushLine19(p) == program = "s19" /\ PushNode(p)

PrintNode ==
  /\ adders["main"].pc = "print"
  /\ \/ Raw
     \/ /\ mainlist = "set"
        /\ LET n == adders["main"].node
           IN  /\ owner[n] = Free
               /\ adders' = [adders EXCEPT !["main"] =
                    IF n < Len(list) THEN [adders["main"] EXCEPT !.node = n + 1]
                    ELSE Added("main")]
        /\ UNCHANGED <<program, created, finished, mainlist, list, owner, sorters,
                       pushed, bad>>

printList18 == program = "s18" /\ PrintNode
printList19 == program = "s19" /\ PrintNode

-----------------------------------------------------------------------------
(***************************************************************************)
(* Sorting.                                                                *)
(***************************************************************************)
\* "s17": walks until one of them swaps nothing; n - 1 walks and a last one.
sortedBy17(s) ==
  LET w[k \in 0 .. Len(s)] ==
        IF k = 0 THEN s ELSE Walk(w[k - 1], Len(s) - 1)
  IN  IF s = <<>> THEN s ELSE w[Len(s)]

\* "a17": every walk ends where the one before it ended.
sort_list(s) ==
  LET w[k \in 0 .. Len(s)] ==
        IF k = 0 THEN s ELSE Walk(w[k - 1], Len(s) - k)
  IN  w[Len(s)]

SortAll(i, s) ==
  /\ sorters[i].pc = "sleep"
  /\ list' = s
  /\ UNCHANGED <<program, created, finished, mainlist, owner, adders, sorters,
                 pushed, bad>>

StopSorting(i) ==
  /\ sorters[i].pc = "sleep"
  /\ finished
  /\ sorters' = [sorters EXCEPT ![i].pc = "end"]
  /\ UNCHANGED <<program, created, finished, mainlist, list, owner, adders, pushed, bad>>

\* "s17" tests the flag after its sleep and prints the list at the end; "a17"
\* tests it before: it may sort once more.
sortThread17 ==
  /\ program = "s17"
  /\ \/ ~finished /\ SortAll(1, sortedBy17(list))
     \/ mainlist = "set" /\ StopSorting(1)
     \/ /\ mainlist = "null" /\ finished /\ sorters[1].pc = "sleep"
        /\ bad' = "null list"
        /\ UNCHANGED <<program, created, finished, mainlist, list, owner, adders,
                       sorters, pushed>>

sort_iteratively ==
  /\ program = "a17"
  /\ SortAll(1, sort_list(list)) \/ StopSorting(1)

\* Mutant: the walk leaves out the first node.
StartWalkSecond(i) ==
  /\ sorters[i].pc = "sleep"
  /\ ~finished
  /\ Len(list) > 1
  /\ sorters' = [sorters EXCEPT ![i].pc = "lock", ![i].node = 2, ![i].sorted = TRUE]
  /\ UNCHANGED <<program, created, finished, mainlist, list, owner, adders, pushed, bad>>

\* "s18", "s19": the walk of one sorter.  The node's mutex is taken first, then
\* that of the next node; then strcmp reads the two lines, and they are swapped.
StartWalk(i) ==
  /\ sorters[i].pc = "sleep"
  /\ ~finished
  /\ mainlist # "null"
  /\ sorters' = [sorters EXCEPT ![i].pc = "lock", ![i].node = 1, ![i].sorted = TRUE]
  /\ UNCHANGED <<program, created, finished, mainlist, list, owner, adders, pushed, bad>>

LockNode(i) ==
  /\ sorters[i].pc = "lock"
  /\ \/ Raw
     \/ /\ mainlist = "set"
        /\ owner[sorters[i].node] = Free
        /\ owner' = [owner EXCEPT ![sorters[i].node] = i]
        /\ sorters' = [sorters EXCEPT ![i].pc = "next"]
        /\ UNCHANGED <<program, created, finished, mainlist, list, adders, pushed, bad>>

\* Mutant: the second mutex is not taken.
LockNextNot(i) ==
  /\ sorters[i].pc = "next"
  /\ LET n == sorters[i].node
     IN  IF n = Len(list)
         THEN /\ owner' = [owner EXCEPT ![n] = Free]
              /\ sorters' = [sorters EXCEPT ![i].pc = "advance"]
         ELSE /\ UNCHANGED owner
              /\ sorters' = [sorters EXCEPT ![i].pc = "swap",
                                            ![i].pair = <<list[n], list[n + 1]>>]
  /\ UNCHANGED <<program, created, finished, mainlist, list, adders, pushed, bad>>

LockNext(i) ==
  /\ sorters[i].pc = "next"
  /\ LET n == sorters[i].node
     IN  IF n = Len(list)
         THEN /\ owner' = [owner EXCEPT ![n] = Free]
              /\ sorters' = [sorters EXCEPT ![i].pc = "advance"]
         ELSE /\ owner[n + 1] = Free
              /\ owner' = [owner EXCEPT ![n + 1] = i]
              /\ sorters' = [sorters EXCEPT ![i].pc = "swap",
                                            ![i].pair = <<list[n], list[n + 1]>>]
  /\ UNCHANGED <<program, created, finished, mainlist, list, adders, pushed, bad>>

SwapLines(i) ==
  /\ sorters[i].pc = "swap"
  /\ LET n == sorters[i].node
         pair == sorters[i].pair
         swap == pair[1] > pair[2]
     IN  /\ list' = IF swap THEN [list EXCEPT ![n] = pair[2], ![n + 1] = pair[1]]
                    ELSE list
         /\ owner' = [owner EXCEPT ![n] = Free, ![n + 1] = Free]
         /\ sorters' = [sorters EXCEPT ![i].pc = "advance", ![i].pair = <<>>,
                                       ![i].sorted = @ /\ ~swap]
  /\ UNCHANGED <<program, created, finished, mainlist, adders, pushed, bad>>

\* next is read after the mutexes are released.  At the end of a walk another
\* one is made if something was swapped; "s19" breaks a walk off when finished.
Advance(i) ==
  /\ sorters[i].pc = "advance"
  /\ LET s == sorters[i]
     IN  sorters' = [sorters EXCEPT ![i] =
           IF s.node < Len(list) /\ ~(program = "s19" /\ finished)
           THEN [s EXCEPT !.pc = "lock", !.node = s.node + 1]
           ELSE IF s.sorted THEN [s EXCEPT !.pc = "sleep", !.node = 0]
           ELSE [s EXCEPT !.pc = "lock", !.node = 1, !.sorted = TRUE]]
  /\ UNCHANGED <<program, created, finished, mainlist, list, owner, adders, pushed, bad>>

SortNode(i) ==
  \/ StartWalk(i) \/ LockNode(i) \/ LockNext(i) \/ SwapLines(i)
  \/ Advance(i) \/ StopSorting(i)

sortThread18(i) == program = "s18" /\ SortNode(i)
sortThread19(i) == program = "s19" /\ SortNode(i)

-----------------------------------------------------------------------------
(***************************************************************************)
(* sort of "m17": item is a pointer, size is read again in every test.     *)
(* list is backwards, so item->next is the node before.                    *)
(***************************************************************************)
\* The test of the outer loop; item = list->begin.
sortOuter ==
  /\ program = "m17"
  /\ sorters[1].pc \in {"sleep", "outer"}
  /\ LET s == sorters[1]
         pos == IF s.pc = "sleep" THEN 0 ELSE s.pos
     IN  sorters' = [sorters EXCEPT ![1] =
           IF pos < Len(list) - 1
           THEN [s EXCEPT !.pc = "inner", !.pos = pos, !.shift = pos,
                          !.node = Len(list), !.seen = Len(list)]
           ELSE [s EXCEPT !.pc = "sleep", !.pos = 0, !.shift = 0, !.node = 0, !.seen = 0]]
  /\ UNCHANGED <<program, created, finished, mainlist, list, owner, adders, pushed, bad>>

\* The test of the inner loop and the comparison, which follows item->next.
sortInner ==
  /\ program = "m17"
  /\ sorters[1].pc = "inner"
  /\ LET s == sorters[1]
     IN  IF s.shift >= Len(list) - 1
         THEN sorters' = [sorters EXCEPT ![1].pc = "outer", ![1].pos = @ + 1]
              /\ UNCHANGED bad
         ELSE IF s.node <= 1
         THEN bad' = "null next" /\ UNCHANGED sorters
         ELSE sorters' = [sorters EXCEPT ![1].pc =
                IF list[s.node] > list[s.node - 1] THEN "exchange" ELSE "step"]
              /\ UNCHANGED bad
  /\ UNCHANGED <<program, created, finished, mainlist, list, owner, adders, pushed>>

\* The swap, under the mutex.
sortExchange ==
  /\ program = "m17"
  /\ sorters[1].pc = "exchange"
  /\ list' = Swap(list, sorters[1].node, sorters[1].node - 1)
  /\ sorters' = [sorters EXCEPT ![1].pc = "step"]
  /\ UNCHANGED <<program, created, finished, mainlist, owner, adders, pushed, bad>>

\* pthread_testcancel and item = item->next.
sortStep ==
  /\ program = "m17"
  /\ sorters[1].pc = "step"
  /\ LET s == sorters[1]
     IN  sorters' = [sorters EXCEPT ![1] =
           IF adders["main"].pc = "join" THEN [s EXCEPT !.pc = "end"]
           ELSE [s EXCEPT !.pc = "inner", !.node = s.node - 1, !.shift = s.shift + 1]]
  /\ UNCHANGED <<program, created, finished, mainlist, list, owner, adders, pushed, bad>>

\* The other point of cancellation is sleep.
sort_thread ==
  /\ program = "m17"
  /\ adders["main"].pc = "join"
  /\ StopSorting(1)

-----------------------------------------------------------------------------
(***************************************************************************)
(* The end: main joins the threads and clears the list.  A sorter that     *)
(* could not be created is joined all the same, except in "m17", which     *)
(* gives up at once.                                                       *)
(***************************************************************************)
JoinAll ==
  /\ adders["main"].pc = "join"
  /\ \A i \in SorterIds : sorters[i].pc = "end"
  /\ adders["reader"].pc = "end"

Cleared(rest) ==
  /\ JoinAll
  /\ IF created
     THEN /\ adders' = [adders EXCEPT !["main"].pc = "end"]
          /\ list' = rest
          /\ UNCHANGED bad
     ELSE bad' = "join" /\ UNCHANGED <<adders, list>>
  /\ UNCHANGED <<program, created, finished, mainlist, owner, sorters, pushed>>

\* Shinkevich's clearList frees the last node only.
AllButLast == IF list = <<>> THEN list ELSE SubSeq(list, 1, Len(list) - 1)

main17 == program = "s17" /\ Cleared(AllButLast)
main18 == program = "s18" /\ Cleared(AllButLast)
main19 == program = "s19" /\ Cleared(AllButLast)
arkhipovMain == program = "a17" /\ Cleared(<<>>)
clear_all == program = "m17" /\ Cleared(<<>>)

Environment ==
  \/ sig_handler \/ ReadDot \/ ReadNewline
  \/ \E line \in VALUES : ReadLine(line)

Adders ==
  \/ finished /\ program # "m17" /\ ReadLine(Empty)
  \/ readThread
  \/ pushLine17 \/ handle_input \/ add_string \/ pushLine18
  \/ \E p \in {"main", "reader"} : pushFirst(p) \/ fillFirst(p) \/ pushLine19(p)
  \/ printList18 \/ printList19
  \/ main17 \/ main18 \/ main19 \/ arkhipovMain \/ clear_all

Sorter(i) ==
  \/ i = 1 /\ (sortThread17 \/ sort_iteratively \/ sortOuter \/ sortInner
               \/ sortExchange \/ sortStep \/ sort_thread)
  \/ sortThread18(i) \/ sortThread19(i)

Next ==
  /\ bad = "no"
  /\ Environment \/ Adders \/ \E i \in SorterIds : Sorter(i)

\* What the threads do for themselves; the sleeps between two walks leave every
\* mutex free for long.
AddersGoOn == bad = "no" /\ Adders
SorterGoesOn(i) == bad = "no" /\ Sorter(i)
Fairness == SF_vars(AddersGoOn) /\ \A i \in {1, 2} : SF_vars(SorterGoesOn(i))

Spec == Init /\ [][Next]_vars
FairSpec == Spec /\ Fairness

-----------------------------------------------------------------------------
TypeOK ==
  /\ program \in Programs /\ created \in BOOLEAN /\ finished \in BOOLEAN
  /\ mainlist \in {"null", "raw", "set"}
  /\ list \in Seq(Lines) /\ Len(list) <= MaxLen
  /\ pushed \in [Lines -> Nat]
  /\ owner \in [1 .. MaxLen -> {Free} \cup SorterIds]
  /\ bad \in {"no", "null list", "raw node", "two first nodes", "null next", "join"}

\* strcmp's order of the nodes m and n, in the direction of the list.
InOrder(s, m, n) == IF program = "m17" THEN s[n] <= s[m] ELSE s[m] <= s[n]
Inversions(s) ==
  {p \in (DOMAIN s) \X (DOMAIN s) : p[1] < p[2] /\ ~InOrder(s, p[1], p[2])}
Sorted == Inversions(list) = {}

\* No line is lost or doubled by sorters and adders working at once, with one
\* mutex, with one in every node, or in "m17" with comparisons without any.
LinesKept ==
  bad = "no" /\ adders["main"].pc # "end" =>
    \A v \in Lines : Cardinality({n \in DOMAIN list : list[n] = v}) = pushed[v]

\* A sorter only ever brings the list closer to order: the lines it compared are
\* still the lines it swaps.  The sorters with one mutex sort at one stroke.
SortStep ==
  list' # list /\ Len(list') = Len(list) =>
    /\ Cardinality(Inversions(list')) < Cardinality(Inversions(list))
    /\ program \in {"s17", "a17"} => Inversions(list') = {}
SortsRight == [][SortStep]_vars

\* The sort of "m17" follows a null pointer only when during one walk more lines
\* were added than the walk leaves out at the end.
CrashNeedsLateLines ==
  bad = "null next" => Len(list) > sorters[1].seen + sorters[1].pos

\* Without SIGINT the lines that were read end up in order.
SortedOrOver == finished \/ bad # "no" \/ Running = {} \/ Sorted
EventuallySorted == <>[]SortedOrOver

\* After SIGINT or "." main joins all threads and ends.
Over == bad # "no" \/ adders["main"].pc = "end"
ListEnds == finished ~> Over

-----------------------------------------------------------------------------
(***************************************************************************)
(* What makes the properties inductive.                                    *)
(***************************************************************************)
AdderIds == {"main", "reader"}
Adding(p) == adders[p].pc \in {"push", "fill"}
\* The lines that p has added.
Put(p) == adders[p].count - IF Adding(p) THEN 1 ELSE 0

\* Only the line that an interrupted read leaves may be one too many: then main
\* reads no other.
AddersOK ==
  /\ adders \in [AdderIds ->
       [pc : {"read", "push", "fill", "print", "join", "end"}, node : Int,
        line : Lines, count : Nat]]
  /\ adders["main"].count <=
       InputsOfMain + IF finished /\ adders["main"].pc \in {"push", "fill", "join", "end"}
                      THEN 1 ELSE 0
  /\ adders["reader"].count <= IF program = "s19" THEN Len(FileLines) ELSE 0
  /\ adders["reader"].pc \notin {"print", "join"}
  /\ \A p \in AdderIds : Adding(p) => adders[p].count > 0

Walking == {"lock", "next", "swap", "advance"}
Comparing == {"inner", "exchange", "step"}
SortersOK ==
  /\ sorters \in [{1, 2} ->
       [pc : {"sleep", "outer", "end"} \cup Walking \cup Comparing,
        node : Int, pair : {<<>>} \cup Lines \X Lines, sorted : BOOLEAN,
        pos : Nat, shift : Nat, seen : Nat]]
  /\ \A i \in {1, 2} :
       /\ sorters[i].pc \in Walking => program \in PerNode
       /\ sorters[i].pc \in Comparing \cup {"outer"} => program = "m17" /\ i = 1
       /\ i \notin SorterIds => sorters[i].pc = "end"

\* A first node that is not set yet belongs to the one adder that fills it.
FirstNode ==
  /\ \A p, q \in AdderIds :
       adders[p].pc = "fill" => mainlist = "raw" /\ (adders[q].pc = "fill" => q = p)
  /\ mainlist = "raw" => program \in PerNode
  /\ mainlist # "set" => list = <<>>
  /\ mainlist = "set" /\ adders["main"].pc # "end" => list # <<>>

Counted ==
  /\ adders["main"].pc # "end" => Len(list) = Put("main") + Put("reader")
  /\ adders["main"].pc = "end" =>
       adders["reader"].pc = "end" /\ \A i \in {1, 2} : sorters[i].pc = "end"

\* Whoever compares two nodes holds both, so that the lines it read are still there.
NodesOwned ==
  \A i \in {1, 2} :
    LET n == sorters[i].node
    IN  /\ sorters[i].pc \in Walking =>
             mainlist # "null" /\ n >= 1 /\ (n = 1 \/ n <= Len(list))
        /\ sorters[i].pc \in Walking \ {"lock"} => n <= Len(list)
        /\ sorters[i].pc \in {"next", "swap"} => owner[n] = i
        /\ sorters[i].pc = "swap" =>
             /\ n < Len(list) /\ owner[n + 1] = i
             /\ sorters[i].pair = <<list[n], list[n + 1]>>

\* muratov's item goes one node ahead for every step of shift, and the lines it
\* compared without the mutex are still out of order when it swaps them.
ItemFollowsShift ==
  LET s == sorters[1]
  IN  /\ s.pc \in Comparing =>
           s.node \in 1 .. Len(list) /\ s.node + s.shift = s.seen + s.pos
      /\ s.pc \in {"exchange", "step"} => s.node > 1
      /\ s.pc = "exchange" => list[s.node] > list[s.node - 1]

IInv ==
  /\ TypeOK /\ AddersOK /\ SortersOK
  /\ bad = "no" => FirstNode /\ Counted /\ NodesOwned /\ ItemFollowsShift
  /\ LinesKept /\ CrashNeedsLateLines
=============================================================================
