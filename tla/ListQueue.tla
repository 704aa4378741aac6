----------------------------- MODULE ListQueue -----------------------------
(***************************************************************************)
(* The linked list of thread_safe_queue.c and the message strings that     *)
(* my_msg_put and my_msg_get move through it.  Every operation runs under  *)
(* the mutexes, so it is one step; what is at stake is the pointers: pop   *)
(* never resets tail, and a node or a string that nobody frees is lost.    *)
(***************************************************************************)
EXTENDS Integers, Sequences, FiniteSets

CONSTANTS Addrs,     \* addresses malloc can return for a node
          Strings    \* addresses calloc can return for a message string

NULL == "NULL"

\* malloc returns NULL only when it fails; there are finitely many addresses.
QueueConstants == IsFiniteSet(Addrs) /\ NULL \notin Addrs

VARIABLES
  head, tail,  \* the Queue; tail is only meaningful while head is not NULL
  next,        \* Node.next of every node address
  value,       \* Node.value of every node address
  nodes,       \* allocated nodes
  strs,        \* allocated message strings
  destroyed,   \* destroy has run
  fifo         \* history: the strings pushed and not yet popped, in order

vars == <<head, tail, next, value, nodes, strs, destroyed, fifo>>

\* create; the pointer fields of unallocated nodes hold arbitrary old values.
Init ==
  /\ head = NULL /\ tail = NULL
  /\ next \in [Addrs -> {NULL}]
  /\ value \in [Addrs -> {NULL}]
  /\ nodes = {} /\ strs = {}
  /\ destroyed = FALSE
  /\ fifo = <<>>

\* my_msg_put's calloc of the string, then push of it.
Push(s) ==
  /\ ~destroyed
  /\ s \in Strings \ strs
  /\ \E a \in Addrs \ nodes :
       /\ value' = [value EXCEPT ![a] = s]
       /\ IF head = NULL
          THEN head' = a /\ next' = [next EXCEPT ![a] = NULL]
          ELSE head' = head /\ next' = [next EXCEPT ![a] = NULL, ![tail] = a]
       /\ tail' = a
       /\ nodes' = nodes \cup {a}
  /\ strs' = strs \cup {s}
  /\ fifo' = Append(fifo, s)
  /\ UNCHANGED destroyed

\* pop, as my_msg_get calls it: the node is freed, the string is copied to the
\* caller's buffer and its own memory is kept.
Pop ==
  /\ ~destroyed
  /\ head # NULL
  /\ head' = next[head]
  /\ nodes' = nodes \ {head}
  /\ fifo' = Tail(fifo)
  /\ UNCHANGED <<tail, next, value, strs, destroyed>>

\* The i-th pointer of the list.  n + 1 steps are enough: a list longer than
\* the number of nodes would be a cycle.
Walk ==
  LET w[i \in 0 .. Cardinality(Addrs) + 1] ==
        IF i = 0 THEN head
        ELSE IF w[i - 1] = NULL THEN NULL ELSE next[w[i - 1]]
  IN  w
ListNodes == {Walk[i] : i \in DOMAIN Walk} \ {NULL}
Contents ==
  [i \in 1 .. Cardinality(ListNodes) |-> value[Walk[i - 1]]]

\* destroy: pop and free until the list is empty.
Destroy ==
  /\ ~destroyed
  /\ nodes' = nodes \ ListNodes
  /\ strs' = strs \ {value[a] : a \in ListNodes}
  /\ destroyed' = TRUE
  /\ head' = NULL
  /\ fifo' = <<>>
  /\ UNCHANGED <<tail, next, value>>

Next == (\E s \in Strings : Push(s)) \/ Pop \/ Destroy

Spec == Init /\ [][Next]_vars

-----------------------------------------------------------------------------
\* The pointers describe the queue: following next from head visits the
\* values in the order they were pushed, although pop leaves tail pointing to
\* freed memory and the memory of a popped node is used again.
ListIsFifo == Contents = fifo

\* The list consists of allocated nodes and holds all of them, and its last
\* node is tail: push never writes through a freed tail and no node is lost.
ListIsHeap ==
  /\ ListNodes = nodes
  /\ head # NULL => tail \in nodes /\ next[tail] = NULL

-----------------------------------------------------------------------------
(***************************************************************************)
(* What makes the properties inductive.                                    *)
(***************************************************************************)
TypeOK ==
  /\ nodes \subseteq Addrs /\ destroyed \in BOOLEAN
  /\ next \in [Addrs -> Addrs \cup {NULL}]
  /\ value \in [Addrs -> Strings \cup {NULL}]
  /\ fifo \in Seq(Strings)

\* The nodes in the order of the list.
Chain(node) ==
  /\ \A i, j \in DOMAIN node : node[i] = node[j] => i = j
  /\ \A a \in nodes : \E i \in DOMAIN node : node[i] = a
  /\ head = IF fifo = << >> THEN NULL ELSE node[1]
  /\ fifo # << >> => tail = node[Len(fifo)]
  /\ \A i \in DOMAIN node :
       /\ value[node[i]] = fifo[i]
       /\ next[node[i]] = IF i < Len(fifo) THEN node[i + 1] ELSE NULL

IInv == TypeOK /\ \E node \in [1 .. Len(fifo) -> nodes] : Chain(node)
=============================================================================
