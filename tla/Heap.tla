-------------------------------- MODULE Heap --------------------------------
(***************************************************************************)
(* The C++ heap as the data structures of this repository use it: list     *)
(* nodes that are created with `new Node(item)`, linked into a structure,  *)
(* unlinked from it and freed with `delete`.  An element of Nodes is an    *)
(* address: a freed address may be handed out again by a later `new`,      *)
(* which is what makes ABA possible.                                       *)
(*                                                                         *)
(* A node's item pointer is never written after construction.  status is   *)
(* partly history: the program knows which addresses are allocated only    *)
(* implicitly, and it does not record that a node has been unlinked.       *)
(* Freed memory has no meaningful contents; next and item are reset when a *)
(* node is freed so that states which differ only in garbage coincide.     *)
(***************************************************************************)
EXTENDS Integers, Sequences, FiniteSets

CONSTANTS
  Nodes,       \* addresses `new Node` can return (bounds live memory)
  Items,       \* the objects callers store (never dereferenced by a stack)
  NULL         \* nullptr

ASSUME HeapAssumption == NULL \notin Nodes /\ NULL \notin Items
ASSUME FiniteMemory == IsFiniteSet(Nodes)

VARIABLES
  status,      \* life cycle of every address
  next,        \* Node::next
  item         \* the argument Node's constructor was called with

heapVars == <<status, next, item>>

Statuses == {"free", "private", "linked", "retired"}
NodeOrNull == Nodes \cup {NULL}

HeapTypeOK ==
  /\ status \in [Nodes -> Statuses]
  /\ next \in [Nodes -> NodeOrNull]
  /\ item \in [Nodes -> Items \cup {NULL}]

Allocated == {n \in Nodes : status[n] # "free"}
Linked == {n \in Nodes : status[n] = "linked"}

(* The heap after a structure's constructor made one sentinel node, `new   *)
(* Node(nullptr)`, and linked it.                                          *)
HeapWithSentinel(s) ==
  /\ status = [n \in Nodes |-> IF n = s THEN "linked" ELSE "free"]
  /\ next = [n \in Nodes |-> NULL]
  /\ item = [n \in Nodes |-> NULL]

(* new Node(i) returning address n: next is nullptr.                       *)
New(n, i) ==
  /\ status[n] = "free"
  /\ status' = [status EXCEPT ![n] = "private"]
  /\ next' = [next EXCEPT ![n] = NULL]
  /\ item' = [item EXCEPT ![n] = i]

(* delete of every address of S.                                           *)
Delete(S) ==
  /\ status' = [n \in Nodes |-> IF n \in S THEN "free" ELSE status[n]]
  /\ next' = [n \in Nodes |-> IF n \in S THEN NULL ELSE next[n]]
  /\ item' = [n \in Nodes |-> IF n \in S THEN NULL ELSE item[n]]

(* The nodes met by following next from p, in order, up to the node last.  *)
(* The walk is cut off after as many steps as there are addresses, so it   *)
(* is finite (and has a repeated element) on a cyclic list.                *)
ChainTo(p, last) ==
  LET at[i \in 1..Cardinality(Nodes)] ==
        IF i = 1 THEN p
        ELSE IF at[i - 1] \in {NULL, last} THEN NULL ELSE next[at[i - 1]]
      met == {i \in 1..Cardinality(Nodes) : at[i] # NULL}
  IN  [i \in 1..Cardinality(met) |-> at[i]]

(* All of them.                                                            *)
Chain(p) == ChainTo(p, NULL)

(* The nodes of the list that starts at p: the least set with p and the    *)
(* next of each of its members.                                            *)
Closed(S, p, link) ==
  /\ p # NULL => p \in S
  /\ \A n \in S : link[n] # NULL => link[n] \in S

ChainSet(p) ==
  LET closed == {S \in SUBSET Nodes : Closed(S, p, next)}
  IN  {n \in Nodes : \A S \in closed : n \in S}

(* From p links lead to every node of L.                                   *)
Reaches(p, link, L) ==
  \A S \in SUBSET Nodes : Closed(S, p, link) => L \subseteq S

(* The nodes of list, the first of which is p, form a chain that ends: no  *)
(* two of them lead to the same node, none to p.                           *)
Straight(list, p) ==
  \A m \in list : next[m] # NULL =>
    /\ next[m] # p
    /\ \A n \in list : next[n] = next[m] => n = m

(* n is in exactly one place if it is allocated, and in none if it is not: *)
(* a list, one entry of the sequences in lists or the hands of one thread. *)
EntriesOf(lists, n) ==
  UNION {{<<t, i>> : i \in {j \in 1..Len(lists[t]) : lists[t][j] = n}} :
           t \in DOMAIN lists}

InOnePlace(n, list, entries, holders) ==
  Cardinality(list \cap {n}) + Cardinality(entries) + Cardinality(holders)
    = IF n \in Allocated THEN 1 ELSE 0

=============================================================================
