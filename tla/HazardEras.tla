----------------------------- MODULE HazardEras -----------------------------
(***************************************************************************)
(* hazarderas/hazarderas.hpp: class hazardEras<T>.  A thread publishes the *)
(* era in which it works; a node carries the eras of its creation and of   *)
(* its retirement, and is to be kept while an era between them is          *)
(* published.                                                              *)
(*                                                                         *)
(* Every access of an atomic by a thread that does not own it alone is one *)
(* step.  A thread's own slots are written by nobody else, so what it      *)
(* reads there (prevEra, and the whole of canRemoveNode) is local work.    *)
(***************************************************************************)
EXTENDS Heap, Benchmark, RetiredLists

CONSTANTS
  SlotsPerThread,   \* MAX_NUMBER_OF_HAZARD_ERAS_PER_THREAD
  RawItems,         \* what a node's never-initialised item may hold
  MaxEra            \* bound of the model: no call is made at a later era

ASSUME ErasAssumption ==
  /\ SlotsPerThread \in Nat \ {0} /\ MaxEra \in Nat \ {0}
  /\ RawItems \subseteq Items \cup {NULL}

Slots == 0..(SlotsPerThread - 1)

VARIABLES
  globalEraClock,
  hazardErasList,      \* hazardErasList[threadID][eraIndex]
  retiredPtrList,      \* retiredPtrList[threadID]
  retiredNodesCount,   \* retiredNodesCount[threadID]
  newEra, delEra,      \* the fields of that name of every node
  ptr,                 \* get_protected: temp
  currEra,             \* get_protected, retireNode: currEra
  slot                 \* clear: i

heVars == <<globalEraClock, hazardErasList, retiredPtrList, retiredNodesCount>>
eraFields == <<newEra, delEra>>
heLocals == <<ptr, currEra, slot>>

emptyEra == 0

HETypeOK ==
  /\ globalEraClock \in Nat \ {0}
  /\ hazardErasList \in [Threads -> [Slots -> Nat]]
  /\ retiredPtrList \in [Threads -> Seq(Nodes)]
  /\ retiredNodesCount \in [Threads -> Nat]
  /\ newEra \in [Nodes -> Nat] /\ delEra \in [Nodes -> Nat]
  /\ ptr \in [Threads -> NodeOrNull]
  /\ currEra \in [Threads -> Nat]
  /\ slot \in [Threads -> Slots]

(* The sentinel, like every later node, is born in the era of the clock.   *)
HEInit ==
  /\ globalEraClock = 1
  /\ hazardErasList = [t \in Threads |-> [s \in Slots |-> emptyEra]]
  /\ retiredPtrList = [t \in Threads |-> <<>>]
  /\ retiredNodesCount = [t \in Threads |-> 0]
  /\ newEra = [n \in Nodes |-> IF status[n] = "linked" THEN 1 ELSE 0]
  /\ delEra = [n \in Nodes |-> 0]
  /\ ptr = [t \in Threads |-> NULL]
  /\ currEra = [t \in Threads |-> 0]
  /\ slot = [t \in Threads |-> 0]

-----------------------------------------------------------------------------
(* The fields of a node that is created, and of nodes that are deleted.    *)
BornNow(n) ==
  /\ newEra' = [newEra EXCEPT ![n] = globalEraClock]
  /\ delEra' = [delEra EXCEPT ![n] = 0]

ForgetEras(S) ==
  /\ newEra' = [n \in Nodes |-> IF n \in S THEN 0 ELSE newEra[n]]
  /\ delEra' = [n \in Nodes |-> IF n \in S THEN 0 ELSE delEra[n]]

(* new Node(i, getEra()) returning address n, and delete of the nodes of S.*)
NewInEra(n, i) == New(n, i) /\ BornNow(n)
DeleteInEra(S) == Delete(S) /\ ForgetEras(S)

-----------------------------------------------------------------------------
(* get_protected(s, atom, threadID): the item is loaded, then the clock; a *)
(* clock equal to the published era ends the call, another is published.   *)
ProtectLoad(t, from, clock, atom) ==
  /\ Goto(t, from, clock)
  /\ ptr' = [ptr EXCEPT ![t] = atom]
  /\ UNCHANGED <<heapVars, heVars, eraFields, currEra, slot>>

EraPublished(t, s) == globalEraClock = hazardErasList[t][s]

ProtectClock(t, from, publish, done, s) ==
  /\ Goto(t, from, IF EraPublished(t, s) THEN done ELSE publish)
  /\ currEra' =
       [currEra EXCEPT ![t] = IF EraPublished(t, s) THEN 0 ELSE globalEraClock]
  /\ UNCHANGED <<heapVars, heVars, eraFields, ptr, slot>>

ProtectPublish(t, from, load, s) ==
  /\ Goto(t, from, load)
  /\ hazardErasList' = [hazardErasList EXCEPT ![t][s] = currEra[t]]
  /\ currEra' = [currEra EXCEPT ![t] = 0]
  /\ UNCHANGED <<heapVars, globalEraClock, retiredPtrList, retiredNodesCount,
                 eraFields, ptr, slot>>

\* fault: the arguments are taken in the other order
ProtectEraReverse(t, from, to, s, other) ==
  /\ Goto(t, from, to)
  /\ hazardErasList' =
       [hazardErasList EXCEPT ![t][other] = hazardErasList[t][s]]
  /\ UNCHANGED <<globalEraClock, retiredPtrList, retiredNodesCount, heLocals>>

(* protectEraRelease(s, other, threadID): the era of slot other is stored  *)
(* in slot s as well (a store of the era that is there already is left     *)
(* out by the code).                                                       *)
ProtectEraRelease(t, from, to, s, other) ==
  /\ Goto(t, from, to)
  /\ hazardErasList' =
       [hazardErasList EXCEPT ![t][s] = hazardErasList[t][other]]
  /\ UNCHANGED <<globalEraClock, retiredPtrList, retiredNodesCount, heLocals>>

(* clear(threadID): one store per slot.                                    *)
ClearSlot(t, from, done) ==
  /\ Goto(t, from, IF slot[t] + 1 = SlotsPerThread THEN done ELSE from)
  /\ hazardErasList' = [hazardErasList EXCEPT ![t][slot[t]] = emptyEra]
  /\ slot' = [slot EXCEPT ![t] = (@ + 1) % SlotsPerThread]

-----------------------------------------------------------------------------
\* fault: retiredNodesCount forgotten
RetireUncounted(t, n, from, to) ==
  /\ Goto(t, from, to)
  /\ currEra' = [currEra EXCEPT ![t] = globalEraClock]
  /\ delEra' = [delEra EXCEPT ![n] = globalEraClock]
  /\ retiredPtrList' = [retiredPtrList EXCEPT ![t] = Append(@, n)]
  /\ UNCHANGED <<heapVars, globalEraClock, hazardErasList, retiredNodesCount,
                 newEra, ptr, slot>>

\* fault: delEra left as it was when the node was made
RetireUndated(t, n, from, to) ==
  /\ Goto(t, from, to)
  /\ currEra' = [currEra EXCEPT ![t] = globalEraClock]
  /\ retiredPtrList' = [retiredPtrList EXCEPT ![t] = Append(@, n)]
  /\ retiredNodesCount' = [retiredNodesCount EXCEPT ![t] = @ + 1]
  /\ UNCHANGED <<heapVars, globalEraClock, hazardErasList, newEra, delEra, ptr,
                 slot>>

(* retireNode(n, threadID) begins: the clock is loaded into delEra.        *)
RetirePush(t, n, from, to) ==
  /\ Goto(t, from, to)
  /\ currEra' = [currEra EXCEPT ![t] = globalEraClock]
  /\ delEra' = [delEra EXCEPT ![n] = globalEraClock]
  /\ retiredPtrList' = [retiredPtrList EXCEPT ![t] = Append(@, n)]
  /\ retiredNodesCount' = [retiredNodesCount EXCEPT ![t] = @ + 1]
  /\ UNCHANGED <<heapVars, globalEraClock, hazardErasList, newEra, ptr, slot>>

(* canRemoveNode(n, threadID).  The loop over the threads looks at the row *)
(* of the calling thread each time.                                        *)
canRemoveNode(t, n) ==
  \A s \in Slots :
    LET era == hazardErasList[t][s]
    IN  era = emptyEra \/ era < newEra[n] \/ era > delEra[n]

Retired(t) == Members(retiredPtrList[t])

Kept(t) ==
  Survivors(retiredPtrList[t], {n \in Retired(t) : canRemoveNode(t, n)})

Removed(t) == Retired(t) \ Members(Kept(t))

\* fault: erase is forgotten
SweepWithoutErase(t) ==
  /\ DeleteInEra(Removed(t))
  /\ currEra' = [currEra EXCEPT ![t] = 0]
  /\ UNCHANGED <<retiredPtrList, retiredNodesCount>>

(* Last, the list is swept, without further access to shared atomics.      *)
Sweep(t) ==
  /\ DeleteInEra(Removed(t))
  /\ retiredPtrList' = [retiredPtrList EXCEPT ![t] = Kept(t)]
  /\ retiredNodesCount' =
       [retiredNodesCount EXCEPT ![t] = @ - Cardinality(Removed(t))]
  /\ currEra' = [currEra EXCEPT ![t] = 0]

(* Before that the clock is advanced, unless another thread has done so.   *)
RetireCheck(t, from, add, done) ==
  /\ Goto(t, from, IF globalEraClock = currEra[t] THEN add ELSE done)
  /\ IF globalEraClock = currEra[t]
     THEN UNCHANGED <<heapVars, eraFields, retiredPtrList, retiredNodesCount,
                      currEra>>
     ELSE Sweep(t)
  /\ UNCHANGED <<globalEraClock, hazardErasList, ptr, slot>>

RetireAdd(t, from, done) ==
  /\ Goto(t, from, done)
  /\ globalEraClock' = globalEraClock + 1
  /\ Sweep(t)
  /\ UNCHANGED <<hazardErasList, ptr, slot>>

-----------------------------------------------------------------------------
(* Parts of the invariants of the structures.                              *)

(* Retired lists hold retired nodes, each in one place.                    *)
RetiredOnce ==
  \A t \in Threads : \A i \in 1..Len(retiredPtrList[t]) :
    /\ status[retiredPtrList[t][i]] = "retired"
    /\ \A u \in Threads : \A j \in 1..Len(retiredPtrList[u]) :
         retiredPtrList[u][j] = retiredPtrList[t][i] => u = t /\ j = i

CountsRetired ==
  ~Destroyed =>
    \A t \in Threads : retiredNodesCount[t] = Len(retiredPtrList[t])

(* The clock has reached every era that has been read from it.             *)
ErasReached ==
  /\ \A t \in Threads :
       /\ currEra[t] <= globalEraClock
       /\ \A s \in Slots : hazardErasList[t][s] <= globalEraClock
  /\ \A n \in Nodes :
       newEra[n] <= globalEraClock /\ delEra[n] <= globalEraClock

(* What retireNode has put in the list of t before it looks at the clock   *)
(* again was retired in the era it has loaded or earlier.                  *)
RetiredBefore(checking) ==
  \A t \in Threads : pc[t] \in checking =>
    \A n \in Retired(t) : delEra[n] <= currEra[t]

(* The scheme's part of the invariant of a structure.  checking: where     *)
(* retireNode loads the clock for the second time.                         *)
Scheme(checking) ==
  RetiredOnce /\ CountsRetired /\ ErasReached /\ RetiredBefore(checking)

Listed(n) == \E u \in Threads : n \in Retired(u)

(* Era e lies within the life of node n.                                   *)
WithinLife(n, e) == newEra[n] <= e /\ (Listed(n) => e <= delEra[n])

(* A clock that still shows the era in slot s of t has done so since t     *)
(* published it: that era is one of the life of n.                         *)
EraFits(t, s, n) ==
  globalEraClock = hazardErasList[t][s] => WithinLife(n, globalEraClock)

Covers(t, s, n) == WithinLife(n, hazardErasList[t][s])

=============================================================================
