--------------------------- MODULE HazardPointers ---------------------------
(***************************************************************************)
(* hazardpointer/hazardpointer.hpp: class hazardPointers<T>.               *)
(*                                                                         *)
(* Every load or store of an atomic is one step; the accesses are the      *)
(* seq_cst ones of the code (clear's release stores only make a slot stay  *)
(* occupied longer).  What a thread does to its own retired list and       *)
(* counters between two such accesses belongs to the step of the first.    *)
(*                                                                         *)
(* Operations run inside the operations of a data structure, so they are   *)
(* given as the steps of a thread t with the label to continue at.         *)
(*                                                                         *)
(* Definitions marked "fault:" are variants with a bug; no specification   *)
(* uses them, they show which property notices the bug.                    *)
(***************************************************************************)
EXTENDS Heap, Benchmark, SequencesExt

CONSTANTS
  SlotsPerThread,          \* MAX_NUMBER_OF_HAZARD_POINTERS_PER_THREAD
  RETIRED_NODES_THRESHOLD, \* the #define of that name
  RawItems                 \* what a node's never-initialised item may hold

ASSUME HPAssumption ==
  /\ SlotsPerThread \in Nat \ {0}
  /\ RETIRED_NODES_THRESHOLD \in Nat
  /\ RawItems \subseteq Items \cup {NULL}

Slots == 0..(SlotsPerThread - 1)

VARIABLES
  threadCount,         \* the constructor's numThreads
  hazardPointerList,   \* hazardPointerList[tid][index]
  retiredPointerList,  \* retiredPointerList[tid]
  retiredCount,        \* retiredCount[tid]
  ptr,                 \* ret of protect, ptr of storeHazardPtr
  last,                \* n of protect
  slot,                \* i of clear
  scan                 \* i, k, j and deleteNode of retireNode

hpVars == <<threadCount, hazardPointerList, retiredPointerList, retiredCount>>
hpLocals == <<ptr, last, slot, scan>>

ScanStart == [i |-> 1, k |-> 0, j |-> 0, deleteNode |-> TRUE]

HPTypeOK ==
  /\ threadCount = NumThreads
  /\ hazardPointerList \in [Threads -> [Slots -> NodeOrNull]]
  /\ retiredPointerList \in [Threads -> Seq(Nodes)]
  /\ retiredCount \in [Threads -> Nat]
  /\ ptr \in [Threads -> NodeOrNull]
  /\ last \in [Threads -> NodeOrNull]
  /\ slot \in [Threads -> Slots]
  /\ scan \in [Threads -> [i : Nat \ {0}, k : Nat, j : Slots,
                           deleteNode : BOOLEAN]]

HPInit ==
  /\ hazardPointerList = [t \in Threads |-> [s \in Slots |-> NULL]]
  /\ retiredPointerList = [t \in Threads |-> <<>>]
  /\ retiredCount = [t \in Threads |-> 0]
  /\ ptr = [t \in Threads |-> NULL]
  /\ last = [t \in Threads |-> NULL]
  /\ slot = [t \in Threads |-> 0]
  /\ scan = [t \in Threads |-> ScanStart]

-----------------------------------------------------------------------------
(* storeHazardPtr(index, atom, tid): converting the atomic argument loads  *)
(* it, then the value is published in the slot.                            *)
ArgumentLoad(t, from, to, atom) ==
  /\ Goto(t, from, to)
  /\ ptr' = [ptr EXCEPT ![t] = atom]
  /\ UNCHANGED <<heapVars, hpVars, last, slot, scan>>

Publish(t, s) ==
  hazardPointerList' = [hazardPointerList EXCEPT ![t][s] = ptr[t]]

StoreHazardPtr(t, from, to, s) ==
  /\ Goto(t, from, to)
  /\ Publish(t, s)
  /\ UNCHANGED <<heapVars, threadCount, retiredPointerList, retiredCount,
                 hpLocals>>

-----------------------------------------------------------------------------
(* protect(index, atom, tid): the load of the loop condition.  A value     *)
(* equal to the one published before is returned, another one is published.*)
ProtectDone(t, atom) == atom = last[t]

ProtectLoad(t, from, publish, done, atom) ==
  /\ Goto(t, from, IF ProtectDone(t, atom) THEN done ELSE publish)
  /\ ptr' = [ptr EXCEPT ![t] = atom]
  /\ last' = [last EXCEPT ![t] = IF ProtectDone(t, atom) THEN NULL ELSE @]
  /\ UNCHANGED <<heapVars, hpVars, slot, scan>>

\* fault: n = ret is missing
ProtectStoreForgets(t, from, load, s) ==
  /\ Goto(t, from, load)
  /\ Publish(t, s)
  /\ UNCHANGED <<heapVars, threadCount, retiredPointerList, retiredCount,
                 ptr, last, slot, scan>>

ProtectStore(t, from, load, s) ==
  /\ Goto(t, from, load)
  /\ Publish(t, s)
  /\ last' = [last EXCEPT ![t] = ptr[t]]
  /\ UNCHANGED <<heapVars, threadCount, retiredPointerList, retiredCount,
                 ptr, slot, scan>>

-----------------------------------------------------------------------------
(* clear(tid): one store per slot.                                         *)
ClearSlot(t, from, done) ==
  /\ Goto(t, from, IF slot[t] + 1 = SlotsPerThread THEN done ELSE from)
  /\ hazardPointerList' = [hazardPointerList EXCEPT ![t][slot[t]] = NULL]
  /\ slot' = [slot EXCEPT ![t] = (@ + 1) % SlotsPerThread]

-----------------------------------------------------------------------------
\* fault: retiredCount forgotten
RetireUncounted(t, n) ==
  /\ retiredPointerList' = [retiredPointerList EXCEPT ![t] = Append(@, n)]
  /\ scan' = [scan EXCEPT ![t] = ScanStart]
  /\ UNCHANGED retiredCount

(* retireNode(n, tid), up to the scan: the node is appended to the         *)
(* caller's list, and below the threshold the call returns.                *)
RetirePush(t, n) ==
  /\ retiredCount' = [retiredCount EXCEPT ![t] = @ + 1]
  /\ retiredPointerList' = [retiredPointerList EXCEPT ![t] = Append(@, n)]
  /\ scan' = [scan EXCEPT ![t] = ScanStart]

AfterRetirePush(t, scanning, done) ==
  IF Len(retiredPointerList[t]) + 1 < RETIRED_NODES_THRESHOLD
  THEN done ELSE scanning

Candidate(t) == retiredPointerList[t][scan[t].i]

\* fault: the last thread is left out
ScannedAllButLast(t) == scan[t].k = threadCount - 1

ScannedAll(t) == scan[t].k = threadCount

\* fault: the scanning thread's own row (cf. hazarderas.hpp:87)
MatchesOwnRow(t) == hazardPointerList[t][scan[t].j] = Candidate(t)

(* One load of the k, j loops.  A match leaves only the j loop.            *)
Matches(t) == hazardPointerList[scan[t].k][scan[t].j] = Candidate(t)

Blocked(s) == [s EXCEPT !.k = @ + 1, !.j = 0, !.deleteNode = FALSE]

NextSlot(s) ==
  IF s.j + 1 < SlotsPerThread THEN [s EXCEPT !.j = @ + 1]
  ELSE [s EXCEPT !.k = @ + 1, !.j = 0]

ScanSlot(t, scanning) ==
  /\ pc[t] = scanning
  /\ ~ScannedAll(t)
  /\ scan' =
       [scan EXCEPT ![t] = IF Matches(t) THEN Blocked(@) ELSE NextSlot(@)]
  /\ UNCHANGED <<heapVars, hpVars, pc, ptr, last, slot>>

(* The end of the i loop's body.  deleteNode is not set again for the next *)
(* node, and after an erase the loop's i++ skips the node that moved into  *)
(* place i.                                                                *)
NextCandidate(t) ==
  [scan[t] EXCEPT !.i = @ + 1, !.k = 0, !.j = 0]

ScanContinue(t, scanning, done, left) ==
  /\ Goto(t, scanning, IF scan[t].i + 1 > left THEN done ELSE scanning)
  /\ scan' = [scan EXCEPT ![t] = IF scan[t].i + 1 > left THEN ScanStart
                                 ELSE NextCandidate(t)]

\* fault: the entry stays in the list
ReclaimWithoutErase(t, scanning, done) ==
  /\ ScannedAll(t) /\ scan[t].deleteNode
  /\ ScanContinue(t, scanning, done, Len(retiredPointerList[t]))
  /\ Delete({Candidate(t)})
  /\ UNCHANGED <<hpVars, ptr, last, slot>>

Reclaim(t, scanning, done) ==
  /\ ScannedAll(t) /\ scan[t].deleteNode
  /\ ScanContinue(t, scanning, done, Len(retiredPointerList[t]) - 1)
  /\ Delete({Candidate(t)})
  /\ retiredPointerList' =
       [retiredPointerList EXCEPT ![t] = RemoveAt(@, scan[t].i)]
  /\ retiredCount' = [retiredCount EXCEPT ![t] = @ - 1]
  /\ UNCHANGED <<threadCount, hazardPointerList, ptr, last, slot>>

Keep(t, scanning, done) ==
  /\ ScannedAll(t) /\ ~scan[t].deleteNode
  /\ ScanContinue(t, scanning, done, Len(retiredPointerList[t]))
  /\ UNCHANGED <<heapVars, hpVars, ptr, last, slot>>

RetireScan(t, scanning, done) ==
  \/ ScanSlot(t, scanning)
  \/ Reclaim(t, scanning, done)
  \/ Keep(t, scanning, done)

Retired(t) == ToSet(retiredPointerList[t])

-----------------------------------------------------------------------------
(* Parts of the invariants of the structures.  scanning: the labels of     *)
(* retireNode's scan.                                                      *)

(* The scan s has looked at slot j of thread t.                            *)
Past(s, t, j) == s.k > t \/ (s.k = t /\ s.j > j)

(* Slot j of t keeps n: it holds n, and no scan that still intends to      *)
(* delete n has looked at it.                                              *)
Shields(t, j, n, scanning) ==
  /\ t < threadCount /\ hazardPointerList[t][j] = n
  /\ \A u \in Threads :
       pc[u] \in scanning /\ scan[u].deleteNode /\ Candidate(u) = n =>
         ~Past(scan[u], t, j)

(* Retired lists hold retired nodes, each in one place.                    *)
RetiredOnce ==
  \A t \in Threads : \A i \in 1..Len(retiredPointerList[t]) :
    /\ status[retiredPointerList[t][i]] = "retired"
    /\ \A u \in Threads : \A j \in 1..Len(retiredPointerList[u]) :
         retiredPointerList[u][j] = retiredPointerList[t][i] => u = t /\ j = i

InNoList(n) ==
  \A u \in Threads : \A i \in 1..Len(retiredPointerList[u]) :
    retiredPointerList[u][i] # n

ScanTypes ==
  /\ threadCount \in 0..NumThreads
  /\ hazardPointerList \in [Threads -> [Slots -> NodeOrNull]]
  /\ retiredPointerList \in [Threads -> Seq(Nodes)]
  /\ retiredCount \in [Threads -> Nat]
  /\ scan \in [Threads -> [i : Nat \ {0}, k : Nat, j : Slots,
                           deleteNode : BOOLEAN]]

(* A scan is at an entry of its list and has not left the rows it scans.   *)
ScanInRange(scanning) ==
  \A t \in Threads : pc[t] \in scanning =>
    /\ scan[t].i \in 1..Len(retiredPointerList[t])
    /\ scan[t].k \in 0..threadCount

CountsRetired ==
  ~Destroyed =>
    \A t \in Threads : retiredCount[t] = Len(retiredPointerList[t])

(* The scheme's part of the invariant of a structure.                      *)
Scheme(scanning) ==
  /\ ScanTypes /\ RetiredOnce /\ ScanInRange(scanning) /\ CountsRetired

=============================================================================
