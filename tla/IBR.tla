-------------------------------- MODULE IBR --------------------------------
(***************************************************************************)
(* intervalbasedrec/IntervalBasedReclamation.hpp: class                    *)
(* IntervalBasedReclamation<T>.  An operation reserves the epoch it starts *)
(* in; a node carries the epochs of its creation and of its retirement,    *)
(* and is kept while an epoch between them is reserved.                    *)
(*                                                                         *)
(* Every access of an atomic is one step; what a thread does to its own    *)
(* list and counters belongs to the step before it.                        *)
(***************************************************************************)
EXTENDS Heap, Benchmark, RetiredLists

CONSTANTS
  epochFreq,    \* a thread advances the epoch once in so many allocations
  emptyFreq,    \* and looks for nodes to free at every such retireStat
  StatRange,    \* number of values of a uint64_t
  UINT64_MAX,   \* the reservation of a thread outside an operation
  RawItems,     \* what a node's never-initialised item may hold
  MaxEpoch      \* bound of the model: no push is called at a later epoch

ASSUME IBRAssumption ==
  /\ epochFreq \in Nat \ {0} /\ emptyFreq \in Nat \ {0}
  /\ StatRange \in Nat /\ StatRange > Cardinality(Nodes)
  /\ MaxEpoch \in Nat /\ UINT64_MAX \in Nat
  /\ UINT64_MAX > MaxEpoch + NumThreads
  /\ RawItems \subseteq Items \cup {NULL}

VARIABLES
  numThreads,            \* the constructor's threadCount
  globalEpoch,
  reservations,          \* reservations[threadID]
  allocStat,             \* allocStat[threadID], modulo epochFreq
  retireStat,            \* retireStat[threadID]
  retiredList,           \* retiredList[threadID]
  retiredNodesCount,     \* retiredNodesCount[threadID]
  birth_epoch, retire_epoch,   \* the fields of that name of every node
  epoch,                 \* start_op: e
  reservEpoch,           \* emptyRetireList: reservEpoch
  idx                    \* emptyRetireList: i of the first loop

ibrVars == <<numThreads, globalEpoch, reservations, allocStat, retireStat, retiredList,
             retiredNodesCount>>
epochFields == <<birth_epoch, retire_epoch>>
ibrLocals == <<epoch, reservEpoch, idx>>

Epochs == 0..UINT64_MAX

Unread == [u \in Threads |-> UINT64_MAX]

IBRTypeOK ==
  /\ numThreads \in 0..NumThreads
  /\ globalEpoch \in Epochs
  /\ reservations \in [Threads -> Epochs]
  /\ allocStat \in [Threads -> 0..(epochFreq - 1)]
  /\ retireStat \in [Threads -> 0..(StatRange - 1)]
  /\ retiredList \in [Threads -> Seq(Nodes)]
  /\ retiredNodesCount \in [Threads -> Nat]
  /\ birth_epoch \in [Nodes -> Epochs] /\ retire_epoch \in [Nodes -> Epochs]
  /\ epoch \in [Threads -> Epochs]
  /\ reservEpoch \in [Threads -> [Threads -> Epochs]]
  /\ idx \in [Threads -> Threads]

(* retired: the first values of retireStat.                                *)
IBRInitWith(retired) ==
  /\ globalEpoch = 0
  /\ reservations = [t \in Threads |-> UINT64_MAX]
  /\ allocStat = [t \in Threads |-> 0]
  /\ retireStat = retired
  /\ retiredList = [t \in Threads |-> <<>>]
  /\ retiredNodesCount = [t \in Threads |-> 0]
  /\ birth_epoch = [n \in Nodes |-> 0]
  /\ retire_epoch = [n \in Nodes |-> 0]
  /\ epoch = [t \in Threads |-> 0]
  /\ reservEpoch = [t \in Threads |-> Unread]
  /\ idx = [t \in Threads |-> 0]

IBRInit == numThreads = NumThreads /\ IBRInitWith([t \in Threads |-> 0])

-----------------------------------------------------------------------------
(* start_op(threadID).                                                     *)
StartLoad(t, from, to) ==
  /\ Goto(t, from, to)
  /\ epoch' = [epoch EXCEPT ![t] = globalEpoch]
  /\ UNCHANGED <<heapVars, ibrVars, epochFields, reservEpoch, idx>>

Reserve(t, e) ==
  /\ reservations' = [reservations EXCEPT ![t] = e]
  /\ UNCHANGED <<numThreads, globalEpoch, allocStat, retireStat, retiredList,
                 retiredNodesCount>>

StartStore(t, from, done) ==
  /\ Goto(t, from, done)
  /\ Reserve(t, epoch[t])
  /\ epoch' = [epoch EXCEPT ![t] = 0]
  /\ UNCHANGED <<heapVars, epochFields, reservEpoch, idx>>

(* end_op(threadID).                                                       *)
EndOp(t, from, to) ==
  /\ Goto(t, from, to)
  /\ Reserve(t, UINT64_MAX)
  /\ UNCHANGED <<epochFields, ibrLocals>>

-----------------------------------------------------------------------------
(* allocNode(threadID, n), which is given the new node.                    *)
AllocCount(t, from, add, load) ==
  LET count == (allocStat[t] + 1) % epochFreq
  IN  /\ Goto(t, from, IF count = 0 THEN add ELSE load)
      /\ allocStat' = [allocStat EXCEPT ![t] = count]
      /\ UNCHANGED <<numThreads, globalEpoch, reservations, retireStat,
                     retiredList, retiredNodesCount, epochFields, ibrLocals>>

AllocAdd(t, from, load) ==
  /\ Goto(t, from, load)
  /\ globalEpoch' = globalEpoch + 1
  /\ UNCHANGED <<heapVars, numThreads, reservations, allocStat, retireStat,
                 retiredList, retiredNodesCount, epochFields, ibrLocals>>

AllocBorn(t, n, from, done) ==
  /\ Goto(t, from, done)
  /\ birth_epoch' = [birth_epoch EXCEPT ![n] = globalEpoch]
  /\ UNCHANGED <<heapVars, ibrVars, retire_epoch, ibrLocals>>

-----------------------------------------------------------------------------
\* fault: retiredNodesCount forgotten
RetireUncounted(t, n, from, empty, done) ==
  /\ Goto(t, from, IF retireStat[t] % emptyFreq = 0 THEN empty ELSE done)
  /\ retire_epoch' = [retire_epoch EXCEPT ![n] = globalEpoch]
  /\ retiredList' = [retiredList EXCEPT ![t] = Append(@, n)]
  /\ retireStat' = [retireStat EXCEPT ![t] =
                      IF @ % emptyFreq = 0 THEN @ ELSE (@ + 1) % StatRange]
  /\ UNCHANGED <<heapVars, numThreads, globalEpoch, reservations, allocStat,
                 retiredNodesCount, birth_epoch, ibrLocals>>

(* retireNode(n, threadID).  retireStat counts the calls and, with         *)
(* emptyRetireList, the freed nodes off again.                             *)
RetirePush(t, n, from, empty, done) ==
  /\ Goto(t, from, IF retireStat[t] % emptyFreq = 0 THEN empty ELSE done)
  /\ retire_epoch' = [retire_epoch EXCEPT ![n] = globalEpoch]
  /\ retiredList' = [retiredList EXCEPT ![t] = Append(@, n)]
  /\ retiredNodesCount' = [retiredNodesCount EXCEPT ![t] = @ + 1]
  /\ retireStat' = [retireStat EXCEPT ![t] =
                      IF @ % emptyFreq = 0 THEN @ ELSE (@ + 1) % StatRange]
  /\ UNCHANGED <<heapVars, numThreads, globalEpoch, reservations, allocStat,
                 birth_epoch, ibrLocals>>

\* fault: an operation that started in the epoch of birth does not count
ConflictStrict(reserved, n) ==
  \E u \in 0..(numThreads - 1) :
    reserved[u] > birth_epoch[n] /\ reserved[u] <= retire_epoch[n]

(* conflict(reservEpoch, birth_epoch, retire_epoch) for the node n.        *)
conflict(reserved, n) ==
  \E u \in 0..(numThreads - 1) :
    reserved[u] >= birth_epoch[n] /\ reserved[u] <= retire_epoch[n]

Retired(t) == Members(retiredList[t])

Kept(t, reserved) ==
  Survivors(retiredList[t], {n \in Retired(t) : ~conflict(reserved, n)})

(* The fields of nodes that are deleted.                                   *)
ForgetEpochs(S) ==
  /\ birth_epoch' = [n \in Nodes |-> IF n \in S THEN 0 ELSE birth_epoch[n]]
  /\ retire_epoch' = [n \in Nodes |-> IF n \in S THEN 0 ELSE retire_epoch[n]]

\* fault: freed nodes are not taken off retireStat
SweepUncounted(t, reserved) ==
  LET kept    == Kept(t, reserved)
      removed == Retired(t) \ Members(kept)
  IN  /\ Delete(removed)
      /\ ForgetEpochs(removed)
      /\ retiredList' = [retiredList EXCEPT ![t] = kept]
      /\ retiredNodesCount' =
           [retiredNodesCount EXCEPT ![t] = @ - Cardinality(removed)]
      /\ retireStat' = [retireStat EXCEPT ![t] = (@ + 1) % StatRange]

Sweep(t, reserved) ==
  LET kept    == Kept(t, reserved)
      removed == Retired(t) \ Members(kept)
  IN  /\ Delete(removed)
      /\ ForgetEpochs(removed)
      /\ retiredList' = [retiredList EXCEPT ![t] = kept]
      /\ retiredNodesCount' =
           [retiredNodesCount EXCEPT ![t] = @ - Cardinality(removed)]
      /\ retireStat' = [retireStat EXCEPT ![t] =
                          (@ - Cardinality(removed) + 1) % StatRange]

(* emptyRetireList(threadID): one load per reservation; after the last one *)
(* the list is swept without further access to shared memory.              *)
EmptyRead(t, from, done) ==
  LET read == [u \in Threads |-> IF u = idx[t] /\ u < numThreads
                                 THEN reservations[u] ELSE reservEpoch[t][u]]
  IN  /\ IF idx[t] + 1 < numThreads
         THEN /\ Goto(t, from, from)
              /\ reservEpoch' = [reservEpoch EXCEPT ![t] = read]
              /\ idx' = [idx EXCEPT ![t] = @ + 1]
              /\ UNCHANGED <<heapVars, epochFields, retiredList,
                             retiredNodesCount, retireStat>>
         ELSE /\ Goto(t, from, done)
              /\ reservEpoch' = [reservEpoch EXCEPT ![t] = Unread]
              /\ idx' = [idx EXCEPT ![t] = 0]
              /\ Sweep(t, read)
      /\ UNCHANGED <<numThreads, globalEpoch, reservations, allocStat, epoch>>

=============================================================================
