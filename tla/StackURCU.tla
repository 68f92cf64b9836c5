----------------------------- MODULE StackURCU -----------------------------
(***************************************************************************)
(* urcu/StackURCU.hpp: a Treiber stack whose operations are read-side      *)
(* sections of URCU, under the client of module Benchmark.  A pop waits    *)
(* for a grace period and frees the node it took before it returns.        *)
(*                                                                         *)
(* pc labels name the next shared access of a thread: push.* in push,      *)
(* pop.* in pop, lock.* in readLock, sync.* in synchronizeRCU.             *)
(***************************************************************************)
EXTENDS URCU

VARIABLES
  top,                   \* the stack's head
  retired_nodes_count,   \* retired_nodes_count[threadId]
  node,                  \* push: the new node
  temp, nxt,             \* push, pop: temp; pop: next
  retData                \* pop: ret_data

locals == <<node, temp, nxt, retData>>
vars == <<heapVars, urcuVars, pc, top, retired_nodes_count, locals, main>>

PushLabels == {"push.load", "push.cas"}
GuardLabels == {"pop.next", "pop.cas", "pop.item"}
PopLabels == {"pop.load", "pop.empty", "pop.check", "pop.retry", "pop.unlock",
              "pop.free"} \cup GuardLabels
Labels == PushLabels \cup PopLabels \cup LockLabels \cup SyncLabels
            \cup {"push.unlock", "idle", "exited"}

(* readLock has returned and readUnlock has not been called.               *)
SectionLabels ==
  PushLabels \cup GuardLabels
    \cup {"push.unlock", "pop.load", "pop.empty", "pop.check", "pop.retry",
          "pop.unlock"}

Readers == {t \in Threads : pc[t] \in SectionLabels}

Init ==
  /\ \E s \in Nodes : HeapWithSentinel(s) /\ top = s
  /\ URCUInit
  /\ BenchmarkInit
  /\ retired_nodes_count = [t \in Threads |-> 0]
  /\ node = [t \in Threads |-> NULL]
  /\ temp = [t \in Threads |-> NULL]
  /\ nxt = [t \in Threads |-> NULL]
  /\ retData = [t \in Threads |-> NULL]

-----------------------------------------------------------------------------
LockStep(t) ==
  /\ ReadLock(t, IF node[t] = NULL THEN "pop.load" ELSE "push.load")
  /\ UNCHANGED <<heapVars, top, retired_nodes_count, locals, main>>

(* push(item, threadId).                                                   *)
PushCall(t) ==
  /\ Calling /\ updaterVersion < MaxVersion
  /\ Goto(t, "idle", "lock.load")
  /\ \E n \in Nodes, i \in Items :
       New(n, i) /\ node' = [node EXCEPT ![t] = n]
  /\ UNCHANGED <<urcuVars, top, retired_nodes_count, temp, nxt, retData, main>>

PushLoad(t) ==
  /\ Goto(t, "push.load", "push.cas")
  /\ temp' = [temp EXCEPT ![t] = top]
  /\ next' = [next EXCEPT ![node[t]] = top]
  /\ UNCHANGED <<status, item, urcuVars, top, retired_nodes_count, node, nxt,
                 retData, main>>

\* fault: a failed exchange is repeated with the link made before
PushCasRetry(t) ==
  /\ Goto(t, "push.cas", IF top = temp[t] THEN "push.unlock" ELSE "push.cas")
  /\ temp' = [temp EXCEPT ![t] = IF top = @ THEN NULL ELSE top]
  /\ IF top = temp[t]
     THEN /\ top' = node[t]
          /\ status' = [status EXCEPT ![node[t]] = "linked"]
     ELSE UNCHANGED <<top, status>>
  /\ UNCHANGED <<next, item, urcuVars, retired_nodes_count, node, nxt, retData,
                 main>>

PushCas(t) ==
  /\ Goto(t, "push.cas", IF top = temp[t] THEN "push.unlock" ELSE "push.load")
  /\ temp' = [temp EXCEPT ![t] = NULL]
  /\ IF top = temp[t]
     THEN /\ top' = node[t]
          /\ status' = [status EXCEPT ![node[t]] = "linked"]
     ELSE UNCHANGED <<top, status>>
  /\ UNCHANGED <<next, item, urcuVars, retired_nodes_count, node, nxt, retData,
                 main>>

PushUnlock(t) ==
  /\ Goto(t, "push.unlock", "idle")
  /\ ReadUnlock(t)
  /\ node' = [node EXCEPT ![t] = NULL]
  /\ UNCHANGED <<heapVars, top, retired_nodes_count, temp, nxt, retData, main>>

-----------------------------------------------------------------------------
(* pop(threadId).  The main thread calls it while it drains the stack.     *)
PopCall(t) ==
  /\ (Calling /\ updaterVersion < MaxVersion) \/ DrainingAs(t)
  /\ Goto(t, "idle", "lock.load")
  /\ UNCHANGED <<heapVars, urcuVars, top, retired_nodes_count, locals, main>>

PopLoad(t) ==
  /\ Goto(t, "pop.load", IF top = NULL THEN "pop.empty" ELSE "pop.check")
  /\ temp' = [temp EXCEPT ![t] = top]
  /\ UNCHANGED <<heapVars, urcuVars, top, retired_nodes_count, node, nxt,
                 retData, main>>

PopEmpty(t) ==
  /\ Goto(t, "pop.empty", "idle")
  /\ ReadUnlock(t)
  /\ ReturnItem(TRUE)
  /\ UNCHANGED <<heapVars, top, retired_nodes_count, locals>>

PopCheck(t) ==
  /\ Goto(t, "pop.check", IF top = temp[t] THEN "pop.next" ELSE "pop.retry")
  /\ temp' = [temp EXCEPT ![t] = IF top = @ THEN @ ELSE NULL]
  /\ UNCHANGED <<heapVars, urcuVars, top, retired_nodes_count, node, nxt,
                 retData, main>>

PopRetry(t) ==
  /\ Goto(t, "pop.retry", "lock.load")
  /\ ReadUnlock(t)
  /\ UNCHANGED <<heapVars, top, retired_nodes_count, locals, main>>

PopNext(t) ==
  /\ Goto(t, "pop.next", "pop.cas")
  /\ nxt' = [nxt EXCEPT ![t] = next[temp[t]]]
  /\ UNCHANGED <<heapVars, urcuVars, top, retired_nodes_count, node, temp,
                 retData, main>>

(* After a failed exchange readLock is called again without readUnlock.    *)
PopCas(t) ==
  /\ Goto(t, "pop.cas", IF top = temp[t] THEN "pop.item" ELSE "lock.load")
  /\ IF top = temp[t]
     THEN /\ top' = nxt[t]
          /\ status' = [status EXCEPT ![temp[t]] = "retired"]
          /\ UNCHANGED temp
     ELSE /\ temp' = [temp EXCEPT ![t] = NULL]
          /\ UNCHANGED <<top, status>>
  /\ nxt' = [nxt EXCEPT ![t] = NULL]
  /\ UNCHANGED <<next, item, urcuVars, retired_nodes_count, node, retData,
                 main>>

PopItem(t) ==
  /\ Goto(t, "pop.item", "pop.unlock")
  /\ retData' = [retData EXCEPT ![t] = item[temp[t]]]
  /\ retired_nodes_count' = [retired_nodes_count EXCEPT ![t] = @ + 1]
  /\ UNCHANGED <<heapVars, urcuVars, top, node, temp, nxt, main>>

\* fault: readUnlock is left out on the successful path
PopUnlockForgotten(t) ==
  /\ Goto(t, "pop.unlock", "sync.load")
  /\ UNCHANGED <<heapVars, urcuVars, top, retired_nodes_count, locals, main>>

PopUnlock(t) ==
  /\ Goto(t, "pop.unlock", "sync.load")
  /\ ReadUnlock(t)
  /\ UNCHANGED <<heapVars, top, retired_nodes_count, locals, main>>

PopSync(t) ==
  /\ SynchronizeRCU(t, Readers, "pop.free")
  /\ UNCHANGED <<heapVars, top, retired_nodes_count, locals, main>>

\* fault: the count is not decremented
PopFreeUncounted(t) ==
  /\ Goto(t, "pop.free", "idle")
  /\ Delete({temp[t]})
  /\ temp' = [temp EXCEPT ![t] = NULL]
  /\ retData' = [retData EXCEPT ![t] = NULL]
  /\ ReturnItem(retData[t] = NULL)
  /\ UNCHANGED <<urcuVars, top, retired_nodes_count, node, nxt>>

(* deleteRetiredNodes after its synchronizeRCU, then pop returns.          *)
PopFree(t) ==
  /\ Goto(t, "pop.free", "idle")
  /\ Delete({temp[t]})
  /\ retired_nodes_count' = [retired_nodes_count EXCEPT ![t] = @ - 1]
  /\ temp' = [temp EXCEPT ![t] = NULL]
  /\ retData' = [retData EXCEPT ![t] = NULL]
  /\ ReturnItem(retData[t] = NULL)
  /\ UNCHANGED <<urcuVars, top, node, nxt>>

-----------------------------------------------------------------------------
Quit ==
  /\ QuitSignal
  /\ UNCHANGED <<heapVars, urcuVars, top, retired_nodes_count, locals>>

ThreadExit(t) ==
  /\ LeaveLoop(t)
  /\ UNCHANGED <<heapVars, urcuVars, top, retired_nodes_count, locals>>

Join ==
  /\ JoinThreads
  /\ UNCHANGED <<heapVars, urcuVars, top, retired_nodes_count, locals>>

(* delete top.load().                                                      *)
Destroy ==
  /\ DeleteStructure
  /\ Delete({top} \cap Nodes)
  /\ top' = NULL
  /\ UNCHANGED <<urcuVars, retired_nodes_count, locals>>

Finished == Destroyed /\ UNCHANGED vars

PushStep(t) == PushLoad(t) \/ PushCas(t) \/ PushUnlock(t)

PopStep(t) ==
  \/ PopLoad(t) \/ PopEmpty(t) \/ PopCheck(t) \/ PopRetry(t) \/ PopNext(t)
  \/ PopCas(t) \/ PopItem(t) \/ PopUnlock(t) \/ PopSync(t) \/ PopFree(t)

ThreadStep(t) ==
  \/ PushCall(t) \/ PopCall(t) \/ LockStep(t) \/ PushStep(t) \/ PopStep(t)
  \/ ThreadExit(t)

MainStep == Quit \/ Join \/ Destroy

Next == (\E t \in Threads : ThreadStep(t)) \/ MainStep \/ Finished

Spec == Init /\ [][Next]_vars

(* The operating system runs every thread; a spin that finds an old reader *)
(* is run, but changes nothing.  The main thread may sleep for any time.   *)
FairSpec ==
  /\ Spec
  /\ \A t \in Threads : WF_vars(ThreadStep(t))
  /\ WF_vars(Join \/ Destroy)

-----------------------------------------------------------------------------
(* The type of every variable.                                             *)
TypeOK ==
  /\ HeapTypeOK
  /\ URCUTypeOK
  /\ pc \in [Threads -> Labels]
  /\ top \in NodeOrNull
  /\ retired_nodes_count \in [Threads -> 0..1]
  /\ node \in [Threads -> NodeOrNull]
  /\ temp \in [Threads -> NodeOrNull]
  /\ nxt \in [Threads -> NodeOrNull]
  /\ retData \in [Threads -> Items \cup {NULL}]
  /\ main \in MainStates

(* synchronizeRCU's grace period: when it returns, no reader is still      *)
(* inside the section it was in when synchronizeRCU was called.            *)
GracePeriod == \A t \in Threads : pc[t] = "pop.free" => oldReaders[t] = {}

(* No thread ever accesses a node that has been deleted.                   *)
MemorySafe ==
  \A t \in Threads :
    pc[t] \in {"pop.next", "pop.item"} => temp[t] \in Allocated

Holds(t, n) ==
  \/ node[t] = n /\ pc[t] # "push.unlock"
  \/ /\ pc[t] \in {"pop.item", "pop.unlock", "pop.free"} \cup SyncLabels
     /\ temp[t] = n

(* Until the destructor has run, every allocated node is in exactly one    *)
(* place, the stack or the hands of one push or pop, so that none is lost  *)
(* and none freed twice; and the destructor leaves none behind.            *)
OneOwner ==
  LET list == ChainSet(top)
  IN  /\ \A n \in Nodes :
           InOnePlace(n, list, {}, {t \in Threads : Holds(t, n)})
      /\ Straight(list, top)
      /\ Destroyed => Allocated = {}

(* What the benchmark reports after a run: no node is left unreclaimed     *)
(* once the threads are joined.                                            *)
NoneUnreclaimed ==
  (\A t \in Threads : pc[t] = "exited") =>
    /\ \A t \in Threads : retired_nodes_count[t] = 0
    /\ \A n \in Nodes : status[n] # "retired"

-----------------------------------------------------------------------------
(* The node a pop has validated in its section and still relies on.        *)
Guards(t) == IF pc[t] \in GuardLabels THEN {temp[t]} ELSE {}

(* The call each thread is in, its argument or result, and the stack as    *)
(* module LifoStack sees them: pop returns the items that were pushed,     *)
(* last first, and nullptr only when there is none (the sentinel counts as *)
(* none).                                                                  *)
DoneLabels ==
  {"push.unlock", "pop.empty", "pop.item", "pop.unlock", "pop.free"}
    \cup SyncLabels

Call(t) ==
  CASE pc[t] \in DoneLabels         -> "done"
    [] pc[t] \in {"idle", "exited"} -> "none"
    [] node[t] # NULL               -> "push"
    [] OTHER                        -> "pop"

Arg(t) ==
  CASE Call(t) = "push"                                 -> item[node[t]]
    [] pc[t] = "pop.item"                               -> item[temp[t]]
    [] pc[t] \in {"pop.unlock", "pop.free"} \cup SyncLabels -> retData[t]
    [] OTHER                                            -> NULL

Contents ==
  LET pushed == SelectSeq(Chain(top), LAMBDA n : item[n] # NULL)
  IN  [i \in 1..Len(pushed) |-> item[pushed[i]]]

(* A grace period ends even if other threads never stop entering new       *)
(* read-side sections.                                                     *)
GracePeriodEnds ==
  \A t \in Threads : pc[t] = "sync.spin" ~> pc[t] = "pop.free"

(* The benchmark ends: after quit every thread finishes its operation and  *)
(* is joined, and the destructor's loop drains the stack.                  *)
Terminates == main = "joining" ~> Destroyed

-----------------------------------------------------------------------------
(* The inductive invariant behind MemorySafe and ReclaimsSafely.           *)

(* The linked nodes form a list that starts at top: a link leads to a      *)
(* linked node, none leads to top, and no two lead to the same node.       *)
StackShape ==
  /\ top # NULL => status[top] = "linked"
  /\ \A m \in Nodes : status[m] = "linked" /\ next[m] # NULL =>
       /\ status[next[m]] = "linked"
       /\ next[m] # top
       /\ \A n \in Nodes : status[n] = "linked" /\ next[n] = next[m] => n = m

(* A push owns its node alone until it has linked it.                      *)
Pushing(t) == node[t] # NULL /\ pc[t] # "push.unlock"

PushOwnsNode ==
  \A t \in Threads :
    /\ pc[t] \in PushLabels => node[t] # NULL
    /\ Pushing(t) =>
         /\ status[node[t]] = "private"
         /\ pc[t] = "push.cas" => next[node[t]] = temp[t]
         /\ \A u \in Threads : Pushing(u) /\ node[u] = node[t] => u = t

(* A popped node is freed by the thread that popped it, and by no other.   *)
Popped(t) == pc[t] \in {"pop.item", "pop.unlock", "pop.free"} \cup SyncLabels

PoppedByOne ==
  \A t \in Threads : Popped(t) =>
    /\ temp[t] \in Nodes /\ status[temp[t]] = "retired"
    /\ \A u \in Threads : Popped(u) /\ temp[u] = temp[t] => u = t

(* The node a pop has validated, and may still read, is allocated: the     *)
(* thread that has popped it meanwhile has yet to begin to wait, or waits  *)
(* for this reader.                                                        *)
ReaderKeepsNode ==
  \A t \in Threads :
    /\ pc[t] = "pop.check" => temp[t] # NULL
    /\ pc[t] \in {"pop.next", "pop.cas"} =>
         /\ temp[t] \in Nodes /\ status[temp[t]] \in {"linked", "retired"}
         /\ pc[t] = "pop.cas" => nxt[t] = next[temp[t]]
         /\ \A u \in Threads : Popped(u) /\ temp[u] = temp[t] =>
              pc[u] \in {"pop.item", "pop.unlock", "sync.load"}
                \/ t \in oldReaders[u]

(* The main thread destroys the stack when it is the only one left.        *)
MainAlone ==
  /\ main \in {"draining", "deleting", "destroyed"} =>
       \A t \in Threads : t = 0 \/ pc[t] = "exited"
  /\ main \in {"deleting", "destroyed"} => pc[0] = "idle"

StackTypes ==
  /\ HeapTypeOK
  /\ pc \in [Threads -> Labels]
  /\ top \in NodeOrNull
  /\ node \in [Threads -> NodeOrNull]
  /\ temp \in [Threads -> NodeOrNull]
  /\ nxt \in [Threads -> NodeOrNull]
  /\ main \in MainStates

IInv ==
  /\ StackTypes /\ Grace(SectionLabels) /\ StackShape /\ PushOwnsNode
  /\ PoppedByOne /\ ReaderKeepsNode /\ MainAlone

-----------------------------------------------------------------------------
(* The inductive invariant behind OneOwner and NoneUnreclaimed: the linked *)
(* nodes are the stack, every other allocated one is in the hands of a     *)
(* push or a pop, and a popped node is counted until it is freed.          *)
CountedLabels == {"pop.unlock", "pop.free"} \cup SyncLabels

Counts ==
  /\ retired_nodes_count = [t \in Threads |-> IF pc[t] \in CountedLabels THEN 1 ELSE 0]
  /\ \A t \in Threads :
       node[t] # NULL => pc[t] \in PushLabels \cup LockLabels \cup {"push.unlock"}

Placed ==
  /\ ~Destroyed => Reaches(top, next, Linked)
  /\ \A n \in Nodes : status[n] \in {"private", "retired"} =>
       \E t \in Threads : Holds(t, n)
  /\ Counts

(* And behind what the destructor leaves: only the sentinel, which is last *)
(* in the stack, has no item, so that a pop of the main thread that gets   *)
(* none has left the stack empty.                                          *)
PopsNothing(t) ==
  \/ pc[t] = "pop.empty"
  \/ pc[t] = "pop.item" /\ item[temp[t]] = NULL
  \/ pc[t] \in CountedLabels /\ retData[t] = NULL

Drained ==
  /\ \A n \in Nodes : item[n] = NULL =>
       status[n] # "private" /\ (status[n] = "linked" => next[n] = NULL)
  /\ main = "draining" /\ PopsNothing(0) => top = NULL
  /\ main \in {"deleting", "destroyed"} => top = NULL
  /\ Destroyed => Allocated = {}

(* Behind the type of the version: a call advances it at most once, and is *)
(* not made when it is beyond its bound; a pop of the main thread has      *)
(* unlinked a node before it does.                                         *)
Advances(t) == pc[t] \notin {"idle", "exited", "sync.spin", "pop.free"}

LeftToPop ==
  Linked \cup IF pc[0] \in {"pop.item", "pop.unlock", "sync.load", "sync.cas"}
              THEN {temp[0]} ELSE {}

VersionBounded ==
  IF main \in {"draining", "deleting", "destroyed"}
  THEN /\ node[0] = NULL
       /\ updaterVersion + Cardinality(LeftToPop)
            <= MaxVersion + NumThreads + Cardinality(Nodes)
  ELSE updaterVersion + Cardinality({t \in Threads : Advances(t)})
         <= MaxVersion + NumThreads

=============================================================================
