----------------------------- MODULE QueueURCU -----------------------------
(***************************************************************************)
(* urcu/QueueURCU.hpp: a Michael-Scott queue whose operations are          *)
(* read-side sections of URCU, under the client of module Benchmark.       *)
(*                                                                         *)
(* pc labels name the next shared access of a thread: enq.* in enqueue,    *)
(* deq.* in dequeue, lock.* in readLock, sync.* in synchronizeRCU.         *)
(***************************************************************************)
EXTENDS URCU

VARIABLES
  head, tail,
  retired_nodes_count,   \* retired_nodes_count[thread_id]
  node,                  \* enqueue: the new node
  temp,                  \* enqueue: temp; dequeue: temp1
  temp2,                 \* dequeue: temp2
  nxt,                   \* next
  ptrnull,               \* enqueue: what temp->next is expected to be
  retData                \* dequeue: ret_data

ends == <<head, tail>>
locals == <<node, temp, temp2, nxt, ptrnull, retData>>
vars == <<heapVars, urcuVars, pc, ends, retired_nodes_count, locals, main>>

EnqLabels == {"enq.load", "enq.check", "enq.retry", "enq.next", "enq.recheck",
              "enq.help", "enq.link", "enq.swing", "enq.unlock"}
DeqLabels == {"deq.load", "deq.check", "deq.retry", "deq.tail", "deq.next",
              "deq.recheck", "deq.help", "deq.cas", "deq.item", "deq.unlock",
              "deq.free"}
Labels == EnqLabels \cup DeqLabels \cup LockLabels \cup SyncLabels
            \cup {"idle", "exited"}

(* readLock has returned, and the thread relies on its section: the paths  *)
(* that loop or return without readUnlock leave the section all the same.  *)
SectionLabels ==
  (EnqLabels \ {"enq.load"}) \cup (DeqLabels \ {"deq.load", "deq.free"})

Readers == {t \in Threads : pc[t] \in SectionLabels}

Init ==
  /\ \E s \in Nodes : HeapWithSentinel(s) /\ head = s /\ tail = s
  /\ URCUInit
  /\ BenchmarkInit
  /\ retired_nodes_count = [t \in Threads |-> 0]
  /\ node = [t \in Threads |-> NULL]
  /\ temp = [t \in Threads |-> NULL]
  /\ temp2 = [t \in Threads |-> NULL]
  /\ nxt = [t \in Threads |-> NULL]
  /\ ptrnull = [t \in Threads |-> NULL]
  /\ retData = [t \in Threads |-> NULL]

-----------------------------------------------------------------------------
LockStep(t) ==
  /\ ReadLock(t, IF node[t] = NULL THEN "deq.check" ELSE "enq.check")
  /\ UNCHANGED <<heapVars, ends, retired_nodes_count, locals, main>>

(* enqueue(item, thread_id); a null item is refused before anything is     *)
(* changed.                                                                *)
EnqCall(t) ==
  /\ Calling /\ updaterVersion < MaxVersion
  /\ Goto(t, "idle", "enq.load")
  /\ \E n \in Nodes, i \in Items :
       New(n, i) /\ node' = [node EXCEPT ![t] = n]
  /\ UNCHANGED <<urcuVars, ends, retired_nodes_count, temp, temp2, nxt, ptrnull,
                 retData, main>>

(* The pointer is loaded before the section begins, and checked in it.     *)
EnqLoad(t) ==
  /\ Goto(t, "enq.load", "lock.load")
  /\ temp' = [temp EXCEPT ![t] = tail]
  /\ UNCHANGED <<heapVars, urcuVars, ends, retired_nodes_count, node, temp2,
                 nxt, ptrnull, retData, main>>

\* fault: the pointer loaded before the section is used unchecked
EnqCheckNever(t) ==
  /\ Goto(t, "enq.check", "enq.next")
  /\ UNCHANGED <<heapVars, urcuVars, ends, retired_nodes_count, locals, main>>

EnqCheck(t) ==
  /\ Goto(t, "enq.check", IF tail = temp[t] THEN "enq.next" ELSE "enq.retry")
  /\ UNCHANGED <<heapVars, urcuVars, ends, retired_nodes_count, locals, main>>

EnqRetry(t) ==
  /\ Goto(t, "enq.retry", "enq.load")
  /\ ReadUnlock(t)
  /\ temp' = [temp EXCEPT ![t] = NULL]
  /\ nxt' = [nxt EXCEPT ![t] = NULL]
  /\ UNCHANGED <<heapVars, ends, retired_nodes_count, node, temp2, ptrnull,
                 retData, main>>

EnqNext(t) ==
  /\ Goto(t, "enq.next", "enq.recheck")
  /\ nxt' = [nxt EXCEPT ![t] = next[temp[t]]]
  /\ UNCHANGED <<heapVars, urcuVars, ends, retired_nodes_count, node, temp,
                 temp2, ptrnull, retData, main>>

EnqRecheck(t) ==
  /\ Goto(t, "enq.recheck",
          IF tail # temp[t] THEN "enq.retry"
          ELSE IF nxt[t] # NULL THEN "enq.help" ELSE "enq.link")
  /\ UNCHANGED <<heapVars, urcuVars, ends, retired_nodes_count, locals, main>>

EnqHelp(t) ==
  /\ Goto(t, "enq.help", "enq.retry")
  /\ tail' = IF tail = temp[t] THEN nxt[t] ELSE tail
  /\ UNCHANGED <<heapVars, urcuVars, head, retired_nodes_count, locals, main>>

(* A failed exchange leaves the value it found in ptrnull, which is what   *)
(* the next attempt expects; the loop goes on without readUnlock.          *)
EnqLink(t) ==
  /\ Goto(t, "enq.link",
          IF next[temp[t]] = ptrnull[t] THEN "enq.swing" ELSE "enq.load")
  /\ IF next[temp[t]] = ptrnull[t]
     THEN /\ next' = [next EXCEPT ![temp[t]] = node[t]]
          /\ status' = [status EXCEPT ![node[t]] = "linked"]
          /\ ptrnull' = [ptrnull EXCEPT ![t] = NULL]
          /\ UNCHANGED temp
     ELSE /\ ptrnull' = [ptrnull EXCEPT ![t] = next[temp[t]]]
          /\ temp' = [temp EXCEPT ![t] = NULL]
          /\ UNCHANGED <<next, status>>
  /\ UNCHANGED <<item, urcuVars, ends, retired_nodes_count, node, temp2, nxt,
                 retData, main>>

EnqSwing(t) ==
  /\ Goto(t, "enq.swing", "enq.unlock")
  /\ tail' = IF tail = temp[t] THEN node[t] ELSE tail
  /\ temp' = [temp EXCEPT ![t] = NULL]
  /\ node' = [node EXCEPT ![t] = NULL]
  /\ UNCHANGED <<heapVars, urcuVars, head, retired_nodes_count, temp2, nxt,
                 ptrnull, retData, main>>

EnqUnlock(t) ==
  /\ Goto(t, "enq.unlock", "sync.load")
  /\ ReadUnlock(t)
  /\ UNCHANGED <<heapVars, ends, retired_nodes_count, locals, main>>

-----------------------------------------------------------------------------
(* dequeue(thread_id).  The main thread calls it while it drains the queue.*)
DeqCall(t) ==
  /\ (Calling /\ updaterVersion < MaxVersion) \/ DrainingAs(t)
  /\ Goto(t, "idle", "deq.load")
  /\ UNCHANGED <<heapVars, urcuVars, ends, retired_nodes_count, locals, main>>

DeqLoad(t) ==
  /\ Goto(t, "deq.load", "lock.load")
  /\ temp' = [temp EXCEPT ![t] = head]
  /\ UNCHANGED <<heapVars, urcuVars, ends, retired_nodes_count, node, temp2,
                 nxt, ptrnull, retData, main>>

DeqCheck(t) ==
  /\ Goto(t, "deq.check", IF head = temp[t] THEN "deq.tail" ELSE "deq.retry")
  /\ UNCHANGED <<heapVars, urcuVars, ends, retired_nodes_count, locals, main>>

DeqRetry(t) ==
  /\ Goto(t, "deq.retry", "deq.load")
  /\ ReadUnlock(t)
  /\ temp' = [temp EXCEPT ![t] = NULL]
  /\ UNCHANGED <<heapVars, ends, retired_nodes_count, node, temp2, nxt, ptrnull,
                 retData, main>>

DeqTail(t) ==
  /\ Goto(t, "deq.tail", "deq.next")
  /\ temp2' = [temp2 EXCEPT ![t] = tail]
  /\ UNCHANGED <<heapVars, urcuVars, ends, retired_nodes_count, node, temp, nxt,
                 ptrnull, retData, main>>

DeqNext(t) ==
  /\ Goto(t, "deq.next", "deq.recheck")
  /\ nxt' = [nxt EXCEPT ![t] = next[temp[t]]]
  /\ UNCHANGED <<heapVars, urcuVars, ends, retired_nodes_count, node, temp,
                 temp2, ptrnull, retData, main>>

(* The loop starts again, or dequeue returns nullptr, without readUnlock.  *)
DeqAbandon(t, to) ==
  /\ Goto(t, "deq.recheck", to)
  /\ temp' = [temp EXCEPT ![t] = NULL]
  /\ temp2' = [temp2 EXCEPT ![t] = NULL]
  /\ nxt' = [nxt EXCEPT ![t] = NULL]

DeqRecheck(t) ==
  /\ \/ /\ head # temp[t]
        /\ DeqAbandon(t, "deq.load")
        /\ UNCHANGED main
     \/ /\ head = temp[t] /\ nxt[t] = NULL
        /\ DeqAbandon(t, "idle")
        /\ ReturnItem(TRUE)
     \/ /\ head = temp[t] /\ nxt[t] # NULL
        /\ Goto(t, "deq.recheck",
                IF temp[t] = temp2[t] THEN "deq.help" ELSE "deq.cas")
        /\ UNCHANGED <<temp, temp2, nxt, main>>
  /\ UNCHANGED <<heapVars, urcuVars, ends, retired_nodes_count, node, ptrnull,
                 retData>>

DeqHelp(t) ==
  /\ Goto(t, "deq.help", "deq.load")
  /\ tail' = IF tail = temp2[t] THEN nxt[t] ELSE tail
  /\ temp' = [temp EXCEPT ![t] = NULL]
  /\ temp2' = [temp2 EXCEPT ![t] = NULL]
  /\ nxt' = [nxt EXCEPT ![t] = NULL]
  /\ UNCHANGED <<heapVars, urcuVars, head, retired_nodes_count, node, ptrnull,
                 retData, main>>

DeqCas(t) ==
  /\ Goto(t, "deq.cas", IF head = temp[t] THEN "deq.item" ELSE "deq.load")
  /\ temp2' = [temp2 EXCEPT ![t] = NULL]
  /\ IF head = temp[t]
     THEN /\ head' = nxt[t]
          /\ status' = [status EXCEPT ![temp[t]] = "retired"]
          /\ UNCHANGED <<temp, nxt>>
     ELSE /\ temp' = [temp EXCEPT ![t] = NULL]
          /\ nxt' = [nxt EXCEPT ![t] = NULL]
          /\ UNCHANGED <<head, status>>
  /\ UNCHANGED <<next, item, urcuVars, tail, retired_nodes_count, node, ptrnull,
                 retData, main>>

DeqItem(t) ==
  /\ Goto(t, "deq.item", "deq.unlock")
  /\ retData' = [retData EXCEPT ![t] = item[nxt[t]]]
  /\ nxt' = [nxt EXCEPT ![t] = NULL]
  /\ retired_nodes_count' = [retired_nodes_count EXCEPT ![t] = @ + 1]
  /\ UNCHANGED <<heapVars, urcuVars, ends, node, temp, temp2, ptrnull, main>>

\* fault: the grace period is skipped
DeqUnlockFrees(t) ==
  /\ Goto(t, "deq.unlock", "deq.free")
  /\ ReadUnlock(t)
  /\ UNCHANGED <<heapVars, ends, retired_nodes_count, locals, main>>

DeqUnlock(t) ==
  /\ Goto(t, "deq.unlock", "sync.load")
  /\ ReadUnlock(t)
  /\ UNCHANGED <<heapVars, ends, retired_nodes_count, locals, main>>

(* synchronizeRCU, which ends an enqueue.                                  *)
Sync(t) ==
  /\ SynchronizeRCU(t, Readers, IF temp[t] = NULL THEN "idle" ELSE "deq.free")
  /\ UNCHANGED <<heapVars, ends, retired_nodes_count, locals, main>>

\* fault: the count is not decremented
DeqFreeUncounted(t) ==
  /\ Goto(t, "deq.free", "idle")
  /\ Delete({temp[t]})
  /\ temp' = [temp EXCEPT ![t] = NULL]
  /\ retData' = [retData EXCEPT ![t] = NULL]
  /\ ReturnItem(retData[t] = NULL)
  /\ UNCHANGED <<urcuVars, ends, retired_nodes_count, node, temp2, nxt, ptrnull>>

(* deleteRetiredNodes after its synchronizeRCU, then dequeue returns.      *)
DeqFree(t) ==
  /\ Goto(t, "deq.free", "idle")
  /\ Delete({temp[t]})
  /\ retired_nodes_count' = [retired_nodes_count EXCEPT ![t] = @ - 1]
  /\ temp' = [temp EXCEPT ![t] = NULL]
  /\ retData' = [retData EXCEPT ![t] = NULL]
  /\ ReturnItem(retData[t] = NULL)
  /\ UNCHANGED <<urcuVars, ends, node, temp2, nxt, ptrnull>>

-----------------------------------------------------------------------------
Quit ==
  /\ QuitSignal
  /\ UNCHANGED <<heapVars, urcuVars, ends, retired_nodes_count, locals>>

ThreadExit(t) ==
  /\ LeaveLoop(t)
  /\ UNCHANGED <<heapVars, urcuVars, ends, retired_nodes_count, locals>>

Join ==
  /\ JoinThreads
  /\ UNCHANGED <<heapVars, urcuVars, ends, retired_nodes_count, locals>>

(* delete head.load().                                                     *)
Destroy ==
  /\ DeleteStructure
  /\ Delete({head} \cap Nodes)
  /\ head' = NULL /\ tail' = NULL
  /\ UNCHANGED <<urcuVars, retired_nodes_count, locals>>

Finished == Destroyed /\ UNCHANGED vars

EnqStep(t) ==
  \/ EnqLoad(t) \/ EnqCheck(t) \/ EnqRetry(t) \/ EnqNext(t) \/ EnqRecheck(t)
  \/ EnqHelp(t) \/ EnqLink(t) \/ EnqSwing(t) \/ EnqUnlock(t)

DeqStep(t) ==
  \/ DeqLoad(t) \/ DeqCheck(t) \/ DeqRetry(t) \/ DeqTail(t) \/ DeqNext(t)
  \/ DeqRecheck(t) \/ DeqHelp(t) \/ DeqCas(t) \/ DeqItem(t) \/ DeqUnlock(t)
  \/ DeqFree(t)

ThreadStep(t) ==
  \/ EnqCall(t) \/ DeqCall(t) \/ LockStep(t) \/ Sync(t) \/ EnqStep(t)
  \/ DeqStep(t) \/ ThreadExit(t)

MainStep == Quit \/ Join \/ Destroy

Next == (\E t \in Threads : ThreadStep(t)) \/ MainStep \/ Finished

Spec == Init /\ [][Next]_vars

(* The operating system runs every thread; a spin that finds an old reader *)
(* is run, but changes nothing.                                            *)
FairSpec ==
  /\ Spec
  /\ \A t \in Threads : WF_vars(ThreadStep(t))
  /\ WF_vars(MainStep)

-----------------------------------------------------------------------------
(* The type of every variable.                                             *)
TypeOK ==
  /\ HeapTypeOK
  /\ URCUTypeOK
  /\ pc \in [Threads -> Labels]
  /\ head \in NodeOrNull
  /\ tail \in NodeOrNull
  /\ retired_nodes_count \in [Threads -> 0..1]
  /\ node \in [Threads -> NodeOrNull]
  /\ temp \in [Threads -> NodeOrNull]
  /\ temp2 \in [Threads -> NodeOrNull]
  /\ nxt \in [Threads -> NodeOrNull]
  /\ ptrnull \in [Threads -> NodeOrNull]
  /\ retData \in [Threads -> Items \cup {NULL}]
  /\ main \in MainStates

(* No thread ever accesses a node that has been deleted: the tail node an  *)
(* enqueue links to, the head node a dequeue follows and the node whose    *)
(* item it returns are still allocated.                                    *)
MemorySafe ==
  \A t \in Threads :
    /\ pc[t] \in {"enq.next", "enq.link", "deq.next"} => temp[t] \in Allocated
    /\ pc[t] = "deq.item" => nxt[t] \in Allocated

(* synchronizeRCU's grace period: when it returns, no reader is still      *)
(* inside the section it was in when synchronizeRCU was called.            *)
GracePeriod == \A t \in Threads : pc[t] = "deq.free" => oldReaders[t] = {}

(* What the benchmark reports after a run: no node is left unreclaimed     *)
(* once the threads are joined.                                            *)
NoneUnreclaimed ==
  (\A t \in Threads : pc[t] = "exited") =>
    /\ \A t \in Threads : retired_nodes_count[t] = 0
    /\ \A n \in Nodes : status[n] # "retired"

(* An item that has been enqueued, as the comment in enqueue says of the   *)
(* node it has linked, stays in the queue until a dequeue takes it.        *)
EnqueuedStays ==
  ~Destroyed => \A n \in Nodes : status[n] = "linked" => n \in ChainSet(head)

-----------------------------------------------------------------------------
(* The nodes an operation found linked in its section and still relies on. *)
Guards(t) ==
  CASE pc[t] \in {"enq.next", "enq.recheck", "enq.help", "enq.link", "enq.swing",
                  "deq.tail", "deq.next", "deq.recheck", "deq.help", "deq.cas"}
                              -> {temp[t]}
    [] pc[t] = "deq.item"     -> {temp[t], nxt[t]}
    [] OTHER                  -> {}

(* The benchmark ends: after quit every thread finishes its operation and  *)
(* is joined, and the destructor's loop drains the queue.                  *)
Terminates == <>Destroyed

-----------------------------------------------------------------------------
(* The inductive invariant behind MemorySafe.                              *)

(* A thread that has read a link, or made one, goes on from it although    *)
(* the link may have been overwritten since (a failed exchange can lead to *)
(* that): the links of a node are those in memory and in the threads.      *)
LeadsTo(p, n) ==
  \/ next[p] = n
  \/ \E u \in Threads : temp[u] = p /\
       \/ nxt[u] = n /\ pc[u] \in {"enq.recheck", "enq.help", "deq.recheck",
                                   "deq.help", "deq.cas"}
       \/ node[u] = n /\ pc[u] = "enq.swing"

(* A linked node leads to linked nodes only, each of which no other linked *)
(* node leads to, and none to the head.  So the tail, which moves along    *)
(* such links, is never behind the head.                                   *)
QueueShape ==
  /\ head \in Nodes /\ status[head] = "linked"
  /\ tail \in Nodes /\ status[tail] = "linked"
  /\ \A p, n \in Nodes : status[p] = "linked" /\ LeadsTo(p, n) =>
       /\ status[n] = "linked" /\ n # head
       /\ \A q \in Nodes : status[q] = "linked" /\ LeadsTo(q, n) => q = p

(* An enqueue owns its node alone until it has linked it.                  *)
Enqueuing(t) == node[t] # NULL /\ pc[t] # "enq.swing"

EnqOwnsNode ==
  \A t \in Threads :
    /\ pc[t] \in EnqLabels \ {"enq.unlock"} => node[t] # NULL
    /\ pc[t] = "enq.unlock" => temp[t] = NULL
    /\ Enqueuing(t) =>
         /\ status[node[t]] = "private" /\ next[node[t]] = NULL
         /\ \A u \in Threads : Enqueuing(u) /\ node[u] = node[t] => u = t

(* A dequeued node is freed by the thread that dequeued it, and no other.  *)
Dequeued(t) ==
  \/ pc[t] \in {"deq.item", "deq.unlock", "deq.free"}
  \/ pc[t] \in SyncLabels /\ temp[t] # NULL

DequeuedByOne ==
  \A t \in Threads : Dequeued(t) =>
    /\ temp[t] \in Nodes /\ status[temp[t]] = "retired"
    /\ \A u \in Threads : Dequeued(u) /\ temp[u] = temp[t] => u = t

(* A dequeue that goes on from temp has found it at the head, where the    *)
(* tail was not; when the head still is there, the tail still is not.      *)
TailAhead ==
  \A t \in Threads :
    /\ pc[t] \in {"deq.tail", "deq.next", "deq.recheck", "deq.help",
                  "deq.cas"} =>
         temp[t] = head \/ status[temp[t]] = "retired"
    /\ pc[t] \in {"deq.next", "deq.recheck", "deq.cas"} =>
         (temp[t] = head /\ temp2[t] # head => tail # head)
    /\ pc[t] = "deq.cas" => temp2[t] # temp[t]
    /\ pc[t] = "deq.help" => temp2[t] = temp[t]
    /\ pc[t] \in {"enq.help", "deq.help", "deq.cas"} => nxt[t] # NULL

(* The nodes an operation relies on are allocated: the thread that has     *)
(* dequeued one meanwhile has yet to begin to wait, or waits for this      *)
(* reader.                                                                 *)
ReaderKeepsNodes ==
  \A t \in Threads : \A n \in Guards(t) :
    /\ n \in Nodes /\ status[n] \in {"linked", "retired"}
    /\ \A u \in Threads : Dequeued(u) /\ temp[u] = n =>
         pc[u] \in {"deq.item", "deq.unlock", "sync.load"}
           \/ t \in oldReaders[u]

(* The main thread destroys the queue when it is the only one left.        *)
MainAlone ==
  /\ main \in {"draining", "deleting", "destroyed"} =>
       \A t \in Threads : t = 0 \/ pc[t] = "exited"
  /\ main \in {"deleting", "destroyed"} => pc[0] = "idle"

QueueTypes ==
  /\ HeapTypeOK
  /\ pc \in [Threads -> Labels]
  /\ head \in NodeOrNull
  /\ tail \in NodeOrNull
  /\ node \in [Threads -> NodeOrNull]
  /\ temp \in [Threads -> NodeOrNull]
  /\ temp2 \in [Threads -> NodeOrNull]
  /\ nxt \in [Threads -> NodeOrNull]
  /\ main \in MainStates

IInv ==
  /\ QueueTypes /\ Grace(SectionLabels) /\ MainAlone
  /\ main # "destroyed" =>
       /\ QueueShape /\ EnqOwnsNode /\ DequeuedByOne /\ TailAhead
       /\ ReaderKeepsNodes

-----------------------------------------------------------------------------
(* The inductive invariant behind NoneUnreclaimed: a dequeued node is in   *)
(* the hands of its dequeue, and counted until it is freed.                *)
IsCounted(t) ==
  \/ pc[t] \in {"deq.unlock", "deq.free"}
  \/ pc[t] \in SyncLabels /\ temp[t] # NULL

Counts ==
  /\ retired_nodes_count = [t \in Threads |-> IF IsCounted(t) THEN 1 ELSE 0]
  /\ \A t \in Threads :
       node[t] # NULL => pc[t] \in (EnqLabels \ {"enq.unlock"}) \cup LockLabels

Placed ==
  /\ \A n \in Nodes : status[n] = "retired" =>
       \E t \in Threads : Dequeued(t) /\ temp[t] = n
  /\ Counts

(* Behind the type of the version: a call advances it at most once, and is *)
(* not made when it is beyond its bound; a dequeue of the main thread has  *)
(* unlinked a node before it does.                                         *)
Advances(t) == pc[t] \notin {"idle", "exited", "sync.spin", "deq.free"}

LeftToDequeue ==
  Linked \cup IF pc[0] \in {"deq.item", "deq.unlock", "sync.load", "sync.cas"}
              THEN {temp[0]} ELSE {}

VersionBounded ==
  IF main \in {"draining", "deleting", "destroyed"}
  THEN /\ node[0] = NULL /\ pc[0] \notin EnqLabels
       /\ pc[0] \in SyncLabels => temp[0] # NULL
       /\ updaterVersion + Cardinality(LeftToDequeue)
            <= MaxVersion + NumThreads + Cardinality(Nodes)
  ELSE updaterVersion + Cardinality({t \in Threads : Advances(t)})
         <= MaxVersion + NumThreads

=============================================================================
