------------------------------ MODULE QueueIBR ------------------------------
(***************************************************************************)
(* intervalbasedrec/QueueIBR.hpp: a Michael-Scott queue with interval-     *)
(* based reclamation, under the client of module Benchmark.                *)
(*                                                                         *)
(* pc labels name the next shared access of a thread: enq.* in enqueue,    *)
(* deq.* in dequeue, alloc.* in allocNode, start.* in start_op, retire in  *)
(* retireNode, empty in emptyRetireList.                                   *)
(***************************************************************************)
EXTENDS IBR

VARIABLES
  head, tail,
  node,      \* enqueue: the new node; dequeue: the node taken from head
  ptr,       \* enqueue: temp
  nxt,       \* enqueue, dequeue: next
  retData,   \* dequeue: item
  dangling   \* history: threads that rely on a node which has been deleted
             \* since they found it linked

locals == <<node, ptr, nxt, retData>>
ends == <<head, tail>>
ibrState == <<ibrVars, epochFields, ibrLocals>>
vars == <<heapVars, ibrState, pc, ends, locals, dangling, main>>

EnqLabels == {"alloc.add", "alloc.load", "enq.start", "enq.reserve",
              "enq.load", "enq.check", "enq.next", "enq.help", "enq.link",
              "enq.swing", "enq.end"}
DeqLabels == {"deq.start", "deq.reserve", "deq.load", "deq.tail", "deq.next",
              "deq.cas", "deq.item", "retire", "empty", "deq.end"}
Labels == EnqLabels \cup DeqLabels \cup {"idle", "exited", "undefined"}

Init ==
  /\ \E s \in Nodes : HeapWithSentinel(s) /\ head = s /\ tail = s
  /\ IBRInit
  /\ BenchmarkInit
  /\ node = [t \in Threads |-> NULL]
  /\ ptr = [t \in Threads |-> NULL]
  /\ nxt = [t \in Threads |-> NULL]
  /\ retData = [t \in Threads |-> NULL]
  /\ dangling = {}

(* What follows the use of a deleted node, be it an access of its memory   *)
(* or an exchange that finds its address in place again, is not defined:   *)
(* it is not modelled further.                                             *)
GotoUsing(t, from, to) ==
  Goto(t, from, IF t \in dangling THEN "undefined" ELSE to)

-----------------------------------------------------------------------------
(* enqueue(item, threadID); a null item is refused before anything is      *)
(* changed.                                                                *)
EnqCall(t) ==
  /\ Calling /\ globalEpoch < MaxEpoch
  /\ AllocCount(t, "idle", "alloc.add", "alloc.load")
  /\ \E n \in Nodes, i \in Items :
       New(n, i) /\ node' = [node EXCEPT ![t] = n]
  /\ UNCHANGED <<ends, ptr, nxt, retData, dangling, main>>

EnqAlloc(t) ==
  /\ \/ AllocAdd(t, "alloc.add", "alloc.load")
     \/ AllocBorn(t, node[t], "alloc.load", "enq.start")
  /\ UNCHANGED <<ends, locals, dangling, main>>

EnqStart(t) ==
  /\ \/ StartLoad(t, "enq.start", "enq.reserve")
     \/ StartStore(t, "enq.reserve", "enq.load")
  /\ UNCHANGED <<ends, locals, dangling, main>>

EnqLoad(t) ==
  /\ Goto(t, "enq.load", "enq.check")
  /\ ptr' = [ptr EXCEPT ![t] = tail]
  /\ dangling' = dangling \ {t}
  /\ UNCHANGED <<heapVars, ibrState, ends, node, nxt, retData, main>>

EnqCheck(t) ==
  /\ Goto(t, "enq.check", IF tail = ptr[t] THEN "enq.next" ELSE "enq.load")
  /\ UNCHANGED <<heapVars, ibrState, ends, locals, dangling, main>>

EnqNext(t) ==
  /\ GotoUsing(t, "enq.next",
               IF next[ptr[t]] = NULL THEN "enq.link" ELSE "enq.help")
  /\ nxt' = [nxt EXCEPT ![t] = next[ptr[t]]]
  /\ UNCHANGED <<heapVars, ibrState, ends, node, ptr, retData, dangling, main>>

EnqHelp(t) ==
  /\ IF tail = ptr[t]
     THEN GotoUsing(t, "enq.help", "enq.load") /\ tail' = nxt[t]
     ELSE Goto(t, "enq.help", "enq.load") /\ UNCHANGED tail
  /\ nxt' = [nxt EXCEPT ![t] = NULL]
  /\ UNCHANGED <<heapVars, ibrState, head, node, ptr, retData, dangling, main>>

(* temp->casNext(nullptr, node).                                           *)
EnqLink(t) ==
  /\ GotoUsing(t, "enq.link",
               IF next[ptr[t]] = NULL THEN "enq.swing" ELSE "enq.load")
  /\ IF next[ptr[t]] = NULL
     THEN /\ next' = [next EXCEPT ![ptr[t]] = node[t]]
          /\ status' = [status EXCEPT ![node[t]] = "linked"]
     ELSE UNCHANGED <<next, status>>
  /\ UNCHANGED <<item, ibrState, ends, locals, dangling, main>>

EnqSwing(t) ==
  /\ IF tail = ptr[t]
     THEN GotoUsing(t, "enq.swing", "enq.end") /\ tail' = node[t]
     ELSE Goto(t, "enq.swing", "enq.end") /\ UNCHANGED tail
  /\ UNCHANGED <<heapVars, ibrState, head, locals, dangling, main>>

EnqEnd(t) ==
  /\ EndOp(t, "enq.end", "idle")
  /\ node' = [node EXCEPT ![t] = NULL]
  /\ ptr' = [ptr EXCEPT ![t] = NULL]
  /\ UNCHANGED <<heapVars, ends, nxt, retData, dangling, main>>

-----------------------------------------------------------------------------
(* dequeue(threadID).  The main thread calls it while it drains the queue. *)
DeqCall(t) ==
  /\ Calling \/ DrainingAs(t)
  /\ Goto(t, "idle", "deq.start")
  /\ UNCHANGED <<heapVars, ibrState, ends, locals, dangling, main>>

DeqStart(t) ==
  /\ \/ StartLoad(t, "deq.start", "deq.reserve")
     \/ StartStore(t, "deq.reserve", "deq.load")
  /\ UNCHANGED <<ends, locals, dangling, main>>

DeqLoad(t) ==
  /\ Goto(t, "deq.load", "deq.tail")
  /\ node' = [node EXCEPT ![t] = head]
  /\ dangling' = dangling \ {t}
  /\ UNCHANGED <<heapVars, ibrState, ends, ptr, nxt, retData, main>>

\* fault: head is not compared with tail
DeqTailNever(t) ==
  /\ Goto(t, "deq.tail",
          IF next[node[t]] = NULL THEN "deq.end" ELSE "deq.next")
  /\ UNCHANGED <<heapVars, ibrState, ends, locals, dangling, main>>

DeqTail(t) ==
  /\ Goto(t, "deq.tail", IF tail = node[t] THEN "deq.end" ELSE "deq.next")
  /\ UNCHANGED <<heapVars, ibrState, ends, locals, dangling, main>>

DeqNext(t) ==
  /\ GotoUsing(t, "deq.next", "deq.cas")
  /\ nxt' = [nxt EXCEPT ![t] = next[node[t]]]
  /\ UNCHANGED <<heapVars, ibrState, ends, node, ptr, retData, dangling, main>>

DeqCas(t) ==
  /\ IF head = node[t]
     THEN /\ GotoUsing(t, "deq.cas", "deq.item")
          /\ head' = nxt[t]
          /\ status' = [status EXCEPT ![node[t]] = "retired"]
          /\ UNCHANGED nxt
     ELSE /\ Goto(t, "deq.cas", "deq.load")
          /\ nxt' = [nxt EXCEPT ![t] = NULL]
          /\ UNCHANGED <<head, status>>
  /\ UNCHANGED <<next, item, ibrState, tail, node, ptr, retData, dangling,
                 main>>

(* Node's constructor assigns its parameter to itself, so the item read    *)
(* here is whatever the memory held.                                       *)
DeqItem(t) ==
  /\ GotoUsing(t, "deq.item", "retire")
  /\ \E v \in RawItems : retData' = [retData EXCEPT ![t] = v]
  /\ nxt' = [nxt EXCEPT ![t] = NULL]
  /\ UNCHANGED <<heapVars, ibrState, ends, node, ptr, dangling, main>>

DeqRetire(t) ==
  /\ RetirePush(t, node[t], "retire", "empty", "deq.end")
  /\ UNCHANGED <<ends, locals, dangling, main>>

(* The nodes t relies on: temp in enqueue, node and then next in dequeue.  *)
Guards(t) ==
  CASE pc[t] \in {"enq.check", "enq.next", "enq.help", "enq.link",
                  "enq.swing"}                         -> {ptr[t]}
    [] pc[t] \in {"deq.tail", "deq.next", "deq.cas"}   -> {node[t]}
    [] pc[t] = "deq.item"                              -> {nxt[t]}
    [] OTHER                                           -> {}

DeqEmptyList(t) ==
  /\ EmptyRead(t, "empty", "deq.end")
  /\ dangling' = dangling \cup {u \in Threads : \E n \in Guards(u) :
                                 status[n] # "free" /\ status'[n] = "free"}
  /\ UNCHANGED <<ends, locals, main>>

DeqEnd(t) ==
  /\ EndOp(t, "deq.end", "idle")
  /\ node' = [node EXCEPT ![t] = NULL]
  /\ retData' = [retData EXCEPT ![t] = NULL]
  /\ ReturnItem(retData[t] = NULL)
  /\ UNCHANGED <<heapVars, ends, ptr, nxt, dangling>>

-----------------------------------------------------------------------------
Quit ==
  /\ QuitSignal
  /\ UNCHANGED <<heapVars, ibrState, ends, locals, dangling>>

ThreadExit(t) ==
  /\ LeaveLoop(t)
  /\ UNCHANGED <<heapVars, ibrState, ends, locals, dangling>>

Join ==
  /\ JoinThreads
  /\ UNCHANGED <<heapVars, ibrState, ends, locals, dangling>>

(* delete head.load(); the retired lists are left as they are.             *)
Destroy ==
  /\ DeleteStructure
  /\ Delete({head} \cap Nodes)
  /\ head' = NULL /\ tail' = NULL
  /\ UNCHANGED <<ibrState, locals, dangling>>

Defined == \A t \in Threads : pc[t] # "undefined"

Finished == (Destroyed \/ ~Defined) /\ UNCHANGED vars

EnqStep(t) ==
  \/ EnqAlloc(t) \/ EnqStart(t) \/ EnqLoad(t) \/ EnqCheck(t) \/ EnqNext(t)
  \/ EnqHelp(t) \/ EnqLink(t) \/ EnqSwing(t) \/ EnqEnd(t)

DeqStep(t) ==
  \/ DeqStart(t) \/ DeqLoad(t) \/ DeqTail(t) \/ DeqNext(t) \/ DeqCas(t)
  \/ DeqItem(t) \/ DeqRetire(t) \/ DeqEmptyList(t) \/ DeqEnd(t)

ThreadStep(t) ==
  EnqCall(t) \/ DeqCall(t) \/ EnqStep(t) \/ DeqStep(t) \/ ThreadExit(t)

MainStep == Quit \/ Join \/ Destroy

Next ==
  \/ Defined /\ ((\E t \in Threads : ThreadStep(t)) \/ MainStep)
  \/ Finished

Spec == Init /\ [][Next]_vars

-----------------------------------------------------------------------------
(* The type of every variable.                                             *)
TypeOK ==
  /\ HeapTypeOK
  /\ IBRTypeOK
  /\ pc \in [Threads -> Labels]
  /\ head \in NodeOrNull
  /\ tail \in NodeOrNull
  /\ node \in [Threads -> NodeOrNull]
  /\ ptr \in [Threads -> NodeOrNull]
  /\ nxt \in [Threads -> NodeOrNull]
  /\ retData \in [Threads -> Items \cup {NULL}]
  /\ dangling \subseteq Threads
  /\ main \in MainStates

(* The node whose memory the next step of t reads or writes.               *)
Accesses(t) ==
  CASE pc[t] \in {"enq.next", "enq.link"} -> {ptr[t]}
    [] pc[t] = "deq.next"                 -> {node[t]}
    [] pc[t] = "deq.item"                 -> {nxt[t]}
    [] OTHER                              -> {}

(* No thread ever accesses a node that has been deleted.                   *)
MemorySafe == \A t \in Threads : Accesses(t) \subseteq Allocated

Holds(t, n) ==
  \/ pc[t] \in EnqLabels \ {"enq.swing", "enq.end"} /\ node[t] = n
  \/ pc[t] \in {"deq.item", "retire"} /\ node[t] = n

(* Until the destructor has run, or a deleted node has been used, every    *)
(* allocated node is in exactly one place: the list that starts at head,   *)
(* one entry of a retired list, or the hands of one enqueue or dequeue;    *)
(* and both counters agree with the list.                                  *)
OneOwner ==
  LET list == ChainSet(head)
  IN  Defined /\ ~Destroyed =>
        /\ \A n \in Nodes :
             InOnePlace(n, list, EntriesOf(retiredList, n),
                        {t \in Threads : Holds(t, n)})
        /\ \A t \in Threads :
             /\ retiredNodesCount[t] = Len(retiredList[t])
             /\ pc[t] # "empty" => retireStat[t] = Len(retiredList[t])

(* Until a deleted node has been used, head never overtakes tail, and tail *)
(* is never more than one node behind the end of the list, although        *)
(* addresses come back while threads still hold them.                      *)
TailFollows ==
  Defined /\ ~Destroyed =>
    /\ tail \in ChainSet(head)
    /\ next[tail] # NULL => next[next[tail]] = NULL

=============================================================================
