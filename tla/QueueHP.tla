------------------------------ MODULE QueueHP ------------------------------
(***************************************************************************)
(* hazardpointer/QueueHazardPointer.hpp: a Michael-Scott queue protected   *)
(* by hazard pointers, under the client of module Benchmark.               *)
(*                                                                         *)
(* pc labels name the next shared access of a thread: enq.* in enqueue,    *)
(* deq.* in dequeue, clear and deq.clear in clear, scan in retireNode.     *)
(***************************************************************************)
EXTENDS HazardPointers

VARIABLES
  head, tail,
  node,      \* enqueue: the new node; dequeue: the node taken from head
  nxt,       \* enqueue: next
  retData    \* dequeue: item

locals == <<node, nxt, retData>>
ends == <<head, tail>>
vars == <<heapVars, hpVars, hpLocals, pc, ends, locals, main>>

EnqLabels == {"enq.load", "enq.publish", "enq.check", "enq.next", "enq.help",
              "enq.link", "enq.swing"}
DeqLabels == {"deq.protect", "deq.publish", "deq.tail", "deq.protectNext",
              "deq.publishNext", "deq.cas", "deq.item", "deq.clear", "scan",
              "deq.return"}
Labels == EnqLabels \cup DeqLabels \cup {"idle", "clear", "exited"}

Init ==
  /\ \E s \in Nodes : HeapWithSentinel(s) /\ head = s /\ tail = s
  /\ HPInit
  /\ threadCount = NumThreads
  /\ BenchmarkInit
  /\ node = [t \in Threads |-> NULL]
  /\ nxt = [t \in Threads |-> NULL]
  /\ retData = [t \in Threads |-> NULL]

-----------------------------------------------------------------------------
(* enqueue(item, tid); a null item is refused before anything is changed.  *)
EnqCall(t) ==
  /\ Calling
  /\ Goto(t, "idle", "enq.load")
  /\ \E n \in Nodes, i \in Items :
       New(n, i) /\ node' = [node EXCEPT ![t] = n]
  /\ UNCHANGED <<hpVars, hpLocals, ends, nxt, retData, main>>

EnqLoad(t) ==
  /\ ArgumentLoad(t, "enq.load", "enq.publish", tail)
  /\ UNCHANGED <<ends, locals, main>>

EnqPublish(t) ==
  /\ StoreHazardPtr(t, "enq.publish", "enq.check", 0)
  /\ UNCHANGED <<ends, locals, main>>

EnqCheck(t) ==
  /\ Goto(t, "enq.check", IF tail = ptr[t] THEN "enq.next" ELSE "enq.load")
  /\ UNCHANGED <<heapVars, hpVars, hpLocals, ends, locals, main>>

EnqNext(t) ==
  /\ Goto(t, "enq.next", IF next[ptr[t]] = NULL THEN "enq.link" ELSE "enq.help")
  /\ nxt' = [nxt EXCEPT ![t] = next[ptr[t]]]
  /\ UNCHANGED <<heapVars, hpVars, hpLocals, ends, node, retData, main>>

\* fault: an enqueue waits for the exchange of tail instead of helping
EnqHelpNever(t) ==
  /\ Goto(t, "enq.help", "enq.load")
  /\ nxt' = [nxt EXCEPT ![t] = NULL]
  /\ UNCHANGED <<heapVars, hpVars, hpLocals, ends, node, retData, main>>

EnqHelp(t) ==
  /\ Goto(t, "enq.help", "enq.load")
  /\ tail' = IF tail = ptr[t] THEN nxt[t] ELSE tail
  /\ nxt' = [nxt EXCEPT ![t] = NULL]
  /\ UNCHANGED <<heapVars, hpVars, hpLocals, head, node, retData, main>>

(* temp->casNext(nullptr, node).                                           *)
\* fault: the link is stored without comparing it with nullptr again
EnqLinkStore(t) ==
  /\ Goto(t, "enq.link", "enq.swing")
  /\ next' = [next EXCEPT ![ptr[t]] = node[t]]
  /\ status' = [status EXCEPT ![node[t]] = "linked"]
  /\ UNCHANGED <<item, hpVars, hpLocals, ends, locals, main>>

EnqLink(t) ==
  /\ Goto(t, "enq.link",
          IF next[ptr[t]] = NULL THEN "enq.swing" ELSE "enq.load")
  /\ IF next[ptr[t]] = NULL
     THEN /\ next' = [next EXCEPT ![ptr[t]] = node[t]]
          /\ status' = [status EXCEPT ![node[t]] = "linked"]
     ELSE UNCHANGED <<next, status>>
  /\ UNCHANGED <<item, hpVars, hpLocals, ends, locals, main>>

EnqSwing(t) ==
  /\ Goto(t, "enq.swing", "clear")
  /\ tail' = IF tail = ptr[t] THEN node[t] ELSE tail
  /\ UNCHANGED <<heapVars, hpVars, hpLocals, head, locals, main>>

-----------------------------------------------------------------------------
(* dequeue(tid).  The main thread calls it while it drains the queue.      *)
DeqCall(t) ==
  /\ Calling \/ DrainingAs(t)
  /\ Goto(t, "idle", "deq.protect")
  /\ UNCHANGED <<heapVars, hpVars, hpLocals, ends, locals, main>>

DeqProtect(t) ==
  /\ ProtectLoad(t, "deq.protect", "deq.publish", "deq.tail", head)
  /\ UNCHANGED <<ends, locals, main>>

DeqPublish(t) ==
  /\ ProtectStore(t, "deq.publish", "deq.protect", 0)
  /\ UNCHANGED <<ends, locals, main>>

\* fault: head is not compared with tail, only with the end of the list
DeqTailNever(t) ==
  /\ Goto(t, "deq.tail",
          IF next[ptr[t]] = NULL THEN "clear" ELSE "deq.protectNext")
  /\ node' = [node EXCEPT ![t] = IF next[ptr[t]] = NULL THEN NULL ELSE ptr[t]]
  /\ ptr' = [ptr EXCEPT ![t] = NULL]
  /\ UNCHANGED <<heapVars, hpVars, last, slot, scan, ends, nxt, retData, main>>

DeqTail(t) ==
  /\ Goto(t, "deq.tail", IF tail = ptr[t] THEN "clear" ELSE "deq.protectNext")
  /\ node' = [node EXCEPT ![t] = IF tail = ptr[t] THEN NULL ELSE ptr[t]]
  /\ ptr' = [ptr EXCEPT ![t] = NULL]
  /\ UNCHANGED <<heapVars, hpVars, last, slot, scan, ends, nxt, retData, main>>

DeqProtectNext(t) ==
  /\ ProtectLoad(t, "deq.protectNext", "deq.publishNext", "deq.cas",
                 next[node[t]])
  /\ UNCHANGED <<ends, locals, main>>

\* fault: both protected pointers are kept in slot 0
DeqPublishNextInSlot0(t) ==
  /\ ProtectStore(t, "deq.publishNext", "deq.protectNext", 0)
  /\ UNCHANGED <<ends, locals, main>>

DeqPublishNext(t) ==
  /\ ProtectStore(t, "deq.publishNext", "deq.protectNext", 1)
  /\ UNCHANGED <<ends, locals, main>>

DeqCas(t) ==
  /\ Goto(t, "deq.cas", IF head = node[t] THEN "deq.item" ELSE "deq.protect")
  /\ IF head = node[t]
     THEN /\ head' = ptr[t]
          /\ status' = [status EXCEPT ![node[t]] = "retired"]
          /\ UNCHANGED node
     ELSE /\ node' = [node EXCEPT ![t] = NULL]
          /\ UNCHANGED <<head, status>>
  /\ UNCHANGED <<next, item, hpVars, hpLocals, tail, nxt, retData, main>>

(* Node's constructor assigns its parameter to itself, so the item read    *)
(* here is whatever the memory held.                                       *)
DeqItem(t) ==
  /\ Goto(t, "deq.item", "deq.clear")
  /\ \E v \in RawItems : retData' = [retData EXCEPT ![t] = v]
  /\ UNCHANGED <<heapVars, hpVars, hpLocals, ends, node, nxt, main>>

(* clear(tid), then retireNode begins.                                     *)
DeqClear(t) ==
  /\ ClearSlot(t, "deq.clear", AfterRetirePush(t, "scan", "deq.return"))
  /\ IF slot[t] + 1 = SlotsPerThread
     THEN RetirePush(t, node[t])
     ELSE UNCHANGED <<retiredPointerList, retiredCount, scan>>
  /\ UNCHANGED <<heapVars, threadCount, ptr, last, ends, locals, main>>

DeqRetire(t) ==
  /\ RetireScan(t, "scan", "deq.return")
  /\ UNCHANGED <<ends, locals, main>>

(* dequeue returns the item; a null one ends the destructor's loop.        *)
DeqReturn(t) ==
  /\ Goto(t, "deq.return", "idle")
  /\ ReturnItem(retData[t] = NULL)
  /\ node' = [node EXCEPT ![t] = NULL]
  /\ ptr' = [ptr EXCEPT ![t] = NULL]
  /\ retData' = [retData EXCEPT ![t] = NULL]
  /\ UNCHANGED <<heapVars, hpVars, last, slot, scan, ends, nxt>>

(* clear(tid) ends an enqueue and an empty dequeue.                        *)
Return(t) ==
  /\ ClearSlot(t, "clear", "idle")
  /\ IF slot[t] + 1 = SlotsPerThread
     THEN /\ ptr' = [ptr EXCEPT ![t] = NULL]
          /\ node' = [node EXCEPT ![t] = NULL]
          /\ ReturnItem(TRUE)
     ELSE UNCHANGED <<ptr, node, main>>
  /\ UNCHANGED <<heapVars, threadCount, retiredPointerList, retiredCount,
                 last, scan, ends, nxt, retData>>

-----------------------------------------------------------------------------
Quit ==
  /\ QuitSignal
  /\ UNCHANGED <<heapVars, hpVars, hpLocals, ends, locals>>

ThreadExit(t) ==
  /\ LeaveLoop(t)
  /\ UNCHANGED <<heapVars, hpVars, hpLocals, ends, locals, main>>

Join ==
  /\ JoinThreads
  /\ UNCHANGED <<heapVars, hpVars, hpLocals, ends, locals>>

(* delete head.load(), then ~hazardPointers deletes every retired node.    *)
Destroy ==
  /\ DeleteStructure
  /\ Delete({n \in Nodes : n = head \/ \E t \in Threads : n \in Retired(t)})
  /\ head' = NULL /\ tail' = NULL
  /\ retiredPointerList' = [t \in Threads |-> <<>>]
  /\ UNCHANGED <<threadCount, hazardPointerList, retiredCount, hpLocals,
                 locals>>

Finished == Destroyed /\ UNCHANGED vars

EnqStep(t) ==
  \/ EnqLoad(t) \/ EnqPublish(t) \/ EnqCheck(t) \/ EnqNext(t)
  \/ EnqHelp(t) \/ EnqLink(t) \/ EnqSwing(t)

DeqStep(t) ==
  \/ DeqProtect(t) \/ DeqPublish(t) \/ DeqTail(t) \/ DeqProtectNext(t)
  \/ DeqPublishNext(t) \/ DeqCas(t) \/ DeqItem(t) \/ DeqClear(t)
  \/ DeqRetire(t) \/ DeqReturn(t)

ThreadStep(t) ==
  \/ EnqCall(t) \/ DeqCall(t) \/ EnqStep(t) \/ DeqStep(t) \/ Return(t)
  \/ ThreadExit(t)

MainStep == Quit \/ Join \/ Destroy

Next == (\E t \in Threads : ThreadStep(t)) \/ MainStep \/ Finished

Spec == Init /\ [][Next]_vars

-----------------------------------------------------------------------------
(* The type of every variable.                                             *)
TypeOK ==
  /\ HeapTypeOK
  /\ HPTypeOK
  /\ pc \in [Threads -> Labels]
  /\ head \in NodeOrNull
  /\ tail \in NodeOrNull
  /\ node \in [Threads -> NodeOrNull]
  /\ nxt \in [Threads -> NodeOrNull]
  /\ retData \in [Threads -> Items \cup {NULL}]
  /\ main \in MainStates

(* The node whose memory the next step of t reads or writes.               *)
Accesses(t) ==
  CASE pc[t] \in {"enq.next", "enq.link"}  -> {ptr[t]}
    [] pc[t] = "deq.protectNext"           -> {node[t]}
    [] pc[t] = "deq.item"                  -> {ptr[t]}
    [] OTHER                               -> {}

(* No thread ever accesses a node that has been deleted: the tail node an  *)
(* enqueue links to, the head node a dequeue follows and the node whose    *)
(* item it returns are still allocated.                                    *)
MemorySafe == \A t \in Threads : Accesses(t) \subseteq Allocated

Holds(t, n) ==
  \/ pc[t] \in EnqLabels \ {"enq.swing"} /\ node[t] = n
  \/ pc[t] \in {"deq.item", "deq.clear"} /\ node[t] = n

(* Until the destructor has run, every allocated node is in exactly one    *)
(* place: the list that starts at head, one entry of a retired list, or    *)
(* the hands of one thread that has not linked or not yet retired it.      *)
OneOwner ==
  LET list == ChainSet(head)
  IN  ~Destroyed =>
        /\ \A n \in Nodes :
             InOnePlace(n, list, EntriesOf(retiredPointerList, n),
                        {t \in Threads : Holds(t, n)})
        /\ Straight(list, head)

(* head never overtakes tail, and tail is never more than one node behind  *)
(* the end of the list.                                                    *)
TailFollows ==
  ~Destroyed =>
    /\ tail \in ChainSet(head)
    /\ next[tail] # NULL => next[next[tail]] = NULL

-----------------------------------------------------------------------------
Guards(t) ==
  CASE pc[t] \in {"enq.next", "enq.help", "enq.link", "enq.swing"} -> {ptr[t]}
    [] pc[t] = "deq.tail"                                         -> {ptr[t]}
    [] pc[t] \in {"deq.protectNext", "deq.publishNext", "deq.cas"} -> {node[t]}
    [] pc[t] = "deq.item"                                 -> {node[t], ptr[t]}
    [] OTHER                                              -> {}

(* An element can be dequeued once tail has reached its node: by the       *)
(* enqueuer's own exchange of tail or by that of a thread that helps.      *)
Contents == IF head = NULL THEN <<>> ELSE Tail(ChainTo(head, tail))

Call(t) ==
  CASE pc[t] \in EnqLabels \ {"enq.swing"}                -> "enqueue"
    [] pc[t] = "enq.swing" /\ tail = ptr[t]               -> "enqueue"
    [] pc[t] = "enq.swing" /\ tail # ptr[t]               -> "done"
    [] pc[t] \in DeqLabels \ {"deq.item", "deq.clear", "scan", "deq.return"}
                                                          -> "dequeue"
    [] pc[t] \in {"deq.item", "deq.clear", "scan", "deq.return", "clear"}
                                                          -> "done"
    [] OTHER                                              -> "none"

Arg(t) ==
  CASE Call(t) = "enqueue"                                -> node[t]
    [] pc[t] \in {"deq.item", "deq.clear", "scan", "deq.return"} -> ptr[t]
    [] OTHER                                              -> NULL

Completes ==
  \E t \in Threads : pc[t] \in {"clear", "deq.return"} /\ pc'[t] = "idle"

-----------------------------------------------------------------------------
(* The inductive invariant behind MemorySafe and ReclaimsSafely.           *)
EnoughSlots == SlotsPerThread >= 2

(* From head links lead along linked nodes, each of which no other linked  *)
(* node leads to, and none to head; tail is at most one node behind the    *)
(* end.                                                                    *)
QueueShape ==
  /\ head \in Nodes /\ status[head] = "linked"
  /\ tail \in Nodes /\ status[tail] = "linked"
  /\ \A m \in Nodes : status[m] = "linked" /\ next[m] # NULL =>
       /\ status[next[m]] = "linked" /\ next[m] # head
       /\ \A n \in Nodes : status[n] = "linked" /\ next[n] = next[m] => n = m
  /\ \A m \in Nodes : status[m] = "linked" /\ next[m] = NULL =>
       m = tail \/ m = next[tail]
  /\ next[tail] # NULL => next[next[tail]] = NULL
  /\ \A m \in Nodes : status[m] = "retired" => next[m] # NULL

(* An enqueue owns its node alone until it has linked it.                  *)
Enqueuing(t) == pc[t] \in EnqLabels \ {"enq.swing"}

OwnsNode(t) ==
  /\ Enqueuing(t) =>
       /\ node[t] \in Nodes /\ status[node[t]] = "private" /\ next[node[t]] = NULL
       /\ \A u \in Threads : Enqueuing(u) /\ node[u] = node[t] => u = t
  /\ pc[t] = "enq.swing" => node[t] \in Nodes /\ next[ptr[t]] = node[t]
  /\ pc[t] = "enq.help" => nxt[t] \in Nodes /\ next[ptr[t]] = nxt[t]

(* A dequeued node is in no list until its dequeuer retires it.            *)
Dequeued(t) == pc[t] \in {"deq.item", "deq.clear"}

DequeuedByOne(t) ==
  Dequeued(t) =>
    /\ node[t] \in Nodes /\ status[node[t]] = "retired" /\ InNoList(node[t])
    /\ \A u \in Threads : Dequeued(u) /\ node[u] = node[t] => u = t

(* storeHazardPtr and protect have published what they return.             *)
ProtectPublished(t) ==
  /\ last[t] # NULL =>
       pc[t] \in {"deq.protect", "deq.publish", "deq.protectNext",
                  "deq.publishNext"}
  /\ pc[t] = "enq.check" => hazardPointerList[t][0] = ptr[t]
  /\ pc[t] = "deq.protect" /\ last[t] # NULL =>
       hazardPointerList[t][0] = last[t]
  /\ pc[t] = "deq.protectNext" /\ last[t] # NULL =>
       hazardPointerList[t][1] = last[t]
  /\ pc[t] \in {"deq.publishNext", "deq.cas"} => ptr[t] = next[node[t]]
  /\ pc[t] = "deq.cas" => hazardPointerList[t][1] = ptr[t]

(* What t has found in the queue behind its store in slot s.               *)
FoundTail(t) == pc[t] \in {"enq.next", "enq.help", "enq.link", "enq.swing"}
FoundHead(t) == pc[t] \in {"deq.protectNext", "deq.publishNext", "deq.cas"}

Found(t, s, n) ==
  \/ s = 0 /\ n = ptr[t] /\ (FoundTail(t) \/ pc[t] = "deq.tail")
  \/ s = 0 /\ n = node[t] /\ FoundHead(t)
  \/ s = 1 /\ n = ptr[t] /\ pc[t] = "deq.item"

FoundShielded(t) ==
  \A s \in Slots, n \in NodeOrNull : Found(t, s, n) =>
    /\ n # NULL /\ status[n] \in {"linked", "retired"}
    /\ Shields(t, s, n, {"scan"})

(* tail has passed the node an enqueue has found there, and is ahead of    *)
(* the node a dequeue has found at head, as long as that is at head.       *)
TailAhead(t) ==
  /\ FoundTail(t) => ptr[t] # next[tail]
  /\ pc[t] = "deq.tail" => ptr[t] = head \/ status[ptr[t]] = "retired"
  /\ FoundHead(t) =>
       (node[t] = head /\ tail # head) \/ status[node[t]] = "retired"

ThreadInv(t) ==
  /\ OwnsNode(t) /\ DequeuedByOne(t) /\ ProtectPublished(t)
  /\ FoundShielded(t) /\ TailAhead(t)

(* The main thread destroys the queue when it is the only one left.        *)
MainAlone ==
  /\ main \in {"draining", "deleting", "destroyed"} =>
       \A t \in Threads : IF t = 0 THEN pc[t] \notin EnqLabels
                                   ELSE pc[t] = "exited"
  /\ main \in {"deleting", "destroyed"} => pc[0] = "idle"

IInv ==
  /\ TypeOK /\ MainAlone /\ Scheme({"scan"})
  /\ ~Destroyed => QueueShape
  /\ \A t \in Threads : ThreadInv(t)

-----------------------------------------------------------------------------
(* The inductive invariant behind OneOwner: every linked node is in the    *)
(* queue, every other allocated one in somebody's hands or in a list.      *)
Placed ==
  /\ ~Destroyed => Reaches(head, next, Linked)
  /\ \A n \in Nodes :
       /\ status[n] = "private" => \E t \in Threads : Holds(t, n)
       /\ status[n] = "retired" =>
            ~InNoList(n) \/ \E t \in Threads : Holds(t, n)

(* And behind NothingLeaked: tail lags only until the enqueue that linked  *)
(* the last node has swung it, and dequeue returns nullptr only when the   *)
(* queue is empty, as long as it does not read one in a node.              *)
TailSwung ==
  ~Destroyed /\ next[tail] # NULL =>
    \E t \in Threads : pc[t] = "enq.swing" /\ ptr[t] = tail

Drained ==
  NULL \notin RawItems =>
    /\ main = "draining" =>
         /\ pc[0] = "clear" => head = tail
         /\ pc[0] \in {"deq.clear", "scan", "deq.return"} => retData[0] # NULL
    /\ main = "deleting" => head = tail
    /\ Destroyed => Allocated = {}

=============================================================================
