------------------------------ MODULE QueueHE ------------------------------
(***************************************************************************)
(* hazarderas/QueueHazardEras.hpp: a Michael-Scott queue protected by      *)
(* hazard eras, under the client of module Benchmark.                      *)
(*                                                                         *)
(* pc labels name the next shared access of a thread: enq.* in enqueue,    *)
(* deq.* in dequeue, retire.* in retireNode, clear in clear.               *)
(***************************************************************************)
EXTENDS HazardEras

VARIABLES
  head, tail,
  node,      \* enqueue: the new node; dequeue: the node taken from head
  nxt,       \* enqueue: next
  retData,   \* dequeue: item
  dangling   \* history: threads that rely on a node which has been deleted
             \* since get_protected returned it

locals == <<node, nxt, retData>>
ends == <<head, tail>>
vars == <<heapVars, heVars, eraFields, heLocals, pc, ends, locals, dangling,
          main>>

EnqLabels == {"enq.get", "enq.clock", "enq.publish", "enq.check", "enq.next",
              "enq.help", "enq.link", "enq.swing"}
DeqLabels == {"deq.get", "deq.clock", "deq.publish", "deq.tail", "deq.getNext",
              "deq.clockNext", "deq.publishNext", "deq.cas", "deq.item",
              "retire.era", "retire.check", "retire.add"}
Labels == EnqLabels \cup DeqLabels \cup {"idle", "clear", "exited", "undefined"}

Init ==
  /\ \E s \in Nodes : HeapWithSentinel(s) /\ head = s /\ tail = s
  /\ HEInit
  /\ BenchmarkInit
  /\ node = [t \in Threads |-> NULL]
  /\ nxt = [t \in Threads |-> NULL]
  /\ retData = [t \in Threads |-> NULL]
  /\ dangling = {}

(* What follows the use of a deleted node, be it an access of its memory   *)
(* or an exchange that finds its address in place again, is not defined:   *)
(* it is not modelled further.                                             *)
GotoUsing(t, from, to) ==
  Goto(t, from, IF t \in dangling THEN "undefined" ELSE to)

-----------------------------------------------------------------------------
(* enqueue(item, threadID); a null item is refused before anything is      *)
(* changed.                                                                *)
EnqCall(t) ==
  /\ Calling /\ globalEraClock < MaxEra
  /\ Goto(t, "idle", "enq.get")
  /\ \E n \in Nodes, i \in Items :
       NewInEra(n, i) /\ node' = [node EXCEPT ![t] = n]
  /\ UNCHANGED <<heVars, heLocals, ends, nxt, retData, dangling, main>>

EnqProtect(t) ==
  /\ \/ ProtectLoad(t, "enq.get", "enq.clock", tail)
     \/ ProtectClock(t, "enq.clock", "enq.publish", "enq.check", 0)
     \/ ProtectPublish(t, "enq.publish", "enq.get", 0)
  /\ dangling' = dangling \ {t}
  /\ UNCHANGED <<ends, locals, main>>

EnqCheck(t) ==
  /\ Goto(t, "enq.check", IF tail = ptr[t] THEN "enq.next" ELSE "enq.get")
  /\ UNCHANGED <<heapVars, heVars, eraFields, heLocals, ends, locals, dangling,
                 main>>

EnqNext(t) ==
  /\ GotoUsing(t, "enq.next",
               IF next[ptr[t]] = NULL THEN "enq.link" ELSE "enq.help")
  /\ nxt' = [nxt EXCEPT ![t] = next[ptr[t]]]
  /\ UNCHANGED <<heapVars, heVars, eraFields, heLocals, ends, node, retData,
                 dangling, main>>

EnqHelp(t) ==
  /\ IF tail = ptr[t]
     THEN GotoUsing(t, "enq.help", "enq.get") /\ tail' = nxt[t]
     ELSE Goto(t, "enq.help", "enq.get") /\ UNCHANGED tail
  /\ nxt' = [nxt EXCEPT ![t] = NULL]
  /\ UNCHANGED <<heapVars, heVars, eraFields, heLocals, head, node, retData,
                 dangling, main>>

(* temp->casNext(nullptr, node).                                           *)
EnqLink(t) ==
  /\ GotoUsing(t, "enq.link",
               IF next[ptr[t]] = NULL THEN "enq.swing" ELSE "enq.get")
  /\ IF next[ptr[t]] = NULL
     THEN /\ next' = [next EXCEPT ![ptr[t]] = node[t]]
          /\ status' = [status EXCEPT ![node[t]] = "linked"]
     ELSE UNCHANGED <<next, status>>
  /\ UNCHANGED <<item, heVars, eraFields, heLocals, ends, locals, dangling,
                 main>>

EnqSwing(t) ==
  /\ IF tail = ptr[t]
     THEN GotoUsing(t, "enq.swing", "clear") /\ tail' = node[t]
     ELSE Goto(t, "enq.swing", "clear") /\ UNCHANGED tail
  /\ UNCHANGED <<heapVars, heVars, eraFields, heLocals, head, locals, dangling,
                 main>>

-----------------------------------------------------------------------------
(* dequeue(threadID).  The main thread calls it while it drains the queue. *)
DeqCall(t) ==
  /\ (Calling /\ globalEraClock < MaxEra) \/ DrainingAs(t)
  /\ Goto(t, "idle", "deq.get")
  /\ UNCHANGED <<heapVars, heVars, eraFields, heLocals, ends, locals, dangling,
                 main>>

DeqProtect(t) ==
  /\ \/ ProtectLoad(t, "deq.get", "deq.clock", head)
     \/ ProtectClock(t, "deq.clock", "deq.publish", "deq.tail", 0)
     \/ ProtectPublish(t, "deq.publish", "deq.get", 0)
  /\ dangling' = dangling \ {t}
  /\ UNCHANGED <<ends, locals, main>>

\* fault: head is not compared with tail, only with the end of the list
DeqTailNever(t) ==
  /\ GotoUsing(t, "deq.tail",
               IF next[ptr[t]] = NULL THEN "clear" ELSE "deq.getNext")
  /\ node' = [node EXCEPT ![t] = IF next[ptr[t]] = NULL THEN NULL ELSE ptr[t]]
  /\ ptr' = [ptr EXCEPT ![t] = NULL]
  /\ UNCHANGED <<heapVars, heVars, eraFields, currEra, slot, ends, nxt, retData,
                 dangling, main>>

DeqTail(t) ==
  /\ Goto(t, "deq.tail", IF tail = ptr[t] THEN "clear" ELSE "deq.getNext")
  /\ node' = [node EXCEPT ![t] = IF tail = ptr[t] THEN NULL ELSE ptr[t]]
  /\ ptr' = [ptr EXCEPT ![t] = NULL]
  /\ UNCHANGED <<heapVars, heVars, eraFields, currEra, slot, ends, nxt, retData,
                 dangling, main>>

DeqGetNext(t) ==
  /\ GotoUsing(t, "deq.getNext", "deq.clockNext")
  /\ ptr' = [ptr EXCEPT ![t] = next[node[t]]]
  /\ UNCHANGED <<heapVars, heVars, eraFields, currEra, slot, ends, locals,
                 dangling, main>>

DeqProtectNext(t) ==
  /\ \/ ProtectClock(t, "deq.clockNext", "deq.publishNext", "deq.cas", 1)
     \/ ProtectPublish(t, "deq.publishNext", "deq.getNext", 1)
  /\ UNCHANGED <<ends, locals, dangling, main>>

DeqCas(t) ==
  /\ IF head = node[t]
     THEN /\ GotoUsing(t, "deq.cas", "deq.item")
          /\ head' = ptr[t]
          /\ status' = [status EXCEPT ![node[t]] = "retired"]
          /\ UNCHANGED <<node, ptr>>
     ELSE /\ Goto(t, "deq.cas", "deq.get")
          /\ node' = [node EXCEPT ![t] = NULL]
          /\ ptr' = [ptr EXCEPT ![t] = NULL]
          /\ UNCHANGED <<head, status>>
  /\ UNCHANGED <<next, item, heVars, eraFields, currEra, slot, tail, nxt,
                 retData, dangling, main>>

(* Node's constructor assigns its parameter to itself, so the item read    *)
(* here is whatever the memory held.                                       *)
DeqItem(t) ==
  /\ GotoUsing(t, "deq.item", "retire.era")
  /\ \E v \in RawItems : retData' = [retData EXCEPT ![t] = v]
  /\ UNCHANGED <<heapVars, heVars, eraFields, heLocals, ends, node, nxt,
                 dangling, main>>

DeqRetire(t) ==
  /\ RetirePush(t, node[t], "retire.era", "retire.check")
  /\ UNCHANGED <<ends, locals, dangling, main>>

(* The nodes t relies on: temp in enqueue, node and next in dequeue.       *)
Guards(t) ==
  CASE pc[t] \in {"enq.check", "enq.next", "enq.help", "enq.link",
                  "enq.swing", "deq.tail"}                   -> {ptr[t]}
    [] pc[t] \in {"deq.getNext", "deq.clockNext", "deq.publishNext"}
                                                             -> {node[t]}
    [] pc[t] = "deq.cas"                                     -> {node[t]}
    [] pc[t] = "deq.item"                                    -> {ptr[t]}
    [] OTHER                                                 -> {}

DeqSweep(t) ==
  /\ \/ RetireCheck(t, "retire.check", "retire.add", "clear")
     \/ RetireAdd(t, "retire.add", "clear")
  /\ dangling' = dangling \cup {u \in Threads : \E n \in Guards(u) :
                                 status[n] # "free" /\ status'[n] = "free"}
  /\ UNCHANGED <<ends, locals, main>>

-----------------------------------------------------------------------------
(* clear(threadID) ends enqueue and dequeue; with its last store the call  *)
(* returns.                                                                *)
Return(t) ==
  /\ ClearSlot(t, "clear", "idle")
  /\ IF slot[t] + 1 = SlotsPerThread
     THEN /\ ptr' = [ptr EXCEPT ![t] = NULL]
          /\ node' = [node EXCEPT ![t] = NULL]
          /\ retData' = [retData EXCEPT ![t] = NULL]
          /\ ReturnItem(retData[t] = NULL)
     ELSE UNCHANGED <<ptr, node, retData, main>>
  /\ UNCHANGED <<heapVars, globalEraClock, retiredPtrList, retiredNodesCount,
                 eraFields, currEra, ends, nxt, dangling>>

-----------------------------------------------------------------------------
Quit ==
  /\ QuitSignal
  /\ UNCHANGED <<heapVars, heVars, eraFields, heLocals, ends, locals, dangling>>

ThreadExit(t) ==
  /\ LeaveLoop(t)
  /\ UNCHANGED <<heapVars, heVars, eraFields, heLocals, ends, locals, dangling>>

Join ==
  /\ JoinThreads
  /\ UNCHANGED <<heapVars, heVars, eraFields, heLocals, ends, locals, dangling>>

(* delete head.load(), then ~hazardEras deletes every retired node.        *)
Destroy ==
  /\ DeleteStructure
  /\ DeleteInEra({n \in Nodes : n = head \/ \E t \in Threads : n \in Retired(t)})
  /\ head' = NULL /\ tail' = NULL
  /\ retiredPtrList' = [t \in Threads |-> <<>>]
  /\ UNCHANGED <<globalEraClock, hazardErasList, retiredNodesCount, heLocals,
                 locals, dangling>>

Defined == \A t \in Threads : pc[t] # "undefined"

Finished == (Destroyed \/ ~Defined) /\ UNCHANGED vars

EnqStep(t) ==
  \/ EnqProtect(t) \/ EnqCheck(t) \/ EnqNext(t) \/ EnqHelp(t) \/ EnqLink(t)
  \/ EnqSwing(t)

DeqStep(t) ==
  \/ DeqProtect(t) \/ DeqTail(t) \/ DeqGetNext(t) \/ DeqProtectNext(t)
  \/ DeqCas(t) \/ DeqItem(t) \/ DeqRetire(t) \/ DeqSweep(t)

ThreadStep(t) ==
  \/ EnqCall(t) \/ DeqCall(t) \/ EnqStep(t) \/ DeqStep(t) \/ Return(t)
  \/ ThreadExit(t)

MainStep == Quit \/ Join \/ Destroy

Next ==
  \/ Defined /\ ((\E t \in Threads : ThreadStep(t)) \/ MainStep)
  \/ Finished

Spec == Init /\ [][Next]_vars

-----------------------------------------------------------------------------
(* The type of every variable.                                             *)
TypeOK ==
  /\ HeapTypeOK
  /\ HETypeOK
  /\ pc \in [Threads -> Labels]
  /\ head \in NodeOrNull
  /\ tail \in NodeOrNull
  /\ node \in [Threads -> NodeOrNull]
  /\ nxt \in [Threads -> NodeOrNull]
  /\ retData \in [Threads -> Items \cup {NULL}]
  /\ dangling \subseteq Threads
  /\ main \in MainStates

(* The node whose memory the next step of t reads or writes.               *)
Accesses(t) ==
  CASE pc[t] \in {"enq.next", "enq.link", "deq.item"} -> {ptr[t]}
    [] pc[t] = "deq.getNext"                          -> {node[t]}
    [] OTHER                                          -> {}

(* No thread ever accesses a node that has been deleted.                   *)
MemorySafe == \A t \in Threads : Accesses(t) \subseteq Allocated

Holds(t, n) ==
  \/ pc[t] \in EnqLabels \ {"enq.swing"} /\ node[t] = n
  \/ pc[t] \in {"deq.item", "retire.era"} /\ node[t] = n

(* Until the destructor has run, or a deleted node has been used, every    *)
(* allocated node is in exactly one place: the list that starts at head,   *)
(* one entry of a retired list, or the hands of one enqueue or dequeue;    *)
(* and the count of retired nodes is right.                                *)
OneOwner ==
  LET list == ChainSet(head)
  IN  Defined /\ ~Destroyed =>
        /\ \A n \in Nodes :
             InOnePlace(n, list, EntriesOf(retiredPtrList, n),
                        {t \in Threads : Holds(t, n)})
        /\ \A t \in Threads : retiredNodesCount[t] = Len(retiredPtrList[t])

(* Until a deleted node has been used, head never overtakes tail, and tail *)
(* is never more than one node behind the end of the list, although        *)
(* addresses come back while threads still hold them.                      *)
TailFollows ==
  Defined /\ ~Destroyed =>
    /\ tail \in ChainSet(head)
    /\ next[tail] # NULL => next[next[tail]] = NULL

(* The slot that protects each of the nodes t relies on.                   *)
SlotOf(t, n) == IF pc[t] = "deq.item" THEN 1 ELSE 0

(* What get_protected promises, of both slots: the era a thread has        *)
(* published for a node lies within the life of the node, so that a scan   *)
(* of all the slots would keep it.                                         *)
EraCovers ==
  \A t \in Threads \ dangling : \A n \in Guards(t) :
    LET era == hazardErasList[t][SlotOf(t, n)]
    IN  /\ newEra[n] <= era
        /\ (\E u \in Threads : n \in Retired(u)) => era <= delEra[n]

-----------------------------------------------------------------------------
(* The inductive invariant behind TypeOK, EraCovers and TailFollows.       *)
EnoughSlots == SlotsPerThread >= 2

Live(n) == n \in Nodes /\ status[n] \in {"linked", "retired"}

(* From head links lead along linked nodes, each of which no other linked  *)
(* node leads to, and none to head; tail is at most one node behind the    *)
(* end.                                                                    *)
QueueShape ==
  /\ head \in Nodes /\ status[head] = "linked"
  /\ tail \in Nodes /\ status[tail] = "linked"
  /\ \A m \in Nodes : status[m] = "linked" /\ next[m] # NULL =>
       /\ status[next[m]] = "linked" /\ next[m] # head
       /\ \A n \in Nodes : status[n] = "linked" /\ next[n] = next[m] => n = m
  /\ \A m \in Nodes : status[m] = "linked" /\ next[m] = NULL =>
       m = tail \/ m = next[tail]
  /\ next[tail] # NULL => next[next[tail]] = NULL
  /\ \A m \in Nodes : status[m] = "retired" => next[m] # NULL

(* An enqueue owns its node alone until it has linked it.                  *)
Enqueuing(t) == pc[t] \in EnqLabels \ {"enq.swing"}

OwnsNode(t) ==
  Enqueuing(t) =>
    /\ node[t] \in Nodes /\ status[node[t]] = "private" /\ next[node[t]] = NULL
    /\ \A u \in Threads : Enqueuing(u) /\ node[u] = node[t] => u = t

(* A dequeued node is in no list until its dequeuer retires it.            *)
Dequeued(t) == pc[t] \in {"deq.item", "retire.era"}

DequeuedByOne(t) ==
  Dequeued(t) =>
    /\ node[t] \in Nodes /\ status[node[t]] = "retired" /\ ~Listed(node[t])
    /\ \A u \in Threads : Dequeued(u) /\ node[u] = node[t] => u = t

(* A node that was at an end is not freed before the clock has moved, so   *)
(* that a clock that shows the published era vouches for it.               *)
LoadedLives(t) ==
  /\ pc[t] \in {"enq.clock", "deq.clock"} => ptr[t] \in Nodes
  /\ /\ pc[t] \in {"enq.clock", "deq.clock"}
     /\ globalEraClock = hazardErasList[t][0]
     => /\ Live(ptr[t]) /\ EraFits(t, 0, ptr[t])
        /\ pc[t] = "deq.clock" => ptr[t] = head \/ status[ptr[t]] = "retired"

(* Where t has found the node it guards at an end.                         *)
FoundTail(t) == pc[t] \in {"enq.next", "enq.help", "enq.link", "enq.swing"}
FoundHead(t) == pc[t] \in {"deq.getNext", "deq.clockNext", "deq.publishNext",
                           "deq.cas"}

(* From there on the node is within its life, until it is freed.  tail has *)
(* passed the node an enqueue has found there, and is ahead of the node a  *)
(* dequeue has found at head, as long as that is at head.                  *)
GuardedLives(t) ==
  /\ \A n \in Guards(t) :
       /\ n \in Nodes
       /\ t \notin dangling => Live(n) /\ Covers(t, SlotOf(t, n), n)
  /\ t \notin dangling =>
       /\ FoundTail(t) => ptr[t] # next[tail]
       /\ pc[t] = "enq.swing" => node[t] \in Nodes /\ next[ptr[t]] = node[t]
       /\ pc[t] = "enq.help" => nxt[t] \in Nodes /\ next[ptr[t]] = nxt[t]
       /\ pc[t] = "deq.tail" => ptr[t] = head \/ status[ptr[t]] = "retired"
       /\ FoundHead(t) =>
            (node[t] = head /\ tail # head) \/ status[node[t]] = "retired"
       /\ pc[t] \in {"deq.clockNext", "deq.publishNext", "deq.cas"} =>
            ptr[t] = next[node[t]]

(* The era in slot 1 is one of the node behind head.                       *)
NextCovered(t) ==
  /\ pc[t] = "deq.cas" /\ t \notin dangling /\ status[node[t]] = "linked"
  => newEra[ptr[t]] <= hazardErasList[t][1]

ThreadInv(t) ==
  /\ OwnsNode(t) /\ DequeuedByOne(t) /\ LoadedLives(t) /\ GuardedLives(t)
  /\ NextCovered(t)

(* The main thread destroys the queue when it is the only one left.        *)
MainAlone ==
  /\ main \in {"draining", "deleting", "destroyed"} =>
       \A t \in Threads : IF t = 0 THEN pc[t] \notin EnqLabels
                                   ELSE pc[t] = "exited"
  /\ main \in {"deleting", "destroyed"} => pc[0] = "idle"

IInv ==
  /\ TypeOK /\ EraCovers
  /\ Defined =>
       /\ Scheme({"retire.check"}) /\ MainAlone
       /\ ~Destroyed => QueueShape
       /\ \A t \in Threads : ThreadInv(t)

(* And behind OneOwner: every linked node is in the queue, every other     *)
(* allocated one in somebody's hands or in a list.                         *)
Placed ==
  Defined =>
    /\ ~Destroyed => Reaches(head, next, Linked)
    /\ \A n \in Nodes :
         /\ status[n] = "private" => \E t \in Threads : Holds(t, n)
         /\ status[n] = "retired" => Listed(n) \/ \E t \in Threads : Holds(t, n)

=============================================================================
