------------------------------ MODULE StackIBR ------------------------------
(***************************************************************************)
(* intervalbasedrec/StackIBR.hpp: a Treiber stack with interval-based      *)
(* reclamation, under the client of module Benchmark.                      *)
(*                                                                         *)
(* pc labels name the next shared access of a thread: push.* in push,      *)
(* pop.* in pop, alloc.* in allocNode, start.* in start_op, retire in      *)
(* retireNode, empty in emptyRetireList.                                   *)
(***************************************************************************)
EXTENDS IBR

VARIABLES
  top,       \* the stack's head
  node,      \* push: the new node
  ptr,       \* push, pop: temp
  nxt,       \* pop: next
  retData,   \* pop: ret_data
  dangling   \* history: threads in pop whose node has been deleted since
             \* they found it at the top

locals == <<node, ptr, nxt, retData>>
vars == <<heapVars, ibrVars, epochFields, ibrLocals, pc, top, locals, dangling,
          main>>

PushLabels == {"alloc.add", "alloc.load", "push.load", "push.check", "push.cas"}
GuardLabels == {"pop.check", "pop.next", "pop.cas", "pop.item"}
PopLabels == {"pop.load", "retire", "empty", "pop.end"} \cup GuardLabels
Labels == PushLabels \cup PopLabels
            \cup {"start.load", "start.store", "push.end", "idle", "exited",
                  "undefined"}

Init ==
  /\ \E s \in Nodes : HeapWithSentinel(s) /\ top = s
  /\ IBRInit
  /\ BenchmarkInit
  /\ node = [t \in Threads |-> NULL]
  /\ ptr = [t \in Threads |-> NULL]
  /\ nxt = [t \in Threads |-> NULL]
  /\ retData = [t \in Threads |-> NULL]
  /\ dangling = {}

-----------------------------------------------------------------------------
StartOp(t) ==
  /\ \/ StartLoad(t, "start.load", "start.store")
     \/ StartStore(t, "start.store",
                   IF node[t] = NULL THEN "pop.load" ELSE "push.load")
  /\ UNCHANGED <<top, locals, dangling, main>>

(* push(item, threadID); a null item is refused before anything is changed.*)
PushCall(t) ==
  /\ Calling /\ globalEpoch < MaxEpoch
  /\ AllocCount(t, "idle", "alloc.add", "alloc.load")
  /\ \E n \in Nodes, i \in Items :
       New(n, i) /\ node' = [node EXCEPT ![t] = n]
  /\ UNCHANGED <<top, ptr, nxt, retData, dangling, main>>

PushAlloc(t) ==
  /\ \/ AllocAdd(t, "alloc.add", "alloc.load")
     \/ AllocBorn(t, node[t], "alloc.load", "start.load")
  /\ UNCHANGED <<top, locals, dangling, main>>

PushLoad(t) ==
  /\ Goto(t, "push.load", "push.check")
  /\ ptr' = [ptr EXCEPT ![t] = top]
  /\ UNCHANGED <<heapVars, ibrVars, epochFields, ibrLocals, top, node, nxt,
                 retData, dangling, main>>

PushCheck(t) ==
  /\ Goto(t, "push.check", IF top = ptr[t] THEN "push.cas" ELSE "push.load")
  /\ next' = IF top = ptr[t] THEN [next EXCEPT ![node[t]] = ptr[t]] ELSE next
  /\ UNCHANGED <<status, item, ibrVars, epochFields, ibrLocals, top, locals,
                 dangling, main>>

PushCas(t) ==
  /\ Goto(t, "push.cas", IF top = ptr[t] THEN "push.end" ELSE "push.load")
  /\ IF top = ptr[t]
     THEN /\ top' = node[t]
          /\ status' = [status EXCEPT ![node[t]] = "linked"]
     ELSE UNCHANGED <<top, status>>
  /\ ptr' = [ptr EXCEPT ![t] = NULL]
  /\ UNCHANGED <<next, item, ibrVars, epochFields, ibrLocals, node, nxt,
                 retData, dangling, main>>

PushEnd(t) ==
  /\ EndOp(t, "push.end", "idle")
  /\ node' = [node EXCEPT ![t] = NULL]
  /\ UNCHANGED <<heapVars, top, ptr, nxt, retData, dangling, main>>

-----------------------------------------------------------------------------
(* pop(threadID).  The main thread calls it while it drains the stack.     *)
PopCall(t) ==
  /\ Calling \/ DrainingAs(t)
  /\ Goto(t, "idle", "start.load")
  /\ UNCHANGED <<heapVars, ibrVars, epochFields, ibrLocals, top, locals,
                 dangling, main>>

PopLoad(t) ==
  /\ Goto(t, "pop.load", IF top = NULL THEN "pop.end" ELSE "pop.check")
  /\ ptr' = [ptr EXCEPT ![t] = top]
  /\ dangling' = dangling \ {t}
  /\ UNCHANGED <<heapVars, ibrVars, epochFields, ibrLocals, top, node, nxt,
                 retData, main>>

PopCheck(t) ==
  /\ Goto(t, "pop.check", IF top = ptr[t] THEN "pop.next" ELSE "pop.load")
  /\ UNCHANGED <<heapVars, ibrVars, epochFields, ibrLocals, top, locals,
                 dangling, main>>

(* What follows the use of a deleted node, be it a read of its memory or   *)
(* an exchange that finds its address at the top again, is not defined: it *)
(* is not modelled further.                                                *)
PopNext(t) ==
  /\ Goto(t, "pop.next", IF t \in dangling THEN "undefined" ELSE "pop.cas")
  /\ nxt' = [nxt EXCEPT ![t] = next[ptr[t]]]
  /\ UNCHANGED <<heapVars, ibrVars, epochFields, ibrLocals, top, node, ptr,
                 retData, dangling, main>>

PopCas(t) ==
  /\ Goto(t, "pop.cas", IF top # ptr[t] THEN "pop.load"
                        ELSE IF t \in dangling THEN "undefined" ELSE "pop.item")
  /\ IF top = ptr[t]
     THEN /\ top' = nxt[t]
          /\ status' = [status EXCEPT ![ptr[t]] = "retired"]
     ELSE UNCHANGED <<top, status>>
  /\ nxt' = [nxt EXCEPT ![t] = NULL]
  /\ UNCHANGED <<next, item, ibrVars, epochFields, ibrLocals, node, ptr,
                 retData, dangling, main>>

(* Node's constructor assigns its parameter to itself, so the item read    *)
(* here is whatever the memory held.                                       *)
PopItem(t) ==
  /\ Goto(t, "pop.item", "retire")
  /\ \E v \in RawItems : retData' = [retData EXCEPT ![t] = v]
  /\ UNCHANGED <<heapVars, ibrVars, epochFields, ibrLocals, top, node, ptr, nxt,
                 dangling, main>>

PopRetire(t) ==
  /\ RetirePush(t, ptr[t], "retire", "empty", "pop.end")
  /\ UNCHANGED <<top, locals, dangling, main>>

Guards(t) == IF pc[t] \in GuardLabels THEN {ptr[t]} ELSE {}

PopEmptyList(t) ==
  /\ EmptyRead(t, "empty", "pop.end")
  /\ dangling' = dangling \cup {u \in Threads : \E n \in Guards(u) :
                                 status[n] # "free" /\ status'[n] = "free"}
  /\ UNCHANGED <<top, locals, main>>

PopEnd(t) ==
  /\ EndOp(t, "pop.end", "idle")
  /\ ptr' = [ptr EXCEPT ![t] = NULL]
  /\ retData' = [retData EXCEPT ![t] = NULL]
  /\ ReturnItem(retData[t] = NULL)
  /\ UNCHANGED <<heapVars, top, node, nxt, dangling>>

-----------------------------------------------------------------------------
Quit ==
  /\ QuitSignal
  /\ UNCHANGED <<heapVars, ibrVars, epochFields, ibrLocals, top, locals,
                 dangling>>

ThreadExit(t) ==
  /\ LeaveLoop(t)
  /\ UNCHANGED <<heapVars, ibrVars, epochFields, ibrLocals, top, locals,
                 dangling>>

Join ==
  /\ JoinThreads
  /\ UNCHANGED <<heapVars, ibrVars, epochFields, ibrLocals, top, locals,
                 dangling>>

(* delete top.load(); the retired lists are left as they are.              *)
Destroy ==
  /\ DeleteStructure
  /\ Delete({top} \cap Nodes)
  /\ top' = NULL
  /\ UNCHANGED <<ibrVars, epochFields, ibrLocals, locals, dangling>>

Defined == \A t \in Threads : pc[t] # "undefined"

Finished == (Destroyed \/ ~Defined) /\ UNCHANGED vars

PushStep(t) ==
  PushAlloc(t) \/ PushLoad(t) \/ PushCheck(t) \/ PushCas(t) \/ PushEnd(t)

PopStep(t) ==
  \/ PopLoad(t) \/ PopCheck(t) \/ PopNext(t) \/ PopCas(t) \/ PopItem(t)
  \/ PopRetire(t) \/ PopEmptyList(t) \/ PopEnd(t)

ThreadStep(t) ==
  \/ PushCall(t) \/ PopCall(t) \/ StartOp(t) \/ PushStep(t) \/ PopStep(t)
  \/ ThreadExit(t)

MainStep == Quit \/ Join \/ Destroy

Next ==
  \/ Defined /\ ((\E t \in Threads : ThreadStep(t)) \/ MainStep)
  \/ Finished

Spec == Init /\ [][Next]_vars

-----------------------------------------------------------------------------
(* The type of every variable.                                             *)
TypeOK ==
  /\ HeapTypeOK
  /\ IBRTypeOK
  /\ pc \in [Threads -> Labels]
  /\ top \in NodeOrNull
  /\ node \in [Threads -> NodeOrNull]
  /\ ptr \in [Threads -> NodeOrNull]
  /\ nxt \in [Threads -> NodeOrNull]
  /\ retData \in [Threads -> Items \cup {NULL}]
  /\ dangling \subseteq Threads
  /\ main \in MainStates

(* No thread ever accesses a node that has been deleted.                   *)
MemorySafe ==
  \A t \in Threads :
    pc[t] \in {"pop.next", "pop.item"} => ptr[t] \in Allocated

Holds(t, n) ==
  \/ node[t] = n /\ pc[t] # "push.end"
  \/ pc[t] \in {"pop.item", "retire"} /\ ptr[t] = n

(* Until the destructor has run, or a deleted node has been used, every    *)
(* allocated node is in exactly one place: the stack, one entry of a       *)
(* retired list, or the hands of one push or pop; and both counters agree  *)
(* with the list, so that the list is swept at multiples of emptyFreq.     *)
OneOwner ==
  LET list == ChainSet(top)
  IN  Defined /\ ~Destroyed =>
        /\ \A n \in Nodes :
             InOnePlace(n, list, EntriesOf(retiredList, n),
                        {t \in Threads : Holds(t, n)})
        /\ \A t \in Threads :
             /\ retiredNodesCount[t] = Len(retiredList[t])
             /\ pc[t] # "empty" => retireStat[t] = Len(retiredList[t])

=============================================================================
