------------------------------ MODULE StackHE ------------------------------
(***************************************************************************)
(* hazarderas/StackHazardEras.hpp: a Treiber stack protected by hazard     *)
(* eras, under the client of module Benchmark.                             *)
(*                                                                         *)
(* pc labels name the next shared access of a thread: push.* in push,      *)
(* pop.* in pop, retire.* in retireNode, clear in clear.                   *)
(***************************************************************************)
EXTENDS HazardEras

VARIABLES
  top,       \* the stack's head
  node,      \* push: the new node
  nxt,       \* pop: next
  retData,   \* pop: ret_data
  dangling   \* history: threads in pop whose node has been deleted since
             \* get_protected returned it

locals == <<node, nxt, retData>>
vars == <<heapVars, heVars, eraFields, heLocals, pc, top, locals, dangling, main>>

PushLabels == {"push.get", "push.clock", "push.publish", "push.check",
               "push.cas"}
GuardLabels == {"pop.check", "pop.next", "pop.cas", "pop.item"}
PopLabels == {"pop.get", "pop.clock", "pop.publish", "retire.era",
              "retire.check", "retire.add"} \cup GuardLabels
Labels == PushLabels \cup PopLabels
            \cup {"idle", "clear", "exited", "undefined"}

Init ==
  /\ \E s \in Nodes : HeapWithSentinel(s) /\ top = s
  /\ HEInit
  /\ BenchmarkInit
  /\ node = [t \in Threads |-> NULL]
  /\ nxt = [t \in Threads |-> NULL]
  /\ retData = [t \in Threads |-> NULL]
  /\ dangling = {}

-----------------------------------------------------------------------------
(* push(item, threadID); a null item is refused before anything is changed.*)
PushCall(t) ==
  /\ Calling /\ globalEraClock < MaxEra
  /\ Goto(t, "idle", "push.get")
  /\ \E n \in Nodes, i \in Items :
       NewInEra(n, i) /\ node' = [node EXCEPT ![t] = n]
  /\ UNCHANGED <<heVars, heLocals, top, nxt, retData, dangling, main>>

PushProtect(t) ==
  /\ \/ ProtectLoad(t, "push.get", "push.clock", top)
     \/ ProtectClock(t, "push.clock", "push.publish", "push.check", 0)
     \/ ProtectPublish(t, "push.publish", "push.get", 0)
  /\ UNCHANGED <<top, locals, dangling, main>>

PushCheck(t) ==
  /\ Goto(t, "push.check", IF top = ptr[t] THEN "push.cas" ELSE "push.get")
  /\ next' = IF top = ptr[t] THEN [next EXCEPT ![node[t]] = ptr[t]] ELSE next
  /\ UNCHANGED <<status, item, heVars, eraFields, heLocals, top, locals,
                 dangling, main>>

PushCas(t) ==
  /\ Goto(t, "push.cas", IF top = ptr[t] THEN "clear" ELSE "push.get")
  /\ IF top = ptr[t]
     THEN /\ top' = node[t]
          /\ status' = [status EXCEPT ![node[t]] = "linked"]
     ELSE UNCHANGED <<top, status>>
  /\ UNCHANGED <<next, item, heVars, eraFields, heLocals, locals, dangling, main>>

-----------------------------------------------------------------------------
(* pop(threadID).  The main thread calls it while it drains the stack.     *)
PopCall(t) ==
  /\ (Calling /\ globalEraClock < MaxEra) \/ DrainingAs(t)
  /\ Goto(t, "idle", "pop.get")
  /\ UNCHANGED <<heapVars, heVars, eraFields, heLocals, top, locals, dangling,
                 main>>

PopProtect(t) ==
  /\ \/ ProtectLoad(t, "pop.get", "pop.clock", top)
     \/ ProtectClock(t, "pop.clock", "pop.publish",
                     IF ptr[t] = NULL THEN "clear" ELSE "pop.check", 0)
     \/ ProtectPublish(t, "pop.publish", "pop.get", 0)
  /\ dangling' = dangling \ {t}
  /\ UNCHANGED <<top, locals, main>>

PopCheck(t) ==
  /\ Goto(t, "pop.check", IF top = ptr[t] THEN "pop.next" ELSE "pop.get")
  /\ UNCHANGED <<heapVars, heVars, eraFields, heLocals, top, locals, dangling,
                 main>>

(* What follows the use of a deleted node, be it a read of its memory or   *)
(* an exchange that finds its address at the top again, is not defined: it *)
(* is not modelled further.                                                *)
PopNext(t) ==
  /\ Goto(t, "pop.next", IF t \in dangling THEN "undefined" ELSE "pop.cas")
  /\ nxt' = [nxt EXCEPT ![t] = next[ptr[t]]]
  /\ UNCHANGED <<heapVars, heVars, eraFields, heLocals, top, node, retData,
                 dangling, main>>

PopCas(t) ==
  /\ Goto(t, "pop.cas", IF top # ptr[t] THEN "pop.get"
                        ELSE IF t \in dangling THEN "undefined" ELSE "pop.item")
  /\ IF top = ptr[t]
     THEN /\ top' = nxt[t]
          /\ status' = [status EXCEPT ![ptr[t]] = "retired"]
     ELSE UNCHANGED <<top, status>>
  /\ nxt' = [nxt EXCEPT ![t] = NULL]
  /\ UNCHANGED <<next, item, heVars, eraFields, heLocals, node, retData,
                 dangling, main>>

(* Node's constructor assigns its parameter to itself, so the item read    *)
(* here is whatever the memory held.                                       *)
PopItem(t) ==
  /\ Goto(t, "pop.item", "retire.era")
  /\ \E v \in RawItems : retData' = [retData EXCEPT ![t] = v]
  /\ UNCHANGED <<heapVars, heVars, eraFields, heLocals, top, node, nxt, dangling,
                 main>>

PopRetire(t) ==
  /\ RetirePush(t, ptr[t], "retire.era", "retire.check")
  /\ UNCHANGED <<top, locals, dangling, main>>

Guards(t) == IF pc[t] \in GuardLabels THEN {ptr[t]} ELSE {}

PopSweep(t) ==
  /\ \/ RetireCheck(t, "retire.check", "retire.add", "clear")
     \/ RetireAdd(t, "retire.add", "clear")
  /\ dangling' = dangling \cup {u \in Threads : \E n \in Guards(u) :
                                 status[n] # "free" /\ status'[n] = "free"}
  /\ UNCHANGED <<top, locals, main>>

-----------------------------------------------------------------------------
(* clear(threadID) ends push and pop; with its last store the call returns.*)
Return(t) ==
  /\ ClearSlot(t, "clear", "idle")
  /\ IF slot[t] + 1 = SlotsPerThread
     THEN /\ ptr' = [ptr EXCEPT ![t] = NULL]
          /\ node' = [node EXCEPT ![t] = NULL]
          /\ retData' = [retData EXCEPT ![t] = NULL]
          /\ ReturnItem(retData[t] = NULL)
     ELSE UNCHANGED <<ptr, node, retData, main>>
  /\ UNCHANGED <<heapVars, globalEraClock, retiredPtrList, retiredNodesCount,
                 eraFields, currEra, top, nxt, dangling>>

-----------------------------------------------------------------------------
Quit ==
  /\ QuitSignal
  /\ UNCHANGED <<heapVars, heVars, eraFields, heLocals, top, locals, dangling>>

ThreadExit(t) ==
  /\ LeaveLoop(t)
  /\ UNCHANGED <<heapVars, heVars, eraFields, heLocals, top, locals, dangling>>

Join ==
  /\ JoinThreads
  /\ UNCHANGED <<heapVars, heVars, eraFields, heLocals, top, locals, dangling>>

(* delete top.load(), then ~hazardEras deletes every retired node.         *)
Destroy ==
  /\ DeleteStructure
  /\ DeleteInEra({n \in Nodes : n = top \/ \E t \in Threads : n \in Retired(t)})
  /\ top' = NULL
  /\ retiredPtrList' = [t \in Threads |-> <<>>]
  /\ UNCHANGED <<globalEraClock, hazardErasList, retiredNodesCount, heLocals,
                 locals, dangling>>

Defined == \A t \in Threads : pc[t] # "undefined"

Finished == (Destroyed \/ ~Defined) /\ UNCHANGED vars

PushStep(t) == PushProtect(t) \/ PushCheck(t) \/ PushCas(t)

PopStep(t) ==
  \/ PopProtect(t) \/ PopCheck(t) \/ PopNext(t) \/ PopCas(t) \/ PopItem(t)
  \/ PopRetire(t) \/ PopSweep(t)

ThreadStep(t) ==
  \/ PushCall(t) \/ PopCall(t) \/ PushStep(t) \/ PopStep(t) \/ Return(t)
  \/ ThreadExit(t)

MainStep == Quit \/ Join \/ Destroy

Next ==
  \/ Defined /\ ((\E t \in Threads : ThreadStep(t)) \/ MainStep)
  \/ Finished

Spec == Init /\ [][Next]_vars

-----------------------------------------------------------------------------
(* The type of every variable.                                             *)
TypeOK ==
  /\ HeapTypeOK
  /\ HETypeOK
  /\ pc \in [Threads -> Labels]
  /\ top \in NodeOrNull
  /\ node \in [Threads -> NodeOrNull]
  /\ nxt \in [Threads -> NodeOrNull]
  /\ retData \in [Threads -> Items \cup {NULL}]
  /\ dangling \subseteq Threads
  /\ main \in MainStates

(* No thread ever accesses a node that has been deleted.                   *)
MemorySafe ==
  \A t \in Threads :
    pc[t] \in {"pop.next", "pop.item"} => ptr[t] \in Allocated

(* What get_protected promises: the era a thread has published lies within *)
(* the life of the node it relies on, so that a scan of all the slots      *)
(* would keep the node.                                                    *)
EraCovers ==
  \A t \in Threads \ dangling : \A n \in Guards(t) :
    /\ newEra[n] <= hazardErasList[t][0]
    /\ (\E u \in Threads : n \in Retired(u)) => hazardErasList[t][0] <= delEra[n]

Holds(t, n) ==
  \/ pc[t] \in PushLabels /\ node[t] = n
  \/ pc[t] \in {"pop.item", "retire.era"} /\ ptr[t] = n

(* Until the destructor has run, or a deleted node has been used, every    *)
(* allocated node is in exactly one place: the stack, one entry of a       *)
(* retired list, or the hands of one push or pop; and the count of retired *)
(* nodes is right.                                                         *)
OneOwner ==
  LET list == ChainSet(top)
  IN  Defined /\ ~Destroyed =>
        /\ \A n \in Nodes :
             InOnePlace(n, list, EntriesOf(retiredPtrList, n),
                        {t \in Threads : Holds(t, n)})
        /\ \A t \in Threads : retiredNodesCount[t] = Len(retiredPtrList[t])

-----------------------------------------------------------------------------
(* The inductive invariant behind TypeOK, EraCovers and OneOwner.          *)
Live(n) == n \in Nodes /\ status[n] \in {"linked", "retired"}

(* The linked nodes form a list that starts at top: a link leads to a      *)
(* linked node, none leads to top, and no two lead to the same node.       *)
StackShape ==
  /\ top # NULL => status[top] = "linked"
  /\ \A m \in Nodes : status[m] = "linked" /\ next[m] # NULL =>
       /\ status[next[m]] = "linked"
       /\ next[m] # top
       /\ \A n \in Nodes : status[n] = "linked" /\ next[n] = next[m] => n = m

(* A push owns its node alone until it has linked it.                      *)
OwnsNode(t) ==
  pc[t] \in PushLabels =>
    /\ node[t] \in Nodes /\ status[node[t]] = "private"
    /\ pc[t] = "push.cas" => next[node[t]] = ptr[t]
    /\ \A u \in Threads : pc[u] \in PushLabels /\ node[u] = node[t] => u = t

(* A popped node is in no list until its popper retires it.                *)
Popped(t) == pc[t] \in {"pop.item", "retire.era"}

PoppedByOne(t) ==
  Popped(t) =>
    /\ ptr[t] \in Nodes /\ status[ptr[t]] = "retired" /\ ~Listed(ptr[t])
    /\ \A u \in Threads : Popped(u) /\ ptr[u] = ptr[t] => u = t

(* A node that was at the top is not freed before the clock has moved, so  *)
(* that a clock that shows the published era vouches for it.               *)
LoadedLives(t) ==
  pc[t] = "pop.clock" /\ ptr[t] # NULL /\ globalEraClock = hazardErasList[t][0]
    => Live(ptr[t]) /\ EraFits(t, 0, ptr[t])

(* From there on the node is within its life, until it is freed.           *)
GuardedLives(t) ==
  pc[t] \in GuardLabels =>
    /\ ptr[t] \in Nodes
    /\ t \notin dangling =>
         /\ Live(ptr[t]) /\ Covers(t, 0, ptr[t])
         /\ pc[t] = "pop.cas" => nxt[t] = next[ptr[t]]

ThreadInv(t) ==
  OwnsNode(t) /\ PoppedByOne(t) /\ LoadedLives(t) /\ GuardedLives(t)

(* The main thread destroys the stack when it is the only one left.        *)
MainAlone ==
  /\ main \in {"draining", "deleting", "destroyed"} =>
       \A t \in Threads : IF t = 0 THEN pc[t] \notin PushLabels
                                   ELSE pc[t] = "exited"
  /\ main \in {"deleting", "destroyed"} => pc[0] = "idle"

IInv ==
  /\ TypeOK /\ EraCovers
  /\ Defined =>
       /\ Scheme({"retire.check"}) /\ StackShape /\ MainAlone
       /\ \A t \in Threads : ThreadInv(t)

(* And behind OneOwner: every linked node is in the stack, every other     *)
(* allocated one in somebody's hands or in a list.                         *)
Placed ==
  Defined =>
    /\ ~Destroyed => Reaches(top, next, Linked)
    /\ \A n \in Nodes :
         /\ status[n] = "private" => \E t \in Threads : Holds(t, n)
         /\ status[n] = "retired" => Listed(n) \/ \E t \in Threads : Holds(t, n)

=============================================================================
