------------------------------ MODULE StackHP ------------------------------
(***************************************************************************)
(* hazardpointer/StackHazardPointer.hpp: a Treiber stack protected by      *)
(* hazard pointers, called by the threads of hazardpointer/Benchmark.cpp   *)
(* until they are told to quit, and then destroyed by the main thread,     *)
(* which drains it as thread 0.                                            *)
(*                                                                         *)
(* pc labels name the next shared access of a thread: push.* in push,      *)
(* pop.* in pop, clear.* in clear and scan in retireNode.                  *)
(***************************************************************************)
EXTENDS HazardPointers

VARIABLES
  top,       \* the stack's head
  node,      \* push: the new node
  nxt,       \* pop: next
  retData    \* pop: ret_data

locals == <<node, nxt, retData>>
vars == <<heapVars, hpVars, hpLocals, pc, top, locals, main>>

PushLabels == {"push.load", "push.publish", "push.check", "push.cas"}
GuardLabels == {"pop.check", "pop.next", "pop.cas", "pop.item"}
PopLabels == {"pop.protect", "pop.publish", "scan"} \cup GuardLabels
Labels == PushLabels \cup PopLabels \cup {"idle", "clear", "exited"}

Init ==
  /\ \E s \in Nodes : HeapWithSentinel(s) /\ top = s
  /\ HPInit
  /\ threadCount = NumThreads
  /\ BenchmarkInit
  /\ node = [t \in Threads |-> NULL]
  /\ nxt = [t \in Threads |-> NULL]
  /\ retData = [t \in Threads |-> NULL]

-----------------------------------------------------------------------------
(* push(item, tid); a null item is refused before anything is changed.     *)
PushCall(t) ==
  /\ Calling
  /\ Goto(t, "idle", "push.load")
  /\ \E n \in Nodes, i \in Items :
       New(n, i) /\ node' = [node EXCEPT ![t] = n]
  /\ UNCHANGED <<hpVars, hpLocals, top, nxt, retData, main>>

PushLoad(t) ==
  /\ ArgumentLoad(t, "push.load", "push.publish", top)
  /\ UNCHANGED <<top, locals, main>>

PushPublish(t) ==
  /\ StoreHazardPtr(t, "push.publish", "push.check", 0)
  /\ UNCHANGED <<top, locals, main>>

\* fault: the link is written only once, not on every retry
PushCheckOnce(t) ==
  /\ Goto(t, "push.check", IF top = ptr[t] THEN "push.cas" ELSE "push.load")
  /\ next' = IF top = ptr[t] /\ next[node[t]] = NULL
             THEN [next EXCEPT ![node[t]] = ptr[t]] ELSE next
  /\ UNCHANGED <<status, item, hpVars, hpLocals, top, locals, main>>

PushCheck(t) ==
  /\ Goto(t, "push.check", IF top = ptr[t] THEN "push.cas" ELSE "push.load")
  /\ next' = IF top = ptr[t] THEN [next EXCEPT ![node[t]] = ptr[t]] ELSE next
  /\ UNCHANGED <<status, item, hpVars, hpLocals, top, locals, main>>

PushCas(t) ==
  /\ Goto(t, "push.cas", IF top = ptr[t] THEN "clear" ELSE "push.load")
  /\ IF top = ptr[t]
     THEN /\ top' = node[t]
          /\ status' = [status EXCEPT ![node[t]] = "linked"]
     ELSE UNCHANGED <<top, status>>
  /\ UNCHANGED <<next, item, hpVars, hpLocals, locals, main>>

-----------------------------------------------------------------------------
(* pop(tid).  The main thread calls it while it drains the stack.          *)
PopCall(t) ==
  /\ Calling \/ DrainingAs(t)
  /\ Goto(t, "idle", "pop.protect")
  /\ UNCHANGED <<heapVars, hpVars, hpLocals, top, locals, main>>

PopProtect(t) ==
  /\ ProtectLoad(t, "pop.protect", "pop.publish",
                 IF top = NULL THEN "clear" ELSE "pop.check", top)
  /\ UNCHANGED <<top, locals, main>>

PopPublish(t) ==
  /\ ProtectStore(t, "pop.publish", "pop.protect", 0)
  /\ UNCHANGED <<top, locals, main>>

PopCheck(t) ==
  /\ Goto(t, "pop.check", IF top = ptr[t] THEN "pop.next" ELSE "pop.protect")
  /\ UNCHANGED <<heapVars, hpVars, hpLocals, top, locals, main>>

PopNext(t) ==
  /\ Goto(t, "pop.next", "pop.cas")
  /\ nxt' = [nxt EXCEPT ![t] = next[ptr[t]]]
  /\ UNCHANGED <<heapVars, hpVars, hpLocals, top, node, retData, main>>

PopCas(t) ==
  /\ Goto(t, "pop.cas", IF top = ptr[t] THEN "pop.item" ELSE "pop.protect")
  /\ IF top = ptr[t]
     THEN /\ top' = nxt[t]
          /\ status' = [status EXCEPT ![ptr[t]] = "retired"]
     ELSE UNCHANGED <<top, status>>
  /\ nxt' = [nxt EXCEPT ![t] = NULL]
  /\ UNCHANGED <<next, item, hpVars, hpLocals, node, retData, main>>

(* Node's constructor assigns its parameter to itself, so the item read    *)
(* here is whatever the memory held; then retireNode begins.               *)
PopItem(t) ==
  /\ Goto(t, "pop.item", AfterRetirePush(t, "scan", "clear"))
  /\ \E v \in RawItems : retData' = [retData EXCEPT ![t] = v]
  /\ RetirePush(t, ptr[t])
  /\ UNCHANGED <<heapVars, threadCount, hazardPointerList, ptr, last, slot,
                 top, node, nxt, main>>

PopRetire(t) ==
  /\ RetireScan(t, "scan", "clear")
  /\ UNCHANGED <<top, locals, main>>

-----------------------------------------------------------------------------
(* clear(tid) ends push and pop; with its last store the call returns, and *)
(* the destructor's loop ends when pop returned nullptr.                   *)
Return(t) ==
  /\ ClearSlot(t, "clear", "idle")
  /\ IF slot[t] + 1 = SlotsPerThread
     THEN /\ ptr' = [ptr EXCEPT ![t] = NULL]
          /\ node' = [node EXCEPT ![t] = NULL]
          /\ retData' = [retData EXCEPT ![t] = NULL]
          /\ ReturnItem(retData[t] = NULL)
     ELSE UNCHANGED <<ptr, node, retData, main>>
  /\ UNCHANGED <<heapVars, threadCount, retiredPointerList, retiredCount,
                 last, scan, top, nxt>>

-----------------------------------------------------------------------------
Quit ==
  /\ QuitSignal
  /\ UNCHANGED <<heapVars, hpVars, hpLocals, top, locals>>

ThreadExit(t) ==
  /\ LeaveLoop(t)
  /\ UNCHANGED <<heapVars, hpVars, hpLocals, top, locals>>

Join ==
  /\ JoinThreads
  /\ UNCHANGED <<heapVars, hpVars, hpLocals, top, locals>>

\* fault: the retired lists are not freed
DestroyStackOnly ==
  /\ DeleteStructure
  /\ Delete({top} \cap Nodes)
  /\ top' = NULL
  /\ retiredPointerList' = [t \in Threads |-> <<>>]
  /\ UNCHANGED <<threadCount, hazardPointerList, retiredCount, hpLocals,
                 locals>>

(* delete top.load(), then ~hazardPointers deletes every retired node.     *)
Destroy ==
  /\ DeleteStructure
  /\ Delete({n \in Nodes : n = top \/ \E t \in Threads : n \in Retired(t)})
  /\ top' = NULL
  /\ retiredPointerList' = [t \in Threads |-> <<>>]
  /\ UNCHANGED <<threadCount, hazardPointerList, retiredCount, hpLocals,
                 locals>>

Finished == Destroyed /\ UNCHANGED vars

PushStep(t) == PushLoad(t) \/ PushPublish(t) \/ PushCheck(t) \/ PushCas(t)

PopStep(t) ==
  \/ PopProtect(t) \/ PopPublish(t) \/ PopCheck(t) \/ PopNext(t)
  \/ PopCas(t) \/ PopItem(t) \/ PopRetire(t)

ThreadStep(t) ==
  \/ PushCall(t) \/ PopCall(t) \/ PushStep(t) \/ PopStep(t) \/ Return(t)
  \/ ThreadExit(t)

MainStep == Quit \/ Join \/ Destroy

Next == (\E t \in Threads : ThreadStep(t)) \/ MainStep \/ Finished

Spec == Init /\ [][Next]_vars

-----------------------------------------------------------------------------
(* The type of every variable, and which threads hold a new node.          *)
TypeOK ==
  /\ HeapTypeOK
  /\ HPTypeOK
  /\ pc \in [Threads -> Labels]
  /\ top \in NodeOrNull
  /\ node \in [Threads -> NodeOrNull]
  /\ nxt \in [Threads -> NodeOrNull]
  /\ retData \in [Threads -> Items \cup {NULL}]
  /\ main \in MainStates

(* The node whose memory the next step of t reads or writes.               *)
Accesses(t) ==
  CASE pc[t] = "push.check"                -> {node[t]}
    [] pc[t] \in {"pop.next", "pop.item"} -> {ptr[t]}
    [] OTHER                               -> {}

(* No thread ever accesses a node that has been deleted: a node read in    *)
(* pop (temp->next, temp->item) or written in push is still allocated.     *)
MemorySafe == \A t \in Threads : Accesses(t) \subseteq Allocated

(* A push that has not linked its node, or a pop that has unlinked but not *)
(* yet retired its one.                                                    *)
Holds(t, n) ==
  \/ pc[t] \in PushLabels /\ node[t] = n
  \/ pc[t] = "pop.item" /\ ptr[t] = n

(* Until the destructor has run, every allocated node is in exactly one    *)
(* place, the stack, one entry of a retired list or the hands of one push  *)
(* or pop, so that none is freed twice and none is lost.  The stack has no *)
(* cycle, and retiredCount counts the retired list.                        *)
OneOwner ==
  LET list == ChainSet(top)
  IN  ~Destroyed =>
        /\ \A n \in Nodes :
             InOnePlace(n, list, EntriesOf(retiredPointerList, n),
                        {t \in Threads : Holds(t, n)})
        /\ Straight(list, top)
        /\ \A t \in Threads : retiredCount[t] = Len(retiredPointerList[t])

(* Once the destructor has run, every node ever allocated has been freed.  *)
(* It relies on pop not returning nullptr early: true when RawItems does   *)
(* not contain NULL.                                                       *)
NothingLeaked == Destroyed => Allocated = {}

-----------------------------------------------------------------------------
Guards(t) == IF pc[t] \in GuardLabels THEN {ptr[t]} ELSE {}

(* The stack with hazard pointers is a safe memory reclamation scheme: a   *)
(* node that pop has validated is not reclaimed until pop is done with it. *)
SMR == INSTANCE SafeReclamation WITH guards <- [t \in Threads |-> Guards(t)]
ReclaimsSafely == SMR!Spec

Call(t) ==
  CASE pc[t] \in PushLabels                              -> "push"
    [] pc[t] \in PopLabels \ {"pop.item", "scan"}         -> "pop"
    [] pc[t] \in {"pop.item", "scan", "clear"}            -> "done"
    [] OTHER                                              -> "none"

Arg(t) ==
  CASE pc[t] \in PushLabels                               -> node[t]
    [] pc[t] \in {"pop.item", "scan", "clear"}
       /\ node[t] = NULL                                 -> ptr[t]
    [] OTHER                                              -> NULL

(* push and pop are linearizable: they behave like operations on a LIFO    *)
(* stack that take effect at their successful compare_exchange_strong (an  *)
(* empty pop at the load of protect), under reuse of freed addresses.      *)
Lifo == INSTANCE LifoStack WITH
          Tokens <- Nodes,
          stk    <- Chain(top),
          call   <- [t \in Threads |-> Call(t)],
          arg    <- [t \in Threads |-> Arg(t)]
Linearizable == Lifo!Spec

Completes == \E t \in Threads : pc[t] = "clear" /\ pc'[t] = "idle"

-----------------------------------------------------------------------------
(* The inductive invariant behind MemorySafe and ReclaimsSafely.           *)
GuardedByHP(t) == pc[t] \in {"pop.check", "pop.next", "pop.cas"}

(* The linked nodes form a list that starts at top: a link leads to a      *)
(* linked node, none leads to top, and no two lead to the same node.       *)
StackShape ==
  /\ top # NULL => status[top] = "linked"
  /\ \A m \in Nodes : status[m] = "linked" /\ next[m] # NULL =>
       /\ status[next[m]] = "linked"
       /\ next[m] # top
       /\ \A n \in Nodes : status[n] = "linked" /\ next[n] = next[m] => n = m

(* A push owns its node alone until it has linked it.                      *)
PushOwnsNode ==
  \A t \in Threads : pc[t] \in PushLabels =>
    /\ node[t] \in Nodes /\ status[node[t]] = "private"
    /\ pc[t] = "push.cas" => next[node[t]] = ptr[t]
    /\ \A u \in Threads : pc[u] \in PushLabels /\ node[u] = node[t] => u = t

(* protect has published what it will return.                              *)
ProtectPublished ==
  \A t \in Threads :
    /\ pc[t] \notin {"pop.protect", "pop.publish"} => last[t] = NULL
    /\ pc[t] = "pop.protect" /\ last[t] # NULL =>
         hazardPointerList[t][0] = last[t]

(* Between protect and the exchange the node is published and allocated.   *)
GuardPublished ==
  \A t \in Threads : GuardedByHP(t) =>
    /\ ptr[t] \in Nodes /\ status[ptr[t]] \in {"linked", "retired"}
    /\ hazardPointerList[t][0] = ptr[t]
    /\ pc[t] = "pop.cas" => nxt[t] = next[ptr[t]]

(* A popped node is in no list until its popper retires it.                *)
PoppedByOne ==
  \A t \in Threads : pc[t] = "pop.item" =>
    /\ ptr[t] \in Nodes /\ status[ptr[t]] = "retired"
    /\ \A u \in Threads :
         /\ pc[u] = "pop.item" /\ ptr[u] = ptr[t] => u = t
         /\ \A i \in 1..Len(retiredPointerList[u]) :
              retiredPointerList[u][i] # ptr[t]

Passed(s, t) == s.k > t \/ (s.k = t /\ s.j > 0)

(* A scan that still intends to delete its candidate has seen that no      *)
(* thread whose slot it has passed guards it.                              *)
ScanSound ==
  \A u \in Threads : pc[u] = "scan" =>
    /\ scan[u].i \in 1..Len(retiredPointerList[u])
    /\ scan[u].k \in 0..NumThreads
    /\ scan[u].deleteNode =>
         \A t \in Threads : GuardedByHP(t) /\ Passed(scan[u], t) =>
           ptr[t] # Candidate(u)

(* The main thread destroys the stack when it is the only one left.        *)
MainAlone ==
  /\ main \in {"draining", "deleting", "destroyed"} =>
       \A t \in Threads : IF t = 0 THEN pc[t] \notin PushLabels
                                   ELSE pc[t] = "exited"
  /\ main \in {"deleting", "destroyed"} => pc[0] = "idle"

IInv ==
  /\ TypeOK /\ StackShape /\ PushOwnsNode /\ ProtectPublished /\ GuardPublished
  /\ RetiredOnce /\ PoppedByOne /\ ScanSound /\ CountsRetired /\ MainAlone

-----------------------------------------------------------------------------
(* The inductive invariant behind OneOwner: every linked node is in the    *)
(* stack, every other allocated one in somebody's hands or in a list.      *)
Placed ==
  /\ ~Destroyed => Reaches(top, next, Linked)
  /\ \A n \in Nodes :
       /\ status[n] = "private" => \E t \in Threads : Holds(t, n)
       /\ status[n] = "retired" =>
            ~InNoList(n) \/ \E t \in Threads : Holds(t, n)

(* And behind NothingLeaked: pop returns nullptr only when the stack is    *)
(* empty, as long as it does not read one in a node.                       *)
Drained ==
  NULL \notin RawItems =>
    /\ main = "draining" /\ retData[0] = NULL =>
         pc[0] # "scan" /\ (pc[0] = "clear" => top = NULL)
    /\ main \in {"deleting", "destroyed"} => top = NULL
    /\ Destroyed => Allocated = {}

=============================================================================
