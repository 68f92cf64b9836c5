------------------------------- MODULE ListHP -------------------------------
(***************************************************************************)
(* hazardpointer/LinkedListHazardPointer.hpp: the ordered list protected   *)
(* by hazard pointers, under the client of module Benchmark.  Slot 1 holds *)
(* curr of find, slot 0 next, slot 2 the node of pred.                     *)
(*                                                                         *)
(* pc labels name the next shared access of a thread: find.* and help.*    *)
(* in find, add.* and remove.* in the operations, clear and remove.clear   *)
(* in clear, scan and help.scan in retireNode.                             *)
(***************************************************************************)
EXTENDS HazardPointers, LoopedList

CONSTANT
  ThreadCounts   \* what numofThreads may hold while it is not initialised

vars == <<heapVars, hpVars, hpLocals, pc, loopedVars, main>>

FindLabels == {"find.head", "find.curr", "find.next", "find.slot0", "find.again",
               "find.pred", "find.help", "find.slot2"}
HelpLabels == {"help.scan", "help.curr", "find.misread"}
AddLabels == {"add.discard", "add.cas"}
RemoveLabels == {"remove.mark", "remove.cas", "remove.clear", "scan"}
Labels == FindLabels \cup HelpLabels \cup AddLabels \cup RemoveLabels
            \cup {"clear", "return", "idle", "exited", "undefined"}

(* hpList is constructed before the constructor assigns numofThreads.  A   *)
(* negative number is like 0, and the rows above NumThreads stay empty.    *)
Init ==
  /\ LoopedInit
  /\ HPInit
  /\ threadCount \in ThreadCounts

-----------------------------------------------------------------------------
Call(t) ==
  /\ CallAdd(t, "find.head") \/ CallOther(t, "find.head")
  /\ UNCHANGED <<hpVars, hpLocals>>

(* find(item, ...), from try_again on.                                     *)
FindHead(t) ==
  /\ Goto(t, "find.head", "find.curr")
  /\ LoadsHead(t)
  /\ UNCHANGED <<hpVars, hpLocals>>

(* storeHazardPtr(index, n, threadID) of a value the thread has loaded.    *)
StoreLocal(t, from, to, index, n) ==
  /\ Goto(t, from, to)
  /\ hazardPointerList' = [hazardPointerList EXCEPT ![t][index] = n]
  /\ UNCHANGED <<threadCount, retiredPointerList, retiredCount, hpLocals>>

FindCurr(t) ==
  /\ StoreLocal(t, "find.curr", "find.next", 1, curr[t])
  /\ UNCHANGED <<heapVars, loopedVars, main>>

FindNext(t) ==
  /\ Goto(t, "find.next", "find.slot0")
  /\ LoadsNext(t, Link(curr[t]))
  /\ UNCHANGED <<hpVars, hpLocals>>

FindMisread(t) ==
  /\ Goto(t, "find.misread", "find.slot0")
  /\ LoadsNext(t, Misread)
  /\ UNCHANGED <<hpVars, hpLocals>>

FindSlot0(t) ==
  /\ StoreLocal(t, "find.slot0", "find.again", 0, getUnmarked(nxt[t]))
  /\ UNCHANGED <<heapVars, loopedVars, main>>

(* contains returns as find does, the others clear their slots.            *)
Done(t) == IF op[t] = "contains" THEN "return" ELSE "clear"

FindCompare(t) ==
  /\ \/ Validates(t, "find.head") \/ Compares(t, "find.head", "find.slot2")
     \/ AtTail(t) /\ Ends(t, FALSE, AfterFind(t, FALSE, Done(t)))
     \/ /\ AtKey(t)
        /\ Ends(t, FoundAtCurr(t), AfterFind(t, FoundAtCurr(t), Done(t)))
  /\ UNCHANGED <<hpVars, hpLocals>>

\* fault: the node of pred is left to the slots of curr and next
FindSlot2Never(t) ==
  /\ Goto(t, "find.slot2", "find.curr")
  /\ UNCHANGED <<heapVars, hpVars, hpLocals, loopedVars, main>>

FindSlot2(t) ==
  /\ StoreLocal(t, "find.slot2", "find.curr", 2, pred[t])
  /\ UNCHANGED <<heapVars, loopedVars, main>>

(* find unlinks the marked curr and retires it, with its own slot 1 still  *)
(* holding it; it goes on from next with the mark bit set.                 *)
FindHelp(t) ==
  /\ pc[t] = "find.help"
  /\ IF PredIsCurr(t)
     THEN /\ Goto(t, "find.help", AfterRetirePush(t, "help.scan", "help.curr"))
          /\ Unlinks(t)
          /\ RetirePush(t, curr[t])
     ELSE /\ TryAgain(t, "find.help", "find.head")
          /\ UNCHANGED <<retiredPointerList, retiredCount, scan>>
  /\ UNCHANGED <<threadCount, hazardPointerList, ptr, last, slot>>

(* retireNode, with what its deletions mean to the other threads.          *)
Retires(t) ==
  /\ \/ RetireScan(t, "help.scan", "help.curr")
     \/ RetireScan(t, "scan", "return")
  /\ AfterDeletion
  /\ UNCHANGED <<head, tail, findLocals, callVars, calls, main>>

HelpCurr(t) ==
  /\ StoreLocal(t, "help.curr", "find.misread", 1, getUnmarked(nxt[t]))
  /\ MovesTo(t, pred[t])

-----------------------------------------------------------------------------
AddDiscard(t) ==
  /\ Discards(t, "clear")
  /\ UNCHANGED <<hpVars, hpLocals>>

AddCas(t) ==
  /\ Adds(t, "find.head", "clear")
  /\ UNCHANGED <<hpVars, hpLocals>>

RemoveMark(t) ==
  /\ Marks(t, "find.head")
  /\ UNCHANGED <<hpVars, hpLocals>>

RemoveCas(t) ==
  /\ Removes(t, "remove.clear", "clear")
  /\ UNCHANGED <<hpVars, hpLocals>>

(* clear(threadID), then retireNode begins.                                *)
RemoveClear(t) ==
  /\ ClearSlot(t, "remove.clear", AfterRetirePush(t, "scan", "return"))
  /\ IF slot[t] + 1 = SlotsPerThread
     THEN RetirePush(t, curr[t])
     ELSE UNCHANGED <<retiredPointerList, retiredCount, scan>>
  /\ UNCHANGED <<heapVars, threadCount, ptr, last, loopedVars, main>>

(* clear(threadID), with the last store of which the operation returns.    *)
Clear(t) ==
  /\ ClearSlot(t, "clear", "idle")
  /\ IF slot[t] + 1 = SlotsPerThread THEN Returns(t)
     ELSE UNCHANGED <<heapVars, loopedVars, main>>
  /\ UNCHANGED <<threadCount, retiredPointerList, retiredCount, ptr, last, scan>>

Return(t) ==
  /\ Goto(t, "return", "idle")
  /\ Returns(t)
  /\ UNCHANGED <<hpVars, hpLocals>>

-----------------------------------------------------------------------------
(* The list has no destructor; ~hazardPointers deletes the retired nodes.  *)
Destroy ==
  /\ DeleteStructure
  /\ Delete(UNION {Retired(t) : t \in Threads})
  /\ AfterDeletion
  /\ retiredPointerList' = [t \in Threads |-> <<>>]
  /\ UNCHANGED <<threadCount, hazardPointerList, retiredCount, hpLocals, head,
                 tail, findLocals, callVars, calls>>

MainStep ==
  \/ (Starts \/ Quits \/ Joins) /\ UNCHANGED <<hpVars, hpLocals>>
  \/ Destroy

FindStep(t) ==
  \/ FindHead(t) \/ FindCurr(t) \/ FindNext(t) \/ FindMisread(t)
  \/ FindSlot0(t) \/ FindCompare(t) \/ FindSlot2(t) \/ FindHelp(t)
  \/ HelpCurr(t)

CallStep(t) ==
  \/ Call(t) \/ AddDiscard(t) \/ AddCas(t) \/ RemoveMark(t) \/ RemoveCas(t)
  \/ RemoveClear(t) \/ Retires(t) \/ Clear(t) \/ Return(t)

ThreadStep(t) ==
  \/ ~Strays(t) /\ (FindStep(t) \/ CallStep(t))
  \/ Strays(t) /\ Stray(t)
       /\ UNCHANGED <<heapVars, hpVars, hpLocals, loopedVars, main>>
  \/ Exits(t) /\ UNCHANGED <<hpVars, hpLocals>>

Finished == (Destroyed \/ ~Defined) /\ UNCHANGED vars

Next ==
  \/ Defined /\ ((\E t \in Threads : ThreadStep(t)) \/ MainStep)
  \/ Finished

Spec == Init /\ [][Next]_vars

-----------------------------------------------------------------------------
(* The type of every variable.                                             *)
TypeOK ==
  /\ LoopedTypeOK
  /\ pc \in [Threads -> Labels]
  /\ main \in MainStates
  /\ threadCount \in ThreadCounts
  /\ hazardPointerList \in [Threads -> [Slots -> NodeOrNull]]
  /\ retiredPointerList \in [Threads -> Seq(Nodes)]
  /\ retiredCount \in [Threads -> Nat]
  /\ slot \in [Threads -> Slots]

(* No thread ever accesses a node that has been deleted.                   *)
MemorySafe ==
  \A t \in Threads : \A role \in Uses(t) \cap dangling[t] :
    Named(t, role) \in Allocated

(* What the protocol of slots achieves: the nodes of a thread whose row is *)
(* scanned are not deleted once find has seen *pred = curr behind the      *)
(* stores of the slots, through all hand-overs from slot to slot.          *)
Protected(t) ==
  CASE pc[t] \in {"find.help", "help.scan", "help.curr", "find.slot2",
                  "remove.mark", "remove.cas"}            -> Roles
    [] pc[t] \in {"find.curr", "find.next", "find.slot0", "find.again",
                  "find.pred", "find.misread"} /\ pred[t] # NULL
                                                          -> {"pred", "curr"}
    [] OTHER                                              -> {}

ProtectedSafe ==
  \A t \in Threads :
    t < threadCount => Protected(t) \cap dangling[t] = {}

(* An add that has not linked its node, or a remove that has unlinked its  *)
(* one and not yet retired it.                                             *)
Holds(t, n) == node[t] = n \/ (pc[t] = "remove.clear" /\ curr[t] = n)

(* Until a deleted node has been used, every allocated node is in exactly  *)
(* one place: the list, one entry of a retired list, or the hands of one   *)
(* add or remove; a node that a remove has marked but could not unlink     *)
(* stays in the list until exactly one find takes it out.                  *)
OneOwner ==
  Defined =>
    /\ ChainSet(head) = Linked
    /\ \A n \in Nodes :
         InOnePlace(n, Linked, EntriesOf(retiredPointerList, n),
                    {t \in Threads : Holds(t, n)})
    /\ \A t \in Threads : ~Destroyed =>
         retiredCount[t] = Len(retiredPointerList[t])

-----------------------------------------------------------------------------
(* The inductive invariant behind ProtectedSafe and ReclaimsSafely.        *)
EnoughSlots == SlotsPerThread >= 3

Scanning == {"help.scan", "scan"}

(* What find has put in its slots; when it moves on it has no next.        *)
Published(t) ==
  /\ pc[t] \in {"find.next", "find.misread", "find.slot0", "find.again",
                "find.pred"} => hazardPointerList[t][1] = curr[t]
  /\ pc[t] \in {"find.again", "find.pred"} =>
       hazardPointerList[t][0] = getUnmarked(nxt[t])
  /\ pc[t] = "find.slot2" => getUnmarked(nxt[t]) = NULL

(* The node behind a curr that is still in the list is still in the list.  *)
NextFound(t) ==
  pc[t] = "find.pred" /\ "curr" \notin dangling[t] /\ status[curr[t]] = "linked"

(* Node n has been found in the list behind the store in slot s of t.      *)
Found(t, s, n) ==
  \/ /\ s = 2 /\ n = pred[t] /\ pc[t] # "find.slot2" /\ "pred" \in Protected(t)
  \/ /\ s = 1 /\ n = pred[t] /\ pc[t] = "find.slot2"
  \/ /\ s = 0 /\ n = curr[t] /\ "curr" \in Protected(t)
     /\ pc[t] \in {"find.slot2", "find.curr"}
  \/ /\ s = 1 /\ n = curr[t] /\ "curr" \in Protected(t)
     /\ pc[t] \notin {"find.slot2", "find.curr"}
  \/ /\ s = 0 /\ n = getUnmarked(nxt[t])
     /\ ("nxt" \in Protected(t) /\ pc[t] # "find.slot2") \/ NextFound(t)

FoundShielded(t) ==
  t < threadCount =>
    /\ Protected(t) \cap dangling[t] = {}
    /\ NextFound(t) => "nxt" \notin dangling[t]
    /\ \A s \in Slots, n \in Nodes : Found(t, s, n) => Shields(t, s, n, Scanning)

(* A node that remove has unlinked is in no list until it is retired.      *)
RemovedByOne(t) ==
  pc[t] = "remove.clear" =>
    /\ curr[t] \in Nodes /\ status[curr[t]] = "retired" /\ InNoList(curr[t])
    /\ \A u \in Threads : pc[u] = "remove.clear" /\ curr[u] = curr[t] => u = t

ThreadInv(t) ==
  Published(t) /\ FoundShielded(t) /\ RemovedByOne(t)

(* The list is deleted when no thread is left.                             *)
MainAlone ==
  main \in {"deleting", "destroyed"} => \A t \in Threads : pc[t] = "exited"

IInv ==
  /\ TypeOK /\ MainAlone /\ Scheme(Scanning) /\ ListInv
  /\ \A t \in Threads : ThreadInv(t)

(* And behind OneOwner: a node that is out of the list has an entry in a   *)
(* retired list, or is about to get one from the remove that took it out.  *)
Placed ==
  /\ ListPlaced
  /\ \A n \in Nodes : status[n] = "retired" =>
       ~InNoList(n) \/ \E t \in Threads : pc[t] = "remove.clear" /\ curr[t] = n

=============================================================================
