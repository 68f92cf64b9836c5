------------------------------- MODULE ListHE -------------------------------
(***************************************************************************)
(* hazarderas/LinkedListHazardEras.hpp: the ordered list protected by      *)
(* hazard eras, under the client of module Benchmark.  Slot 1 is for curr  *)
(* of find, slot 0 for next, slot 2 for the node of pred.                  *)
(*                                                                         *)
(* pc labels name the next shared access of a thread: find.*, next.* and   *)
(* misread.* in find and the get_protected it calls, help.* where it helps *)
(* a marked node out, add.* and remove.* in the operations, clear and      *)
(* remove.clear in clear, help.* and retire.* in retireNode.               *)
(***************************************************************************)
EXTENDS HazardEras, LoopedList

vars == <<heapVars, heVars, eraFields, heLocals, pc, loopedVars, main>>
ofScheme == <<heVars, eraFields, heLocals>>

FindLabels == {"find.head", "find.clock", "find.publish", "find.next",
               "next.clock", "next.publish", "find.again", "find.pred",
               "find.slot2", "find.slot1"}
HelpLabels == {"find.help", "help.era", "help.check", "help.add", "help.slot1",
               "find.misread", "misread.clock", "misread.publish"}
CallLabels == {"add.discard", "add.cas", "remove.mark", "remove.cas",
               "remove.clear", "retire.era", "retire.check", "retire.add"}
Labels == FindLabels \cup HelpLabels \cup CallLabels
            \cup {"clear", "return", "idle", "exited", "undefined"}

Init == LoopedInit /\ HEInit

-----------------------------------------------------------------------------
Call(t) ==
  /\ \/ CallAdd(t, "find.head") /\ BornNow(node'[t])
     \/ CallOther(t, "find.head") /\ UNCHANGED eraFields
  /\ UNCHANGED <<heVars, heLocals>>

(* find(item, ...), from try_again on: get_protected(1, head, threadID).   *)
FindHead(t) ==
  /\ Goto(t, "find.head", "find.clock")
  /\ LoadsHead(t)
  /\ UNCHANGED ofScheme

FindProtect(t) ==
  /\ \/ ProtectClock(t, "find.clock", "find.publish", "find.next", 1)
     \/ ProtectPublish(t, "find.publish", "find.head", 1)
  /\ UNCHANGED <<loopedVars, main>>

(* get_protected(0, curr->next, threadID), also of a curr with a mark bit. *)
FindNext(t) ==
  /\ \/ Goto(t, "find.next", "next.clock") /\ LoadsNext(t, Link(curr[t]))
     \/ Goto(t, "find.misread", "misread.clock") /\ LoadsNext(t, Misread)
  /\ UNCHANGED ofScheme

ProtectNext(t, clock, publish, load) ==
  \/ ProtectClock(t, clock, publish, "find.again", 0)
  \/ ProtectPublish(t, publish, load, 0)

FindProtectNext(t) ==
  /\ \/ ProtectNext(t, "next.clock", "next.publish", "find.next")
     \/ ProtectNext(t, "misread.clock", "misread.publish", "find.misread")
  /\ UNCHANGED <<loopedVars, main>>

(* contains returns as find does, the others clear their slots.            *)
Done(t) == IF op[t] = "contains" THEN "return" ELSE "clear"

FindCompare(t) ==
  /\ \/ Validates(t, "find.head") \/ Compares(t, "find.head", "find.slot2")
     \/ AtTail(t) /\ Ends(t, FALSE, AfterFind(t, FALSE, Done(t)))
     \/ /\ AtKey(t)
        /\ Ends(t, FoundAtCurr(t), AfterFind(t, FoundAtCurr(t), Done(t)))
  /\ UNCHANGED ofScheme

FindSlots(t) ==
  /\ \/ ProtectEraRelease(t, "find.slot2", "find.slot1", 2, 1)
     \/ ProtectEraRelease(t, "find.slot1", "find.next", 1, 0)
  /\ UNCHANGED <<heapVars, eraFields, loopedVars, main>>

(* find unlinks the marked curr and retires it, with its own slot 1 still  *)
(* protecting it; it goes on from next with the mark bit set.              *)
FindHelp(t) ==
  /\ pc[t] = "find.help"
  /\ IF PredIsCurr(t) THEN Goto(t, "find.help", "help.era") /\ Unlinks(t)
     ELSE TryAgain(t, "find.help", "find.head")
  /\ UNCHANGED ofScheme

Retires(t) ==
  /\ \/ RetirePush(t, curr[t], "help.era", "help.check")
     \/ RetirePush(t, curr[t], "retire.era", "retire.check")
  /\ UNCHANGED <<loopedVars, main>>

(* The rest of retireNode, with what its deletions mean to other threads.  *)
Sweeps(t) ==
  /\ \/ RetireCheck(t, "help.check", "help.add", "help.slot1")
     \/ RetireAdd(t, "help.add", "help.slot1")
     \/ RetireCheck(t, "retire.check", "retire.add", "return")
     \/ RetireAdd(t, "retire.add", "return")
  /\ AfterDeletion
  /\ UNCHANGED <<head, tail, findLocals, callVars, calls, main>>

HelpSlot1(t) ==
  /\ ProtectEraRelease(t, "help.slot1", "find.misread", 1, 0)
  /\ MovesTo(t, pred[t])
  /\ UNCHANGED eraFields

-----------------------------------------------------------------------------
AddDiscard(t) ==
  /\ Discards(t, "clear")
  /\ ForgetEras({node[t]})
  /\ UNCHANGED <<heVars, heLocals>>

AddCas(t) ==
  /\ Adds(t, "find.head", "clear")
  /\ UNCHANGED ofScheme

RemoveMark(t) ==
  /\ Marks(t, "find.head")
  /\ UNCHANGED ofScheme

RemoveCas(t) ==
  /\ Removes(t, "remove.clear", "clear")
  /\ UNCHANGED ofScheme

(* clear(threadID), after which remove retires its node, and with the last *)
(* store of which the other operations return.                             *)
Clear(t) ==
  /\ \/ /\ ClearSlot(t, "remove.clear", "retire.era")
        /\ UNCHANGED <<heapVars, loopedVars, main>>
     \/ /\ ClearSlot(t, "clear", "idle")
        /\ IF slot[t] + 1 = SlotsPerThread THEN Returns(t)
           ELSE UNCHANGED <<heapVars, loopedVars, main>>
  /\ UNCHANGED <<globalEraClock, retiredPtrList, retiredNodesCount, eraFields,
                 ptr, currEra>>

Return(t) ==
  /\ Goto(t, "return", "idle")
  /\ Returns(t)
  /\ UNCHANGED ofScheme

-----------------------------------------------------------------------------
(* The list has no destructor; ~hazardEras deletes the retired nodes.      *)
Destroy ==
  /\ DeleteStructure
  /\ DeleteInEra(UNION {Retired(t) : t \in Threads})
  /\ AfterDeletion
  /\ retiredPtrList' = [t \in Threads |-> <<>>]
  /\ UNCHANGED <<globalEraClock, hazardErasList, retiredNodesCount, heLocals,
                 head, tail, findLocals, callVars, calls>>

MainStep ==
  \/ (Starts \/ Quits \/ Joins) /\ UNCHANGED ofScheme
  \/ Destroy

FindStep(t) ==
  \/ FindHead(t) \/ FindProtect(t) \/ FindNext(t) \/ FindProtectNext(t)
  \/ FindCompare(t) \/ FindSlots(t) \/ FindHelp(t) \/ HelpSlot1(t)

CallStep(t) ==
  \/ Call(t) \/ AddDiscard(t) \/ AddCas(t) \/ RemoveMark(t) \/ RemoveCas(t)
  \/ Retires(t) \/ Sweeps(t) \/ Clear(t) \/ Return(t)

ThreadStep(t) ==
  \/ ~Strays(t) /\ (FindStep(t) \/ CallStep(t))
  \/ Strays(t) /\ Stray(t) /\ UNCHANGED <<heapVars, ofScheme, loopedVars, main>>
  \/ Exits(t) /\ UNCHANGED ofScheme

Finished == (Destroyed \/ ~Defined) /\ UNCHANGED vars

Next ==
  \/ Defined /\ ((\E t \in Threads : ThreadStep(t)) \/ MainStep)
  \/ Finished

Spec == Init /\ [][Next]_vars

-----------------------------------------------------------------------------
(* The type of every variable.                                             *)
TypeOK ==
  /\ LoopedTypeOK
  /\ HETypeOK
  /\ pc \in [Threads -> Labels]
  /\ main \in MainStates

(* No thread ever accesses a node that has been deleted.                   *)
MemorySafe ==
  \A t \in Threads : \A role \in Uses(t) \cap dangling[t] :
    Named(t, role) \in Allocated

(* The locals whose nodes find has made sure were linked while their era   *)
(* was published, and the slot that holds the era of each.                 *)
Protected(t) ==
  CASE pc[t] \in {"find.help", "help.era", "help.check", "help.add",
                  "help.slot1", "remove.mark", "remove.cas"}  -> Roles
    [] pc[t] \in FindLabels \ {"find.head", "find.clock", "find.publish"}
                                                     -> {"pred", "curr"}
    [] pc[t] \in {"find.misread", "misread.clock", "misread.publish"}
                                                     -> {"pred", "curr"}
    [] pc[t] = "add.cas"                             -> {"pred"}
    [] OTHER                                         -> {}

SlotOf(t, role) ==
  CASE role = "pred" -> IF pc[t] = "find.slot2" THEN 1 ELSE 2
    [] role = "curr" -> IF pc[t] \in {"find.slot2", "find.slot1"} THEN 0 ELSE 1
    [] role = "nxt"  -> 0

(* What get_protected and protectEraRelease achieve together: through all  *)
(* hand-overs from slot to slot, the era a thread keeps for a node lies    *)
(* within the life of the node, so that a scan of all the slots would keep *)
(* it.                                                                     *)
EraCovers ==
  \A t \in Threads : \A role \in Protected(t) \ dangling[t] :
    LET n == Named(t, role)
        era == hazardErasList[t][SlotOf(t, role)]
    IN  n # NULL =>
          /\ newEra[n] <= era
          /\ (\E u \in Threads : n \in Retired(u)) => era <= delEra[n]

Holds(t, n) ==
  \/ node[t] = n
  \/ pc[t] \in {"help.era", "remove.clear", "retire.era"} /\ curr[t] = n

(* Until a deleted node has been used, every allocated node is in exactly  *)
(* one place: the list, one entry of a retired list, or the hands of one   *)
(* operation; a node that a remove has marked but could not unlink stays   *)
(* in the list until exactly one find takes it out; and the count of       *)
(* retired nodes is right.                                                 *)
OneOwner ==
  Defined =>
    /\ ChainSet(head) = Linked
    /\ \A n \in Nodes :
         InOnePlace(n, Linked, EntriesOf(retiredPtrList, n),
                    {t \in Threads : Holds(t, n)})
    /\ \A t \in Threads : ~Destroyed =>
         retiredNodesCount[t] = Len(retiredPtrList[t])

-----------------------------------------------------------------------------
(* The inductive invariant behind TypeOK and EraCovers.                    *)
EnoughSlots == SlotsPerThread >= 3

(* EraCovers for one thread, in terms of the scheme.                       *)
Covered(t) ==
  \A role \in Protected(t) \ dangling[t] :
    LET n == Named(t, role)
    IN  n # NULL => Live(n) /\ Covers(t, SlotOf(t, role), n)

(* While the clock shows the era published for it, what has been loaded    *)
(* fits that era; later the slot covers it.  That holds of next when curr  *)
(* was in the list then, which find makes sure of by *pred = curr.         *)
NextSeen(t) ==
  /\ pc[t] \in {"next.clock", "find.again", "find.pred"}
  /\ dangling[t] \cap {"curr", "nxt"} = {} /\ status[curr[t]] = "linked"
  /\ getUnmarked(nxt[t]) # NULL

LoadedFits(t) ==
  /\ pc[t] = "find.clock" =>
       pred[t] = NULL /\ ("curr" \notin dangling[t] => EraFits(t, 1, curr[t]))
  /\ NextSeen(t) =>
       IF pc[t] = "next.clock" THEN EraFits(t, 0, getUnmarked(nxt[t]))
                               ELSE Covers(t, 0, getUnmarked(nxt[t]))
  /\ pc[t] \in {"misread.clock", "misread.publish"} => nxt[t] = Misread

(* A node that has been unlinked is in no list until it is retired.        *)
Removing(t) == pc[t] \in {"help.era", "remove.clear", "retire.era"}

RemovedByOne(t) ==
  Removing(t) =>
    /\ curr[t] \in Nodes /\ status[curr[t]] = "retired" /\ ~Listed(curr[t])
    /\ \A u \in Threads : Removing(u) /\ curr[u] = curr[t] => u = t

ThreadInv(t) == Covered(t) /\ LoadedFits(t) /\ RemovedByOne(t)

(* The list is deleted when no thread is left.                             *)
MainAlone ==
  main \in {"deleting", "destroyed"} => \A t \in Threads : pc[t] = "exited"

IInv ==
  /\ TypeOK /\ MainAlone /\ Scheme({}) /\ ListInv
  /\ \A t \in Threads : ThreadInv(t)

(* And behind OneOwner: a node that is out of the list has an entry in a   *)
(* retired list, or is about to get one from the thread that took it out.  *)
Placed ==
  /\ ListPlaced
  /\ \A n \in Nodes : status[n] = "retired" =>
       Listed(n) \/ \E t \in Threads : Removing(t) /\ curr[t] = n

=============================================================================
