------------------------------ MODULE ListIBR ------------------------------
(***************************************************************************)
(* intervalbasedrec/LinkedListIBR.hpp: the ordered list with interval-     *)
(* based reclamation, under the client of module Benchmark.  find ends the *)
(* operation that protects it before it returns, and its callers use what  *)
(* it found without a reservation.                                         *)
(*                                                                         *)
(* pc labels name the next shared access of a thread: alloc.* in           *)
(* allocNode, start.* in the start_op of an operation, find.* and help.*   *)
(* in find and what it calls, add.*, remove.* and op.end in the            *)
(* operations, retire and empty in the retireNode of remove.               *)
(***************************************************************************)
EXTENDS IBR, LoopedList

CONSTANTS
  ThreadCounts,   \* what numThreads may hold while it is not initialised
  RawStats        \* and what a word of retireStat may hold that is not

vars == <<heapVars, ibrVars, epochFields, ibrLocals, pc, loopedVars, main>>
ofScheme == <<ibrVars, epochFields, ibrLocals>>

OpLabels == {"alloc.add", "alloc.load", "start.load", "start.store", "op.end",
             "add.discard", "add.cas", "remove.mark", "remove.cas", "retire",
             "empty", "return", "idle", "exited", "undefined"}
FindLabels == {"find.load", "find.store", "find.head", "find.next",
               "find.again", "find.pred", "find.help", "help.retire",
               "help.empty", "help.next", "find.miss", "find.hit", "find.item"}

(* ibrList is constructed before the constructor has a number of threads   *)
(* to give it, and with a number that is not initialised it initialises    *)
(* that many rows; 0 stands for every number below 1.  (What a word of     *)
(* allocStat starts from only shifts the allocations that advance the      *)
(* epoch, and what retiredNodesCount starts from is only reported.)        *)
Init ==
  /\ LoopedInit
  /\ numThreads \in ThreadCounts
  /\ \E raw \in [Threads -> RawStats] :
       IBRInitWith([t \in Threads |-> IF t < numThreads THEN 0 ELSE raw[t]])

-----------------------------------------------------------------------------
(* add begins with allocNode, remove with start_op, contains with find.    *)
Call(t) ==
  \/ /\ AllocCount(t, "idle", "alloc.add", "alloc.load")
     /\ CallAdd(t, pc'[t])
  \/ /\ \/ CallOther(t, "start.load") /\ op'[t] = "remove"
        \/ CallOther(t, "find.load") /\ op'[t] = "contains"
     /\ UNCHANGED ofScheme

AddAlloc(t) ==
  /\ \/ AllocAdd(t, "alloc.add", "alloc.load")
     \/ AllocBorn(t, node[t], "alloc.load", "start.load")
  /\ UNCHANGED <<loopedVars, main>>

(* The start_op of add and remove, and the start_op of find.               *)
StartOp(t) ==
  /\ \/ StartLoad(t, "start.load", "start.store")
     \/ StartStore(t, "start.store", "find.load")
     \/ StartLoad(t, "find.load", "find.store")
     \/ StartStore(t, "find.store", "find.head")
  /\ UNCHANGED <<loopedVars, main>>

-----------------------------------------------------------------------------
(* find(item, ...), from try_again on.                                     *)
FindHead(t) ==
  /\ Goto(t, "find.head", "find.next")
  /\ LoadsHead(t)
  /\ UNCHANGED ofScheme

FindNext(t) ==
  /\ Goto(t, "find.next", "find.again")
  /\ LoadsNext(t, Link(curr[t]))
  /\ UNCHANGED ofScheme

(* end_op comes before the comparison that tells what is found.            *)
FindCompare(t) ==
  /\ \/ Validates(t, "find.head") \/ Compares(t, "find.head", "find.next")
     \/ /\ \/ AtTail(t) /\ Goto(t, "find.again", "find.miss")
           \/ AtKey(t) /\ Goto(t, "find.pred", "find.hit")
        /\ UNCHANGED <<heapVars, loopedVars, main>>
  /\ UNCHANGED ofScheme

(* contains returns as find does, the others call end_op again.            *)
After(t, found) ==
  AfterFind(t, found, IF op[t] = "contains" THEN "return" ELSE "op.end")

FindEnd(t) ==
  \/ /\ EndOp(t, "find.miss", After(t, FALSE))
     /\ Ends(t, FALSE, After(t, FALSE))
  \/ /\ EndOp(t, "find.hit", "find.item")
     /\ UNCHANGED <<heapVars, loopedVars, main>>

(* The item of curr is read once more.                                     *)
FindItem(t) ==
  /\ pc[t] = "find.item"
  /\ Ends(t, FoundAtCurr(t), After(t, FoundAtCurr(t)))
  /\ UNCHANGED ofScheme

FindHelp(t) ==
  /\ pc[t] = "find.help"
  /\ IF PredIsCurr(t) THEN Goto(t, "find.help", "help.retire") /\ Unlinks(t)
     ELSE TryAgain(t, "find.help", "find.head")
  /\ UNCHANGED ofScheme

(* retireNode of find and of remove.                                       *)
Retires(t) ==
  /\ \/ RetirePush(t, curr[t], "help.retire", "help.empty", "help.next")
     \/ RetirePush(t, curr[t], "retire", "empty", "op.end")
  /\ UNCHANGED <<loopedVars, main>>

(* Its emptyRetireList, with what the deletions mean to other threads.     *)
Empties(t) ==
  /\ \/ EmptyRead(t, "help.empty", "help.next")
     \/ EmptyRead(t, "empty", "op.end")
  /\ AfterDeletion
  /\ UNCHANGED <<head, tail, findLocals, callVars, calls, main>>

(* curr = next with the mark bit set, and next = curr->next.               *)
HelpNext(t) ==
  /\ Goto(t, "help.next", "find.again")
  /\ curr' = [curr EXCEPT ![t] = getUnmarked(nxt[t])]
  /\ nxt' = [nxt EXCEPT ![t] = Misread]
  /\ dangling' = [dangling EXCEPT ![t] = @ \cap {"pred"}]
  /\ UNCHANGED <<heapVars, ofScheme, head, tail, marked, pred, callVars, calls,
                 main>>

-----------------------------------------------------------------------------
AddDiscard(t) ==
  /\ Discards(t, "op.end")
  /\ ForgetEpochs({node[t]})
  /\ UNCHANGED <<ibrVars, ibrLocals>>

AddCas(t) ==
  /\ Adds(t, "find.load", "op.end")
  /\ UNCHANGED ofScheme

RemoveMark(t) ==
  /\ Marks(t, "find.load")
  /\ UNCHANGED ofScheme

RemoveCas(t) ==
  /\ Removes(t, "retire", "op.end")
  /\ UNCHANGED ofScheme

OpEnd(t) ==
  /\ EndOp(t, "op.end", "idle")
  /\ Returns(t)

Return(t) ==
  /\ Goto(t, "return", "idle")
  /\ Returns(t)
  /\ UNCHANGED ofScheme

-----------------------------------------------------------------------------
(* Neither the list nor the scheme has a destructor: nothing is freed.     *)
Destroy ==
  /\ DeleteStructure
  /\ UNCHANGED <<heapVars, ofScheme, loopedVars>>

MainStep ==
  \/ (Starts \/ Quits \/ Joins) /\ UNCHANGED ofScheme
  \/ Destroy

FindStep(t) ==
  \/ FindHead(t) \/ FindNext(t) \/ FindCompare(t) \/ FindEnd(t) \/ FindItem(t)
  \/ FindHelp(t) \/ HelpNext(t)

CallStep(t) ==
  \/ Call(t) \/ AddAlloc(t) \/ StartOp(t) \/ AddDiscard(t) \/ AddCas(t)
  \/ RemoveMark(t) \/ RemoveCas(t) \/ Retires(t) \/ Empties(t) \/ OpEnd(t)
  \/ Return(t)

ThreadStep(t) ==
  \/ ~Strays(t) /\ (FindStep(t) \/ CallStep(t))
  \/ Strays(t) /\ Stray(t) /\ UNCHANGED <<heapVars, ofScheme, loopedVars, main>>
  \/ Exits(t) /\ UNCHANGED ofScheme

Finished == (Destroyed \/ ~Defined) /\ UNCHANGED vars

Next ==
  \/ Defined /\ ((\E t \in Threads : ThreadStep(t)) \/ MainStep)
  \/ Finished

Spec == Init /\ [][Next]_vars

-----------------------------------------------------------------------------
(* The type of every variable.                                             *)
TypeOK ==
  /\ LoopedTypeOK
  /\ IBRTypeOK
  /\ pc \in [Threads -> OpLabels \cup FindLabels]
  /\ main \in MainStates

(* No thread ever accesses a node that has been deleted.                   *)
MemorySafe ==
  \A t \in Threads : \A role \in Uses(t) \cap dangling[t] :
    Named(t, role) \in Allocated

(* The locals of find that name nodes which were linked after find made    *)
(* its reservation, as long as it has it.  next counts only when its link  *)
(* had no mark, or the node of the mark was linked when pred was checked.  *)
Relied(t) ==
  CASE pc[t] = "find.next"                       -> {"pred", "curr"}
    [] pc[t] \in {"find.again", "find.pred"} ->
         {"pred", "curr"} \cup (IF isMarked(nxt[t]) THEN {} ELSE {"nxt"})
    [] pc[t] \in {"find.help", "help.retire", "help.empty", "help.next",
                  "find.miss", "find.hit"}       -> Roles
    [] OTHER                                     -> {}

(* The threads that have made use of a deleted node already, or that no    *)
(* scan takes notice of, rely on nothing.                                  *)
Guards(t) ==
  IF t < numThreads
  THEN {Named(t, role) : role \in Relied(t) \ dangling[t]} \cap Nodes
  ELSE {}

Holds(t, n) ==
  node[t] = n \/ (pc[t] \in {"help.retire", "retire"} /\ curr[t] = n)

(* Until a deleted node has been used, every allocated node is in exactly  *)
(* one place: the list, one entry of a retired list, or the hands of one   *)
(* operation; a node that a remove has marked but could not unlink stays   *)
(* in the list until exactly one find takes it out; and the counters of    *)
(* the rows that are initialised agree with the list.                      *)
OneOwner ==
  Defined =>
    /\ ChainSet(head) = Linked
    /\ \A n \in Nodes :
         InOnePlace(n, Linked, EntriesOf(retiredList, n),
                    {t \in Threads : Holds(t, n)})
    /\ \A t \in Threads :
         /\ retiredNodesCount[t] = Len(retiredList[t])
         /\ t < numThreads /\ pc[t] \notin {"help.empty", "empty"} =>
              retireStat[t] = Len(retiredList[t])

=============================================================================
