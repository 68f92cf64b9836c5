------------------------------ MODULE ListURCU ------------------------------
(***************************************************************************)
(* urcu/LinkedListURCU.hpp: the ordered list whose operations are          *)
(* read-side sections of URCU, under the client of module Benchmark.  Two  *)
(* sentinels with key nullptr end the list; a call that has unlinked nodes *)
(* waits for a grace period and frees them before it returns.              *)
(*                                                                         *)
(* pc labels name the next shared access of a thread: find.* in find,      *)
(* lock.* in readLock, sync.* in synchronizeRCU, add.* and remove.* in the *)
(* operations, unlock and free at their common end.                        *)
(***************************************************************************)
EXTENDS URCU, MarkedList

VARIABLES
  retired,               \* add, remove, contains: retired
  retired_nodes_count    \* retired_nodes_count[thread_id]

vars == <<heapVars, urcuVars, pc, main, listVars, retired, retired_nodes_count>>
retiredVars == <<retired, retired_nodes_count>>

FindLabels == {"find.head", "find.check", "find.next", "find.again",
               "find.pred", "find.help", "find.marked"}
SectionLabels ==
  FindLabels \cup {"add.discard", "add.cas", "remove.mark", "remove.cas",
                   "unlock", "remove.unlock"}
FreeLabels == {"remove.free", "free"}
Labels == SectionLabels \cup LockLabels \cup SyncLabels \cup FreeLabels
            \cup {"idle", "exited"}

Readers == {t \in Threads : pc[t] \in SectionLabels}

(* The constructor: head leads to one sentinel, that to the other.         *)
Init ==
  /\ \E s, e \in Nodes :
       /\ s # e /\ head = s /\ tail = e
       /\ status = [n \in Nodes |-> IF n \in {s, e} THEN "linked" ELSE "free"]
       /\ next = [n \in Nodes |-> IF n = s THEN e ELSE NULL]
       /\ item = [n \in Nodes |-> NULL]
  /\ URCUInit
  /\ ListInit
  /\ retired = [t \in Threads |-> <<>>]
  /\ retired_nodes_count = [t \in Threads |-> 0]

(* The keys of the list: those of the nodes whose link is not marked.      *)
Present == {item[n] : n \in Linked \ marked} \cap Elements

-----------------------------------------------------------------------------
AddCall(t) ==
  \E n \in Nodes, k \in Elements :
    /\ Goto(t, "idle", "lock.load")
    /\ BeginCall(t, "add", k, k \in Present)
    /\ New(n, k)
    /\ node' = [node EXCEPT ![t] = n]
    /\ UNCHANGED <<urcuVars, head, tail, marked, findLocals, retiredVars, main>>

Call(t) ==
  \E k \in Elements, o \in {"remove", "contains"} :
    /\ Goto(t, "idle", "lock.load")
    /\ BeginCall(t, o, k, k \in Present)
    /\ UNCHANGED <<heapVars, urcuVars, head, tail, marked, findLocals, node,
                   retiredVars, main>>

LockStep(t) ==
  /\ ReadLock(t, "find.head")
  /\ UNCHANGED <<heapVars, listVars, retiredVars, main>>

-----------------------------------------------------------------------------
(* find(key, ...), from try_again on.                                      *)
FindHead(t) ==
  /\ Goto(t, "find.head", "find.check")
  /\ Follow(t, NULL, head)
  /\ UNCHANGED <<heapVars, urcuVars, head, tail, marked, callVars, calls,
                 retiredVars, main>>

(* goto try_again.                                                         *)
TryAgain(t) ==
  /\ Forget(t)
  /\ UNCHANGED <<heapVars, urcuVars, head, tail, marked, callVars, calls,
                 retiredVars, main>>

FindCheck(t) ==
  /\ pc[t] = "find.check"
  /\ IF PredIsCurr(t)
     THEN /\ Goto(t, "find.check", "find.next")
          /\ UNCHANGED <<heapVars, urcuVars, listVars, retiredVars, main>>
     ELSE Goto(t, "find.check", "find.head") /\ TryAgain(t)

(* The node before the tail sentinel is not compared: it ends the list.    *)
FindNext(t) ==
  /\ pc[t] = "find.next"
  /\ IF curr[t] = NULL \/ getUnmarked(Link(curr[t])) = tail
     THEN /\ Goto(t, "find.next", AfterFind(t, FALSE, "unlock"))
          /\ FindReturns(t, FALSE, NoLink)
     ELSE /\ Goto(t, "find.next", "find.again")
          /\ nxt' = [nxt EXCEPT ![t] = Link(curr[t])]
          /\ UNCHANGED <<next, op, key, seen, pred, curr>>
  /\ UNCHANGED <<status, item, urcuVars, head, tail, marked, node, calls,
                 retiredVars, main>>

FindAgain(t) ==
  /\ pc[t] = "find.again"
  /\ IF Link(curr[t]) = nxt[t]
     THEN /\ Goto(t, "find.again", "find.pred")
          /\ UNCHANGED <<heapVars, urcuVars, listVars, retiredVars, main>>
     ELSE Goto(t, "find.again", "find.head") /\ TryAgain(t)

(* *pred is loaded and must still be curr; then the item decides.          *)
FindMoved(t) ==
  /\ Goto(t, "find.pred", "find.head")
  /\ ~PredIsCurr(t)
  /\ TryAgain(t)

FindMarked(t) ==
  /\ Goto(t, "find.pred", "find.help")
  /\ PredIsCurr(t) /\ isMarked(nxt[t])
  /\ UNCHANGED <<heapVars, urcuVars, listVars, retiredVars, main>>

FindEnds(t) ==
  /\ pc[t] = "find.pred"
  /\ PredIsCurr(t) /\ ~isMarked(nxt[t]) /\ EndsAtCurr(t)
  /\ Goto(t, "find.pred", AfterFind(t, FoundAtCurr(t), "unlock"))
  /\ FindReturns(t, FoundAtCurr(t), nxt[t])
  /\ UNCHANGED <<status, item, urcuVars, head, tail, marked, node, calls,
                 retiredVars, main>>

FindAdvances(t) ==
  /\ pc[t] = "find.pred"
  /\ PredIsCurr(t) /\ ~isMarked(nxt[t]) /\ ~EndsAtCurr(t)
  /\ Goto(t, "find.pred", "find.next")
  /\ Follow(t, curr[t], getUnmarked(nxt[t]))
  /\ UNCHANGED <<heapVars, urcuVars, head, tail, marked, callVars, calls,
                 retiredVars, main>>

(* find unlinks the marked node, for this call to free.                    *)
FindHelp(t) ==
  /\ pc[t] = "find.help"
  /\ IF PredIsCurr(t)
     THEN /\ Goto(t, "find.help", "find.marked")
          /\ StorePred(t, getUnmarked(nxt[t]))
          /\ status' = [status EXCEPT ![curr[t]] = "retired"]
          /\ retired' = [retired EXCEPT ![t] = Append(@, curr[t])]
          /\ retired_nodes_count' = [retired_nodes_count EXCEPT ![t] = @ + 1]
          /\ UNCHANGED <<item, urcuVars, tail, marked, findLocals, callVars,
                         calls, main>>
     ELSE Goto(t, "find.help", "find.head") /\ TryAgain(t)

(* find goes on from next with the mark bit still set: the misaligned load *)
(* from that node yields what its next, loaded again, is not.              *)
FindFollowsMarked(t) ==
  /\ Goto(t, "find.marked", "find.head")
  /\ TryAgain(t)

FindStep(t) ==
  \/ FindHead(t) \/ FindCheck(t) \/ FindNext(t) \/ FindAgain(t)
  \/ FindMoved(t) \/ FindMarked(t) \/ FindEnds(t) \/ FindAdvances(t)
  \/ FindHelp(t) \/ FindFollowsMarked(t)

-----------------------------------------------------------------------------
(* add(key, tid): delete newNode when the key was found, else link it.     *)
AddDiscard(t) ==
  /\ Goto(t, "add.discard", "unlock")
  /\ Delete({node[t]})
  /\ node' = [node EXCEPT ![t] = NULL]
  /\ UNCHANGED <<urcuVars, head, tail, marked, findLocals, op, key, seen, calls,
                 retiredVars, main>>

AddCas(t) ==
  /\ pc[t] = "add.cas"
  /\ IF PredIsCurr(t)
     THEN /\ Goto(t, "add.cas", "unlock")
          /\ StorePred(t, node[t])
          /\ status' = [status EXCEPT ![node[t]] = "linked"]
          /\ node' = [node EXCEPT ![t] = NULL]
          /\ Decides(t, TRUE)
          /\ UNCHANGED <<item, urcuVars, tail, marked, findLocals, calls,
                         retiredVars, main>>
     ELSE Goto(t, "add.cas", "find.head") /\ TryAgain(t)

(* remove(key, tid): the mark on the node's link, then the exchange that   *)
(* takes the node out.  If that fails, some find unlinks the node.         *)
RemoveMark(t) ==
  /\ pc[t] = "remove.mark"
  /\ IF Link(curr[t]) = <<getUnmarked(nxt[t]), FALSE>>
     THEN /\ Goto(t, "remove.mark", "remove.cas")
          /\ marked' = marked \cup {curr[t]}
          /\ Decides(t, FALSE)
          /\ UNCHANGED <<heapVars, urcuVars, head, tail, findLocals, node,
                         calls, retiredVars, main>>
     ELSE Goto(t, "remove.mark", "find.head") /\ TryAgain(t)

RemoveCas(t) ==
  /\ pc[t] = "remove.cas"
  /\ IF PredIsCurr(t)
     THEN /\ Goto(t, "remove.cas", "remove.unlock")
          /\ StorePred(t, getUnmarked(nxt[t]))
          /\ status' = [status EXCEPT ![curr[t]] = "retired"]
     ELSE /\ Goto(t, "remove.cas", "unlock")
          /\ UNCHANGED <<next, status, head>>
  /\ UNCHANGED <<item, urcuVars, tail, marked, findLocals, callVars, calls,
                 retiredVars, main>>

RemoveUnlock(t) ==
  /\ Goto(t, "remove.unlock", "sync.load")
  /\ ReadUnlock(t)
  /\ Follow(t, NULL, curr[t])
  /\ UNCHANGED <<heapVars, head, tail, marked, callVars, calls, retiredVars, main>>

-----------------------------------------------------------------------------
(* The call returns unless it has nodes to free.                           *)
GoOn(t, from, left) ==
  /\ Goto(t, from, IF left = <<>> THEN "idle" ELSE "sync.load")
  /\ op' = [op EXCEPT ![t] = IF left = <<>> THEN "none" ELSE @]

Unlock(t) ==
  /\ GoOn(t, "unlock", retired[t])
  /\ ReadUnlock(t)
  /\ Forget(t)
  /\ UNCHANGED <<heapVars, head, tail, marked, node, key, seen, calls,
                 retiredVars, main>>

Sync(t) ==
  /\ SynchronizeRCU(t, Readers, IF curr[t] = NULL THEN "free" ELSE "remove.free")
  /\ UNCHANGED <<heapVars, listVars, retiredVars, main>>

RemoveFree(t) ==
  /\ GoOn(t, "remove.free", retired[t])
  /\ Delete({curr[t]})
  /\ marked' = marked \ {curr[t]}
  /\ Forget(t)
  /\ UNCHANGED <<urcuVars, head, tail, node, key, seen, calls, retiredVars, main>>

(* One turn of the loop of deleteRetired, after its synchronizeRCU.        *)
Free(t) ==
  LET n == Head(retired[t])  left == Tail(retired[t])
  IN  /\ pc[t] = "free"
      /\ IF left = <<>> THEN GoOn(t, "free", left) ELSE UNCHANGED <<pc, op>>
      /\ Delete({n})
      /\ marked' = marked \ {n}
      /\ retired' = [retired EXCEPT ![t] = left]
      /\ retired_nodes_count' = [retired_nodes_count EXCEPT ![t] = @ - 1]
      /\ UNCHANGED <<urcuVars, head, tail, findLocals, node, key, seen, calls,
                     main>>

-----------------------------------------------------------------------------
Start ==
  /\ StartThreads
  /\ UNCHANGED <<heapVars, urcuVars, pc, head, tail, marked, findLocals,
                 callVars, retiredVars>>

Quit ==
  /\ QuitSignal
  /\ UNCHANGED <<heapVars, urcuVars, listVars, retiredVars>>

ThreadExit(t) ==
  /\ LeaveLoop(t)
  /\ UNCHANGED <<heapVars, urcuVars, listVars, retiredVars>>

Join ==
  /\ JoinUndrained
  /\ UNCHANGED <<heapVars, urcuVars, listVars, retiredVars>>

(* The destructor follows the links as they are; what it does once it has  *)
(* met a marked one is not defined.                                        *)
Destroy ==
  /\ main = "deleting"
  /\ IF ChainSet(head) \cap marked = {}
     THEN /\ main' = "destroyed"
          /\ Delete(ChainSet(head))
          /\ head' = NULL /\ tail' = NULL
     ELSE main' = "undefined" /\ UNCHANGED <<heapVars, head, tail>>
  /\ UNCHANGED <<pc, urcuVars, marked, findLocals, callVars, calls, retiredVars>>

Finished == main \in {"destroyed", "undefined"} /\ UNCHANGED vars

CallStep(t) ==
  \/ AddDiscard(t) \/ AddCas(t) \/ RemoveMark(t) \/ RemoveCas(t)
  \/ RemoveUnlock(t) \/ Unlock(t) \/ Sync(t) \/ RemoveFree(t) \/ Free(t)

ThreadStep(t) ==
  \/ AddCall(t) \/ Call(t) \/ LockStep(t) \/ FindStep(t) \/ CallStep(t)
  \/ ThreadExit(t)

MainStep == Start \/ Quit \/ Join \/ Destroy

Next == (\E t \in Threads : ThreadStep(t)) \/ MainStep \/ Finished

Spec == Init /\ [][Next]_vars

-----------------------------------------------------------------------------
(* The type of every variable.                                             *)
TypeOK ==
  /\ ListTypeOK
  /\ URCUTypeOK
  /\ pc \in [Threads -> Labels]
  /\ retired \in [Threads -> Seq(Nodes)]
  /\ retired_nodes_count \in [Threads -> Nat]
  /\ main \in MainStates

(* synchronizeRCU's grace period: when it returns, and while the nodes     *)
(* found before are freed, no reader is still inside the section it was in *)
(* when synchronizeRCU was called.                                         *)
GracePeriod == \A t \in Threads : pc[t] \in FreeLabels => oldReaders[t] = {}

(* The nodes whose memory the next step of t reads or writes.              *)
Accesses(t) ==
  (CASE pc[t] \in {"find.next", "find.again", "remove.mark"}    -> {curr[t]}
     [] pc[t] = "find.pred"                            -> {pred[t], curr[t]}
     [] pc[t] \in {"find.help", "add.cas", "remove.cas"}        -> {pred[t]}
     [] pc[t] = "find.marked"                 -> {getUnmarked(nxt[t])}
     [] OTHER                                                   -> {})
    \ {NULL}

(* No thread ever accesses a node that has been deleted, not even where    *)
(* find goes on from a node it has just helped to unlink.                  *)
MemorySafe == \A t \in Threads : Accesses(t) \subseteq Allocated

Holds(t, n) ==
  \/ node[t] = n
  \/ /\ pc[t] \in {"remove.unlock", "remove.free"} \cup SyncLabels
     /\ curr[t] = n

(* Until the destructor has run, every allocated node is in exactly one    *)
(* place: the list, one entry of the nodes a call has unlinked, or the     *)
(* hands of one add or remove; and the counts agree with the lists.  So a  *)
(* node that a remove has marked but could not unlink stays in the list    *)
(* until exactly one find takes it out.                                    *)
OneOwner ==
  /\ \A n \in Nodes :
       InOnePlace(n, Linked, EntriesOf(retired, n),
                  {t \in Threads : Holds(t, n)})
  /\ ChainSet(head) = Linked /\ Straight(Linked, head)
  /\ \A t \in Threads : retired_nodes_count[t] = Len(retired[t])

(* What the benchmark reports after a run: no node is left unreclaimed     *)
(* once the threads are joined.                                            *)
NoneUnreclaimed ==
  (\A t \in Threads : pc[t] = "exited") =>
    /\ \A t \in Threads : retired_nodes_count[t] = 0
    /\ \A n \in Nodes : status[n] # "retired"

-----------------------------------------------------------------------------
(* The nodes a call has found linked in its section and still relies on:   *)
(* pred, curr, and next once the link to it is known to be in the list.    *)
Guards(t) ==
  (CASE pc[t] \in {"find.next", "find.again", "add.discard", "add.cas",
                   "remove.mark", "remove.cas", "unlock", "remove.unlock"}
          -> {pred[t], curr[t]}
     [] pc[t] = "find.pred"
          -> {pred[t], curr[t]} \cup (IF isMarked(nxt[t]) THEN {}
                                      ELSE {getUnmarked(nxt[t])})
     [] pc[t] \in {"find.help", "find.marked"}
          -> {pred[t], curr[t], getUnmarked(nxt[t])}
     [] OTHER -> {})
    \ {NULL}

-----------------------------------------------------------------------------
(* The inductive invariant behind MemorySafe.                              *)

(* The links of linked nodes lead to linked nodes, none to the head and no *)
(* two to the same node; a node is marked before it is retired, so that an *)
(* unmarked node that is still allocated is in the list.                   *)
ListShape ==
  /\ head # NULL => status[head] = "linked"
  /\ \A m \in Nodes : status[m] = "linked" /\ next[m] # NULL =>
       /\ status[next[m]] = "linked"
       /\ next[m] # head
       /\ \A n \in Nodes : status[n] = "linked" /\ next[n] = next[m] => n = m
  /\ \A n \in Nodes : status[n] = "retired" => n \in marked
  /\ \A n \in marked : status[n] \in {"linked", "retired"}

(* An add owns its node alone until it has linked it; before it tries to,  *)
(* the node leads to curr.                                                 *)
OwnsNode(t) ==
  /\ op[t] = "add" \/ pc[t] = "add.discard" => node[t] # NULL
  /\ pc[t] = "add.discard" => op[t] # "add"
  /\ pc[t] = "add.cas" => op[t] = "add" /\ next[node[t]] = curr[t]

AddOwnsNode ==
  \A t \in Threads :
    /\ OwnsNode(t)
    /\ node[t] # NULL =>
         /\ status[node[t]] = "private"
         /\ \A u \in Threads : node[u] = node[t] => u = t

(* The node a remove has unlinked itself, and the nodes that find has      *)
(* unlinked for a call, are freed by that call, each once.                 *)
Unlinked(t) ==
  /\ curr[t] # NULL
  /\ pc[t] \in {"remove.unlock", "remove.free"} \cup SyncLabels

HasToFree(t) ==
  /\ pc[t] \in SyncLabels \cup {"free"} /\ curr[t] = NULL => retired[t] # <<>>
  /\ pc[t] \in {"remove.unlock", "remove.free"} => curr[t] # NULL
  /\ pc[t] = "free" => curr[t] = NULL

RetiredOnce ==
  \A t \in Threads :
    /\ HasToFree(t)
    /\ \A i \in 1..Len(retired[t]) :
         /\ status[retired[t][i]] = "retired"
         /\ \A u \in Threads : \A j \in 1..Len(retired[u]) :
              retired[u][j] = retired[t][i] => u = t /\ j = i
    /\ Unlinked(t) =>
         /\ status[curr[t]] = "retired"
         /\ \A u \in Threads :
              /\ Unlinked(u) /\ curr[u] = curr[t] => u = t
              /\ \A i \in 1..Len(retired[u]) : retired[u][i] # curr[t]

(* A node that is marked keeps its link: find and remove unlink it with    *)
(* the successor they have read.                                           *)
KeepsLink(t) ==
  /\ pc[t] \in {"find.again", "find.pred", "find.help", "remove.mark",
                "remove.cas"} => curr[t] # NULL
  /\ (\/ pc[t] \in {"find.help", "remove.cas"}
      \/ pc[t] = "find.pred" /\ isMarked(nxt[t])) =>
       curr[t] \in marked /\ next[curr[t]] = getUnmarked(nxt[t])

MarkedKeepsLink == \A t \in Threads : KeepsLink(t)

(* The nodes a call relies on are allocated: the thread that is to free    *)
(* one has yet to begin to wait, or waits for this reader.                 *)
Freeing(t) == pc[t] \in {"sync.cas", "sync.spin"} \cup FreeLabels

ToFree(t) ==
  {retired[t][i] : i \in 1..Len(retired[t])}
    \cup (IF Unlinked(t) THEN {curr[t]} ELSE {})

ReaderKeepsNodes ==
  \A t \in Threads :
    /\ pc[t] = "find.check" => pred[t] = NULL
    /\ \A n \in Guards(t) :
         /\ status[n] \in {"linked", "retired"}
         /\ \A u \in Threads : Freeing(u) /\ n \in ToFree(u) =>
              t \in oldReaders[u]

(* The list is deleted when no thread is left.                             *)
MainAlone ==
  main \in {"deleting", "destroyed", "undefined"} =>
    \A t \in Threads : pc[t] = "exited"

Links == NodeOrNull \X BOOLEAN

ListTypes ==
  /\ status \in [Nodes -> Statuses]
  /\ next \in [Nodes -> NodeOrNull]
  /\ pc \in [Threads -> Labels]
  /\ head \in NodeOrNull
  /\ marked \subseteq Nodes
  /\ pred \in [Threads -> NodeOrNull]
  /\ curr \in [Threads -> NodeOrNull]
  /\ nxt \in [Threads -> Links]
  /\ node \in [Threads -> NodeOrNull]
  /\ op \in [Threads -> Operations \cup Results \cup {"none"}]
  /\ retired \in [Threads -> Seq(Nodes)]
  /\ main \in MainStates

IInv ==
  /\ ListTypes /\ Grace(SectionLabels) /\ MainAlone
  /\ main # "destroyed" =>
       /\ ListShape /\ AddOwnsNode /\ RetiredOnce /\ MarkedKeepsLink
       /\ ReaderKeepsNodes

-----------------------------------------------------------------------------
(* The inductive invariant behind OneOwner and NoneUnreclaimed: the linked *)
(* nodes are the list, every other allocated one is in the hands of an add *)
(* or a remove or among those a call has unlinked and counted; a thread    *)
(* between its calls has none.                                             *)
Counts ==
  /\ retired_nodes_count = [t \in Threads |-> Len(retired[t])]
  /\ \A t \in Threads :
       /\ node[t] # NULL => op[t] = "add" \/ pc[t] = "add.discard"
       /\ op[t] = "add" => pc[t] \in LockLabels \cup FindLabels \cup {"add.cas"}
       /\ pc[t] \in {"idle", "exited"} => op[t] = "none" /\ retired[t] = <<>>

Placed ==
  /\ Reaches(head, next, Linked)
  /\ \A n \in Nodes :
       /\ status[n] = "private" => \E t \in Threads : node[t] = n
       /\ status[n] = "retired" => \E t \in Threads : n \in ToFree(t)
  /\ Counts
  /\ main = "destroyed" => head = NULL /\ Allocated = {}

(* Behind the type of the version: a call advances it at most twice, for   *)
(* its own node and for those of find.                                     *)
Advances(t) ==
  \/ pc[t] \in SectionLabels \cup LockLabels \cup {"remove.free", "sync.load", "sync.cas"}
  \/ pc[t] = "sync.spin" /\ curr[t] # NULL

AdvancesTwice(t) ==
  \/ pc[t] \in SectionLabels \cup LockLabels
  \/ pc[t] \in {"sync.load", "sync.cas"} /\ curr[t] # NULL

VersionBounded ==
  /\ updaterVersion + Cardinality({t \in Threads : Advances(t)})
                    + Cardinality({t \in Threads : AdvancesTwice(t)})
       <= 2 * calls + IF Filling THEN 0 ELSE 2 * Cardinality(Elements)
  /\ Filling => \A t \in Threads \ {0} : pc[t] = "idle"
  /\ calls <= IF Filling THEN Cardinality(Elements) ELSE MaxCalls

=============================================================================
