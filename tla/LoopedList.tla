----------------------------- MODULE LoopedList -----------------------------
(***************************************************************************)
(* The linked list of hazard pointers, hazard eras and interval-based      *)
(* reclamation, as far as the three files are the same.  head and tail     *)
(* start at one sentinel whose next is itself, and find stops in front of  *)
(* it: the last key before the sentinel, which is the first one added, is  *)
(* never compared.                                                         *)
(*                                                                         *)
(* A scheme conjoins these steps with its own; the labels it continues at  *)
(* are parameters.  What follows the use of a deleted node, be it an       *)
(* access of its memory or a comparison that finds its address again, is   *)
(* not defined: the thread stops at the label undefined.                   *)
(***************************************************************************)
EXTENDS MarkedList

VARIABLE
  dangling   \* history: locals of find whose node was deleted since they
             \* were assigned

loopedVars == <<listVars, dangling>>

Roles == {"pred", "curr", "nxt"}

(* The constructor.                                                        *)
LoopedInit ==
  /\ \E s \in Nodes :
       /\ head = s /\ tail = s
       /\ status = [n \in Nodes |-> IF n = s THEN "linked" ELSE "free"]
       /\ next = [n \in Nodes |-> IF n = s THEN s ELSE NULL]
       /\ item = [n \in Nodes |-> NULL]
  /\ ListInit
  /\ dangling = [t \in Threads |-> {}]

LoopedTypeOK == ListTypeOK /\ dangling \in [Threads -> SUBSET Roles]

(* The keys find can find: those of the unmarked nodes but the last.       *)
Present == {item[n] : n \in {m \in Linked \ marked : next[m] # tail}}

-----------------------------------------------------------------------------
Named(t, role) ==
  CASE role = "pred" -> pred[t]
    [] role = "curr" -> curr[t]
    [] role = "nxt"  -> getUnmarked(nxt[t])

(* The nodes of S are deleted.                                             *)
Dangles(S) ==
  dangling' = [t \in Threads |->
                 dangling[t] \cup {r \in Roles : Named(t, r) \in S}]

(* Deleting nodes frees their mark bits with them.                         *)
Freed == {n \in Nodes : status[n] # "free" /\ status'[n] = "free"}
AfterDeletion == Dangles(Freed) /\ marked' = marked \ Freed

(* The locals of find whose nodes the next step of t accesses, or finds    *)
(* again by a comparison.                                                  *)
Uses(t) ==
  CASE pc[t] \in {"find.next", "find.misread", "find.item"} -> {"curr"}
    [] pc[t] = "help.next" -> {"nxt"}
    [] pc[t] = "find.again" ->
         {"curr"} \cup (IF Link(curr[t]) = nxt[t] THEN {"nxt"} ELSE {})
    [] pc[t] \in {"find.pred", "add.cas"} ->
         {"pred"} \cup (IF PredIsCurr(t) THEN {"curr"} ELSE {})
    [] pc[t] \in {"find.help", "remove.cas"} ->
         {"pred"} \cup (IF PredIsCurr(t) THEN {"curr", "nxt"} ELSE {})
    [] pc[t] = "remove.mark" ->
         {"curr"} \cup (IF Link(curr[t]) = <<getUnmarked(nxt[t]), FALSE>>
                        THEN {"nxt"} ELSE {})
    [] OTHER -> {}

Strays(t) == Uses(t) \cap dangling[t] # {}

Stray(t) == pc' = [pc EXCEPT ![t] = "undefined"]

Defined == \A t \in Threads : pc[t] # "undefined"

-----------------------------------------------------------------------------
(* An operation begins at label to; add has made its node.                 *)
CallAdd(t, to) ==
  /\ Goto(t, "idle", to)
  /\ \E n \in Nodes, k \in Elements :
       /\ BeginCall(t, "add", k, k \in Present)
       /\ New(n, k)
       /\ node' = [node EXCEPT ![t] = n]
  /\ UNCHANGED <<head, tail, marked, findLocals, dangling, main>>

CallOther(t, to) ==
  /\ Goto(t, "idle", to)
  /\ \E k \in Elements, o \in {"remove", "contains"} :
       BeginCall(t, o, k, k \in Present)
  /\ UNCHANGED <<heapVars, head, tail, marked, findLocals, node, dangling, main>>

(* With its last step an operation returns.                                *)
Returns(t) ==
  /\ op' = [op EXCEPT ![t] = "none"]
  /\ Forget(t)
  /\ dangling' = [dangling EXCEPT ![t] = {}]
  /\ UNCHANGED <<heapVars, head, tail, marked, node, key, seen, calls, main>>

-----------------------------------------------------------------------------
(* find: pred = &head, curr = head.load().                                 *)
LoadsHead(t) ==
  /\ Follow(t, NULL, head)
  /\ dangling' = [dangling EXCEPT ![t] = {}]
  /\ UNCHANGED <<heapVars, head, tail, marked, callVars, calls, main>>

(* next = link, a value just loaded.                                       *)
LoadsNext(t, link) ==
  /\ nxt' = [nxt EXCEPT ![t] = link]
  /\ dangling' = [dangling EXCEPT ![t] = @ \ {"nxt"}]
  /\ UNCHANGED <<heapVars, head, tail, marked, pred, curr, callVars, calls, main>>

(* A load from a marked curr is one from an odd address; what it yields is *)
(* the link of no node.                                                    *)
Misread == <<NULL, TRUE>>

(* goto try_again, and the retries of add and remove.                      *)
TryAgain(t, from, again) ==
  /\ Goto(t, from, again)
  /\ Forget(t)
  /\ dangling' = [dangling EXCEPT ![t] = {}]
  /\ UNCHANGED <<heapVars, head, tail, marked, callVars, calls, main>>

(* find returns found; its caller goes on at label to.                     *)
Ends(t, found, to) ==
  /\ pc' = [pc EXCEPT ![t] = to]
  /\ FindReturns(t, found, nxt[t])
  /\ dangling' = [dangling EXCEPT ![t] = IF DecidedBy(t, found) THEN {} ELSE @]
  /\ UNCHANGED <<status, item, head, tail, marked, node, calls, main>>

(* curr->next is loaded again, and ends the list when it is the sentinel.  *)
AtTail(t) ==
  /\ pc[t] = "find.again"
  /\ Link(curr[t]) = nxt[t] /\ getUnmarked(nxt[t]) = tail

Validates(t, again) ==
  /\ pc[t] = "find.again"
  /\ \/ Link(curr[t]) # nxt[t] /\ TryAgain(t, "find.again", again)
     \/ /\ Link(curr[t]) = nxt[t] /\ getUnmarked(nxt[t]) # tail
        /\ Goto(t, "find.again", "find.pred")
        /\ UNCHANGED <<heapVars, loopedVars, main>>

(* pred = &curr->next and curr = next, or only the latter.                 *)
MovesTo(t, p) ==
  /\ Follow(t, p, getUnmarked(nxt[t]))
  /\ dangling' = [dangling EXCEPT ![t] =
                    (IF p = pred[t] THEN @ \cap {"pred"} ELSE {})
                    \cup (IF "nxt" \in @ THEN {"curr"} ELSE {})]
  /\ UNCHANGED <<heapVars, head, tail, marked, callVars, calls, main>>

(* *pred is loaded and must be curr; then curr is helped out of the list,  *)
(* compared, or passed.                                                    *)
AtKey(t) ==
  /\ pc[t] = "find.pred"
  /\ PredIsCurr(t) /\ ~isMarked(nxt[t]) /\ EndsAtCurr(t)

Compares(t, again, advance) ==
  /\ pc[t] = "find.pred"
  /\ \/ ~PredIsCurr(t) /\ TryAgain(t, "find.pred", again)
     \/ /\ PredIsCurr(t) /\ isMarked(nxt[t])
        /\ Goto(t, "find.pred", "find.help")
        /\ UNCHANGED <<heapVars, loopedVars, main>>
     \/ /\ PredIsCurr(t) /\ ~isMarked(nxt[t]) /\ ~EndsAtCurr(t)
        /\ Goto(t, "find.pred", advance)
        /\ MovesTo(t, curr[t])

(* The exchange of *pred that takes curr out of the list.                  *)
Unlinks(t) ==
  /\ StorePred(t, getUnmarked(nxt[t]))
  /\ status' = [status EXCEPT ![curr[t]] = "retired"]
  /\ UNCHANGED <<item, tail, marked, findLocals, callVars, calls, dangling, main>>

-----------------------------------------------------------------------------
(* add: delete node when find found its key, else link it before curr.     *)
Discards(t, done) ==
  /\ Goto(t, "add.discard", done)
  /\ Delete({node[t]})
  /\ node' = [node EXCEPT ![t] = NULL]
  /\ UNCHANGED <<head, tail, marked, findLocals, op, key, seen, calls, dangling,
                 main>>

Adds(t, again, done) ==
  /\ pc[t] = "add.cas"
  /\ IF PredIsCurr(t)
     THEN /\ Goto(t, "add.cas", done)
          /\ StorePred(t, node[t])
          /\ status' = [status EXCEPT ![node[t]] = "linked"]
          /\ node' = [node EXCEPT ![t] = NULL]
          /\ Decides(t, TRUE)
          /\ Forget(t)
          /\ dangling' = [dangling EXCEPT ![t] = {}]
          /\ UNCHANGED <<item, tail, marked, calls, main>>
     ELSE TryAgain(t, "add.cas", again)

\* fault: an existing mark is not noticed
MarksTwice(t, again) ==
  /\ pc[t] = "remove.mark"
  /\ IF next[curr[t]] = getUnmarked(nxt[t])
     THEN /\ Goto(t, "remove.mark", "remove.cas")
          /\ marked' = marked \cup {curr[t]}
          /\ Decides(t, FALSE)
          /\ UNCHANGED <<heapVars, head, tail, findLocals, node, calls, dangling,
                         main>>
     ELSE TryAgain(t, "remove.mark", again)

(* remove: the mark on the link of curr, which then is to be unlinked.     *)
Marks(t, again) ==
  /\ pc[t] = "remove.mark"
  /\ IF Link(curr[t]) = <<getUnmarked(nxt[t]), FALSE>>
     THEN /\ Goto(t, "remove.mark", "remove.cas")
          /\ marked' = marked \cup {curr[t]}
          /\ Decides(t, FALSE)
          /\ UNCHANGED <<heapVars, head, tail, findLocals, node, calls, dangling,
                         main>>
     ELSE TryAgain(t, "remove.mark", again)

\* fault: the node is retired whether or not the exchange has unlinked it
RemovesAlways(t, retire, done) ==
  /\ Goto(t, "remove.cas", retire)
  /\ IF PredIsCurr(t) THEN Unlinks(t)
     ELSE UNCHANGED <<heapVars, loopedVars, main>>

Removes(t, retire, done) ==
  /\ pc[t] = "remove.cas"
  /\ IF PredIsCurr(t)
     THEN Goto(t, "remove.cas", retire) /\ Unlinks(t)
     ELSE Goto(t, "remove.cas", done) /\ UNCHANGED <<heapVars, loopedVars, main>>

-----------------------------------------------------------------------------
Starts == StartThreads /\ UNCHANGED <<heapVars, pc, head, tail, marked,
                                      findLocals, callVars, dangling>>

Quits == QuitSignal /\ UNCHANGED <<heapVars, loopedVars>>

Exits(t) == LeaveLoop(t) /\ UNCHANGED <<heapVars, loopedVars>>

Joins == JoinUndrained /\ UNCHANGED <<heapVars, loopedVars>>

-----------------------------------------------------------------------------
(* Parts of the invariants of the three lists.  A live node is one that is *)
(* in the list or was, and has not been deleted.                           *)
Live(n) == n \in Nodes /\ status[n] \in {"linked", "retired"}

(* From head links lead along linked nodes, each of which no other linked  *)
(* node leads to, to the sentinel.  Only marked nodes are retired.         *)
ListShape ==
  /\ tail \in Nodes \ marked /\ status[tail] = "linked" /\ next[tail] = tail
  /\ head \in Nodes /\ status[head] = "linked"
  /\ \A m \in Nodes : status[m] = "linked" =>
       /\ next[m] \in Nodes /\ status[next[m]] = "linked"
       /\ m # tail =>
            /\ next[m] # head
            /\ \A n \in Nodes \ {tail} :
                 status[n] = "linked" /\ next[n] = next[m] => n = m
  /\ \A m \in Nodes : status[m] = "retired" => m \in marked /\ next[m] \in Nodes
  /\ \A m \in marked : Live(m)

(* An add owns its node alone until it has linked it.                      *)
OwnsNode(t) ==
  /\ node[t] # NULL =>
       /\ status[node[t]] = "private"
       /\ \A u \in Threads : node[u] = node[t] => u = t
  /\ op[t] = "add" => node[t] # NULL
  /\ pc[t] = "add.discard" => node[t] # NULL /\ op[t] # "add"
  /\ pc[t] = "add.cas" => op[t] = "add" /\ next[node[t]] = curr[t]

(* Labels of the three lists: where find has no curr; where curr has been  *)
(* unlinked by find, with its link still in next; where find has seen that *)
(* curr is followed by next, which is not the end of the list.             *)
NoCurrLabels == {"alloc.add", "alloc.load", "start.load", "start.store",
                 "find.load", "find.store", "find.head", "add.discard",
                 "op.end", "clear", "return", "idle", "exited", "undefined"}
HelpingLabels == {"find.help", "help.scan", "help.curr", "help.era",
                  "help.check", "help.add", "help.slot1", "help.retire",
                  "help.empty", "help.next"}
PassedLabels == {"find.pred", "find.hit", "find.item", "remove.mark",
                 "remove.cas"} \cup HelpingLabels

(* What the locals of find are, as long as their nodes are not deleted.    *)
Traverses(t) ==
  /\ pred[t] # NULL =>
       pred[t] # tail /\ ("pred" \notin dangling[t] => Live(pred[t]))
  /\ IF curr[t] = NULL THEN pc[t] \in NoCurrLabels
     ELSE "curr" \notin dangling[t] => Live(curr[t])
  /\ /\ getUnmarked(nxt[t]) # NULL /\ "nxt" \notin dangling[t]
     /\ \/ pc[t] \in HelpingLabels
        \/ /\ curr[t] # NULL /\ "curr" \notin dangling[t]
           /\ status[curr[t]] = "linked"
     => Live(getUnmarked(nxt[t]))
  /\ pc[t] \in PassedLabels => curr[t] # tail /\ getUnmarked(nxt[t]) # NULL
  /\ pc[t] \in HelpingLabels => isMarked(nxt[t])
  /\ /\ isMarked(nxt[t]) \/ pc[t] = "remove.cas"
     /\ getUnmarked(nxt[t]) # NULL /\ "curr" \notin dangling[t]
     => /\ curr[t] \in marked /\ next[curr[t]] = getUnmarked(nxt[t])

(* The part of the invariants that does not depend on the scheme.          *)
ListInv ==
  /\ LoopedTypeOK /\ ListShape
  /\ \A t \in Threads : OwnsNode(t) /\ Traverses(t)

(* Where the nodes are: every linked one is in the list, every private one *)
(* in the hands of an add, which lets go of it before it ends.             *)
QuietLabels == {"remove.mark", "remove.cas", "remove.clear", "scan",
                "retire.era", "retire.check", "retire.add", "retire", "empty",
                "op.end", "clear", "return", "idle", "exited"}

ListPlaced ==
  /\ Reaches(head, next, Linked)
  /\ \A n \in Nodes : status[n] = "private" => \E t \in Threads : node[t] = n
  /\ \A t \in Threads : node[t] # NULL =>
       /\ op[t] = "add" \/ pc[t] = "add.discard"
       /\ pc[t] \notin QuietLabels

=============================================================================
