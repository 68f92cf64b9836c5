----------------------------- MODULE MarkedList -----------------------------
(***************************************************************************)
(* What the four LinkedList*.hpp have in common: an ordered list whose     *)
(* links carry a mark bit, as Harris and Michael describe it.  remove      *)
(* marks the link of a node before it unlinks the node, so that nothing    *)
(* can be inserted behind it; find unlinks the marked nodes it meets.      *)
(*                                                                         *)
(* A link is a pair: the node it leads to and whether it is marked.  A     *)
(* pointer to an atomic (pred) is NULL for &head and n for &n->next.  The  *)
(* scheme modules give these steps their labels and conjoin the calls of   *)
(* the scheme.  tail is written by the constructor only, so that its loads *)
(* are no steps of their own.                                              *)
(***************************************************************************)
EXTENDS Heap, Benchmark

CONSTANTS
  Elements,   \* the keys: 0, 1, ..., as the benchmark stores them
  MaxCalls    \* bound of the model: calls of all threads

(* What the modules of a program assume of them.                           *)
CallsAssumption ==
  /\ MaxCalls \in Nat /\ NULL \notin Elements /\ IsFiniteSet(Elements)
  /\ Elements = 0..(Cardinality(Elements) - 1)

VARIABLES
  head, tail,
  marked,          \* nodes whose next has its mark bit set
  pred, curr, nxt, \* find: pred, curr, next; its callers' variables as well
  node,            \* add: the new node
  op, key,         \* the call of each thread and its argument
  calls,           \* number of calls: of the fill loop, then of the threads
  seen             \* history, for module KeySet

findLocals == <<pred, curr, nxt>>
callVars == <<node, op, key, seen>>
listVars == <<head, tail, marked, findLocals, callVars, calls>>

Operations == {"add", "remove", "contains"}
Results == {"true", "false"}

NoLink == <<NULL, FALSE>>

ListInit ==
  /\ pc = [t \in Threads |-> "idle"]
  /\ main = "filling"
  /\ marked = {}
  /\ pred = [t \in Threads |-> NULL]
  /\ curr = [t \in Threads |-> NULL]
  /\ nxt = [t \in Threads |-> NoLink]
  /\ node = [t \in Threads |-> NULL]
  /\ op = [t \in Threads |-> "none"]
  /\ key = [t \in Threads |-> NULL]
  /\ calls = 0
  /\ seen = [t \in Threads |-> {}]

ListTypeOK ==
  /\ status \in [Nodes -> Statuses]
  /\ next \in [Nodes -> NodeOrNull]
  /\ item \in [Nodes -> Elements \cup {NULL}]
  /\ head \in NodeOrNull /\ tail \in NodeOrNull
  /\ marked \subseteq Nodes
  /\ pred \in [Threads -> NodeOrNull]
  /\ curr \in [Threads -> NodeOrNull]
  /\ nxt \in [Threads -> NodeOrNull \X BOOLEAN]
  /\ node \in [Threads -> NodeOrNull]
  /\ op \in [Threads -> Operations \cup Results \cup {"none"}]
  /\ key \in [Threads -> Elements \cup {NULL}]
  /\ calls \in Nat
  /\ seen \in [Threads -> SUBSET BOOLEAN]

-----------------------------------------------------------------------------
(* getUnmarked and isMarked of a link, the link of a node, the link pred   *)
(* points to.                                                              *)
getUnmarked(link) == link[1]
isMarked(link) == link[2]

Link(n) == <<next[n], n \in marked>>

PredLink(t) == IF pred[t] = NULL THEN <<head, FALSE>> ELSE Link(pred[t])

\* fault: the mark on the link of pred's node is ignored
PredNodeIsCurr(t) == getUnmarked(PredLink(t)) = curr[t]

(* The exchange of *pred succeeds: it still is curr, without a mark.       *)
PredIsCurr(t) == PredLink(t) = <<curr[t], FALSE>>

StorePred(t, n) ==
  IF pred[t] = NULL THEN head' = n /\ UNCHANGED next
  ELSE next' = [next EXCEPT ![pred[t]] = n] /\ UNCHANGED head

(* find ends at curr when its item is not smaller than the argument.       *)
EndsAtCurr(t) == item[curr[t]] # NULL /\ item[curr[t]] >= key[t]
FoundAtCurr(t) == item[curr[t]] = key[t]

-----------------------------------------------------------------------------
(* The client: main adds the elements in order as thread 0, then starts    *)
(* the threads.                                                            *)
Filling == main = "filling"

MayCall(t, o, k) ==
  \/ Calling /\ calls < MaxCalls
  \/ Filling /\ t = 0 /\ o = "add" /\ k = calls

(* A call of o with key k, which is a member of the set now or is not.     *)
BeginCall(t, o, k, member) ==
  /\ MayCall(t, o, k)
  /\ op' = [op EXCEPT ![t] = o]
  /\ key' = [key EXCEPT ![t] = k]
  /\ calls' = calls + 1
  /\ seen' = [seen EXCEPT ![t] = {member}]

StartThreads ==
  /\ Filling /\ pc[0] = "idle" /\ calls = Cardinality(Elements)
  /\ main' = "sleeping"
  /\ calls' = 0

(* The structure is deleted as it is, without being drained.               *)
JoinUndrained ==
  /\ main = "joining" /\ main' = "deleting"
  /\ \A t \in Threads : pc[t] = "exited"
  /\ UNCHANGED pc

-----------------------------------------------------------------------------
Forget(t) ==
  /\ pred' = [pred EXCEPT ![t] = NULL]
  /\ curr' = [curr EXCEPT ![t] = NULL]
  /\ nxt' = [nxt EXCEPT ![t] = NoLink]

Follow(t, p, c) ==
  /\ pred' = [pred EXCEPT ![t] = p]
  /\ curr' = [curr EXCEPT ![t] = c]
  /\ nxt' = [nxt EXCEPT ![t] = NoLink]

(* A call that find decides: contains, a remove that finds nothing, an add *)
(* that finds its key.                                                     *)
DecidedBy(t, found) ==
  op[t] = "contains" \/ (op[t] = "remove" /\ ~found) \/ (op[t] = "add" /\ found)

(* Where the callers of find go on; done is where an operation ends that   *)
(* leaves the list as it is.                                               *)
AfterFind(t, found, done) ==
  CASE op[t] = "add" /\ found     -> "add.discard"
    [] op[t] = "add" /\ ~found    -> "add.cas"
    [] op[t] = "remove" /\ found  -> "remove.mark"
    [] OTHER                      -> done

(* find returns found, with link as next.  add makes its private node      *)
(* point to curr before its exchange.                                      *)
FindReturns(t, found, link) ==
  /\ next' = IF op[t] = "add" /\ ~found
             THEN [next EXCEPT ![node[t]] = curr[t]] ELSE next
  /\ IF DecidedBy(t, found)
     THEN /\ op' = [op EXCEPT ![t] = IF @ = "contains" /\ found
                                     THEN "true" ELSE "false"]
          /\ key' = [key EXCEPT ![t] = NULL]
          /\ seen' = [seen EXCEPT ![t] = {}]
          /\ Forget(t)
     ELSE /\ nxt' = [nxt EXCEPT ![t] = IF found THEN link ELSE NoLink]
          /\ UNCHANGED <<op, key, seen, pred, curr>>

(* The exchange that makes the key of t a member, or no longer one, is the *)
(* effect of the call; calls with the same key may have seen it.           *)
Decides(t, member) ==
  /\ op' = [op EXCEPT ![t] = "true"]
  /\ key' = [key EXCEPT ![t] = NULL]
  /\ seen' = [u \in Threads |->
                IF u = t THEN {}
                ELSE IF key[u] = key[t] THEN seen[u] \cup {member} ELSE seen[u]]

=============================================================================
