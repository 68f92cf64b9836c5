---------------------------- MODULE ProgramURCU ----------------------------
(***************************************************************************)
(* urcu/Benchmark.cpp as a whole: main takes the name of a structure from  *)
(* the command line and runs the benchmark on a stack, a queue or an       *)
(* ordered list with URCU.  A run has one structure; the variables of the  *)
(* others stay as they are.                                                *)
(***************************************************************************)
EXTENDS URCU

CONSTANTS
  Pool,               \* bound: addresses of a run with a stack or a queue
  Elements, MaxCalls  \* of module MarkedList

ASSUME ProgramAssumption == Pool \subseteq Nodes /\ Pool # Nodes

VARIABLES
  structure,                                   \* main: ds_type
  top,                                         \* of the stack
  head, tail,                                  \* of the queue and the list
  marked, pred, curr, op, key, calls, seen, retired,         \* of the list
  retired_nodes_count,                         \* of all
  node, temp, temp2, nxt, ptrnull, retData     \* locals of the operations

ofListOnly == <<marked, pred, curr, op, key, calls, seen, retired>>
notOfStack == <<head, tail, temp2, ptrnull, ofListOnly>>
notOfQueue == <<top, ofListOnly>>
notOfList == <<top, temp, temp2, ptrnull, retData>>
vars == <<structure, heapVars, urcuVars, pc, main, top, head, tail, ofListOnly,
          retired_nodes_count, node, temp, temp2, nxt, ptrnull, retData>>

Stack == INSTANCE StackURCU
Queue == INSTANCE QueueURCU
List == INSTANCE ListURCU

ASSUME ListAssumption ==
  /\ List!CallsAssumption
  /\ 2 * (MaxCalls + Cardinality(Elements)) < UNASSIGNED

Unused(variable) == variable = [t \in Threads |-> NULL]

NoList ==
  /\ marked = {} /\ Unused(pred) /\ Unused(curr) /\ Unused(op) /\ Unused(key)
  /\ calls = NULL /\ Unused(seen) /\ Unused(retired)

(* Addresses being interchangeable, a stack or a queue has those of Pool,  *)
(* and the last sentinel of a list, which is never freed, is none of them. *)
PoolUsed(allocated) ==
  IF structure = "list" THEN tail \notin Pool ELSE allocated \subseteq Pool

Init ==
  /\ \/ /\ structure = "stack"
        /\ Stack!Init /\ NoList
        /\ head = NULL /\ tail = NULL /\ Unused(temp2) /\ Unused(ptrnull)
     \/ /\ structure = "queue"
        /\ Queue!Init /\ NoList
        /\ top = NULL
     \/ /\ structure = "list"
        /\ List!Init
        /\ top = NULL
        /\ Unused(temp) /\ Unused(temp2) /\ Unused(ptrnull) /\ Unused(retData)
  /\ PoolUsed(Allocated)

Next ==
  /\ \/ structure = "stack" /\ Stack!Next /\ UNCHANGED notOfStack
     \/ structure = "queue" /\ Queue!Next /\ UNCHANGED notOfQueue
     \/ structure = "list" /\ List!Next /\ UNCHANGED notOfList
  /\ PoolUsed(Allocated')
  /\ UNCHANGED structure

Spec == Init /\ [][Next]_vars

-----------------------------------------------------------------------------
Of(stack, queue, list) ==
  CASE structure = "stack" -> stack
    [] structure = "queue" -> queue
    [] structure = "list"  -> list

(* The type of every variable.                                             *)
TypeOK == Of(Stack!TypeOK, Queue!TypeOK, List!TypeOK)

(* synchronizeRCU's grace period: when it returns, no reader is still      *)
(* inside the section it was in when synchronizeRCU was called, be it a    *)
(* section that a queue's early return leaves without readUnlock, or one   *)
(* that began while a list frees the nodes of an earlier one.              *)
GracePeriod == Of(Stack!GracePeriod, Queue!GracePeriod, List!GracePeriod)

(* Why, and why memory is safe: the inductive invariant of the structure,  *)
(* with that of the scheme.                                                *)
StructureInv ==
  /\ structure \in {"stack", "queue", "list"}
  /\ Of(Stack!IInv, Queue!IInv, List!IInv)

(* Where nodes are, in addition, and how far the version can go.           *)
Placed ==
  Of(Stack!Placed /\ Stack!Drained, Queue!Placed, List!Placed)

VersionBounded ==
  Of(Stack!VersionBounded, Queue!VersionBounded, List!VersionBounded)

(* With the type invariant, the inductive invariant of the program.        *)
IInv == StructureInv /\ Placed /\ VersionBounded

(* No thread of the benchmark ever accesses a node that has been deleted.  *)
MemorySafe == Of(Stack!MemorySafe, Queue!MemorySafe, List!MemorySafe)

(* What the benchmark reports after a run: no node is left unreclaimed     *)
(* once the threads are joined.                                            *)
NoneUnreclaimed ==
  Of(Stack!NoneUnreclaimed, Queue!NoneUnreclaimed, List!NoneUnreclaimed)

(* Until the destructor has run, every allocated node of a stack or a list *)
(* is in exactly one place: the structure, the hands of one operation or   *)
(* the nodes it has unlinked; and the destructor of the stack leaves none  *)
(* behind.  (A queue can lose nodes.)                                      *)
OneOwner == Of(Stack!OneOwner, TRUE, List!OneOwner)

Guards(t) == Of(Stack!Guards(t), Queue!Guards(t), List!Guards(t))

(* With each structure URCU is a safe memory reclamation scheme: a node    *)
(* that an operation found linked in its section is not reclaimed until    *)
(* the operation is done with it.                                          *)
SMR == INSTANCE SafeReclamation WITH guards <- [t \in Threads |-> Guards(t)]
ReclaimsSafely == SMR!Spec

OfStack(value, other) == IF structure = "stack" THEN value ELSE other
OfList(value, other) == IF structure = "list" THEN value ELSE other

(* The stack's operations are linearizable, although addresses are reused. *)
(* Of the queue, which can lose elements, nothing is said here.            *)
Lifo == INSTANCE LifoStack WITH
  Tokens <- Items,
  stk    <- OfStack(Stack!Contents, <<>>),
  call   <- [t \in Threads |-> OfStack(Stack!Call(t), "none")],
  arg    <- [t \in Threads |-> OfStack(Stack!Arg(t), NULL)]
Linearizable == Lifo!Spec

(* The list's operations are linearizable: add and remove change a set of  *)
(* keys in one step, the exchange that links or that marks, and an answer  *)
(* that changes nothing was right at some moment of the call, although     *)
(* find stops at nodes it has not validated last.                          *)
Set == INSTANCE KeySet WITH
  Keys  <- Elements,
  NoKey <- NULL,
  keys  <- OfList(List!Present, {}),
  call  <- OfList(op, [t \in Threads |-> "none"]),
  key   <- OfList(key, [t \in Threads |-> NULL]),
  seen  <- OfList(seen, [t \in Threads |-> {}])
SetLinearizable == Set!Spec

=============================================================================
