----------------------------- MODULE ProgramIBR -----------------------------
(***************************************************************************)
(* intervalbasedrec/Benchmark.cpp as a whole: main takes the name of a     *)
(* structure from the command line and runs the benchmark on a stack, a    *)
(* queue or an ordered list with interval-based reclamation.  A run has    *)
(* one structure; the variables of the others stay as they are.            *)
(***************************************************************************)
EXTENDS IBR

CONSTANTS
  StackMaxEpoch,           \* bound of the model: MaxEpoch in a run with the stack
  Pool,                    \* bound: the addresses but the sentinel of a list
  Elements, MaxCalls,      \* of module MarkedList
  ThreadCounts, RawStats   \* of module ListIBR

ASSUME ProgramAssumption ==
  /\ StackMaxEpoch \in 0..MaxEpoch
  /\ Pool \subseteq Nodes /\ Pool # Nodes
  /\ ThreadCounts \subseteq 0..NumThreads
  /\ RawStats \subseteq 0..(StatRange - 1)
  /\ UINT64_MAX > Cardinality(Elements) + MaxCalls

VARIABLES
  structure,                                    \* main: ds_type
  top,                                          \* of the stack
  head, tail,                                   \* of the queue and the list
  marked, pred, curr, op, key, calls, seen,     \* of the list
  node, ptr, nxt, retData,                      \* locals of the operations
  dangling                                      \* history, of all structures

ofListOnly == <<marked, pred, curr, op, key, calls, seen>>
notOfStack == <<head, tail, ofListOnly>>
notOfQueue == <<top, ofListOnly>>
notOfList == <<top, ptr, retData>>
vars == <<structure, heapVars, ibrVars, epochFields, ibrLocals, pc, main, top,
          head, tail, ofListOnly, node, ptr, nxt, retData, dangling>>

Stack == INSTANCE StackIBR WITH MaxEpoch <- StackMaxEpoch
Queue == INSTANCE QueueIBR
List == INSTANCE ListIBR

ASSUME ListAssumption == List!CallsAssumption

Unused(variable) == variable = [t \in Threads |-> NULL]

NoList ==
  /\ marked = {} /\ Unused(pred) /\ Unused(curr) /\ Unused(op) /\ Unused(key)
  /\ calls = NULL /\ Unused(seen)

Of(stack, queue, list) ==
  CASE structure = "stack" -> stack
    [] structure = "queue" -> queue
    [] structure = "list"  -> list

(* Addresses being interchangeable, the sentinel of a list, which is never *)
(* freed, is not in Pool; a stack or a queue has the addresses of Pool.    *)
PoolUsed(allocated) ==
  IF structure = "list" THEN tail \notin Pool ELSE allocated \subseteq Pool

Init ==
  /\ \/ /\ structure = "stack"
        /\ Stack!Init /\ NoList
        /\ head = NULL /\ tail = NULL
     \/ /\ structure = "queue"
        /\ Queue!Init /\ NoList
        /\ top = NULL
     \/ /\ structure = "list"
        /\ List!Init
        /\ top = NULL /\ Unused(ptr) /\ Unused(retData)
  /\ PoolUsed(Allocated)

Next ==
  /\ \/ structure = "stack" /\ Stack!Next /\ UNCHANGED notOfStack
     \/ structure = "queue" /\ Queue!Next /\ UNCHANGED notOfQueue
     \/ structure = "list" /\ List!Next /\ UNCHANGED notOfList
  /\ PoolUsed(Allocated')
  /\ UNCHANGED structure

Spec == Init /\ [][Next]_vars

-----------------------------------------------------------------------------
(* The type of every variable.                                             *)
TypeOK == Of(Stack!TypeOK, Queue!TypeOK, List!TypeOK)

(* No thread of the benchmark ever accesses a node that has been deleted.  *)
MemorySafe == Of(Stack!MemorySafe, Queue!MemorySafe, List!MemorySafe)

NotDangling(t, guards) == IF t \in dangling THEN {} ELSE guards

Guards(t) == Of(NotDangling(t, Stack!Guards(t)), NotDangling(t, Queue!Guards(t)),
                List!Guards(t))

(* What a reservation does protect: a node in use by an operation that     *)
(* started in or after the epoch of the node's birth is not deleted.  For  *)
(* a dequeue this covers the successor of head as well, although nothing   *)
(* but the reservation protects it; for a list, all that find relies on    *)
(* from its start_op to its end_op, links out of marked nodes included.    *)
OldNodesKept ==
  [][\A t \in Threads : \A n \in Guards(t) :
       status[n] = "retired" /\ status'[n] = "free"
         => reservations[t] < birth_epoch[n]]_vars

(* Until the destructor has run, or a deleted node has been used, every    *)
(* allocated node is in exactly one place: the structure, one entry of a   *)
(* retired list, or the hands of one operation; and both counters agree    *)
(* with the list, so that the list is swept at multiples of emptyFreq.     *)
OneOwner == Of(Stack!OneOwner, Queue!OneOwner, List!OneOwner)

(* Until a deleted node has been used, the queue's head never overtakes    *)
(* tail, and tail is never more than one node behind the end of the list.  *)
TailFollows == structure = "queue" => Queue!TailFollows

Running == structure = "list" /\ ~List!Filling
OfList(value, other) == IF Running THEN value ELSE other

(* The list's operations are linearizable, as long as no deleted node has  *)
(* been used: add and remove change a set of keys in one step, the         *)
(* exchange that links or that marks, and an answer that changes nothing   *)
(* was right at some moment of the call.  The first key main adds is       *)
(* behind every other and is never compared: it is no member of the set,   *)
(* and can be added again.                                                 *)
Set == INSTANCE KeySet WITH
  Keys  <- Elements,
  NoKey <- NULL,
  keys  <- OfList(List!Present, Elements \ {0}),
  call  <- OfList(op, [t \in Threads |-> "none"]),
  key   <- OfList(key, [t \in Threads |-> NULL]),
  seen  <- OfList(seen, [t \in Threads |-> {}])
SetLinearizable == Set!Spec

=============================================================================
