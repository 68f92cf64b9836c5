----------------------------- MODULE ProgramHE -----------------------------
(***************************************************************************)
(* hazarderas/Benchmark.cpp as a whole: main takes the name of a structure *)
(* from the command line and runs the benchmark on a stack, a queue or an  *)
(* ordered list with hazard eras.  A run has one structure; the variables  *)
(* of the others stay as they are.                                         *)
(***************************************************************************)
EXTENDS HazardEras

CONSTANTS
  StackMaxEra,        \* bound of the model: MaxEra in a run with the stack
  Pool,               \* bound: the addresses but the sentinel of a list
  Elements, MaxCalls  \* of module MarkedList

ASSUME ProgramAssumption ==
  /\ StackMaxEra \in 1..MaxEra
  /\ Pool \subseteq Nodes /\ Pool # Nodes

VARIABLES
  structure,                                    \* main: ds_type
  top,                                          \* of the stack
  head, tail,                                   \* of the queue and the list
  marked, pred, curr, op, key, calls, seen,     \* of the list
  node, nxt, retData,                           \* locals of the operations
  dangling                                      \* history, of all structures

ofListOnly == <<marked, pred, curr, op, key, calls, seen>>
notOfStack == <<head, tail, ofListOnly>>
notOfQueue == <<top, ofListOnly>>
notOfList == <<top, retData>>
vars == <<structure, heapVars, heVars, eraFields, heLocals, pc, main, top, head,
          tail, ofListOnly, node, nxt, retData, dangling>>

Stack == INSTANCE StackHE WITH MaxEra <- StackMaxEra
Queue == INSTANCE QueueHE
List == INSTANCE ListHE

ASSUME ListAssumption == List!CallsAssumption

(* The operations have the slots they publish in: the code gives every     *)
(* thread five.                                                            *)
ASSUME SlotsAssumption == Queue!EnoughSlots /\ List!EnoughSlots

Unused(variable) == variable = [t \in Threads |-> NULL]

NoList ==
  /\ marked = {} /\ Unused(pred) /\ Unused(curr) /\ Unused(op) /\ Unused(key)
  /\ calls = NULL /\ Unused(seen)

Of(stack, queue, list) ==
  CASE structure = "stack" -> stack
    [] structure = "queue" -> queue
    [] structure = "list"  -> list

(* Addresses being interchangeable, the sentinel of a list, which is never *)
(* freed, is not in Pool; a stack or a queue has the addresses of Pool.    *)
PoolUsed(allocated) ==
  IF structure = "list" THEN tail \notin Pool ELSE allocated \subseteq Pool

Init ==
  /\ \/ /\ structure = "stack"
        /\ Stack!Init /\ NoList
        /\ head = NULL /\ tail = NULL
     \/ /\ structure = "queue"
        /\ Queue!Init /\ NoList
        /\ top = NULL
     \/ /\ structure = "list"
        /\ List!Init
        /\ top = NULL /\ Unused(retData)
  /\ PoolUsed(Allocated)

Next ==
  /\ \/ structure = "stack" /\ Stack!Next /\ UNCHANGED notOfStack
     \/ structure = "queue" /\ Queue!Next /\ UNCHANGED notOfQueue
     \/ structure = "list" /\ List!Next /\ UNCHANGED notOfList
  /\ PoolUsed(Allocated')
  /\ UNCHANGED structure

Spec == Init /\ [][Next]_vars

-----------------------------------------------------------------------------
(* The type of every variable.                                             *)
TypeOK == Of(Stack!TypeOK, Queue!TypeOK, List!TypeOK)

(* No thread of the benchmark ever accesses a node that has been deleted.  *)
MemorySafe == Of(Stack!MemorySafe, Queue!MemorySafe, List!MemorySafe)

(* What get_protected promises, of every slot in use, and what the list's  *)
(* hand-overs by protectEraRelease preserve: the era a thread has          *)
(* published for a node lies within the life of the node, so that a scan   *)
(* of all the slots would keep it.                                         *)
EraCovers == Of(Stack!EraCovers, Queue!EraCovers, List!EraCovers)

(* Until the destructor has run, or a deleted node has been used, every    *)
(* allocated node is in exactly one place: the structure, one entry of a   *)
(* retired list, or the hands of one operation; and the count of retired   *)
(* nodes is right.                                                         *)
OneOwner == Of(Stack!OneOwner, Queue!OneOwner, List!OneOwner)

(* Until a deleted node has been used, the queue's head never overtakes    *)
(* tail, and tail is never more than one node behind the end of the list.  *)
TailFollows == structure = "queue" => Queue!TailFollows

Running == structure = "list" /\ ~List!Filling
OfList(value, other) == IF Running THEN value ELSE other

(* The list's operations are linearizable, as long as no deleted node has  *)
(* been used: add and remove change a set of keys in one step, the         *)
(* exchange that links or that marks, and an answer that changes nothing   *)
(* was right at some moment of the call.  The first key main adds is       *)
(* behind every other and is never compared: it is no member of the set,   *)
(* and can be added again.                                                 *)
Set == INSTANCE KeySet WITH
  Keys  <- Elements,
  NoKey <- NULL,
  keys  <- OfList(List!Present, Elements \ {0}),
  call  <- OfList(op, [t \in Threads |-> "none"]),
  key   <- OfList(key, [t \in Threads |-> NULL]),
  seen  <- OfList(seen, [t \in Threads |-> {}])
SetLinearizable == Set!Spec

-----------------------------------------------------------------------------
(* What is inductive of a run: the invariant of its structure, and where   *)
(* the nodes are.                                                          *)
IInv ==
  /\ structure \in {"stack", "queue", "list"}
  /\ Of(Stack!IInv, Queue!IInv, List!IInv)

Placed == Of(Stack!Placed, Queue!Placed, List!Placed)

=============================================================================
