----------------------------- MODULE ProgramHP -----------------------------
(***************************************************************************)
(* hazardpointer/Benchmark.cpp as a whole: main takes the name of a        *)
(* structure from the command line and runs the benchmark on a stack, a    *)
(* queue or an ordered list with hazard pointers.  A run has one           *)
(* structure; the variables of the others stay as they are.                *)
(***************************************************************************)
EXTENDS HazardPointers

CONSTANTS
  Structures,         \* the structures main may be asked for
  StackPool, Pool,    \* bound: addresses of a run with a stack or a queue
  Elements, MaxCalls, \* of module MarkedList
  ThreadCounts        \* of module ListHP

ASSUME ProgramAssumption ==
  /\ Structures \subseteq {"stack", "queue", "list"}
  /\ StackPool \subseteq Pool /\ Pool \subseteq Nodes
  /\ "list" \in Structures => Pool # Nodes
  /\ ThreadCounts \subseteq 0..NumThreads

VARIABLES
  structure,                                  \* main: ds_type
  top,                                        \* of the stack
  head, tail,                                 \* of the queue and the list
  marked, pred, curr, op, key, calls, seen, dangling,        \* of the list
  node, nxt, retData                          \* locals of the operations

ofListOnly == <<marked, pred, curr, op, key, calls, seen, dangling>>
notOfStack == <<head, tail, ofListOnly>>
notOfQueue == <<top, ofListOnly>>
notOfList == <<top, retData>>
vars == <<structure, heapVars, hpVars, hpLocals, pc, main, top, head, tail,
          ofListOnly, node, nxt, retData>>

Stack == INSTANCE StackHP
Queue == INSTANCE QueueHP
List == INSTANCE ListHP

ASSUME ListAssumption == List!CallsAssumption

(* The operations have the slots they publish in: the code gives every     *)
(* thread five.                                                            *)
ASSUME SlotsAssumption ==
  /\ "queue" \in Structures => Queue!EnoughSlots
  /\ "list" \in Structures => List!EnoughSlots

Unused(variable) == variable = [t \in Threads |-> NULL]

NoList ==
  /\ marked = {} /\ Unused(pred) /\ Unused(curr) /\ Unused(op) /\ Unused(key)
  /\ calls = NULL /\ Unused(seen) /\ Unused(dangling)

Of(stack, queue, list) ==
  CASE structure = "stack" -> stack
    [] structure = "queue" -> queue
    [] structure = "list"  -> list

(* Addresses being interchangeable, a stack or a queue has some of them,   *)
(* and the sentinel of a list, which is never freed, is not in Pool.       *)
PoolUsed(allocated) ==
  Of(allocated \subseteq StackPool, allocated \subseteq Pool, tail \notin Pool)

Init ==
  /\ \/ /\ structure = "stack"
        /\ Stack!Init /\ NoList
        /\ head = NULL /\ tail = NULL
     \/ /\ structure = "queue"
        /\ Queue!Init /\ NoList
        /\ top = NULL
     \/ /\ structure = "list"
        /\ List!Init
        /\ top = NULL /\ Unused(retData)
  /\ structure \in Structures
  /\ PoolUsed(Allocated)

StepOf(stack, queue, list) ==
  /\ \/ structure = "stack" /\ stack /\ UNCHANGED notOfStack
     \/ structure = "queue" /\ queue /\ UNCHANGED notOfQueue
     \/ structure = "list" /\ list /\ UNCHANGED notOfList
  /\ PoolUsed(Allocated')
  /\ UNCHANGED structure

Next == StepOf(Stack!Next, Queue!Next, List!Next)

Spec == Init /\ [][Next]_vars

ThreadStep(t) ==
  StepOf(Stack!ThreadStep(t), Queue!ThreadStep(t),
         List!Defined /\ List!ThreadStep(t))

MainStep ==
  StepOf(Stack!MainStep, Queue!MainStep, List!Defined /\ List!MainStep)

(* The operating system runs every thread that is able to run.             *)
Fairness ==
  /\ \A t \in Threads : WF_vars(ThreadStep(t))
  /\ WF_vars(MainStep)

(* At least some thread runs: the others may be suspended for ever.        *)
LiveSpec == Spec /\ WF_vars(Next)

-----------------------------------------------------------------------------
(* The type of every variable.                                             *)
TypeOK == Of(Stack!TypeOK, Queue!TypeOK, List!TypeOK)

(* No thread of the benchmark ever accesses a node that has been deleted.  *)
MemorySafe == Of(Stack!MemorySafe, Queue!MemorySafe, List!MemorySafe)

(* What the slots achieve.  With a stack and a queue, no thread accesses a *)
(* deleted node.  With a list, the nodes of a thread whose slots are       *)
(* scanned are not deleted from the moment find has validated them, which  *)
(* is later than its first accesses.                                       *)
ProtectedSafe == Of(Stack!MemorySafe, Queue!MemorySafe, List!ProtectedSafe)

(* Why: the inductive invariant of the structure that main runs; where     *)
(* nodes are; and what is left to the destructor of a stack or a queue.    *)
IInv ==
  /\ structure \in Structures
  /\ Of(Stack!IInv, Queue!IInv, List!IInv)

Placed == Of(Stack!Placed, Queue!Placed, List!Placed)

Drained ==
  NULL \notin RawItems => Of(Stack!Drained, Queue!TailSwung /\ Queue!Drained, TRUE)

(* Every allocated node is in exactly one place: the structure, one entry  *)
(* of a retired list, or the hands of one operation; of a list, until a    *)
(* deleted node has been used.                                             *)
OneOwner == Of(Stack!OneOwner, Queue!OneOwner, List!OneOwner)

(* The queue's head never overtakes tail, and tail is never more than one  *)
(* node behind the end of the list.                                        *)
TailFollows == structure = "queue" => Queue!TailFollows

(* Once the destructor has run, every node a stack or a queue ever         *)
(* allocated has been freed.  It relies on pop not returning nullptr       *)
(* early: true when RawItems does not contain NULL.                        *)
NothingLeaked == Destroyed /\ structure # "list" => Allocated = {}

Guards(t) == Of(Stack!Guards(t), Queue!Guards(t), {})

(* The stack and the queue with hazard pointers are safe memory            *)
(* reclamation schemes: no node is reclaimed between the check that found  *)
(* it linked and its last use.  With a list nodes are retired and          *)
(* reclaimed in order, and what they rely on is ProtectedSafe.             *)
SMR == INSTANCE SafeReclamation WITH guards <- [t \in Threads |-> Guards(t)]
ReclaimsSafely == SMR!Spec

OfQueue(value, other) == IF structure = "queue" THEN value ELSE other

(* enqueue and dequeue are linearizable: they behave like operations on a  *)
(* FIFO queue, an enqueue when tail reaches its node, a dequeue at its     *)
(* exchange of head, an empty one when it finds head equal to tail.        *)
Fifo == INSTANCE FifoQueue WITH
  Tokens <- Nodes,
  q      <- OfQueue(Queue!Contents, <<>>),
  call   <- [t \in Threads |-> OfQueue(Queue!Call(t), "none")],
  arg    <- [t \in Threads |-> OfQueue(Queue!Arg(t), NULL)]
Linearizable == Fifo!Spec

Running == structure = "list" /\ ~List!Filling
OfList(value, other) == IF Running THEN value ELSE other

(* The list's operations are linearizable, as long as no deleted node has  *)
(* been used: add and remove change a set of keys in one step, the         *)
(* exchange that links or that marks, and an answer that changes nothing   *)
(* was right at some moment of the call.  The first key main adds is       *)
(* behind every other and is never compared: it is no member of the set,   *)
(* and can be added again.                                                 *)
Set == INSTANCE KeySet WITH
  Keys  <- Elements,
  NoKey <- NULL,
  keys  <- OfList(List!Present, Elements \ {0}),
  call  <- OfList(op, [t \in Threads |-> "none"]),
  key   <- OfList(key, [t \in Threads |-> NULL]),
  seen  <- OfList(seen, [t \in Threads |-> {}])
SetLinearizable == Set!Spec

-----------------------------------------------------------------------------
(* A list is followed until a deleted node is used.                        *)
Over == Destroyed \/ (structure = "list" /\ ~List!Defined)

Completes == Of(Stack!Completes, Queue!Completes, FALSE)

(* Lock-freedom: as long as any thread keeps running, operations keep      *)
(* completing, until the structure is destroyed: in particular a thread    *)
(* that stops between its link and its exchange of tail blocks nobody, and *)
(* nobody is blocked by a node that is marked and not yet unlinked.  (A    *)
(* list has finitely many calls in the model, so that it must come to its  *)
(* end.)                                                                   *)
LockFree == <>Over \/ []<><<Completes>>_vars

(* The benchmark ends: after quit every thread that the operating system   *)
(* runs finishes its operation and is joined, and the destructor's loop    *)
(* drains the stack or the queue.                                          *)
Terminates == Fairness => <>Over

=============================================================================
