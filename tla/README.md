# Verification of smr_implementations

TLA+ models, TLC runs and TLAPS proofs for the safe memory reclamation (SMR)
schemes of this repository and the lock-free structures built on them. Every
definition names, in `PROJECT.json` under "map", the lines of the C++ source
it stands for.

## 1. The system

Four directories hold one SMR scheme each, three structures that use it (a
Treiber stack, a Michael-Scott queue, a Harris-Michael ordered list) and a
benchmark program. All code is in headers; everything is templated on the type
of the objects stored.

| component | state | operations | interacts with |
|---|---|---|---|
| `hazardpointer/hazardpointer.hpp` | `hazardPointerList[thread][slot]`, `retiredPointerList[thread]`, `retiredCount` | `storeHazardPtr`, `protect`, `clear`, `retireNode`, destructor | called by its structures; scans read the slots of every thread |
| `urcu/URCU.hpp` | `updaterVersion`, `readersVersion[thread]` | `readLock`, `readUnlock`, `synchronizeRCU` | `synchronizeRCU` waits for the readers of other threads |
| `hazarderas/hazarderas.hpp` | `globalEraClock`, `hazardErasList[thread][slot]`, `retiredPtrList[thread]`, `newEra`/`delEra` in each node | `getEra`, `get_protected`, `protectEraRelease`, `clear`, `canRemoveNode`, `retireNode`, destructor | as hazard pointers, with eras in place of addresses |
| `intervalbasedrec/IntervalBasedReclamation.hpp` | `globalEpoch`, `reservations[thread]`, `retiredList[thread]`, `allocStat`, `retireStat`, epochs in each node | `allocNode`, `start_op`, `end_op`, `retireNode`, `conflict`, `emptyRetireList` | sweeps copy every thread's reservation |
| `Stack*.hpp` | `top`, nodes | `push`, `pop`, constructor (one sentinel), destructor (drains with `pop(0)`) | scheme, heap |
| `Queue*.hpp` | `head`, `tail`, nodes | `enqueue`, `dequeue`, constructor, destructor | scheme, heap |
| `LinkedList*.hpp` | `head`, `tail`, marked links | `add`, `remove`, `contains`, private `find` | scheme, heap |
| `Benchmark.cpp` | `quit`, `startFlag`, threads | fill, start threads, sleep, set `quit`, join, print counts, delete | calls the structures from N threads |

### What is hard

* Every structure is shared by threads without locks. An operation reads a
  pointer, announces it (publishes it, an era, an epoch, a version) and only
  then uses it; another thread can unlink and free the node between any two of
  these steps, and `new` can hand the address out again (ABA).
* A scan of other threads' announcements is a loop of single loads during which
  the announcements change.
* `compare_exchange_strong` overwrites its expected value when it fails.
* Retired lists are erased from inside the loop that walks them.
* In the ordered list a removal takes two exchanges, a mark and an unlink; any
  thread that comes by finishes a removal that another has begun, and whoever
  unlinks a node is the one that retires it.
* `synchronizeRCU` blocks; the structures are otherwise meant to be lock-free.
* After the run the main thread drains and deletes the structure alone.

### What makes the components correct

* scheme: a node is not freed while a thread may still access it, it is freed
  once only, and none is lost; a grace period covers all readers and ends;
* structure: no access of freed memory, linearizable as a LIFO stack or a FIFO
  queue, lock-free where the scheme is, tail never behind head;
* ordered list: linearizable as a set of keys; a marked node is never linked to
  again, and taken out and retired by exactly one thread;
* benchmark: it ends, and nothing is left unreclaimed.

Section 6 maps these to runs; `PROJECT.json` lists the hazards line by line.

## 2. Modules

| module | models |
|---|---|
| `Heap` | addresses, `new Node`, `delete`, links; a freed address can be allocated again |
| `Benchmark` | the client program: threads that call any operation, quit, join, drain, delete |
| `SafeReclamation` | abstract: what an SMR scheme promises (a guarded node is not reclaimed) |
| `LifoStack`, `FifoQueue` | abstract: concurrent stack and queue with pending operations |
| `HazardPointers` | `hazardpointer.hpp` |
| `StackHP`, `QueueHP` | stack and queue with hazard pointers |
| `HeapProofs` | lemmas: what links reach when a node is pushed, taken out or inserted; what it means that a node is in one place |
| `StackHPProofs` | the theorems about `StackHP` |
| `QueueHPProofs`, `ListHPProofs` | lemmas: the steps of the queue and the list with hazard pointers |
| `ProgramHPProofs` | the theorems about `ProgramHP` |
| `ProgramURCUProofs` | the theorems about `ProgramURCU` |
| `ListHEProofs` | lemmas: what hazard eras do whatever structure calls them, and the steps of the list with them |
| `ProgramHEProofs` | lemmas: the steps of the stack and the queue with hazard eras; the theorems about `ProgramHE` |
| `URCU` | `URCU.hpp` |
| `StackURCU`, `QueueURCU` | stack and queue with URCU |
| `HazardEras` | `hazarderas.hpp` |
| `StackHE`, `QueueHE` | stack and queue with hazard eras |
| `IBR` | `IntervalBasedReclamation.hpp` |
| `StackIBR`, `QueueIBR` | stack and queue with interval-based reclamation |
| `RetiredLists` | the erase-while-walking loop over a retired list |
| `KeySet` | abstract: a concurrent set of keys with pending operations |
| `MarkedList` | what the four ordered lists have in common: marked links, the windows of `find`, the exchanges of `add` and `remove`, the benchmark's fill loop |
| `LoopedList` | what the three lists with a self-linked sentinel share (hazard pointers, hazard eras, IBR) |
| `ListHP`, `ListURCU`, `ListHE`, `ListIBR` | the ordered list with each scheme |
| `ProgramHP`, `ProgramURCU`, `ProgramHE`, `ProgramIBR` | the benchmark program of one directory: the structure named on the command line, stack, queue or list |
| `MC*` | instances for TLC, with the symmetry of addresses |

`Heap` and `Benchmark` are extended by every scheme module, a scheme module by
its structure modules. A scheme's operation is an operator with the labels to
come from and to go to; a structure's action conjoins it with what it leaves
unchanged, so that the interleaving of scheme and structure is that of the code.
A `Program*` module instantiates the three structures of its directory over
one set of variables and chooses between them in `Init`, as `main` does from
`argv[1]`; its properties speak of whichever structure the run has.

### How state and actions correspond to the code

* One action is one access of a shared atomic, in program order, together with
  the thread-local work up to the next one. `pc[t]` names the next access.
  Variables of the code keep their names where they do not collide
  (`next` is the field, `nxt` the local of `pop` and `dequeue`; locals that
  several operations share, like `temp` and `stptr`, are `ptr`).
* Atomics are sequentially consistent. The code uses weaker orders in places
  (`memory_order_release` for `clear` and `readUnlock`, relaxed for links of
  private nodes and for a thread's own slots); the models do not cover what
  these would add.
* A node has a life cycle, `status`: free, private, linked, retired, free. It is
  history except for free, which is the allocator's view.
* Locals that are not read again are reset, so that states differ only in what
  matters.
* The item that `Node`'s constructor fails to store (`item = item` in the hazard
  pointer, hazard era and IBR structures) is indeterminate: reading it yields
  any member of the constant `RawItems`, and nothing but `NothingLeaked` depends
  on what that is. The URCU structures store the item properly.
* `DrainingAs(0)`: after the join the main thread calls `pop(0)` or `dequeue(0)`
  until it returns nullptr, as the destructors do, then deletes the last node
  and, with the scheme's destructor, the retired nodes (IBR and URCU have none).
* The check of `quit` commutes with everything a thread does between calls, so
  one action ends a thread's loop.
* The hazard era and IBR structures, and the list with hazard pointers, do
  access deleted nodes (section 5). What follows is undefined: the thread stops
  at the label `undefined` and the run with it. The history variable `dangling`
  holds the threads whose node has been deleted since they obtained it; for a
  list it holds, for each thread, which of its locals (`pred`, `curr`, `nxt`)
  have. Properties of these modules are about everything up to that point.
* A link of a list is a pair of a node and its mark, since the code keeps the
  mark in the lowest bit of the pointer. `pred`, a pointer to an atomic, is NULL
  for `&head` and the node for the address of its `next`. After `find` has
  helped a node out it goes on with `curr = next`, which has its mark bit set:
  the next iteration loads `next` through a pointer that is one byte off
  (`curr->next` without `getUnmarked`). What is read there equals no link
  (`Misread`), so that the validation that follows sends `find` back to the
  start. (In the URCU list, which checks `next` against the sentinel first, the
  misread and that validation are one action, `FindFollowsMarked`.)
* The item of a list is stored correctly by its `Node`, so keys are exact there.
  The benchmark fills the list before it starts its threads:
  `main = "filling"`, in which the main thread adds keys as thread 0.
* The hazard pointer and the IBR list construct their scheme object from a
  member (`numofThreads`, `numThreads`) that has no value yet. `ThreadCounts` is
  what it may hold, `RawStats` what the words of `retireStat` may hold that are
  then not initialised: with a count of 0 no scan looks at any row.
* `remove` of the URCU list may leave a node that it has marked and could not
  unlink, for the next `find` to take out. When there is none, the destructor
  follows the marked link: `main = "undefined"`, where the model stops.
* Operators after a comment `fault:` are not part of any specification. Each is
  the form a definition takes under a plausible mistake, and shows that a
  property would notice it (the "mutants" of `PROJECT.json`).

## 3. Runs

| run | properties | distinct states |
|---|---|---|
| `stack_hp` | type, memory safety, single ownership, `IInv`, refines `SafeReclamation` and `LifoStack` | 152,991 |
| `hp` (queue and list) | type, `ProtectedSafe`, single ownership, `TailFollows`, `IInv`, the queue refines `SafeReclamation` and `FifoQueue`, the list `KeySet` | 459,806 |
| `hp_live` (all three) | lock-freedom, termination, no leak | 486,640 |
| `list_hp_unsafe` | *violated*: memory safety | |
| `urcu` (all three) | type, grace period, memory safety, `IInv`, nothing unreclaimed, refines `SafeReclamation`; stack and list also single ownership, and refine `LifoStack` and `KeySet` | 421,695 |
| `stack_urcu_live` | every grace period ends, termination | 190,889 |
| `queue_urcu_lost` | *violated*: an enqueued element stays | |
| `queue_urcu_live` | *violated*: the benchmark ends | |
| `he` (all three) | type, eras cover nodes, single ownership, `TailFollows`, `IInv`; the list refines `KeySet` | 922,147 |
| `he_unsafe` | *violated*: memory safety | |
| `ibr` (all three) | type, reservations keep old nodes, single ownership, `TailFollows`; the list refines `KeySet` | 1,390,364 |
| `ibr_unsafe` | *violated*: memory safety | |

What the deeper properties say:

* **`ReclaimsSafely`** is `SafeReclamation!Spec` under a refinement mapping:
  the guards of a thread are the nodes it may still touch after its validating
  read. Memory safety speaks of the access itself; this one says that the node is
  kept over the whole interval, which also excludes that it is freed and
  reallocated at the same address in between.
* **`Linearizable`** maps the linked nodes to an abstract stack or queue. The
  points are the successful exchange of `top`, of `head`, and for an enqueue the
  exchange that moves `tail` over the node (its own or a helper's); an empty
  result takes effect when the emptiness is read. Since addresses are reused,
  it fails if an exchange succeeds on a stale pointer.
* **`SetLinearizable`** is `KeySet!Spec` under the mapping that takes the keys of
  the linked nodes without a mark as the set. A successful `add` takes effect at
  its exchange of `pred`, a successful `remove` at its mark (not at the unlink),
  and an answer that changes nothing must have been right at some moment of the
  call: `KeySet` keeps, in `seen`, what the membership of the key has been since
  the call began. A node inserted behind a marked one, a node marked twice or a
  `find` that answers from a stale window breaks it.
* **`ProtectedSafe`** (hazard pointers): no thread reads a deleted node except
  through `curr` before it has been validated. In the queue that is plain memory
  safety; in the list it says that every other access is covered, through the
  hand-over of nodes from slot 0 to slot 1 and from 1 to 2 as `find` advances,
  and it is what is left to hold given the finding `list_hp_unsafe`.
* **`OneOwner`**: every allocated node is in exactly one place (structure, one
  entry of one retired list, one operation's hands) and the counters agree with
  the lists. A double free, a leak or a cyclic list breaks it. The nodes of a
  structure are the least set that contains its first node and is closed under
  `next` (`ChainSet`), and they form a chain in which no two links meet
  (`Straight`).
* **`TailFollows`**: `tail` is always on the list from `head`, at most one node
  from its end.
* **`GracePeriod`**: when `synchronizeRCU` returns, every reader that was inside
  its section at the call has left it. `GracePeriodEnds`: it does return.
* **`EraCovers`**: the era that `get_protected` leaves published lies between
  the creation and the retirement of the node it returns, for each slot in use,
  and goes on doing so when `protectEraRelease` copies the era of one slot to
  another while the list is walked: the part of the hazard eras protocol that the code gets right.
* **`OldNodesKept`** (a step property): no sweep frees a node a thread is using
  unless the node was born after the thread's reservation (in the list: for the
  nodes `find` relies on, until it ends the operation): the part of the IBR
  protocol that the code gets right.
* **`LockFree`**: if only *some* thread keeps running, calls keep completing. A
  list has finitely many calls in the model, so that for it the property says
  that they all end, and the structure is destroyed, even if a thread stops
  between its mark and its unlink.

### Bounds

Two threads throughout: every race described by the hazards is between two.

Addresses: enough for an address to be freed and allocated again while another
thread still holds it. `Nodes` has the addresses of a list; `Pool` (and
`StackPool`) those the other structures may use, and those a list has beside its
sentinels, which are never freed.

| run | stack | queue | list | other bounds |
|---|---|---|---|---|
| `stack_hp` | 3 | | | |
| `hp` | | 3 | 3 + sentinel | keys {0, 1}, 3 calls |
| `hp_live` | 2 | 3 | 3 + sentinel | one key, 3 calls |
| `list_hp_unsafe` | | | 3 + sentinel | keys {0, 1}, 3 calls |
| `urcu` | 4 | 4 | 3 + two sentinels | `MaxVersion` 2, two items; keys {0, 1}, 3 calls |
| `stack_urcu_live` | 3 | | | `MaxVersion` 2 |
| `queue_urcu_lost` | | 4 | | `MaxVersion` 5 |
| `queue_urcu_live` | | 3 | | `MaxVersion` 1 |
| `he`, `he_unsafe` | 3 | 3 | 3 + sentinel | `MaxEra` 4, with a stack 3; keys {0, 1}, 3 calls |
| `ibr`, `ibr_unsafe` | 3 | 3 | 3 + sentinel | `MaxEpoch` 3, with a stack 2; keys {0, 1}, 3 calls |

A list counts the calls of all threads after the fill loop (`MaxCalls`), stack
and queue do not: their runs are unbounded but for the counters that only grow,
`MaxEra`, `MaxEpoch` and `MaxVersion`, which bound the guard of the calls; drains
are never cut short. Three calls on a filled list are enough for two removals of
neighbours with a third call that helps, and for a key to be removed and added
again while a `find` still holds its node. The first key that the fill adds is
never compared with anything by `find` in the lists with a self-linked sentinel,
so that two keys are the least that order means anything for.

Each configuration says which of the five hazard slots its structures use (a
list three, a queue two, a stack one): the others are empty for ever.
`epochFreq` and `emptyFreq`, 150 and 30 in the code, are 1 and 2, so that epochs
differ between nodes and a sweep finds lists longer than one.
`RETIRED_NODES_THRESHOLD` is 0, as in the code. `StatRange` (8) stands for 2^64:
`retireStat` passes below zero in these runs. `ThreadCounts` is {0, 2}: the two
extremes, a scan that looks at no row and one that looks at all; a garbage count
in between protects some rows. `RawStats` is {0, 1}, one word that sweeps at once
and one that does not.

`RawItems` is `{x, NULL}`, so that a pop may seem to have found an empty
structure, except in `hp_live`, where it is `{x}`: with nullptr among the
items the destructor stops draining early and leaks what is left, which is what
`NothingLeaked` excludes of everything else.

Addresses are interchangeable (nothing orders them), which the safety runs use
as symmetry. Symmetry reduction is unsound for liveness, and the liveness runs
use none; `hp_live` only fixes which address the first node of a stack or a queue
has (`LiveSpecFrom`): every behaviour is one of these with the addresses renamed.

### Fairness

* `Fairness` (of `ProgramHP`) and `FairSpec` (URCU): weak fairness for every
  thread and for the main thread. The code has no priorities and no waiting
  primitive but joins and the spin of `synchronizeRCU`; the operating system runs
  every runnable thread. A step of the spin that finds an old reader changes
  nothing, so fairness does not help it. In `StackURCU` the main thread need not
  ever set `quit`, so `GracePeriodEnds` holds against readers that never stop.
* `LiveSpec` (of `ProgramHP`, in TLC as `LiveSpecFrom`): weak fairness of `Next` as
  a whole, which lets any thread be suspended for ever. `LockFree` is checked under
  this alone;
  `Terminates` adds `Fairness` as its premise.

No strong fairness is assumed. Termination under weak fairness holds because
threads stop calling after `quit`: each failed exchange is caused by a call that
succeeds.

## 4. Proofs

Every safety invariant that a run checks of the hazard pointer, the URCU and the
hazard era programs is a theorem, and so is that the structures of the first two
implement `SafeReclamation` and that the stack and the queue with hazard pointers
are linearizable, for every number of threads, addresses, slots, items and keys
and for every threshold. The assumptions are those that the modules declare:

* `HeapAssumption` (nullptr is no address and no item), `FiniteMemory` (finitely
  many addresses), `ThreadsAssumption` (at least one thread);
* `HPAssumption` (at least one slot, a threshold in the naturals, items that are
  read from memory are items or nullptr), `ErasAssumption` (the same of the hazard
  eras, whose clock has a bound in the model) and `SlotsAssumption` of either
  program (two slots for a queue, three for a list; the code has five);
* `VersionAssumption` (`UNASSIGNED` and `NOT_READING` are above every version
  that the bounded number of calls and a finite memory reach; in the code they are
  the two largest `uint64_t`), `ListAssumption` (finitely many keys and calls; in
  the URCU program also that two advances for each of them stay below
  `UNASSIGNED`).

### What is proved

| theorem | `StackHP` | `ProgramHP` | `ProgramURCU` | `ProgramHE` |
|---|---|---|---|---|
| `TypeCorrectness`: `[]TypeOK` | yes | yes | yes | yes |
| `Invariance`: `[]IInv` | yes | yes | yes | yes |
| `MemorySafety`: `[]MemorySafe` | yes | | yes | |
| `SlotsProtect`: `[]ProtectedSafe` (memory safety of stack and queue) | | yes | | |
| `ErasCover`: `[]EraCovers` | | | | yes |
| `SafeReclamationRefined`: `ReclaimsSafely` | yes | yes | yes | |
| `OwnedOnce`: `[]OneOwner` | yes | yes | yes | yes |
| `TailStaysClose`: `[]TailFollows` | | yes | | yes |
| `NothingLeft`: `[]NothingLeaked`, if no item is nullptr | yes | yes | | |
| `StackLinearizable`, `QueueLinearizable`: `Linearizable` | yes | yes | | |
| `GracePeriodHolds`: `[]GracePeriod` | | | yes | |
| `NothingUnreclaimed`: `[]NoneUnreclaimed` | | | yes | |

`NothingLeft` has the hypothesis `NULL \notin RawItems`: with a nullptr among the
items that may be read, the destructor's loop ends early and the code does leak.
`MemorySafe` of the list with hazard pointers is false (finding 3), which is why
`ProgramHP` has `ProtectedSafe` in its place: for the list it speaks of the nodes
that `find` has validated. For the same reason `ReclaimsSafely` has no guards with
that list, and says of it that nodes are linked, unlinked, retired and reclaimed
in that order, each once.

### Hazard pointers

`MemorySafe` alone is not inductive: the danger is a scan that has passed a slot
before the pointer was published. In every structure `IInv` says, of the scheme:

* `RetiredOnce`, `CountsRetired`: an entry of a retired list is a retired node,
  there is one for it in all lists, and `retiredCount` is the number of entries, so
  that freeing one candidate frees nobody else's node;
* `ScanInRange`: the indices of a scan are those of the candidate and of a slot;
* `Shields(t, s, n)`: slot s of t holds n, and no scan that has passed this slot
  still means to delete n. For the stack this is `ScanSound`.

and of the structure:

* `ProtectPublished`, `Published`: what `protect` returns is in its slot;
* `FoundShielded`: what an operation has *validated* is linked or retired and is
  shielded. A thread comes to rely on a *linked* node only (the second load of
  `top`, `head`, `tail`, or of `*pred`), while the candidate of a scan is retired,
  so nobody is found behind the scan; and a slot that shields is given up only
  after another one has taken over. In `find` this is the hand-over from slot 0
  to 1 and from 1 to 2: the store into the new slot is made while the old one
  still shields the node, so a scan that has passed the new slot before the store
  has yet to come to the old one, or has already found the node there. It goes
  through since the slots of a thread are scanned in ascending order and the
  hand-overs go upwards;
* `StackShape`, `QueueShape`, `ListShape`: linked nodes lead to linked nodes, no
  two to the same, none to the first. In the queue tail is one of the last two;
* `TailAhead`: a dequeue that goes on from head has found the tail elsewhere;
* `OwnsNode`, `PoppedByOne`, `DequeuedByOne`, `RemovedByOne`: a private node has
  one owner, and so has a node that has been taken out and is not yet retired;
* `MainAlone`: the destructor runs when no thread is inside an operation.

The list has, beside `ListHP!IInv`, what does not depend on the scheme, `ListInv`
of `LoopedList`: a linked node that is marked keeps its link; `Traverses` says
what `pred`, `curr` and `next` of a thread are as long as their nodes are not
deleted. `find` reads nodes that may be deleted before it has validated them
(finding 3): of those (`dangling`) nothing is said, and the model stops where such
a read is used, so that the theorems are about everything up to that point, and
about a node from the moment on at which it has been validated.

### URCU

`GracePeriod` alone says nothing of an updater that is still waiting. The scheme's
half of `IInv` is `Grace` of `URCU`, at the labels that the structure has between
`readLock` and `readUnlock`:

* `Announced`: no thread announces, or is about to announce, a version above
  `updaterVersion`. A thread may announce an *old* one, since it loads and stores
  the version in two steps, but then it checks it again before it goes on;
* `OldReadersHeld`: a reader that was in its section when an updater chose the
  version to wait for, and still is, announces at most that version, and the loop
  of `synchronizeRCU` has not passed it: the loop can advance only where the
  announced version is above the one it waits for;
* `LoopAtStart`: each wait begins with thread 0, so that no reader is skipped.

The scheme's steps are proved once, for any set of section labels. For each
structure `StackStep`, `QueueStep` and `ListStep` show that a step is either one
of the scheme's or leaves its variables alone and begins no section.

The structure's half ties the wait to the nodes:

* `ReaderKeepsNode(s)`: what an operation relies on is linked or retired, and
  whoever has it to free either has not begun to wait or has the operation's
  thread among the readers it waits for. When the wait is over that set is empty,
  so nobody relies on the node;
* `StackShape`, `QueueShape`, `ListShape`, as above. In the queue a link may be
  overwritten (finding 1), and threads go on from the one they have read:
  `QueueShape` is about the links in memory *and* those that threads have read or
  made (`LeadsTo`), which is why memory stays safe although elements are lost;
* `TailAhead`: a dequeue whose node is at the head still has the tail elsewhere,
  so that its exchange does not take out the node that tail points to;
* `MarkedKeepsLink`: a marked node of the list keeps its link until it is freed,
  so that whoever unlinks it does so with its successor;
* `PushOwnsNode`, `EnqOwnsNode`, `AddOwnsNode`, `PoppedByOne`, `DequeuedByOne`,
  `RetiredOnce`: a private node has one owner, and a retired one is freed by one
  thread, once: also the nodes that a `find` has unlinked for its caller and keeps
  in a list of its own.

The proof covers the early returns of the queue that never unlock (finding 2):
they block updaters, but break neither grace periods nor memory safety.

`VersionBounded`, behind the type of `updaterVersion`, bounds how far the counter
gets. A call begins only when the counter is within `MaxVersion`, and each thread
advances it at most once per call (a call of the list twice); while the main
thread drains the structure, each further advance is paid for by a node that it
has unlinked (`LeftToPop`, `LeftToDequeue`). The arguments about two sets of
threads that shrink are in `BoundKept`, `BoundTwice` and `BoundOfCall`.

### Hazard eras

Nothing keeps a node that another thread is about to free (finding 4), so that
`IInv` says of every state before the first use of a deleted node what the
published eras are worth. Of the scheme:

* `RetiredOnce`, `CountsRetired`: as with hazard pointers;
* `ErasReached`: no era that anybody has read is later than the clock;
* `RetiredBefore`: what a `retireNode` finds in its own list when it looks at the
  clock again was retired in the era it loaded, or earlier.

and of the structure:

* `LoadedLives`: between the load of a pointer and the look at the clock behind it
  (`get_protected`), the node is not freed as long as the clock still shows the
  published era (`EraFits`). For a sweep of the list that holds it begins only
  when the clock has moved beyond the era in which the node was retired, by the
  sweeper or by somebody else, and then the second look fails;
* `GuardedLives`, and for the list `Covered`: from that look on, the era in the
  slot lies within the life of the node (`Covers`), until the node is freed: the
  era is not before `newEra`, which is written once, and not after `delEra`, which
  is written when the clock is no earlier than every published era;
* `NextCovered`, and for the list `LoadedFits`: the same of the successor of a node
  that is still linked, for which the next slot is used: it was born before it was
  linked, and is not retired while the node in front of it is linked and leads to it;
* `StackShape`, `QueueShape`, `ListInv`, `OwnsNode`, `PoppedByOne`,
  `DequeuedByOne`, `RemovedByOne`, `MainAlone`: as above.

`Placed` is as with hazard pointers. In `ProgramHEProofs` the lemmas of the scheme,
which `ListHEProofs` proves, are carried over to the instances of the stack and the
queue (`StackScheme`, `QueueScheme`), and the list to that of the program
(`SameList`).

### Where the nodes are

`OneOwner`, `NothingLeaked` and `NoneUnreclaimed` rest on two more invariants of
each structure, inductive together with `IInv`:

* `Placed`: every linked node is reached from the first one, every private node
  is in the hands of an operation (`Holds`), every retired one in the hands of one
  or in a retired list; for URCU also that `retired_nodes_count` is what the thread
  has still to free (`Counts`), and a thread between its calls has nothing;
* `Drained`: a removal by the destructor that returns nothing has found the
  structure empty. For the queue this needs `TailSwung` (tail lags only while the
  enqueue that linked the last node has still to swing it, and no enqueue is left
  when the destructor runs); for the URCU stack, that only the sentinel, which is
  the last node, has no item.

What is reached is defined without recursion, `ChainSet` being the least closed
set: that a push, a removal or an insertion changes it as it should is proved by
giving, for each closed set of the new links, one of the old links (`HeapProofs`),
and needs no induction. That `ChainSet` is all of `Linked` follows from `Placed`
on one side and from the shape, which makes `Linked` itself a closed set, on the
other.

### Linearizability

`Linearizable` maps the nodes that a walk over the links meets, in their order, to
the sequence of `LifoStack` or `FifoQueue`. `Ordered` says that there is a sequence
without repetitions along the links (`IsChain`), from the first node to the last
one, or to tail, for the queue's walk ends there, and is inductive together with
`IInv`: each step leaves that sequence alone, puts a node before it, takes its first
one, or appends one (`ChainPushed`, `ChainPopped`, `ChainAppended`). That the walk
of `ChainTo` returns this sequence (`ChainComputed`) is the one induction, over the
steps of the walk, which ends within as many steps as there are addresses; it is
made with the set of the steps at which the two agree (`SetInduction`), and is why
`FiniteMemory` is assumed. `NextLifo` and `NextFifo` then show, action by action,
which operation of the abstract structure takes effect. Addresses come back while
threads still hold them, so the argument is again that an exchange succeeds only
when the node it replaces has been shielded since it was validated.

### How the proofs are laid out

There is a lemma per action, or per group of actions that change only locals
(`...Inv`, `...Kept`; `StackLocalInv`, `QueueLocalInv`, `ListLocalInv`); a step of
one thread keeps what is said of another because of what such a step may do to a
node at all (`OthersKept`, `QuietKeeps`, `QueueReadersKept`). The `...Maps` lemmas
classify the steps as those of `SafeReclamation` by what they do to life cycles
and guards. The programs reduce a step to one of the structure that runs
(`StepOfStructure`; `SameStack`, `SameQueue` and `SameList`, where the lemmas of the
structures are taken through `INSTANCE`, show that the definitions there are those
of the program, one after the other). The module of a structure begins with what
it needs of the scheme, and that of a list with what holds of the list whatever
its scheme. The runs `stack_hp`, `hp`, `urcu` and `he` check the `IInv` of
their module on the bounded instance; that of `ProgramURCU` contains `Placed`,
`Drained` and `VersionBounded`.

### What stays with TLC

Liveness under fairness and `ENABLED`; `Linearizable` of the URCU stack, whose
walk would be followed in the same way, and `SetLinearizable`, which needs an
induction over the keys that a `find` has passed; and everything about IBR.

## 5. Where the code disagrees with what is said of it

Each of these is a run that TLC finds violated, and a finding in `PROJECT.json`.

1. `urcu/QueueURCU.hpp:87`: `ptrnull` keeps the value of a failed exchange; the
   next exchange replaces another thread's link, and elements are lost.
2. `urcu/QueueURCU.hpp:127`: `dequeue` returns inside its read-side section
   without `readUnlock`; every other thread's `synchronizeRCU` then spins for
   ever.
3. `hazardpointer/LinkedListHazardPointer.hpp:129`: `find` reads `curr->next`
   before it checks, at l. 139, that `pred` still leads to `curr`; the node may
   have been retired and scanned before the slot was written, and is deleted.
4. `hazarderas/hazarderas.hpp:87`: `canRemoveNode` looks at the row of the
   calling thread for every thread; a node in use by another thread is deleted.
5. `intervalbasedrec/IntervalBasedReclamation.hpp:87`: only nodes born at or
   before the reserved epoch are protected; an operation can load younger ones.

One more needs no run: `item = item` in the constructor of `Node`
(`hazardpointer/StackHazardPointer.hpp:19`, and the same line in the hazard era
and IBR structures) assigns the parameter to itself, so what a removal returns is
indeterminate; `RawItems` stands for it.

## 6. Components, properties and what is left

| component | status | properties checked |
|---|---|---|
| hazard pointers, stack | modelled; every safety invariant and the refinement of `SafeReclamation` proved | safety, refinements, liveness |
| hazard pointers, queue | modelled; every safety invariant and the refinement of `SafeReclamation` proved | safety, refinements, liveness |
| hazard pointers, list | modelled up to the first use of a deleted node; every safety invariant and the refinement proved | protection, ownership, set of keys, liveness; one finding |
| URCU, stack | modelled; every safety invariant and the refinement of `SafeReclamation` proved | safety, refinements, liveness |
| URCU, queue | modelled; every safety invariant and the refinement of `SafeReclamation` proved | safety of memory; two findings |
| URCU, list | modelled; every safety invariant and the refinement of `SafeReclamation` proved | safety, refinements |
| hazard eras, three structures | modelled up to the first use of a deleted node; every safety invariant proved | eras, ownership, order of head and tail, set of keys; one finding |
| IBR, three structures | modelled up to the first use of a deleted node | reservations, ownership, order, set of keys; one finding |
| benchmark | choice of structure, fill of the list, client loop modelled | termination, nothing unreclaimed |

Not modelled:

* weak memory orders;
* `retireStat` and counters at their true width (wrap-around is modelled with a
  small range);
* accesses beyond the arrays of 40 rows (the hazard era and URCU benchmarks start
  64 threads), and garbage thread counts above the number of threads, which only
  add rows that are empty or lie beyond the arrays;
* what the destructor of the URCU list does after it has followed a marked link,
  and whatever any program does after it has used a deleted node;
* the statistics and printing of the benchmark, its random mix (any mix is
  allowed), its loops over repetitions and thread counts, its graphs.

### Plan

1. **Proofs about IBR**: `OldNodesKept`, a property of steps, from an invariant
   that ties a sweep's copy of the reservations to the reservations themselves;
   then `OneOwner` and `TailFollows`.
2. Three threads for `StackHP` and `StackURCU` where the state space allows it.
