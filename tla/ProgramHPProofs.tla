--------------------------- MODULE ProgramHPProofs ---------------------------
(***************************************************************************)
(* What is proved of ProgramHP, for any number of threads, slots,          *)
(* addresses, items and keys and for each of the three structures: its     *)
(* invariant is inductive, so that every variable keeps its type, slots    *)
(* protect what they are meant to protect, nodes are reclaimed safely,     *)
(* every node has one owner, tail is at most one behind, the destructor    *)
(* leaks nothing, and the queue is linearizable.                           *)
(*                                                                         *)
(* The steps of each structure are proved about in StackHPProofs,          *)
(* QueueHPProofs and ListHPProofs.                                         *)
(***************************************************************************)
EXTENDS ProgramHP, TLAPS

StackP == INSTANCE StackHPProofs
QueueP == INSTANCE QueueHPProofs
ListP == INSTANCE ListHPProofs

(* Those modules assume of the constants what ProgramHP assumes.           *)
LEMMA FiniteThere ==
  /\ StackP!IsFiniteSet(Nodes) /\ QueueP!IsFiniteSet(Nodes)
  /\ ListP!IsFiniteSet(Nodes)
BY FiniteMemory
   DEF IsFiniteSet, StackP!IsFiniteSet, QueueP!IsFiniteSet, ListP!IsFiniteSet

USE HeapAssumption, FiniteThere, ThreadsAssumption, HPAssumption

-----------------------------------------------------------------------------
(* What the proofs are about is what the program is made of.               *)

(* The stack of StackHPProofs is that of the program.                      *)
LEMMA SameStack ==
  /\ Stack!Init <=> StackP!Init
  /\ Stack!Next <=> StackP!Next
  /\ Stack!IInv <=> StackP!IInv
  /\ Stack!IInv' <=> StackP!IInv'
  /\ Stack!vars = StackP!vars
  /\ Stack!MemorySafe <=> StackP!MemorySafe
  /\ Stack!TypeOK <=> StackP!TypeOK
  /\ \A t : Stack!Guards(t) = StackP!Guards(t)
  /\ \A t : Stack!Guards(t)' = StackP!Guards(t)'
<1>1. \A t, scanning, done : Stack!RetireScan(t, scanning, done) <=>
        StackP!RetireScan(t, scanning, done)
  BY DEF Stack!Goto, StackP!Goto, Stack!NextCandidate, StackP!NextCandidate,
         Stack!ScanStart, StackP!ScanStart, Stack!ScanContinue,
         StackP!ScanContinue, Stack!ScannedAll, StackP!ScannedAll,
         Stack!heapVars, StackP!heapVars, Stack!hpVars, StackP!hpVars,
         Stack!Keep, StackP!Keep, Stack!Candidate, StackP!Candidate,
         Stack!Delete, StackP!Delete, Stack!RemoveAt, StackP!RemoveAt,
         Stack!ToSet, StackP!ToSet, Stack!Reclaim, StackP!Reclaim,
         Stack!Blocked, StackP!Blocked, Stack!Matches, StackP!Matches,
         Stack!NextSlot, StackP!NextSlot, Stack!ScanSlot, StackP!ScanSlot,
         Stack!RetireScan, StackP!RetireScan
<1>2. \A t : Stack!PopStep(t) <=> StackP!PopStep(t)
  BY <1>1
     DEF Stack!Goto, StackP!Goto, Stack!hpLocals, StackP!hpLocals,
         Stack!hpVars, StackP!hpVars, Stack!PopCas, StackP!PopCas,
         Stack!heapVars, StackP!heapVars, Stack!locals, StackP!locals,
         Stack!PopCheck, StackP!PopCheck, Stack!AfterRetirePush,
         StackP!AfterRetirePush, Stack!ScanStart, StackP!ScanStart,
         Stack!RetirePush, StackP!RetirePush, Stack!PopItem, StackP!PopItem,
         Stack!PopNext, StackP!PopNext, Stack!ProtectDone,
         StackP!ProtectDone, Stack!ProtectLoad, StackP!ProtectLoad,
         Stack!PopProtect, StackP!PopProtect, Stack!Publish, StackP!Publish,
         Stack!ProtectStore, StackP!ProtectStore, Stack!PopPublish,
         StackP!PopPublish, Stack!PopRetire, StackP!PopRetire,
         Stack!PopStep, StackP!PopStep
<1>3. /\ \A t : Stack!PushStep(t) <=> StackP!PushStep(t)
      /\ \A t : Stack!PushCall(t) <=> StackP!PushCall(t)
      /\ \A t : Stack!PopCall(t) <=> StackP!PopCall(t)
      /\ \A t : Stack!Return(t) <=> StackP!Return(t)
      /\ \A t : Stack!ThreadExit(t) <=> StackP!ThreadExit(t)
  BY DEF Stack!Goto, StackP!Goto, Stack!hpLocals, StackP!hpLocals,
         Stack!hpVars, StackP!hpVars, Stack!locals, StackP!locals,
         Stack!PushCas, StackP!PushCas, Stack!PushCheck, StackP!PushCheck,
         Stack!heapVars, StackP!heapVars, Stack!ArgumentLoad,
         StackP!ArgumentLoad, Stack!PushLoad, StackP!PushLoad,
         Stack!Publish, StackP!Publish, Stack!StoreHazardPtr,
         StackP!StoreHazardPtr, Stack!PushPublish, StackP!PushPublish,
         Stack!PushStep, StackP!PushStep, Stack!Calling, StackP!Calling,
         Stack!New, StackP!New, Stack!PushCall, StackP!PushCall,
         Stack!DrainingAs, StackP!DrainingAs, Stack!PopCall, StackP!PopCall,
         Stack!ClearSlot, StackP!ClearSlot, Stack!ReturnItem,
         StackP!ReturnItem, Stack!Return, StackP!Return, Stack!LeaveLoop,
         StackP!LeaveLoop, Stack!ThreadExit, StackP!ThreadExit
<1>4. /\ Stack!MainStep <=> StackP!MainStep
      /\ Stack!Finished <=> StackP!Finished
  BY DEF Stack!Delete, StackP!Delete, Stack!DeleteStructure,
         StackP!DeleteStructure, Stack!RemoveAt, StackP!RemoveAt,
         Stack!ToSet, StackP!ToSet, Stack!Retired, StackP!Retired,
         Stack!Threads, StackP!Threads, Stack!hpLocals, StackP!hpLocals,
         Stack!locals, StackP!locals, Stack!Destroy, StackP!Destroy,
         Stack!JoinThreads, StackP!JoinThreads, Stack!heapVars,
         StackP!heapVars, Stack!hpVars, StackP!hpVars, Stack!Join,
         StackP!Join, Stack!QuitSignal, StackP!QuitSignal, Stack!Quit,
         StackP!Quit, Stack!MainStep, StackP!MainStep, Stack!Destroyed,
         StackP!Destroyed, Stack!vars, StackP!vars, Stack!Finished,
         StackP!Finished
<1>5. Stack!Next <=> StackP!Next
  BY <1>2, <1>3, <1>4
     DEF Stack!ThreadStep, StackP!ThreadStep, Stack!Threads, StackP!Threads,
         Stack!Next, StackP!Next
<1>6. Stack!TypeOK <=> StackP!TypeOK
  BY DEF Stack!NodeOrNull, StackP!NodeOrNull, Stack!Slots, StackP!Slots,
         Stack!Threads, StackP!Threads, Stack!HPTypeOK, StackP!HPTypeOK,
         Stack!Statuses, StackP!Statuses, Stack!HeapTypeOK,
         StackP!HeapTypeOK, Stack!GuardLabels, StackP!GuardLabels,
         Stack!PopLabels, StackP!PopLabels, Stack!PushLabels,
         StackP!PushLabels, Stack!Labels, StackP!Labels, Stack!MainStates,
         StackP!MainStates, Stack!TypeOK, StackP!TypeOK
<1>7. Stack!IInv <=> StackP!IInv
  BY <1>6
     DEF Stack!Destroyed, StackP!Destroyed, Stack!Threads, StackP!Threads,
         Stack!CountsRetired, StackP!CountsRetired, Stack!GuardedByHP,
         StackP!GuardedByHP, Stack!GuardPublished, StackP!GuardPublished,
         Stack!PushLabels, StackP!PushLabels, Stack!MainAlone,
         StackP!MainAlone, Stack!PoppedByOne, StackP!PoppedByOne,
         Stack!ProtectPublished, StackP!ProtectPublished,
         Stack!PushOwnsNode, StackP!PushOwnsNode, Stack!RetiredOnce,
         StackP!RetiredOnce, Stack!Candidate, StackP!Candidate,
         Stack!Passed, StackP!Passed, Stack!ScanSound, StackP!ScanSound,
         Stack!StackShape, StackP!StackShape, Stack!IInv, StackP!IInv
<1>8. /\ Stack!Init <=> StackP!Init
      /\ Stack!vars = StackP!vars
      /\ Stack!MemorySafe <=> StackP!MemorySafe
      /\ \A t : Stack!Guards(t) = StackP!Guards(t)
  BY DEF Stack!Threads, StackP!Threads, Stack!BenchmarkInit,
         StackP!BenchmarkInit, Stack!ScanStart, StackP!ScanStart,
         Stack!Slots, StackP!Slots, Stack!HPInit, StackP!HPInit,
         Stack!HeapWithSentinel, StackP!HeapWithSentinel, Stack!Init,
         StackP!Init, Stack!heapVars, StackP!heapVars, Stack!hpLocals,
         StackP!hpLocals, Stack!hpVars, StackP!hpVars, Stack!locals,
         StackP!locals, Stack!vars, StackP!vars, Stack!Accesses,
         StackP!Accesses, Stack!Allocated, StackP!Allocated,
         Stack!MemorySafe, StackP!MemorySafe, Stack!GuardLabels,
         StackP!GuardLabels, Stack!Guards, StackP!Guards
<1>9. Stack!IInv' <=> StackP!IInv'
  BY <1>7, PTL
<1>10. \A t : Stack!Guards(t)' = StackP!Guards(t)'
  BY DEF Stack!GuardLabels, StackP!GuardLabels, Stack!Guards, StackP!Guards
<1> QED BY <1>5, <1>6, <1>7, <1>8, <1>9, <1>10

(* So are the properties of the places of its nodes.                       *)
LEMMA SameStackPlaces ==
  /\ Stack!OneOwner <=> StackP!OneOwner
  /\ Stack!Placed <=> StackP!Placed
  /\ Stack!Placed' <=> StackP!Placed'
  /\ Stack!Drained <=> StackP!Drained
  /\ Stack!Drained' <=> StackP!Drained'
BY DEF
    Stack!Allocated, StackP!Allocated, Stack!Linked, StackP!Linked,
    Stack!Closed, StackP!Closed, Stack!ChainSet, StackP!ChainSet,
    Stack!Reaches, StackP!Reaches, Stack!Straight, StackP!Straight,
    Stack!EntriesOf, StackP!EntriesOf, Stack!InOnePlace, StackP!InOnePlace,
    Stack!Threads, StackP!Threads, Stack!Destroyed, StackP!Destroyed,
    Stack!InNoList, StackP!InNoList, Stack!PushLabels, StackP!PushLabels,
    Stack!Holds, StackP!Holds, Stack!OneOwner, StackP!OneOwner, Stack!Placed,
    StackP!Placed, Stack!Drained, StackP!Drained, Stack!Cardinality,
    StackP!Cardinality

(* The queue of QueueHPProofs is that of the program.                      *)
LEMMA SameQueue ==
  /\ Queue!Init <=> QueueP!Init
  /\ Queue!Next <=> QueueP!Next
  /\ Queue!IInv <=> QueueP!IInv
  /\ Queue!IInv' <=> QueueP!IInv'
  /\ Queue!vars = QueueP!vars
  /\ Queue!MemorySafe <=> QueueP!MemorySafe
  /\ Queue!TypeOK <=> QueueP!TypeOK
  /\ \A t : Queue!Guards(t) = QueueP!Guards(t)
  /\ \A t : Queue!Guards(t)' = QueueP!Guards(t)'
  /\ Queue!EnoughSlots <=> QueueP!EnoughSlots
<1>1. \A t, scanning, done : Queue!RetireScan(t, scanning, done) <=>
        QueueP!RetireScan(t, scanning, done)
  BY DEF Queue!Goto, QueueP!Goto, Queue!NextCandidate, QueueP!NextCandidate,
         Queue!ScanStart, QueueP!ScanStart, Queue!ScanContinue,
         QueueP!ScanContinue, Queue!ScannedAll, QueueP!ScannedAll,
         Queue!heapVars, QueueP!heapVars, Queue!hpVars, QueueP!hpVars,
         Queue!Keep, QueueP!Keep, Queue!Candidate, QueueP!Candidate,
         Queue!Delete, QueueP!Delete, Queue!RemoveAt, QueueP!RemoveAt,
         Queue!ToSet, QueueP!ToSet, Queue!Reclaim, QueueP!Reclaim,
         Queue!Blocked, QueueP!Blocked, Queue!Matches, QueueP!Matches,
         Queue!NextSlot, QueueP!NextSlot, Queue!ScanSlot, QueueP!ScanSlot,
         Queue!RetireScan, QueueP!RetireScan
<1>2. /\ \A t : Queue!DeqRetire(t) <=> QueueP!DeqRetire(t)
      /\ \A t : Queue!DeqClear(t) <=> QueueP!DeqClear(t)
      /\ \A t : Queue!DeqReturn(t) <=> QueueP!DeqReturn(t)
      /\ \A t : Queue!DeqItem(t) <=> QueueP!DeqItem(t)
  BY <1>1
     DEF Queue!ends, QueueP!ends, Queue!locals, QueueP!locals,
         Queue!DeqRetire, QueueP!DeqRetire, Queue!AfterRetirePush,
         QueueP!AfterRetirePush, Queue!Goto, QueueP!Goto, Queue!ClearSlot,
         QueueP!ClearSlot, Queue!ScanStart, QueueP!ScanStart,
         Queue!RetirePush, QueueP!RetirePush, Queue!heapVars,
         QueueP!heapVars, Queue!DeqClear, QueueP!DeqClear, Queue!ReturnItem,
         QueueP!ReturnItem, Queue!hpVars, QueueP!hpVars, Queue!DeqReturn,
         QueueP!DeqReturn, Queue!hpLocals, QueueP!hpLocals, Queue!DeqItem,
         QueueP!DeqItem
<1>3. \A t : Queue!DeqStep(t) <=> QueueP!DeqStep(t)
  BY <1>2
     DEF Queue!Goto, QueueP!Goto, Queue!hpLocals, QueueP!hpLocals,
         Queue!hpVars, QueueP!hpVars, Queue!DeqCas, QueueP!DeqCas,
         Queue!ProtectDone, QueueP!ProtectDone, Queue!heapVars,
         QueueP!heapVars, Queue!ProtectLoad, QueueP!ProtectLoad, Queue!ends,
         QueueP!ends, Queue!locals, QueueP!locals, Queue!DeqProtect,
         QueueP!DeqProtect, Queue!DeqProtectNext, QueueP!DeqProtectNext,
         Queue!Publish, QueueP!Publish, Queue!ProtectStore,
         QueueP!ProtectStore, Queue!DeqPublish, QueueP!DeqPublish,
         Queue!DeqPublishNext, QueueP!DeqPublishNext, Queue!DeqTail,
         QueueP!DeqTail, Queue!DeqStep, QueueP!DeqStep
<1>4. \A t : Queue!EnqStep(t) <=> QueueP!EnqStep(t)
  BY DEF Queue!Goto, QueueP!Goto, Queue!ends, QueueP!ends, Queue!heapVars,
         QueueP!heapVars, Queue!hpLocals, QueueP!hpLocals, Queue!hpVars,
         QueueP!hpVars, Queue!locals, QueueP!locals, Queue!EnqCheck,
         QueueP!EnqCheck, Queue!EnqHelp, QueueP!EnqHelp, Queue!EnqLink,
         QueueP!EnqLink, Queue!ArgumentLoad, QueueP!ArgumentLoad,
         Queue!EnqLoad, QueueP!EnqLoad, Queue!EnqNext, QueueP!EnqNext,
         Queue!Publish, QueueP!Publish, Queue!StoreHazardPtr,
         QueueP!StoreHazardPtr, Queue!EnqPublish, QueueP!EnqPublish,
         Queue!EnqSwing, QueueP!EnqSwing, Queue!EnqStep, QueueP!EnqStep
<1>5. /\ \A t : Queue!EnqCall(t) <=> QueueP!EnqCall(t)
      /\ \A t : Queue!DeqCall(t) <=> QueueP!DeqCall(t)
      /\ \A t : Queue!Return(t) <=> QueueP!Return(t)
      /\ \A t : Queue!ThreadExit(t) <=> QueueP!ThreadExit(t)
  BY DEF Queue!Calling, QueueP!Calling, Queue!Goto, QueueP!Goto, Queue!New,
         QueueP!New, Queue!ends, QueueP!ends, Queue!hpLocals,
         QueueP!hpLocals, Queue!hpVars, QueueP!hpVars, Queue!EnqCall,
         QueueP!EnqCall, Queue!DrainingAs, QueueP!DrainingAs,
         Queue!heapVars, QueueP!heapVars, Queue!locals, QueueP!locals,
         Queue!DeqCall, QueueP!DeqCall, Queue!ClearSlot, QueueP!ClearSlot,
         Queue!ReturnItem, QueueP!ReturnItem, Queue!Return, QueueP!Return,
         Queue!LeaveLoop, QueueP!LeaveLoop, Queue!ThreadExit,
         QueueP!ThreadExit
<1>6. /\ Queue!MainStep <=> QueueP!MainStep
      /\ Queue!Finished <=> QueueP!Finished
  BY DEF Queue!Delete, QueueP!Delete, Queue!DeleteStructure,
         QueueP!DeleteStructure, Queue!RemoveAt, QueueP!RemoveAt,
         Queue!ToSet, QueueP!ToSet, Queue!Retired, QueueP!Retired,
         Queue!Threads, QueueP!Threads, Queue!hpLocals, QueueP!hpLocals,
         Queue!locals, QueueP!locals, Queue!Destroy, QueueP!Destroy,
         Queue!JoinThreads, QueueP!JoinThreads, Queue!ends, QueueP!ends,
         Queue!heapVars, QueueP!heapVars, Queue!hpVars, QueueP!hpVars,
         Queue!Join, QueueP!Join, Queue!QuitSignal, QueueP!QuitSignal,
         Queue!Quit, QueueP!Quit, Queue!MainStep, QueueP!MainStep,
         Queue!Destroyed, QueueP!Destroyed, Queue!vars, QueueP!vars,
         Queue!Finished, QueueP!Finished
<1>7. Queue!Next <=> QueueP!Next
  BY <1>3, <1>4, <1>5, <1>6
     DEF Queue!ThreadStep, QueueP!ThreadStep, Queue!Threads, QueueP!Threads,
         Queue!Next, QueueP!Next
<1>8. Queue!TypeOK <=> QueueP!TypeOK
  BY DEF Queue!NodeOrNull, QueueP!NodeOrNull, Queue!Slots, QueueP!Slots,
         Queue!Threads, QueueP!Threads, Queue!HPTypeOK, QueueP!HPTypeOK,
         Queue!Statuses, QueueP!Statuses, Queue!HeapTypeOK,
         QueueP!HeapTypeOK, Queue!DeqLabels, QueueP!DeqLabels,
         Queue!EnqLabels, QueueP!EnqLabels, Queue!Labels, QueueP!Labels,
         Queue!MainStates, QueueP!MainStates, Queue!TypeOK, QueueP!TypeOK
<1>9. \A scanning : Queue!Scheme(scanning) <=> QueueP!Scheme(scanning)
  BY DEF Queue!Destroyed, QueueP!Destroyed, Queue!Threads, QueueP!Threads,
         Queue!CountsRetired, QueueP!CountsRetired, Queue!RetiredOnce,
         QueueP!RetiredOnce, Queue!ScanInRange, QueueP!ScanInRange,
         Queue!NodeOrNull, QueueP!NodeOrNull, Queue!Slots, QueueP!Slots,
         Queue!ScanTypes, QueueP!ScanTypes, Queue!Scheme, QueueP!Scheme
<1>10. \A t : Queue!ThreadInv(t) <=> QueueP!ThreadInv(t)
  BY DEF Queue!Dequeued, QueueP!Dequeued, Queue!Threads, QueueP!Threads,
         Queue!InNoList, QueueP!InNoList, Queue!DequeuedByOne,
         QueueP!DequeuedByOne, Queue!FoundHead, QueueP!FoundHead,
         Queue!FoundTail, QueueP!FoundTail, Queue!Found, QueueP!Found,
         Queue!NodeOrNull, QueueP!NodeOrNull, Queue!Candidate,
         QueueP!Candidate, Queue!Past, QueueP!Past, Queue!Shields,
         QueueP!Shields, Queue!Slots, QueueP!Slots, Queue!FoundShielded,
         QueueP!FoundShielded, Queue!EnqLabels, QueueP!EnqLabels,
         Queue!Enqueuing, QueueP!Enqueuing, Queue!OwnsNode, QueueP!OwnsNode,
         Queue!ProtectPublished, QueueP!ProtectPublished, Queue!TailAhead,
         QueueP!TailAhead, Queue!ThreadInv, QueueP!ThreadInv
<1>11. Queue!IInv <=> QueueP!IInv
  BY <1>8, <1>9, <1>10
     DEF Queue!Destroyed, QueueP!Destroyed, Queue!EnqLabels,
         QueueP!EnqLabels, Queue!Threads, QueueP!Threads, Queue!MainAlone,
         QueueP!MainAlone, Queue!QueueShape, QueueP!QueueShape, Queue!IInv,
         QueueP!IInv
<1>12. /\ Queue!Init <=> QueueP!Init
       /\ Queue!vars = QueueP!vars
       /\ Queue!MemorySafe <=> QueueP!MemorySafe
       /\ \A t : Queue!Guards(t) = QueueP!Guards(t)
       /\ Queue!EnoughSlots <=> QueueP!EnoughSlots
  BY DEF Queue!Threads, QueueP!Threads, Queue!BenchmarkInit,
         QueueP!BenchmarkInit, Queue!ScanStart, QueueP!ScanStart,
         Queue!Slots, QueueP!Slots, Queue!HPInit, QueueP!HPInit,
         Queue!HeapWithSentinel, QueueP!HeapWithSentinel, Queue!Init,
         QueueP!Init, Queue!ends, QueueP!ends, Queue!heapVars,
         QueueP!heapVars, Queue!hpLocals, QueueP!hpLocals, Queue!hpVars,
         QueueP!hpVars, Queue!locals, QueueP!locals, Queue!vars,
         QueueP!vars, Queue!Accesses, QueueP!Accesses, Queue!Allocated,
         QueueP!Allocated, Queue!MemorySafe, QueueP!MemorySafe,
         Queue!Guards, QueueP!Guards, Queue!EnoughSlots, QueueP!EnoughSlots
<1>13. Queue!IInv' <=> QueueP!IInv'
  BY <1>11, PTL
<1>14. \A t : Queue!Guards(t)' = QueueP!Guards(t)'
  BY DEF Queue!Guards, QueueP!Guards
<1> QED BY <1>7, <1>8, <1>11, <1>12, <1>13, <1>14

(* So are the properties of the places of its nodes.                       *)
LEMMA SameQueuePlaces ==
  /\ Queue!OneOwner <=> QueueP!OneOwner
  /\ Queue!TailFollows <=> QueueP!TailFollows
  /\ Queue!Placed <=> QueueP!Placed
  /\ Queue!Placed' <=> QueueP!Placed'
  /\ Queue!TailSwung <=> QueueP!TailSwung
  /\ Queue!TailSwung' <=> QueueP!TailSwung'
  /\ Queue!Drained <=> QueueP!Drained
  /\ Queue!Drained' <=> QueueP!Drained'
BY DEF
    Queue!Allocated, QueueP!Allocated, Queue!Linked, QueueP!Linked,
    Queue!Closed, QueueP!Closed, Queue!ChainSet, QueueP!ChainSet,
    Queue!Reaches, QueueP!Reaches, Queue!Straight, QueueP!Straight,
    Queue!EntriesOf, QueueP!EntriesOf, Queue!InOnePlace, QueueP!InOnePlace,
    Queue!Threads, QueueP!Threads, Queue!Destroyed, QueueP!Destroyed,
    Queue!InNoList, QueueP!InNoList, Queue!EnqLabels, QueueP!EnqLabels,
    Queue!Holds, QueueP!Holds, Queue!OneOwner, QueueP!OneOwner,
    Queue!TailFollows, QueueP!TailFollows, Queue!Placed, QueueP!Placed,
    Queue!TailSwung, QueueP!TailSwung, Queue!Drained, QueueP!Drained,
    Queue!Cardinality, QueueP!Cardinality

(* The list of ListHPProofs is that of the program.                        *)
LEMMA SameList ==
  /\ List!Init <=> ListP!Init
  /\ List!Next <=> ListP!Next
  /\ List!IInv <=> ListP!IInv
  /\ List!IInv' <=> ListP!IInv'
  /\ List!vars = ListP!vars
  /\ List!ProtectedSafe <=> ListP!ProtectedSafe
  /\ List!TypeOK <=> ListP!TypeOK
  /\ List!EnoughSlots <=> ListP!EnoughSlots
<1>1. \A t, scanning, done : List!RetireScan(t, scanning, done) <=>
        ListP!RetireScan(t, scanning, done)
  BY DEF List!Goto, ListP!Goto, List!NextCandidate, ListP!NextCandidate,
         List!ScanStart, ListP!ScanStart, List!ScanContinue,
         ListP!ScanContinue, List!ScannedAll, ListP!ScannedAll,
         List!heapVars, ListP!heapVars, List!hpVars, ListP!hpVars,
         List!Keep, ListP!Keep, List!Candidate, ListP!Candidate,
         List!Delete, ListP!Delete, List!RemoveAt, ListP!RemoveAt,
         List!ToSet, ListP!ToSet, List!Reclaim, ListP!Reclaim, List!Blocked,
         ListP!Blocked, List!Matches, ListP!Matches, List!NextSlot,
         ListP!NextSlot, List!ScanSlot, ListP!ScanSlot, List!RetireScan,
         ListP!RetireScan
<1>2. \A t : List!Retires(t) <=> ListP!Retires(t)
  BY <1>1
     DEF List!getUnmarked, ListP!getUnmarked, List!Named, ListP!Named,
         List!Roles, ListP!Roles, List!Threads, ListP!Threads, List!Dangles,
         ListP!Dangles, List!Freed, ListP!Freed, List!AfterDeletion,
         ListP!AfterDeletion, List!callVars, ListP!callVars,
         List!findLocals, ListP!findLocals, List!Retires, ListP!Retires
<1>3. \A t : List!FindCompare(t) <=> ListP!FindCompare(t)
  BY DEF List!AfterFind, ListP!AfterFind, List!EndsAtCurr, ListP!EndsAtCurr,
         List!Link, ListP!Link, List!PredLink, ListP!PredLink,
         List!PredIsCurr, ListP!PredIsCurr, List!isMarked, ListP!isMarked,
         List!AtKey, ListP!AtKey, List!getUnmarked, ListP!getUnmarked,
         List!AtTail, ListP!AtTail, List!Goto, ListP!Goto, List!NoLink,
         ListP!NoLink, List!Follow, ListP!Follow, List!callVars,
         ListP!callVars, List!heapVars, ListP!heapVars, List!MovesTo,
         ListP!MovesTo, List!Forget, ListP!Forget, List!TryAgain,
         ListP!TryAgain, List!findLocals, ListP!findLocals, List!listVars,
         ListP!listVars, List!loopedVars, ListP!loopedVars, List!Compares,
         ListP!Compares, List!Done, ListP!Done, List!DecidedBy,
         ListP!DecidedBy, List!FindReturns, ListP!FindReturns, List!Ends,
         ListP!Ends, List!FoundAtCurr, ListP!FoundAtCurr, List!Validates,
         ListP!Validates, List!hpLocals, ListP!hpLocals, List!hpVars,
         ListP!hpVars, List!FindCompare, ListP!FindCompare
<1>4. \A t : List!FindHelp(t) <=> ListP!FindHelp(t)
  BY DEF List!AfterRetirePush, ListP!AfterRetirePush, List!Goto, ListP!Goto,
         List!Link, ListP!Link, List!PredLink, ListP!PredLink,
         List!PredIsCurr, ListP!PredIsCurr, List!ScanStart, ListP!ScanStart,
         List!RetirePush, ListP!RetirePush, List!NoLink, ListP!NoLink,
         List!Forget, ListP!Forget, List!callVars, ListP!callVars,
         List!heapVars, ListP!heapVars, List!TryAgain, ListP!TryAgain,
         List!StorePred, ListP!StorePred, List!findLocals, ListP!findLocals,
         List!getUnmarked, ListP!getUnmarked, List!Unlinks, ListP!Unlinks,
         List!FindHelp, ListP!FindHelp
<1>5. /\ \A t : List!FindHead(t) <=> ListP!FindHead(t)
      /\ \A t : List!FindCurr(t) <=> ListP!FindCurr(t)
      /\ \A t : List!FindNext(t) <=> ListP!FindNext(t)
      /\ \A t : List!FindMisread(t) <=> ListP!FindMisread(t)
  BY DEF List!Goto, ListP!Goto, List!NoLink, ListP!NoLink, List!Follow,
         ListP!Follow, List!callVars, ListP!callVars, List!heapVars,
         ListP!heapVars, List!LoadsHead, ListP!LoadsHead, List!hpLocals,
         ListP!hpLocals, List!hpVars, ListP!hpVars, List!FindHead,
         ListP!FindHead, List!StoreLocal, ListP!StoreLocal, List!findLocals,
         ListP!findLocals, List!listVars, ListP!listVars, List!loopedVars,
         ListP!loopedVars, List!FindCurr, ListP!FindCurr, List!Link,
         ListP!Link, List!LoadsNext, ListP!LoadsNext, List!FindNext,
         ListP!FindNext, List!Misread, ListP!Misread, List!FindMisread,
         ListP!FindMisread
<1>6. /\ \A t : List!FindSlot0(t) <=> ListP!FindSlot0(t)
      /\ \A t : List!FindSlot2(t) <=> ListP!FindSlot2(t)
      /\ \A t : List!HelpCurr(t) <=> ListP!HelpCurr(t)
  BY DEF List!Goto, ListP!Goto, List!hpLocals, ListP!hpLocals,
         List!StoreLocal, ListP!StoreLocal, List!getUnmarked,
         ListP!getUnmarked, List!heapVars, ListP!heapVars, List!callVars,
         ListP!callVars, List!findLocals, ListP!findLocals, List!listVars,
         ListP!listVars, List!loopedVars, ListP!loopedVars, List!FindSlot0,
         ListP!FindSlot0, List!FindSlot2, ListP!FindSlot2, List!NoLink,
         ListP!NoLink, List!Follow, ListP!Follow, List!MovesTo,
         ListP!MovesTo, List!HelpCurr, ListP!HelpCurr
<1>7. \A t : List!FindStep(t) <=> ListP!FindStep(t)
  BY <1>3, <1>4, <1>5, <1>6
     DEF List!FindStep, ListP!FindStep
<1>8. /\ \A t : List!AddCas(t) <=> ListP!AddCas(t)
      /\ \A t : List!RemoveMark(t) <=> ListP!RemoveMark(t)
      /\ \A t : List!RemoveCas(t) <=> ListP!RemoveCas(t)
  BY DEF List!Threads, ListP!Threads, List!Decides, ListP!Decides,
         List!NoLink, ListP!NoLink, List!Forget, ListP!Forget, List!Goto,
         ListP!Goto, List!Link, ListP!Link, List!PredLink, ListP!PredLink,
         List!PredIsCurr, ListP!PredIsCurr, List!StorePred, ListP!StorePred,
         List!callVars, ListP!callVars, List!heapVars, ListP!heapVars,
         List!TryAgain, ListP!TryAgain, List!Adds, ListP!Adds,
         List!hpLocals, ListP!hpLocals, List!hpVars, ListP!hpVars,
         List!AddCas, ListP!AddCas, List!findLocals, ListP!findLocals,
         List!getUnmarked, ListP!getUnmarked, List!Marks, ListP!Marks,
         List!RemoveMark, ListP!RemoveMark, List!Unlinks, ListP!Unlinks,
         List!listVars, ListP!listVars, List!loopedVars, ListP!loopedVars,
         List!Removes, ListP!Removes, List!RemoveCas, ListP!RemoveCas
<1>9. /\ \A t : List!Call(t) <=> ListP!Call(t)
      /\ \A t : List!AddDiscard(t) <=> ListP!AddDiscard(t)
  BY DEF List!Calling, ListP!Calling, List!Filling, ListP!Filling,
         List!MayCall, ListP!MayCall, List!BeginCall, ListP!BeginCall,
         List!Goto, ListP!Goto, List!New, ListP!New, List!Linked,
         ListP!Linked, List!Present, ListP!Present, List!findLocals,
         ListP!findLocals, List!CallAdd, ListP!CallAdd, List!heapVars,
         ListP!heapVars, List!CallOther, ListP!CallOther, List!hpLocals,
         ListP!hpLocals, List!hpVars, ListP!hpVars, List!Call, ListP!Call,
         List!Delete, ListP!Delete, List!Discards, ListP!Discards,
         List!AddDiscard, ListP!AddDiscard
<1>10. /\ \A t : List!RemoveClear(t) <=> ListP!RemoveClear(t)
       /\ \A t : List!Clear(t) <=> ListP!Clear(t)
       /\ \A t : List!Return(t) <=> ListP!Return(t)
  BY DEF List!AfterRetirePush, ListP!AfterRetirePush, List!Goto, ListP!Goto,
         List!ClearSlot, ListP!ClearSlot, List!ScanStart, ListP!ScanStart,
         List!RetirePush, ListP!RetirePush, List!heapVars, ListP!heapVars,
         List!callVars, ListP!callVars, List!findLocals, ListP!findLocals,
         List!listVars, ListP!listVars, List!loopedVars, ListP!loopedVars,
         List!RemoveClear, ListP!RemoveClear, List!NoLink, ListP!NoLink,
         List!Forget, ListP!Forget, List!Returns, ListP!Returns, List!Clear,
         ListP!Clear, List!hpLocals, ListP!hpLocals, List!hpVars,
         ListP!hpVars, List!Return, ListP!Return
<1>11. \A t : List!CallStep(t) <=> ListP!CallStep(t)
  BY <1>2, <1>8, <1>9, <1>10
     DEF List!CallStep, ListP!CallStep
<1>12. /\ List!MainStep <=> ListP!MainStep
       /\ List!Finished <=> ListP!Finished
  BY DEF List!getUnmarked, ListP!getUnmarked, List!Named, ListP!Named,
         List!Roles, ListP!Roles, List!Threads, ListP!Threads, List!Dangles,
         ListP!Dangles, List!Freed, ListP!Freed, List!AfterDeletion,
         ListP!AfterDeletion, List!Delete, ListP!Delete,
         List!DeleteStructure, ListP!DeleteStructure, List!RemoveAt,
         ListP!RemoveAt, List!ToSet, ListP!ToSet, List!Retired,
         ListP!Retired, List!callVars, ListP!callVars, List!findLocals,
         ListP!findLocals, List!hpLocals, ListP!hpLocals, List!Destroy,
         ListP!Destroy, List!JoinUndrained, ListP!JoinUndrained,
         List!heapVars, ListP!heapVars, List!listVars, ListP!listVars,
         List!loopedVars, ListP!loopedVars, List!Joins, ListP!Joins,
         List!QuitSignal, ListP!QuitSignal, List!Quits, ListP!Quits,
         List!Cardinality, ListP!Cardinality, List!Filling, ListP!Filling,
         List!StartThreads, ListP!StartThreads, List!Starts, ListP!Starts,
         List!hpVars, ListP!hpVars, List!MainStep, ListP!MainStep,
         List!Defined, ListP!Defined, List!Destroyed, ListP!Destroyed,
         List!vars, ListP!vars, List!Finished, ListP!Finished
<1>13. /\ \A t : List!Strays(t) <=> ListP!Strays(t)
       /\ \A t : List!Stray(t) <=> ListP!Stray(t)
       /\ \A t : List!Exits(t) <=> ListP!Exits(t)
  BY DEF List!Link, ListP!Link, List!PredLink, ListP!PredLink,
         List!PredIsCurr, ListP!PredIsCurr, List!getUnmarked,
         ListP!getUnmarked, List!Uses, ListP!Uses, List!Strays,
         ListP!Strays, List!Stray, ListP!Stray, List!Goto, ListP!Goto,
         List!LeaveLoop, ListP!LeaveLoop, List!heapVars, ListP!heapVars,
         List!callVars, ListP!callVars, List!findLocals, ListP!findLocals,
         List!listVars, ListP!listVars, List!loopedVars, ListP!loopedVars,
         List!Exits, ListP!Exits
<1>14. List!Next <=> ListP!Next
  BY <1>7, <1>11, <1>12, <1>13
     DEF List!Threads, ListP!Threads, List!Defined, ListP!Defined,
         List!heapVars, ListP!heapVars, List!hpLocals, ListP!hpLocals,
         List!hpVars, ListP!hpVars, List!callVars, ListP!callVars,
         List!findLocals, ListP!findLocals, List!listVars, ListP!listVars,
         List!loopedVars, ListP!loopedVars, List!ThreadStep,
         ListP!ThreadStep, List!Next, ListP!Next
<1>15. List!TypeOK <=> ListP!TypeOK
  BY DEF List!AddLabels, ListP!AddLabels, List!FindLabels, ListP!FindLabels,
         List!HelpLabels, ListP!HelpLabels, List!RemoveLabels,
         ListP!RemoveLabels, List!Labels, ListP!Labels, List!NodeOrNull,
         ListP!NodeOrNull, List!Operations, ListP!Operations, List!Results,
         ListP!Results, List!Statuses, ListP!Statuses, List!Threads,
         ListP!Threads, List!ListTypeOK, ListP!ListTypeOK, List!Roles,
         ListP!Roles, List!LoopedTypeOK, ListP!LoopedTypeOK,
         List!MainStates, ListP!MainStates, List!Slots, ListP!Slots,
         List!TypeOK, ListP!TypeOK
<1>16. \A scanning : List!Scheme(scanning) <=> ListP!Scheme(scanning)
  BY DEF List!Destroyed, ListP!Destroyed, List!Threads, ListP!Threads,
         List!CountsRetired, ListP!CountsRetired, List!RetiredOnce,
         ListP!RetiredOnce, List!ScanInRange, ListP!ScanInRange,
         List!NodeOrNull, ListP!NodeOrNull, List!Slots, ListP!Slots,
         List!ScanTypes, ListP!ScanTypes, List!Scheme, ListP!Scheme
<1>17. List!ListInv <=> ListP!ListInv
  BY DEF List!Live, ListP!Live, List!ListShape, ListP!ListShape,
         List!NodeOrNull, ListP!NodeOrNull, List!Operations,
         ListP!Operations, List!Results, ListP!Results, List!Statuses,
         ListP!Statuses, List!Threads, ListP!Threads, List!ListTypeOK,
         ListP!ListTypeOK, List!Roles, ListP!Roles, List!LoopedTypeOK,
         ListP!LoopedTypeOK, List!OwnsNode, ListP!OwnsNode,
         List!HelpingLabels, ListP!HelpingLabels, List!NoCurrLabels,
         ListP!NoCurrLabels, List!PassedLabels, ListP!PassedLabels,
         List!getUnmarked, ListP!getUnmarked, List!isMarked, ListP!isMarked,
         List!Traverses, ListP!Traverses, List!ListInv, ListP!ListInv
<1>18. \A t : List!ThreadInv(t) <=> ListP!ThreadInv(t)
  BY DEF List!NextFound, ListP!NextFound, List!Roles, ListP!Roles,
         List!Protected, ListP!Protected, List!getUnmarked,
         ListP!getUnmarked, List!Found, ListP!Found, List!Scanning,
         ListP!Scanning, List!Candidate, ListP!Candidate, List!Past,
         ListP!Past, List!Threads, ListP!Threads, List!Shields,
         ListP!Shields, List!Slots, ListP!Slots, List!FoundShielded,
         ListP!FoundShielded, List!Published, ListP!Published,
         List!InNoList, ListP!InNoList, List!RemovedByOne,
         ListP!RemovedByOne, List!ThreadInv, ListP!ThreadInv
<1>19. List!IInv <=> ListP!IInv
  BY <1>15, <1>16, <1>17, <1>18
     DEF List!Threads, ListP!Threads, List!MainAlone, ListP!MainAlone,
         List!Scanning, ListP!Scanning, List!IInv, ListP!IInv
<1>20. /\ List!Init <=> ListP!Init
       /\ List!vars = ListP!vars
       /\ List!ProtectedSafe <=> ListP!ProtectedSafe
       /\ List!EnoughSlots <=> ListP!EnoughSlots
  BY DEF List!ScanStart, ListP!ScanStart, List!Slots, ListP!Slots,
         List!Threads, ListP!Threads, List!HPInit, ListP!HPInit,
         List!NoLink, ListP!NoLink, List!ListInit, ListP!ListInit,
         List!LoopedInit, ListP!LoopedInit, List!Init, ListP!Init,
         List!heapVars, ListP!heapVars, List!hpLocals, ListP!hpLocals,
         List!hpVars, ListP!hpVars, List!callVars, ListP!callVars,
         List!findLocals, ListP!findLocals, List!listVars, ListP!listVars,
         List!loopedVars, ListP!loopedVars, List!vars, ListP!vars,
         List!Roles, ListP!Roles, List!Protected, ListP!Protected,
         List!ProtectedSafe, ListP!ProtectedSafe, List!EnoughSlots,
         ListP!EnoughSlots
<1>21. List!IInv' <=> ListP!IInv'
  BY <1>19, PTL
<1> QED BY <1>14, <1>15, <1>19, <1>20, <1>21

(* So are the properties of the places of its nodes.                       *)
LEMMA SameListPlaces ==
  /\ List!OneOwner <=> ListP!OneOwner
  /\ List!Placed <=> ListP!Placed
  /\ List!Placed' <=> ListP!Placed'
BY DEF
    List!Allocated, ListP!Allocated, List!Linked, ListP!Linked, List!Closed,
    ListP!Closed, List!ChainSet, ListP!ChainSet, List!Reaches, ListP!Reaches,
    List!EntriesOf, ListP!EntriesOf, List!InOnePlace, ListP!InOnePlace,
    List!Threads, ListP!Threads, List!Destroyed, ListP!Destroyed, List!Defined,
    ListP!Defined, List!QuietLabels, ListP!QuietLabels, List!ListPlaced,
    ListP!ListPlaced, List!InNoList, ListP!InNoList, List!Holds, ListP!Holds,
    List!OneOwner, ListP!OneOwner, List!Placed, ListP!Placed, List!Cardinality,
    ListP!Cardinality

-----------------------------------------------------------------------------
(* Each constructor establishes the invariant of its structure.            *)
LEMMA InitInv == Init => IInv
BY StackP!InitInv, QueueP!InitInv, ListP!InitInv, SameStack, SameQueue,
   SameList, SlotsAssumption, ProgramAssumption
   DEF Init, IInv, Of

(* A step of the program is one of the structure it runs.                  *)
LEMMA StepOfStructure ==
  ASSUME IInv, [Next]_vars
  PROVE  /\ structure' = structure
         /\ \/ /\ structure = "stack" /\ StackP!IInv
               /\ [StackP!Next]_(StackP!vars)
            \/ /\ structure = "queue" /\ QueueP!IInv
               /\ QueueP!EnoughSlots /\ [QueueP!Next]_(QueueP!vars)
            \/ /\ structure = "list" /\ ListP!IInv
               /\ ListP!EnoughSlots /\ [ListP!Next]_(ListP!vars)
<1>1. structure \in {"stack", "queue", "list"} /\ structure' = structure
  BY ProgramAssumption DEF IInv, Next, StepOf, vars
<1>2. /\ structure = "stack" => StackP!IInv
      /\ structure = "queue" => QueueP!IInv /\ QueueP!EnoughSlots
      /\ structure = "list" => ListP!IInv /\ ListP!EnoughSlots
  BY SlotsAssumption, SameStack, SameQueue, SameList DEF IInv, Of
<1>3. CASE UNCHANGED vars
  <2>1. /\ UNCHANGED StackP!vars /\ UNCHANGED QueueP!vars
        /\ UNCHANGED ListP!vars
    BY <1>3
       DEF vars, ofListOnly, heapVars, hpVars, hpLocals,
           StackP!vars, StackP!heapVars, StackP!hpVars, StackP!hpLocals,
           StackP!locals, QueueP!vars, QueueP!heapVars, QueueP!hpVars,
           QueueP!hpLocals, QueueP!ends, QueueP!locals,
           ListP!vars, ListP!loopedVars, ListP!heapVars, ListP!listVars,
           ListP!findLocals, ListP!callVars, ListP!hpVars, ListP!hpLocals
  <2> QED BY <1>1, <1>2, <2>1
<1>4. CASE Next
  BY <1>1, <1>2, <1>4, SameStack, SameQueue, SameList DEF Next, StepOf
<1> QED BY <1>3, <1>4

(* Every step of the program preserves the invariant.                      *)
LEMMA NextInv == IInv /\ [Next]_vars => IInv'
<1> SUFFICES ASSUME IInv, [Next]_vars PROVE IInv'
  OBVIOUS
<1>1. structure' = structure /\ structure \in Structures
  BY StepOfStructure DEF IInv
<1>2. CASE structure = "stack"
  <2>1. StackP!IInv'
    BY <1>2, StepOfStructure, StackP!NextInv
  <2> QED BY <1>1, <1>2, <2>1, SameStack DEF IInv, Of
<1>3. CASE structure = "queue"
  <2>1. QueueP!IInv'
    BY <1>3, StepOfStructure, QueueP!NextInv
  <2> QED BY <1>1, <1>3, <2>1, SameQueue DEF IInv, Of
<1>4. CASE structure = "list"
  <2>1. ListP!IInv'
    BY <1>4, StepOfStructure, ListP!NextInv
  <2> QED BY <1>1, <1>4, <2>1, SameList DEF IInv, Of
<1> QED BY <1>1, <1>2, <1>3, <1>4, ProgramAssumption

(* The invariant of whichever structure the program runs holds in every    *)
(* reachable state (hazardpointer/Benchmark.cpp, main).                    *)
THEOREM Invariance == Spec => []IInv
BY InitInv, NextInv, PTL DEF Spec

(* What the invariant of each structure says of types and of slots.        *)
LEMMA InvSafe == IInv => TypeOK /\ ProtectedSafe
<1> SUFFICES ASSUME IInv PROVE TypeOK /\ ProtectedSafe
  OBVIOUS
<1>1. CASE structure = "stack"
  BY <1>1, StackP!InvSafe, SameStack DEF IInv, Of, TypeOK, ProtectedSafe
<1>2. CASE structure = "queue"
  BY <1>2, QueueP!InvSafe, SameQueue, SlotsAssumption
     DEF IInv, Of, TypeOK, ProtectedSafe
<1>3. CASE structure = "list"
  BY <1>3, ListP!InvSafe, SameList DEF IInv, Of, TypeOK, ProtectedSafe
<1> QED BY <1>1, <1>2, <1>3, ProgramAssumption DEF IInv

(* Every variable keeps its type, whichever structure main runs.           *)
THEOREM TypeCorrectness == Spec => []TypeOK
BY Invariance, InvSafe, PTL

(* What a slot of hazardPointerList is for: no thread ever accesses a      *)
(* deleted node of a stack or a queue, and the nodes that find of a list   *)
(* has validated are not deleted while their slots are scanned.            *)
THEOREM SlotsProtect == Spec => []ProtectedSafe
BY Invariance, InvSafe, PTL

-----------------------------------------------------------------------------
(* The nodes are in their places when the structure has been constructed.  *)
LEMMA InitPlaced == Init => Placed /\ Drained
<1> SUFFICES ASSUME Init PROVE Placed /\ Drained
  OBVIOUS
<1>1. CASE structure = "stack"
  <2>1. StackP!Placed /\ StackP!Drained
    BY <1>1, StackP!InitPlaced, StackP!InitDrained, SameStack DEF Init
  <2> QED BY <1>1, <2>1, SameStackPlaces DEF Placed, Drained, Of
<1>2. CASE structure = "queue"
  <2>1. QueueP!Placed /\ QueueP!TailSwung /\ QueueP!Drained
    BY <1>2, QueueP!InitPlaced, QueueP!InitDrained, SameQueue DEF Init
  <2> QED BY <1>2, <2>1, SameQueuePlaces DEF Placed, Drained, Of
<1>3. CASE structure = "list"
  <2>1. ListP!Placed
    BY <1>3, ListP!InitPlaced, SameList DEF Init
  <2> QED BY <1>3, <2>1, SameListPlaces DEF Placed, Drained, Of
<1> QED BY <1>1, <1>2, <1>3 DEF Init

(* Every step of the program keeps the places of its structure.            *)
LEMMA NextPlaced ==
  ASSUME IInv, Placed, [Next]_vars
  PROVE  Placed' /\ (Drained => Drained')
<1>1. structure' = structure /\ structure \in {"stack", "queue", "list"}
  BY StepOfStructure, ProgramAssumption DEF IInv
<1>2. CASE structure = "stack"
  <2>1. StackP!IInv /\ [StackP!Next]_(StackP!vars) /\ StackP!Placed
    BY <1>2, StepOfStructure, SameStackPlaces DEF Placed, Of
  <2>2. StackP!Placed'
    BY <2>1, StackP!NextPlaces
  <2>3. NULL \notin RawItems /\ StackP!Drained => StackP!Drained'
    BY <2>1, StackP!NextDrained
  <2> QED BY <1>1, <1>2, <2>2, <2>3, SameStackPlaces DEF Placed, Drained, Of
<1>3. CASE structure = "queue"
  <2>1. QueueP!IInv /\ [QueueP!Next]_(QueueP!vars) /\ QueueP!Placed
    BY <1>3, StepOfStructure, SameQueuePlaces DEF Placed, Of
  <2>2. QueueP!Placed'
    BY <2>1, QueueP!NextPlaces
  <2>3. NULL \notin RawItems /\ QueueP!TailSwung /\ QueueP!Drained =>
          QueueP!TailSwung' /\ QueueP!Drained'
    BY <2>1, QueueP!NextDrained
  <2> QED BY <1>1, <1>3, <2>2, <2>3, SameQueuePlaces DEF Placed, Drained, Of
<1>4. CASE structure = "list"
  <2>1. ListP!IInv /\ [ListP!Next]_(ListP!vars) /\ ListP!Placed
    BY <1>4, StepOfStructure, SameListPlaces DEF Placed, Of
  <2>2. ListP!Placed'
    BY <2>1, ListP!NextPlaces
  <2> QED BY <1>1, <1>4, <2>2, SameListPlaces DEF Placed, Drained, Of
<1> QED BY <1>1, <1>2, <1>3, <1>4

(* What the places are for.                                                *)
LEMMA PlacedOwned ==
  ASSUME IInv, Placed
  PROVE  OneOwner /\ TailFollows
<1>1. CASE structure = "stack"
  BY <1>1, StackP!PlacedOwned, SameStack, SameStackPlaces
     DEF IInv, Placed, Of, OneOwner, TailFollows
<1>2. CASE structure = "queue"
  BY <1>2, QueueP!PlacedOwned, QueueP!PlacedFollows, SameQueue, SameQueuePlaces
     DEF IInv, Placed, Of, OneOwner, TailFollows
<1>3. CASE structure = "list"
  BY <1>3, ListP!PlacedOwned, SameList, SameListPlaces
     DEF IInv, Placed, Of, OneOwner, TailFollows
<1> QED BY <1>1, <1>2, <1>3, ProgramAssumption DEF IInv

(* What the destructors leave behind.                                      *)
LEMMA DrainedLeaves ==
  ASSUME IInv, NULL \notin RawItems, Drained
  PROVE  NothingLeaked
<1>1. CASE structure = "stack"
  BY <1>1 DEF Drained, Of, Stack!Drained, NothingLeaked, Destroyed, Stack!Destroyed,
     Allocated, Stack!Allocated
<1>2. CASE structure = "queue"
  BY <1>2 DEF Drained, Of, Queue!Drained, NothingLeaked, Destroyed, Queue!Destroyed,
     Allocated, Queue!Allocated
<1> QED BY <1>1, <1>2, ProgramAssumption DEF IInv, NothingLeaked

(* The places of the nodes, in every reachable state.                      *)
LEMMA PlacesInvariant == Spec => []Placed
<1>1. IInv /\ Placed /\ [Next]_vars => Placed'
  BY NextPlaced
<1>2. Spec => [](IInv /\ Placed)
  BY <1>1, InitInv, InitPlaced, NextInv, PTL DEF Spec
<1> QED BY <1>2, PTL

(* Every allocated node is in the structure, in one entry of a retired     *)
(* list or in the hands of one operation: nothing is lost before the       *)
(* destructor runs, and nothing is retired or freed twice.                 *)
THEOREM OwnedOnce == Spec => []OneOwner
<1>1. IInv /\ Placed => OneOwner
  BY PlacedOwned
<1> QED BY <1>1, Invariance, PlacesInvariant, PTL

(* The tail of the queue stays at one of its last two nodes and is never   *)
(* overtaken by head (QueueHazardPointer.hpp, enqueue and dequeue).        *)
THEOREM TailStaysClose == Spec => []TailFollows
<1>1. IInv /\ Placed => TailFollows
  BY PlacedOwned
<1> QED BY <1>1, Invariance, PlacesInvariant, PTL

(* ~Stack and ~Queue free everything, as long as the item of a node is     *)
(* never nullptr, which would end the loop of the destructor too early.    *)
THEOREM NothingLeft == NULL \notin RawItems => (Spec => []NothingLeaked)
<1> SUFFICES ASSUME NULL \notin RawItems PROVE Spec => []NothingLeaked
  OBVIOUS
<1>1. IInv /\ Placed /\ Drained /\ [Next]_vars => Drained'
  BY NextPlaced
<1>2. IInv /\ Drained => NothingLeaked
  BY DrainedLeaves
<1>3. Spec => []Drained
  BY <1>1, InitPlaced, Invariance, PlacesInvariant, PTL DEF Spec
<1> QED BY <1>2, <1>3, Invariance, PTL

-----------------------------------------------------------------------------
(* The guards of the program are those of the structure it runs.           *)
LEMMA SameGuards ==
  /\ structure = "stack" =>
       [t \in Threads |-> Guards(t)]
         = [t \in StackP!Threads |-> StackP!Guards(t)]
  /\ structure = "queue" =>
       [t \in Threads |-> Guards(t)]
         = [t \in QueueP!Threads |-> QueueP!Guards(t)]
  /\ structure = "list" =>
       [t \in Threads |-> Guards(t)] = [t \in ListP!Threads |-> {}]
BY SameStack, SameQueue
   DEF Guards, Of, Threads, StackP!Threads, QueueP!Threads, ListP!Threads

(* The same in the next state.                                             *)
LEMMA SameGuardsNext ==
  /\ structure' = "stack" =>
       [t \in Threads |-> Guards(t)]'
         = [t \in StackP!Threads |-> StackP!Guards(t)]'
  /\ structure' = "queue" =>
       [t \in Threads |-> Guards(t)]'
         = [t \in QueueP!Threads |-> QueueP!Guards(t)]'
  /\ structure' = "list" =>
       [t \in Threads |-> Guards(t)]' = [t \in ListP!Threads |-> {}]
BY SameStack, SameQueue
   DEF Guards, Of, Threads, StackP!Threads, QueueP!Threads, ListP!Threads

(* The stack and the queue with hazard pointers implement SafeReclamation: *)
(* no node is reclaimed between the check that found it linked and its     *)
(* last use.  With a list, whose guards are the matter of SlotsProtect,    *)
(* nodes are linked, unlinked, retired and reclaimed in that order.        *)
THEOREM SafeReclamationRefined == Spec => ReclaimsSafely
<1>1. Init => SMR!Init
  <2> SUFFICES ASSUME Init PROVE SMR!Init
    OBVIOUS
  <2>1. CASE structure = "stack"
    BY <2>1, StackP!InitMaps, SameStack, SameGuards
       DEF Init, SMR!Init, StackP!SMR!Init, Threads, StackP!Threads
  <2>2. CASE structure = "queue"
    BY <2>2, QueueP!InitMaps, SameQueue, SameGuards
       DEF Init, SMR!Init, QueueP!SMR!Init, Threads, QueueP!Threads
  <2>3. CASE structure = "list"
    BY <2>3, ListP!InitMaps, SameList, SameGuards
       DEF Init, SMR!Init, ListP!SMR!Init, Threads, ListP!Threads
  <2> QED BY <2>1, <2>2, <2>3 DEF Init
<1>2. ASSUME IInv, [Next]_vars PROVE [SMR!Next]_(SMR!vars)
  <2>1. CASE structure = "stack"
    <3>1. [StackP!SMR!Next]_(StackP!SMR!vars)
      BY <1>2, <2>1, StepOfStructure, StackP!StepMaps
    <3>2. structure' = "stack"
      BY <1>2, <2>1, StepOfStructure
    <3>3. Threads = StackP!Threads
      BY DEF Threads, StackP!Threads
    <3>4. /\ [t \in Threads |-> Guards(t)]
               = [t \in StackP!Threads |-> StackP!Guards(t)]
          /\ [t \in Threads |-> Guards(t)]'
               = [t \in StackP!Threads |-> StackP!Guards(t)]'
      BY <2>1, <3>2, SameGuards, SameGuardsNext
    <3>5. ASSUME NEW S, NEW from, NEW to
         PROVE  SMR!Move(S, from, to) <=> StackP!SMR!Move(S, from, to)
      BY <3>3, <3>4 DEF SMR!Move, StackP!SMR!Move
    <3>6. ASSUME NEW n
         PROVE  SMR!Unguarded(n) <=> StackP!SMR!Unguarded(n)
      BY <3>3, <3>4 DEF SMR!Unguarded, StackP!SMR!Unguarded
    <3>7. ASSUME NEW t \in Threads, NEW n
         PROVE  SMR!Guard(t, n) <=> StackP!SMR!Guard(t, n)
      BY <3>3, <3>4 DEF SMR!Guard, StackP!SMR!Guard
    <3>8. ASSUME NEW t \in Threads, NEW n, NEW m
         PROVE  SMR!Advance(t, n, m) <=> StackP!SMR!Advance(t, n, m)
      BY <3>3, <3>4 DEF SMR!Advance, StackP!SMR!Advance
    <3>9. ASSUME NEW t \in Threads
         PROVE  SMR!Release(t) <=> StackP!SMR!Release(t)
      BY <3>3, <3>4 DEF SMR!Release, StackP!SMR!Release
    <3>10. SMR!Destroy <=> StackP!SMR!Destroy
      BY <3>3, <3>4 DEF SMR!Destroy, StackP!SMR!Destroy
    <3> QED
      BY <3>1, <3>3, <3>4, <3>5, <3>6, <3>7, <3>8, <3>9, <3>10
         DEF SMR!Next, SMR!vars, SMR!Change, SMR!Allocate, SMR!Link,
             SMR!Unlink, SMR!Discard, SMR!Reclaim,
             StackP!SMR!Next, StackP!SMR!vars, StackP!SMR!Change, StackP!SMR!Allocate,
             StackP!SMR!Link, StackP!SMR!Unlink, StackP!SMR!Discard, StackP!SMR!Reclaim
  <2>2. CASE structure = "queue"
    <3>1. [QueueP!SMR!Next]_(QueueP!SMR!vars)
      BY <1>2, <2>2, StepOfStructure, QueueP!StepMaps
    <3>2. structure' = "queue"
      BY <1>2, <2>2, StepOfStructure
    <3>3. Threads = QueueP!Threads
      BY DEF Threads, QueueP!Threads
    <3>4. /\ [t \in Threads |-> Guards(t)]
               = [t \in QueueP!Threads |-> QueueP!Guards(t)]
          /\ [t \in Threads |-> Guards(t)]'
               = [t \in QueueP!Threads |-> QueueP!Guards(t)]'
      BY <2>2, <3>2, SameGuards, SameGuardsNext
    <3>5. ASSUME NEW S, NEW from, NEW to
         PROVE  SMR!Move(S, from, to) <=> QueueP!SMR!Move(S, from, to)
      BY <3>3, <3>4 DEF SMR!Move, QueueP!SMR!Move
    <3>6. ASSUME NEW n
         PROVE  SMR!Unguarded(n) <=> QueueP!SMR!Unguarded(n)
      BY <3>3, <3>4 DEF SMR!Unguarded, QueueP!SMR!Unguarded
    <3>7. ASSUME NEW t \in Threads, NEW n
         PROVE  SMR!Guard(t, n) <=> QueueP!SMR!Guard(t, n)
      BY <3>3, <3>4 DEF SMR!Guard, QueueP!SMR!Guard
    <3>8. ASSUME NEW t \in Threads, NEW n, NEW m
         PROVE  SMR!Advance(t, n, m) <=> QueueP!SMR!Advance(t, n, m)
      BY <3>3, <3>4 DEF SMR!Advance, QueueP!SMR!Advance
    <3>9. ASSUME NEW t \in Threads
         PROVE  SMR!Release(t) <=> QueueP!SMR!Release(t)
      BY <3>3, <3>4 DEF SMR!Release, QueueP!SMR!Release
    <3>10. SMR!Destroy <=> QueueP!SMR!Destroy
      BY <3>3, <3>4 DEF SMR!Destroy, QueueP!SMR!Destroy
    <3> QED
      BY <3>1, <3>3, <3>4, <3>5, <3>6, <3>7, <3>8, <3>9, <3>10
         DEF SMR!Next, SMR!vars, SMR!Change, SMR!Allocate, SMR!Link,
             SMR!Unlink, SMR!Discard, SMR!Reclaim,
             QueueP!SMR!Next, QueueP!SMR!vars, QueueP!SMR!Change, QueueP!SMR!Allocate,
             QueueP!SMR!Link, QueueP!SMR!Unlink, QueueP!SMR!Discard, QueueP!SMR!Reclaim
  <2>3. CASE structure = "list"
    <3>1. [ListP!SMR!Next]_(ListP!SMR!vars)
      BY <1>2, <2>3, StepOfStructure, ListP!StepMaps
    <3>2. structure' = "list"
      BY <1>2, <2>3, StepOfStructure
    <3>3. Threads = ListP!Threads
      BY DEF Threads, ListP!Threads
    <3> QED
      BY <2>3, <3>1, <3>2, <3>3, SameGuards, SameGuardsNext
         DEF
             SMR!vars, ListP!SMR!vars, SMR!Next, ListP!SMR!Next, SMR!Move,
             ListP!SMR!Move, SMR!Unguarded, ListP!SMR!Unguarded, SMR!Allocate,
             ListP!SMR!Allocate, SMR!Link, ListP!SMR!Link, SMR!Unlink,
             ListP!SMR!Unlink, SMR!Discard, ListP!SMR!Discard, SMR!Reclaim,
             ListP!SMR!Reclaim, SMR!Guard, ListP!SMR!Guard, SMR!Advance,
             ListP!SMR!Advance, SMR!Release, ListP!SMR!Release, SMR!Destroy,
             ListP!SMR!Destroy, SMR!Change, ListP!SMR!Change
  <2> QED BY <1>2, <2>1, <2>2, <2>3, ProgramAssumption DEF IInv
<1> QED BY <1>1, <1>2, Invariance, PTL DEF Spec, ReclaimsSafely, SMR!Spec

-----------------------------------------------------------------------------
(* The elements and the calls of the program's queue are those of          *)
(* QueueHPProofs.                                                          *)
LEMMA SameCalls ==
  /\ Queue!Contents = QueueP!Contents
  /\ Queue!Contents' = QueueP!Contents'
  /\ \A t : Queue!Call(t) = QueueP!Call(t)
  /\ \A t : Queue!Call(t)' = QueueP!Call(t)'
  /\ \A t : Queue!Arg(t) = QueueP!Arg(t)
  /\ \A t : Queue!Arg(t)' = QueueP!Arg(t)'
BY DEF
    Queue!Contents, QueueP!Contents, Queue!ChainTo, QueueP!ChainTo,
    Queue!Cardinality, QueueP!Cardinality, Queue!Call, QueueP!Call,
    Queue!Arg, QueueP!Arg, Queue!EnqLabels, QueueP!EnqLabels,
    Queue!DeqLabels, QueueP!DeqLabels

(* With a queue, what the program says of the abstract one is what         *)
(* QueueHPProofs says of it.                                               *)
LEMMA SameFifo ==
  /\ structure = "queue" =>
       /\ OfQueue(Queue!Contents, <<>>) = QueueP!Contents
       /\ [t \in Threads |-> OfQueue(Queue!Call(t), "none")]
            = [t \in QueueP!Threads |-> QueueP!Call(t)]
       /\ [t \in Threads |-> OfQueue(Queue!Arg(t), NULL)]
            = [t \in QueueP!Threads |-> QueueP!Arg(t)]
  /\ structure # "queue" =>
       /\ OfQueue(Queue!Contents, <<>>) = <<>>
       /\ [t \in Threads |-> OfQueue(Queue!Call(t), "none")]
            = [t \in Threads |-> "none"]
       /\ [t \in Threads |-> OfQueue(Queue!Arg(t), NULL)]
            = [t \in Threads |-> NULL]
BY SameCalls DEF OfQueue, Threads, QueueP!Threads

(* The same in the next state.                                             *)
LEMMA SameFifoNext ==
  /\ structure' = "queue" =>
       /\ OfQueue(Queue!Contents, <<>>)' = QueueP!Contents'
       /\ [t \in Threads |-> OfQueue(Queue!Call(t), "none")]'
            = [t \in QueueP!Threads |-> QueueP!Call(t)]'
       /\ [t \in Threads |-> OfQueue(Queue!Arg(t), NULL)]'
            = [t \in QueueP!Threads |-> QueueP!Arg(t)]'
  /\ structure' # "queue" =>
       /\ OfQueue(Queue!Contents, <<>>)' = <<>>
       /\ [t \in Threads |-> OfQueue(Queue!Call(t), "none")]'
            = [t \in Threads |-> "none"]
       /\ [t \in Threads |-> OfQueue(Queue!Arg(t), NULL)]'
            = [t \in Threads |-> NULL]
BY SameCalls DEF OfQueue, Threads, QueueP!Threads

(* The order of the nodes of the queue, if there is one.                   *)
Queued == structure = "queue" => QueueP!Ordered

LEMMA InitQueued == Init => Queued
BY QueueP!InitFifo, SameQueue DEF Init, Queued

(* A step of the queue is one of the abstract queue, or none.              *)
LEMMA NextQueued ==
  ASSUME IInv, Queued, [Next]_vars
  PROVE  [Fifo!Next]_(Fifo!vars) /\ Queued'
<1>1. structure' = structure /\ structure \in {"stack", "queue", "list"}
  BY StepOfStructure, ProgramAssumption DEF IInv
<1>2. CASE structure = "queue"
  <2>1. [QueueP!Fifo!Next]_(QueueP!Fifo!vars) /\ QueueP!Ordered'
    <3>1. QueueP!IInv /\ [QueueP!Next]_(QueueP!vars) /\ QueueP!Ordered
      BY <1>2, StepOfStructure DEF Queued
    <3> QED BY <3>1, QueueP!NextFifo
  <2>2. Threads = QueueP!Threads
    BY DEF Threads, QueueP!Threads
  <2>3. /\ OfQueue(Queue!Contents, <<>>) = QueueP!Contents
        /\ [t \in Threads |-> OfQueue(Queue!Call(t), "none")]
             = [t \in QueueP!Threads |-> QueueP!Call(t)]
        /\ [t \in Threads |-> OfQueue(Queue!Arg(t), NULL)]
             = [t \in QueueP!Threads |-> QueueP!Arg(t)]
    BY <1>2, SameFifo
  <2>4. /\ OfQueue(Queue!Contents, <<>>)' = QueueP!Contents'
        /\ [t \in Threads |-> OfQueue(Queue!Call(t), "none")]'
             = [t \in QueueP!Threads |-> QueueP!Call(t)]'
        /\ [t \in Threads |-> OfQueue(Queue!Arg(t), NULL)]'
             = [t \in QueueP!Threads |-> QueueP!Arg(t)]'
    BY <1>1, <1>2, SameFifoNext
  <2>5. ASSUME NEW t, NEW from, NEW to, NEW x
        PROVE  Fifo!Become(t, from, to, x) <=> QueueP!Fifo!Become(t, from, to, x)
    BY <2>3, <2>4 DEF Fifo!Become, QueueP!Fifo!Become
  <2>6. ASSUME NEW t \in Threads, NEW x
        PROVE  /\ Fifo!CallEnqueue(t, x) <=> QueueP!Fifo!CallEnqueue(t, x)
               /\ Fifo!CallDequeue(t) <=> QueueP!Fifo!CallDequeue(t)
               /\ Fifo!Return(t) <=> QueueP!Fifo!Return(t)
    BY <2>3, <2>4, <2>5
       DEF Fifo!CallEnqueue, QueueP!Fifo!CallEnqueue, Fifo!CallDequeue,
           QueueP!Fifo!CallDequeue, Fifo!Return, QueueP!Fifo!Return
  <2>7. ASSUME NEW t \in Threads
        PROVE  /\ Fifo!Enqueue(t) <=> QueueP!Fifo!Enqueue(t)
               /\ Fifo!Dequeue(t) <=> QueueP!Fifo!Dequeue(t)
               /\ Fifo!DequeueEmpty(t) <=> QueueP!Fifo!DequeueEmpty(t)
    BY <2>3, <2>4, <2>5
       DEF Fifo!Enqueue, QueueP!Fifo!Enqueue, Fifo!Dequeue,
           QueueP!Fifo!Dequeue, Fifo!DequeueEmpty, QueueP!Fifo!DequeueEmpty
  <2>8. Fifo!Destroy <=> QueueP!Fifo!Destroy
    BY <2>2, <2>3, <2>4 DEF Fifo!Destroy, QueueP!Fifo!Destroy
  <2>9. Fifo!Next <=> QueueP!Fifo!Next
    BY <2>2, <2>3, <2>4, <2>6, <2>7, <2>8 DEF Fifo!Next, QueueP!Fifo!Next
  <2>10. UNCHANGED Fifo!vars <=> UNCHANGED QueueP!Fifo!vars
    BY <2>3, <2>4 DEF Fifo!vars, QueueP!Fifo!vars
  <2> QED BY <2>1, <2>9, <2>10 DEF Queued
<1>3. CASE structure # "queue"
  <2>1. UNCHANGED Fifo!vars
    BY <1>1, <1>3, SameFifo, SameFifoNext DEF Fifo!vars
  <2> QED BY <1>1, <1>3, <2>1 DEF Queued
<1> QED BY <1>2, <1>3

(* enqueue and dequeue are linearizable: every run of the program is one   *)
(* of a FIFO queue whose operations take effect in a single step, between  *)
(* their call and their return (QueueHazardPointer.hpp).                   *)
THEOREM QueueLinearizable == Spec => Linearizable
<1>1. Init => Fifo!Init
  <2> SUFFICES ASSUME Init PROVE Fifo!Init
    OBVIOUS
  <2>1. CASE structure = "queue"
    <3>1. QueueP!Fifo!Init
      BY <2>1, QueueP!InitFifo, SameQueue DEF Init
    <3>2. Threads = QueueP!Threads
      BY DEF Threads, QueueP!Threads
    <3> QED BY <2>1, <3>1, <3>2, SameFifo DEF Fifo!Init, QueueP!Fifo!Init
  <2>2. CASE structure # "queue"
    BY <2>2, SameFifo DEF Fifo!Init
  <2> QED BY <2>1, <2>2
<1>2. Spec => [](IInv /\ Queued)
  <2>1. IInv /\ Queued /\ [Next]_vars => Queued'
    BY NextQueued
  <2> QED BY <2>1, InitInv, InitQueued, NextInv, PTL DEF Spec
<1>3. IInv /\ Queued /\ [Next]_vars => [Fifo!Next]_(Fifo!vars)
  BY NextQueued
<1> QED BY <1>1, <1>2, <1>3, PTL DEF Spec, Linearizable, Fifo!Spec

=============================================================================
