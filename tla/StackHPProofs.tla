--------------------------- MODULE StackHPProofs ---------------------------
(***************************************************************************)
(* Proofs about StackHP, for any number of threads, addresses and slots    *)
(* and any threshold: the invariant IInv is inductive (one lemma per       *)
(* action), MemorySafe and TypeOK follow from it, and under it every step  *)
(* is a step of SafeReclamation or a stutter.                              *)
(*                                                                         *)
(* With it Placed and Drained are inductive: the linked nodes are the      *)
(* stack, every other allocated one is in the hands of exactly one thread  *)
(* or in exactly one retired list, and the destructor leaves none behind.  *)
(* OneOwner and NothingLeaked follow.                                      *)
(*                                                                         *)
(* The items that the links of the stack go through (Heap, ChainTo) are    *)
(* those of a LIFO stack, and each step changes them as one operation of   *)
(* LifoStack does, or not at all.                                          *)
(***************************************************************************)
EXTENDS StackHP, HeapProofs, SequenceTheorems

-----------------------------------------------------------------------------
(* What HazardPointers does to a retired list.                             *)

(* What erase leaves of a retired list: every entry but one, in the same   *)
(* order.                                                                  *)
LEMMA RemoveAtProperties ==
  ASSUME NEW S, NEW s \in Seq(S), NEW i \in 1..Len(s)
  PROVE  /\ RemoveAt(s, i) \in Seq(S)
         /\ Len(RemoveAt(s, i)) = Len(s) - 1
         /\ \A j \in 1..(Len(s) - 1) :
              RemoveAt(s, i)[j] = IF j < i THEN s[j] ELSE s[j + 1]
<1> DEFINE a == SubSeq(s, 1, i - 1)
           b == SubSeq(s, i + 1, Len(s))
<1>1. /\ Len(s) \in Nat /\ \A j \in 1..Len(s) : s[j] \in S
  BY LenProperties, ElementOfSeq
<1>2. /\ a \in Seq(S) /\ Len(a) = i - 1 /\ \A j \in 1..(i - 1) : a[j] = s[j]
  <2>1. \A j \in 1..(i - 1) : s[j] \in S
    BY <1>1
  <2>2. 1 \in Int /\ i - 1 \in Int /\ i \in Int
    BY <1>1
  <2>3. /\ a \in Seq(S)
        /\ Len(a) = IF 1 <= i - 1 THEN (i - 1) - 1 + 1 ELSE 0
        /\ \A j \in 1..((i - 1) - 1 + 1) : a[j] = s[1 + j - 1]
    BY <2>1, <2>2, SubSeqProperties
  <2> HIDE DEF a
  <2> QED BY <2>2, <2>3, <1>1
<1>3. /\ b \in Seq(S) /\ Len(b) = Len(s) - i
      /\ \A j \in 1..(Len(s) - i) : b[j] = s[i + j]
  <2>1. \A j \in (i + 1)..Len(s) : s[j] \in S
    BY <1>1
  <2>2. i + 1 \in Int /\ Len(s) \in Int /\ i \in Int
    BY <1>1
  <2>3. /\ b \in Seq(S)
        /\ Len(b) = IF i + 1 <= Len(s) THEN Len(s) - (i + 1) + 1 ELSE 0
        /\ \A j \in 1..(Len(s) - (i + 1) + 1) : b[j] = s[(i + 1) + j - 1]
    BY <2>1, <2>2, SubSeqProperties
  <2> HIDE DEF b
  <2>4. /\ Len(b) = Len(s) - i
        /\ \A j \in 1..(Len(s) - i) : b[j] = s[i + j]
    BY <2>2, <2>3, <1>1, SMTT(20)
  <2> QED BY <2>3, <2>4
<1> HIDE DEF a, b
<1>4. /\ a \o b \in Seq(S)
      /\ Len(a \o b) = Len(a) + Len(b)
      /\ \A j \in 1..(Len(a) + Len(b)) :
           (a \o b)[j] = IF j <= Len(a) THEN a[j] ELSE b[j - Len(a)]
  BY <1>2, <1>3, ConcatProperties
<1>5. RemoveAt(s, i) = a \o b
  BY DEF RemoveAt, a, b
<1>6. ASSUME NEW j \in 1..(Len(s) - 1)
      PROVE  (a \o b)[j] = IF j < i THEN s[j] ELSE s[j + 1]
  <2>1. CASE j < i
    BY <1>1, <1>2, <1>3, <1>4, <2>1
  <2>2. CASE i <= j
    <3>1. j - (i - 1) \in 1..(Len(s) - i) /\ ~(j <= Len(a)) /\ ~(j < i)
          /\ j \in 1..(Len(a) + Len(b)) /\ j - Len(a) = j - (i - 1)
      BY <1>1, <1>2, <1>3, <2>2
    <3>2. (a \o b)[j] = b[j - (i - 1)]
      BY <1>4, <3>1
    <3>3. b[j - (i - 1)] = s[i + (j - (i - 1))] /\ i + (j - (i - 1)) = j + 1
      BY <1>1, <1>3, <3>1
    <3> QED BY <3>1, <3>2, <3>3
  <2>3. j < i \/ i <= j
    BY <1>1
  <2> QED BY <2>1, <2>2, <2>3
<1> QED
  BY <1>1, <1>2, <1>3, <1>4, <1>5, <1>6

(* The entries and lengths of the retired lists.                           *)
LEMMA ListEntries ==
  ASSUME ScanTypes, NEW t \in Threads
  PROVE  /\ retiredPointerList[t] \in Seq(Nodes)
         /\ Len(retiredPointerList[t]) \in Nat
         /\ \A i \in 1..Len(retiredPointerList[t]) :
              retiredPointerList[t][i] \in Nodes
BY LenProperties, ElementOfSeq DEF ScanTypes

(* A node is in one entry of the retired lists, or in none.                *)
LEMMA OneEntry ==
  ASSUME ScanTypes, RetiredOnce, NEW n
  PROVE  IF InNoList(n) THEN EntriesOf(retiredPointerList, n) = {}
         ELSE /\ status[n] = "retired"
              /\ \E x : EntriesOf(retiredPointerList, n) = {x}
<1>1. DOMAIN retiredPointerList = Threads
  BY DEF ScanTypes
<1>2. CASE InNoList(n)
  BY <1>1, <1>2, EntriesDef DEF InNoList
<1>3. CASE ~InNoList(n)
  <2>0. PICK t \in Threads : \E i \in 1..Len(retiredPointerList[t]) :
          retiredPointerList[t][i] = n
    BY <1>3 DEF InNoList
  <2>1. PICK i \in 1..Len(retiredPointerList[t]) : retiredPointerList[t][i] = n
    BY <2>0
  <2>2. EntriesOf(retiredPointerList, n) = {<<t, i>>}
    BY <1>1, <2>1, EntriesDef DEF RetiredOnce
  <2> QED BY <1>3, <2>1, <2>2 DEF RetiredOnce
<1> QED BY <1>2, <1>3

(* A node with an entry is in the set of nodes that a destructor deletes.  *)
LEMMA EntriesRetired ==
  ASSUME ScanTypes, NEW n, ~InNoList(n)
  PROVE  \E t \in Threads : n \in Retired(t)
<1>1. PICK t \in Threads : \E i \in 1..Len(retiredPointerList[t]) :
          retiredPointerList[t][i] = n
  BY DEF InNoList
<1>2. DOMAIN retiredPointerList[t] = 1..Len(retiredPointerList[t])
  BY ListEntries, LenProperties
<1> QED BY <1>1, <1>2 DEF Retired, ToSet

(* retireNode adds an entry for its node.                                  *)
LEMMA PushEntry ==
  ASSUME ScanTypes, NEW t \in Threads, NEW n \in Nodes, RetirePush(t, n)
  PROVE  \A m : InNoList(m)' <=> InNoList(m) /\ m # n
<1> DEFINE rl == retiredPointerList[t]
<1>1. /\ rl \in Seq(Nodes) /\ Len(rl) \in Nat
      /\ retiredPointerList' = [retiredPointerList EXCEPT ![t] = Append(rl, n)]
  BY ListEntries DEF RetirePush
<1>2. /\ Len(Append(rl, n)) = Len(rl) + 1
      /\ \A i \in 1..Len(rl) : Append(rl, n)[i] = rl[i]
      /\ Append(rl, n)[Len(rl) + 1] = n
  BY <1>1, AppendProperties
<1>3. /\ retiredPointerList'[t] = Append(rl, n)
      /\ \A u \in Threads : u # t => retiredPointerList'[u] = retiredPointerList[u]
  BY <1>1 DEF ScanTypes
<1>4. ASSUME NEW m, InNoList(m), m # n PROVE InNoList(m)'
  BY <1>1, <1>2, <1>3, <1>4 DEF InNoList
<1>5. ASSUME NEW m, InNoList(m)' PROVE InNoList(m) /\ m # n
  <2>1. m # n
    BY <1>1, <1>2, <1>3, <1>5 DEF InNoList
  <2>2. ASSUME NEW u \in Threads, NEW i \in 1..Len(retiredPointerList[u])
        PROVE  retiredPointerList[u][i] # m
    <3>1. CASE u = t
      <4>1. i \in 1..Len(Append(rl, n)) /\ Append(rl, n)[i] = rl[i]
        BY <1>1, <1>2, <2>2, <3>1
      <4> QED BY <1>3, <1>5, <3>1, <4>1 DEF InNoList
    <3>2. CASE u # t
      BY <1>3, <1>5, <2>2, <3>2 DEF InNoList
    <3> QED BY <3>1, <3>2
  <2> QED BY <2>1, <2>2 DEF InNoList
<1> QED BY <1>4, <1>5

(* The scan removes the entry of the node it deletes, and no other.        *)
LEMMA ScanEntries ==
  ASSUME ScanTypes, NEW t \in Threads, NEW scanning, NEW done,
         scan[t].i \in 1..Len(retiredPointerList[t]),
         RetireScan(t, scanning, done)
  PROVE  \/ UNCHANGED <<heapVars, retiredPointerList>>
         \/ /\ Delete({Candidate(t)})
            /\ \A m : m # Candidate(t) /\ InNoList(m)' => InNoList(m)
<1>1. CASE ScanSlot(t, scanning) \/ Keep(t, scanning, done)
  BY <1>1 DEF ScanSlot, Keep, hpVars
<1>2. CASE Reclaim(t, scanning, done)
  <2> DEFINE rl == retiredPointerList[t]
             e == scan[t].i
  <2>1. /\ rl \in Seq(Nodes) /\ Len(rl) \in Nat /\ e \in 1..Len(rl)
        /\ retiredPointerList' = [retiredPointerList EXCEPT ![t] = RemoveAt(rl, e)]
    BY <1>2, ListEntries DEF Reclaim
  <2>2. /\ Len(RemoveAt(rl, e)) = Len(rl) - 1
        /\ \A j \in 1..(Len(rl) - 1) :
             RemoveAt(rl, e)[j] = IF j < e THEN rl[j] ELSE rl[j + 1]
    BY <2>1, RemoveAtProperties
  <2>3. /\ retiredPointerList'[t] = RemoveAt(rl, e)
        /\ \A u \in Threads : u # t => retiredPointerList'[u] = retiredPointerList[u]
    BY <2>1 DEF ScanTypes
  <2> HIDE DEF rl, e
  <2>4. ASSUME NEW m, m # Candidate(t), InNoList(m)',
               NEW u \in Threads, NEW i \in 1..Len(retiredPointerList[u]),
               retiredPointerList[u][i] = m
        PROVE  FALSE
    <3>1. CASE u # t
      BY <2>3, <2>4, <3>1 DEF InNoList
    <3>2. CASE u = t
      <4>1. i \in 1..Len(rl) /\ i # e /\ rl[i] = m
        BY <2>4, <3>2 DEF Candidate, rl, e
      <4>2. CASE i < e
        <5>1. i \in 1..(Len(rl) - 1) /\ RemoveAt(rl, e)[i] = m
          BY <2>1, <2>2, <4>1, <4>2
        <5> QED BY <2>2, <2>3, <2>4, <5>1 DEF InNoList
      <4>3. CASE i > e
        <5>1. /\ i - 1 \in 1..(Len(rl) - 1) /\ ~(i - 1 < e) /\ (i - 1) + 1 = i
          BY <2>1, <4>1, <4>3
        <5>2. RemoveAt(rl, e)[i - 1] = m
          BY <2>2, <4>1, <5>1
        <5> QED BY <2>2, <2>3, <2>4, <5>1, <5>2 DEF InNoList
      <4> QED BY <2>1, <4>1, <4>2, <4>3
    <3> QED BY <3>1, <3>2
  <2> QED BY <1>2, <2>4 DEF Reclaim, InNoList
<1> QED BY <1>1, <1>2 DEF RetireScan

-----------------------------------------------------------------------------
(* The constructors establish the invariant.                               *)
LEMMA InitInv == Init => IInv
<1> SUFFICES ASSUME Init PROVE IInv
  OBVIOUS
<1> USE HeapAssumption, HPAssumption, ThreadsAssumption
    DEF Init, HPInit, BenchmarkInit, HeapWithSentinel
<1>1. TypeOK
  BY DEF TypeOK, MainStates, HeapTypeOK, HPTypeOK, NodeOrNull, Statuses,
     Labels, PopLabels, ScanStart, Slots
<1>2. StackShape
  BY DEF StackShape
<1>3. PushOwnsNode /\ ProtectPublished /\ GuardPublished /\ PoppedByOne /\ MainAlone
  BY DEF PushOwnsNode, ProtectPublished, GuardPublished, GuardedByHP,
     PoppedByOne, MainAlone, PushLabels
<1>4. RetiredOnce /\ ScanSound /\ CountsRetired
  BY DEF RetiredOnce, ScanSound, CountsRetired, Destroyed
<1> QED BY <1>1, <1>2, <1>3, <1>4 DEF IInv

(* A push that begins owns a node nobody else knows.                       *)
LEMMA PushCallInv ==
  ASSUME IInv, NEW t \in Threads, PushCall(t)
  PROVE  IInv'
<1> USE HeapAssumption, HPAssumption, ThreadsAssumption
    DEF IInv, PushCall, Calling, heapVars, hpVars,
    hpLocals, locals, Goto, New
<1>1. TypeOK'
  <2>1. PICK n \in Nodes, i \in Items :
          New(n, i) /\ node' = [node EXCEPT ![t] = n]
    OBVIOUS
  <2> QED BY <2>1 DEF TypeOK, MainStates, HeapTypeOK, HPTypeOK, NodeOrNull,
     Statuses,
      Labels, PushLabels, PopLabels, GuardLabels, ScanStart, Slots, Threads
<1>2. StackShape' /\ PushOwnsNode' /\ ProtectPublished'
  BY DEF TypeOK, MainStates, HeapTypeOK, HPTypeOK, StackShape, PushOwnsNode,
     PushLabels,
      ProtectPublished
<1>3. GuardPublished' /\ RetiredOnce' /\ PoppedByOne'
  BY DEF TypeOK, MainStates, HeapTypeOK, HPTypeOK, GuardPublished, GuardedByHP,
      RetiredOnce, PoppedByOne
<1>4. ScanSound' /\ MainAlone'
  BY DEF TypeOK, MainStates, HeapTypeOK, HPTypeOK, ScanSound, GuardedByHP,
     Candidate,
      Passed, MainAlone, PushLabels
<1>5. CountsRetired'
  BY DEF CountsRetired, Destroyed
<1> QED
  BY <1>1, <1>2, <1>3, <1>4, <1>5

(* Loading the argument of storeHazardPtr changes no shared state.         *)
LEMMA PushLoadInv ==
  ASSUME IInv, NEW t \in Threads, PushLoad(t)
  PROVE  IInv'
<1> USE HeapAssumption, HPAssumption, ThreadsAssumption
    DEF IInv, PushLoad, heapVars, hpVars,
    hpLocals, locals, ArgumentLoad, Goto
<1>1. TypeOK'
  BY DEF TypeOK, MainStates, HeapTypeOK, HPTypeOK, NodeOrNull, Statuses,
     Labels,
      PushLabels, PopLabels, GuardLabels, ScanStart, Slots, Threads
<1>2. PushOwnsNode' /\ ProtectPublished' /\ GuardPublished'
  BY DEF TypeOK, MainStates, HeapTypeOK, HPTypeOK, PushOwnsNode, PushLabels,
      ProtectPublished, GuardPublished, GuardedByHP
<1>3. PoppedByOne' /\ MainAlone'
  BY DEF TypeOK, MainStates, HeapTypeOK, HPTypeOK, PoppedByOne, MainAlone,
      PushLabels
<1>4. ScanSound'
  BY DEF TypeOK, MainStates, HeapTypeOK, HPTypeOK, ScanSound, GuardedByHP,
      Candidate, Passed
<1>5. StackShape' /\ RetiredOnce' /\ CountsRetired'
  BY DEF StackShape, RetiredOnce, CountsRetired, Destroyed
<1> QED
  BY <1>1, <1>2, <1>3, <1>4, <1>5

(* A push publishes in its own slot, on which only its own pop could rely. *)
LEMMA PushPublishInv ==
  ASSUME IInv, NEW t \in Threads, PushPublish(t)
  PROVE  IInv'
<1> USE HeapAssumption, HPAssumption, ThreadsAssumption
    DEF IInv, PushPublish, heapVars, hpVars,
    hpLocals, locals, StoreHazardPtr, Publish, Goto
<1>1. TypeOK'
  BY DEF TypeOK, MainStates, HeapTypeOK, HPTypeOK, NodeOrNull, Statuses,
     Labels,
      PushLabels, PopLabels, GuardLabels, ScanStart, Slots, Threads
<1>2. PushOwnsNode' /\ ProtectPublished' /\ GuardPublished'
  BY DEF TypeOK, MainStates, HeapTypeOK, HPTypeOK, PushOwnsNode, PushLabels,
      ProtectPublished, GuardPublished, GuardedByHP
<1>3. PoppedByOne' /\ ScanSound' /\ MainAlone'
  BY DEF TypeOK, MainStates, HeapTypeOK, HPTypeOK, PoppedByOne, ScanSound,
     GuardedByHP,
      Candidate, Passed, MainAlone, PushLabels
<1>4. StackShape' /\ RetiredOnce' /\ CountsRetired'
  BY DEF StackShape, RetiredOnce, CountsRetired, Destroyed
<1> QED
  BY <1>1, <1>2, <1>3, <1>4

(* The link is written into a node that is still private.                  *)
LEMMA PushCheckInv ==
  ASSUME IInv, NEW t \in Threads, PushCheck(t)
  PROVE  IInv'
<1> USE HeapAssumption, HPAssumption, ThreadsAssumption
    DEF IInv, PushCheck, heapVars, hpVars,
    hpLocals, locals, Goto
<1>1. TypeOK'
  BY DEF TypeOK, MainStates, HeapTypeOK, HPTypeOK, NodeOrNull, Statuses,
     Labels,
      PushLabels, PopLabels, GuardLabels, ScanStart, Slots, Threads
<1>2. StackShape' /\ PushOwnsNode' /\ ProtectPublished'
  BY DEF TypeOK, MainStates, HeapTypeOK, HPTypeOK, StackShape, PushOwnsNode,
     PushLabels,
      ProtectPublished
<1>3. GuardPublished' /\ PoppedByOne' /\ ScanSound'
  BY DEF TypeOK, MainStates, HeapTypeOK, HPTypeOK, GuardPublished, GuardedByHP,
      PushOwnsNode, PushLabels, PoppedByOne, ScanSound, Candidate, Passed
<1>4. MainAlone'
  BY DEF TypeOK, MainStates, HeapTypeOK, HPTypeOK, MainAlone, PushLabels
<1>5. RetiredOnce' /\ CountsRetired'
  BY DEF RetiredOnce, CountsRetired, Destroyed
<1> QED
  BY <1>1, <1>2, <1>3, <1>4, <1>5

(* The exchange of a push makes its node the new top, in front of the old  *)
(* one.                                                                    *)
LEMMA PushCasInv ==
  ASSUME IInv, NEW t \in Threads, PushCas(t)
  PROVE  IInv'
<1> USE HeapAssumption, HPAssumption, ThreadsAssumption
    DEF IInv, PushCas, heapVars, hpVars,
    hpLocals, locals, Goto
<1>1. TypeOK'
  BY DEF TypeOK, MainStates, HeapTypeOK, HPTypeOK, NodeOrNull, Statuses,
     Labels,
      PushLabels, PopLabels, GuardLabels, ScanStart, Slots, Threads
<1>2. StackShape'
  <2>1. CASE top # ptr[t]
    BY <2>1 DEF TypeOK, MainStates, HeapTypeOK, HPTypeOK, StackShape
  <2>2. CASE top = ptr[t]
    <3>1. /\ top' = node[t] /\ status' = [status EXCEPT ![node[t]] = "linked"]
          /\ next' = next /\ node[t] \in Nodes /\ status[node[t]] = "private"
          /\ next[node[t]] = top
      BY <2>2 DEF PushOwnsNode, PushLabels
    <3>2. \A m \in Nodes : status'[m] = "linked" <=> m = node[t] \/ status[m] = "linked"
      BY <3>1 DEF TypeOK, MainStates, HeapTypeOK, HPTypeOK, StackShape
    <3> QED BY <3>1, <3>2 DEF TypeOK, HeapTypeOK, NodeOrNull, StackShape
  <2> QED BY <2>1, <2>2
<1>3. PushOwnsNode'
  BY DEF TypeOK, MainStates, HeapTypeOK, HPTypeOK, PushOwnsNode, PushLabels
<1>4. ProtectPublished'
  BY DEF TypeOK, MainStates, HeapTypeOK, HPTypeOK, ProtectPublished
<1>5. GuardPublished'
  BY DEF TypeOK, MainStates, HeapTypeOK, HPTypeOK, GuardPublished, GuardedByHP
<1>6. RetiredOnce'
  BY DEF TypeOK, MainStates, HeapTypeOK, HPTypeOK, RetiredOnce, PushOwnsNode,
     PushLabels
<1>7. PoppedByOne'
  BY DEF TypeOK, MainStates, HeapTypeOK, HPTypeOK, PoppedByOne, PushOwnsNode,
     PushLabels,
      RetiredOnce
<1>8. ScanSound'
  BY DEF TypeOK, MainStates, HeapTypeOK, HPTypeOK, ScanSound, GuardedByHP,
     Candidate,
      Passed
<1>9. MainAlone'
  BY DEF TypeOK, MainStates, HeapTypeOK, HPTypeOK, MainAlone, PushLabels
<1>10. CountsRetired'
  BY DEF CountsRetired, Destroyed
<1> QED
  BY <1>1, <1>2, <1>3, <1>4, <1>5, <1>6, <1>7, <1>8, <1>9, <1>10

(* A pop that begins holds nothing, also when the main thread drains.      *)
LEMMA PopCallInv ==
  ASSUME IInv, NEW t \in Threads, PopCall(t)
  PROVE  IInv'
<1> USE HeapAssumption, HPAssumption, ThreadsAssumption
    DEF IInv, PopCall, Calling, DrainingAs, heapVars, hpVars,
    hpLocals, locals, Goto
<1>1. TypeOK'
  BY DEF TypeOK, MainStates, HeapTypeOK, HPTypeOK, NodeOrNull, Statuses,
     Labels,
      PushLabels, PopLabels, GuardLabels, ScanStart, Slots, Threads
<1>2. PushOwnsNode' /\ ProtectPublished' /\ GuardPublished'
  BY DEF TypeOK, MainStates, HeapTypeOK, HPTypeOK, PushOwnsNode, PushLabels,
      ProtectPublished, GuardPublished, GuardedByHP
<1>3. PoppedByOne' /\ ScanSound' /\ MainAlone'
  BY DEF TypeOK, MainStates, HeapTypeOK, HPTypeOK, PoppedByOne, ScanSound,
     GuardedByHP,
      Candidate, Passed, MainAlone, PushLabels
<1>4. StackShape' /\ RetiredOnce' /\ CountsRetired'
  BY DEF StackShape, RetiredOnce, CountsRetired, Destroyed
<1> QED
  BY <1>1, <1>2, <1>3, <1>4

(* protect returns a node only when the slot already shows it and the load *)
(* finds it at the top, hence linked and passed by no scan.                *)
LEMMA PopProtectInv ==
  ASSUME IInv, NEW t \in Threads, PopProtect(t)
  PROVE  IInv'
<1> USE HeapAssumption, HPAssumption, ThreadsAssumption
    DEF IInv, PopProtect, heapVars, hpVars,
    hpLocals, locals, ProtectLoad, ProtectDone, Goto
<1>1. TypeOK'
  BY DEF TypeOK, MainStates, HeapTypeOK, HPTypeOK, NodeOrNull, Statuses,
     Labels,
      PushLabels, PopLabels, GuardLabels, ScanStart, Slots, Threads
<1>2. PushOwnsNode'
  BY DEF TypeOK, MainStates, HeapTypeOK, HPTypeOK, PushOwnsNode, PushLabels
<1>3. ProtectPublished'
  BY DEF TypeOK, MainStates, HeapTypeOK, HPTypeOK, ProtectPublished
<1>4. GuardPublished'
  BY DEF TypeOK, MainStates, HeapTypeOK, HPTypeOK, GuardPublished, GuardedByHP,
      ProtectPublished, StackShape, NodeOrNull
<1>5. PoppedByOne'
  BY DEF TypeOK, MainStates, HeapTypeOK, HPTypeOK, PoppedByOne
<1>6. ScanSound'
  BY DEF TypeOK, MainStates, HeapTypeOK, HPTypeOK, ScanSound, GuardedByHP,
     Candidate,
      Passed, RetiredOnce, StackShape
<1>7. MainAlone'
  BY DEF TypeOK, MainStates, HeapTypeOK, HPTypeOK, MainAlone, PushLabels
<1>8. StackShape' /\ RetiredOnce' /\ CountsRetired'
  BY DEF StackShape, RetiredOnce, CountsRetired, Destroyed
<1> QED
  BY <1>1, <1>2, <1>3, <1>4, <1>5, <1>6, <1>7, <1>8

(* A pop may overwrite its slot: it relies on no node yet.                 *)
LEMMA PopPublishInv ==
  ASSUME IInv, NEW t \in Threads, PopPublish(t)
  PROVE  IInv'
<1> USE HeapAssumption, HPAssumption, ThreadsAssumption
    DEF IInv, PopPublish, heapVars, hpVars,
    hpLocals, locals, ProtectStore, Publish, Goto
<1>1. TypeOK'
  BY DEF TypeOK, MainStates, HeapTypeOK, HPTypeOK, NodeOrNull, Statuses,
     Labels,
      PushLabels, PopLabels, GuardLabels, ScanStart, Slots, Threads
<1>2. PushOwnsNode'
  BY DEF TypeOK, MainStates, HeapTypeOK, HPTypeOK, PushOwnsNode, PushLabels
<1>3. ProtectPublished'
  BY DEF TypeOK, MainStates, HeapTypeOK, HPTypeOK, ProtectPublished, Slots
<1>4. GuardPublished'
  BY DEF TypeOK, MainStates, HeapTypeOK, HPTypeOK, GuardPublished, GuardedByHP
<1>5. PoppedByOne'
  BY DEF TypeOK, MainStates, HeapTypeOK, HPTypeOK, PoppedByOne
<1>6. ScanSound'
  BY DEF TypeOK, MainStates, HeapTypeOK, HPTypeOK, ScanSound, GuardedByHP,
     Candidate,
      Passed
<1>7. MainAlone'
  BY DEF TypeOK, MainStates, HeapTypeOK, HPTypeOK, MainAlone, PushLabels
<1>8. StackShape' /\ RetiredOnce' /\ CountsRetired'
  BY DEF StackShape, RetiredOnce, CountsRetired, Destroyed
<1> QED
  BY <1>1, <1>2, <1>3, <1>4, <1>5, <1>6, <1>7, <1>8

(* A pop whose node is no longer the top lets go of it.                    *)
LEMMA PopCheckInv ==
  ASSUME IInv, NEW t \in Threads, PopCheck(t)
  PROVE  IInv'
<1> USE HeapAssumption, HPAssumption, ThreadsAssumption
    DEF IInv, PopCheck, heapVars, hpVars,
    hpLocals, locals, Goto
<1>1. TypeOK'
  BY DEF TypeOK, MainStates, HeapTypeOK, HPTypeOK, NodeOrNull, Statuses,
     Labels,
      PushLabels, PopLabels, GuardLabels, ScanStart, Slots, Threads
<1>2. PushOwnsNode' /\ ProtectPublished' /\ GuardPublished'
  BY DEF TypeOK, MainStates, HeapTypeOK, HPTypeOK, PushOwnsNode, PushLabels,
      ProtectPublished, GuardPublished, GuardedByHP
<1>3. PoppedByOne' /\ ScanSound' /\ MainAlone'
  BY DEF TypeOK, MainStates, HeapTypeOK, HPTypeOK, PoppedByOne, ScanSound,
     GuardedByHP,
      Candidate, Passed, MainAlone, PushLabels
<1>4. StackShape' /\ RetiredOnce' /\ CountsRetired'
  BY DEF StackShape, RetiredOnce, CountsRetired, Destroyed
<1> QED
  BY <1>1, <1>2, <1>3, <1>4

(* next of a guarded node is read from allocated memory and stays what it  *)
(* is.                                                                     *)
LEMMA PopNextInv ==
  ASSUME IInv, NEW t \in Threads, PopNext(t)
  PROVE  IInv'
<1> USE HeapAssumption, HPAssumption, ThreadsAssumption
    DEF IInv, PopNext, heapVars, hpVars,
    hpLocals, locals, Goto
<1>1. TypeOK'
  BY DEF TypeOK, MainStates, HeapTypeOK, HPTypeOK, NodeOrNull, Statuses,
     Labels,
      PushLabels, PopLabels, GuardLabels, ScanStart, Slots, Threads,
      GuardPublished, GuardedByHP
<1>2. PushOwnsNode' /\ ProtectPublished' /\ GuardPublished'
  BY DEF TypeOK, MainStates, HeapTypeOK, HPTypeOK, PushOwnsNode, PushLabels,
      ProtectPublished, GuardPublished, GuardedByHP
<1>3. PoppedByOne' /\ ScanSound' /\ MainAlone'
  BY DEF TypeOK, MainStates, HeapTypeOK, HPTypeOK, PoppedByOne, ScanSound,
     GuardedByHP,
      Candidate, Passed, MainAlone, PushLabels
<1>4. StackShape' /\ RetiredOnce' /\ CountsRetired'
  BY DEF StackShape, RetiredOnce, CountsRetired, Destroyed
<1> QED
  BY <1>1, <1>2, <1>3, <1>4

(* The exchange of a pop leaves a list that starts at the successor, and   *)
(* makes its thread the only owner of the old top.                         *)
LEMMA PopCasInv ==
  ASSUME IInv, NEW t \in Threads, PopCas(t)
  PROVE  IInv'
<1> USE HeapAssumption, HPAssumption, ThreadsAssumption
    DEF IInv, PopCas, heapVars, hpVars,
    hpLocals, locals, Goto
<1>1. TypeOK'
  <2>1. HeapTypeOK'
    BY DEF TypeOK, HeapTypeOK, Statuses
  <2>2. HPTypeOK'
    BY DEF TypeOK, HPTypeOK
  <2>3. pc' \in [Threads -> Labels]
    BY DEF TypeOK, Labels, PopLabels, GuardLabels
  <2>4. top' \in NodeOrNull /\ nxt' \in [Threads -> NodeOrNull]
    BY DEF TypeOK, NodeOrNull
  <2>5. /\ node' \in [Threads -> NodeOrNull] /\ main' \in MainStates
        /\ retData' \in [Threads -> Items \cup {NULL}]
    BY DEF TypeOK
  <2> HIDE DEF IInv, PopCas
  <2> QED BY <2>1, <2>2, <2>3, <2>4, <2>5 DEF TypeOK
<1>2. StackShape'
  <2>1. CASE top # ptr[t]
    BY <2>1 DEF TypeOK, MainStates, HeapTypeOK, HPTypeOK, StackShape
  <2>2. CASE top = ptr[t]
    <3>1. /\ top' = next[top] /\ status' = [status EXCEPT ![top] = "retired"]
          /\ next' = next /\ top \in Nodes
      BY <2>2 DEF GuardPublished, GuardedByHP
    <3>2. \A m \in Nodes : status'[m] = "linked" <=> m # top /\ status[m] = "linked"
      BY <3>1 DEF TypeOK, MainStates, HeapTypeOK, HPTypeOK, StackShape
    <3> QED BY <3>1, <3>2 DEF TypeOK, HeapTypeOK, NodeOrNull, StackShape
  <2> QED BY <2>1, <2>2
<1>3. PushOwnsNode'
  BY DEF TypeOK, MainStates, HeapTypeOK, HPTypeOK, PushOwnsNode, PushLabels,
      GuardPublished, GuardedByHP, StackShape
<1>4. ProtectPublished'
  BY DEF TypeOK, MainStates, HeapTypeOK, HPTypeOK, ProtectPublished
<1>5. GuardPublished'
  BY DEF TypeOK, MainStates, HeapTypeOK, HPTypeOK, GuardPublished, GuardedByHP
<1>6. RetiredOnce'
  BY DEF TypeOK, MainStates, HeapTypeOK, HPTypeOK, RetiredOnce, StackShape,
      GuardPublished, GuardedByHP
<1>7. PoppedByOne'
  BY DEF TypeOK, MainStates, HeapTypeOK, HPTypeOK, PoppedByOne, GuardPublished,
      GuardedByHP, StackShape, RetiredOnce
<1>8. ScanSound'
  BY DEF TypeOK, MainStates, HeapTypeOK, HPTypeOK, ScanSound, GuardedByHP,
     Candidate,
      Passed
<1>9. MainAlone'
  BY DEF TypeOK, MainStates, HeapTypeOK, HPTypeOK, MainAlone, PushLabels
<1>10. CountsRetired'
  BY DEF CountsRetired, Destroyed
<1> QED
  BY <1>1, <1>2, <1>3, <1>4, <1>5, <1>6, <1>7, <1>8, <1>9, <1>10

(* retireNode appends the popped node to the caller's list and begins a    *)
(* scan.                                                                   *)
LEMMA PopItemInv ==
  ASSUME IInv, NEW t \in Threads, PopItem(t)
  PROVE  IInv'
<1> USE HeapAssumption, HPAssumption, ThreadsAssumption
    DEF IInv, PopItem, heapVars, hpVars,
    hpLocals, locals, RetirePush, AfterRetirePush, Goto
<1>a. /\ retiredPointerList[t] \in Seq(Nodes) /\ ptr[t] \in Nodes
      /\ status[ptr[t]] = "retired" /\ pc'[t] \in {"scan", "clear"}
      /\ \A u \in Threads : \A i \in 1..Len(retiredPointerList[u]) :
           retiredPointerList[u][i] # ptr[t]
  BY DEF TypeOK, MainStates, HPTypeOK, PoppedByOne
<1>b. /\ Len(retiredPointerList[t]) \in Nat
      /\ Len(retiredPointerList'[t]) = Len(retiredPointerList[t]) + 1
      /\ \A i \in 1..Len(retiredPointerList[t]) :
           retiredPointerList'[t][i] = retiredPointerList[t][i]
      /\ retiredPointerList'[t][Len(retiredPointerList[t]) + 1] = ptr[t]
  BY <1>a, AppendProperties, LenProperties DEF TypeOK, MainStates, HPTypeOK
<1>c. \A u \in Threads : u # t => /\ retiredPointerList'[u] = retiredPointerList[u]
                                /\ pc'[u] = pc[u]
                                /\ retiredCount'[u] = retiredCount[u]
  BY DEF TypeOK, MainStates, HPTypeOK
<1>1. TypeOK'
  <2>1. /\ ptr[t] \in Nodes
        /\ Append(retiredPointerList[t], ptr[t]) \in Seq(Nodes)
    BY DEF TypeOK, MainStates, HPTypeOK, PoppedByOne
  <2>2. /\ retiredPointerList' \in [Threads -> Seq(Nodes)]
        /\ retiredCount' \in [Threads -> Nat]
    BY <2>1 DEF TypeOK, MainStates, HPTypeOK
  <2>3. scan' \in [Threads -> [i : Nat \ {0}, k : Nat, j : Slots,
                               deleteNode : BOOLEAN]]
    BY DEF TypeOK, MainStates, HPTypeOK, ScanStart, Slots
  <2>4. retData' \in [Threads -> Items \cup {NULL}]
    BY HPAssumption DEF TypeOK
  <2>5. pc' \in [Threads -> Labels]
    BY DEF TypeOK, Labels, PopLabels
  <2> QED BY <2>2, <2>3, <2>4, <2>5 DEF TypeOK, MainStates, HeapTypeOK,
     HPTypeOK
<1>2. RetiredOnce'
  <2>1. \A u \in Threads : \A i \in 1..Len(retiredPointerList'[u]) :
          \/ i \in 1..Len(retiredPointerList[u])
             /\ retiredPointerList'[u][i] = retiredPointerList[u][i]
          \/ u = t /\ i = Len(retiredPointerList[t]) + 1
             /\ retiredPointerList'[u][i] = ptr[t]
    BY <1>a, <1>b, <1>c
  <2> QED BY <2>1, <1>a DEF RetiredOnce
<1>3. PoppedByOne'
  <2>1. \A u \in Threads : \A i \in 1..Len(retiredPointerList'[u]) :
          \/ i \in 1..Len(retiredPointerList[u])
             /\ retiredPointerList'[u][i] = retiredPointerList[u][i]
          \/ retiredPointerList'[u][i] = ptr[t]
    BY <1>a, <1>b, <1>c
  <2> QED BY <2>1, <1>a, <1>c DEF PoppedByOne
<1>4. ScanSound'
  <2>1. ASSUME NEW u \in Threads, u # t
        PROVE  /\ pc'[u] = pc[u] /\ scan'[u] = scan[u] /\ ptr'[u] = ptr[u]
               /\ retiredPointerList'[u] = retiredPointerList[u]
    BY <2>1 DEF TypeOK, MainStates, HPTypeOK
  <2>2. ASSUME NEW u \in Threads
        PROVE  GuardedByHP(u)' <=> GuardedByHP(u) /\ u # t
    BY <2>1 DEF TypeOK, MainStates, HPTypeOK, GuardedByHP
  <2>3. /\ scan'[t] = ScanStart /\ 1 \in 1..Len(retiredPointerList'[t])
        /\ \A u \in Threads : ~Passed(ScanStart, u)
    BY AppendProperties DEF TypeOK, MainStates, HPTypeOK, PoppedByOne,
       ScanStart,
        Passed, Threads
  <2>4. 0 \in 0..NumThreads
    OBVIOUS
  <2> QED BY <2>1, <2>2, <2>3, <2>4 DEF ScanSound, Candidate, ScanStart
<1>5. CountsRetired'
  <2>1. retiredCount'[t] = retiredCount[t] + 1
    BY DEF TypeOK, MainStates, HPTypeOK
  <2> QED BY <2>1, <1>b, <1>c DEF CountsRetired, Destroyed
<1>6. PushOwnsNode' /\ ProtectPublished' /\ GuardPublished'
  BY DEF TypeOK, MainStates, HeapTypeOK, HPTypeOK, PushOwnsNode, PushLabels,
      ProtectPublished, GuardPublished, GuardedByHP
<1>7. MainAlone'
  BY DEF TypeOK, MainStates, HeapTypeOK, HPTypeOK, MainAlone, PushLabels
<1>8. StackShape'
  BY DEF StackShape
<1> QED
  BY <1>1, <1>2, <1>3, <1>4, <1>5, <1>6, <1>7, <1>8

(* clear empties slots no guard of the thread depends on any more.         *)
LEMMA ReturnInv ==
  ASSUME IInv, NEW t \in Threads, Return(t)
  PROVE  IInv'
<1> USE HeapAssumption, HPAssumption, ThreadsAssumption
    DEF IInv, Return, ReturnItem, heapVars, hpVars,
    hpLocals, locals, ClearSlot, Goto
<1>1. TypeOK'
  <2>1. (slot[t] + 1) % SlotsPerThread \in Slots
    BY DEF TypeOK, MainStates, HPTypeOK, Slots
  <2>2. slot' \in [Threads -> Slots]
    BY <2>1 DEF TypeOK, MainStates, HPTypeOK
  <2>3. hazardPointerList' \in [Threads -> [Slots -> NodeOrNull]]
    BY DEF TypeOK, MainStates, HPTypeOK, NodeOrNull
  <2>4. pc' \in [Threads -> Labels]
    BY DEF TypeOK, Labels
  <2>5. /\ ptr' \in [Threads -> NodeOrNull] /\ node' \in [Threads -> NodeOrNull]
        /\ retData' \in [Threads -> Items \cup {NULL}]
        /\ main' \in MainStates
    BY DEF TypeOK, MainStates, HPTypeOK, NodeOrNull
  <2> QED BY <2>2, <2>3, <2>4, <2>5 DEF TypeOK, MainStates, HeapTypeOK,
     HPTypeOK
<1>2. PushOwnsNode' /\ ProtectPublished' /\ GuardPublished'
  BY DEF TypeOK, MainStates, HeapTypeOK, HPTypeOK, PushOwnsNode, PushLabels,
      ProtectPublished, GuardPublished, GuardedByHP
<1>3. PoppedByOne'
  <2>1. \A u \in Threads : pc'[u] = "pop.item" =>
          pc[u] = "pop.item" /\ ptr'[u] = ptr[u]
    BY DEF TypeOK, HPTypeOK
  <2>2. UNCHANGED <<retiredPointerList, status>> /\ PoppedByOne
    OBVIOUS
  <2> HIDE DEF IInv, Return, ReturnItem, ClearSlot, Goto
  <2> QED BY <2>1, <2>2 DEF PoppedByOne
<1>4. CountsRetired'
  BY DEF MainStates, CountsRetired, Destroyed
<1>5. ScanSound'
  BY DEF TypeOK, MainStates, HeapTypeOK, HPTypeOK, ScanSound, GuardedByHP,
      Candidate, Passed
<1>6. MainAlone'
  BY DEF TypeOK, MainStates, HeapTypeOK, HPTypeOK, MainAlone, PushLabels
<1>7. StackShape' /\ RetiredOnce'
  BY DEF StackShape, RetiredOnce
<1> QED
  BY <1>1, <1>2, <1>3, <1>4, <1>5, <1>6, <1>7

(* The main thread's flag changes nothing in the structure.                *)
LEMMA QuitInv ==
  ASSUME IInv, Quit
  PROVE  IInv'
<1> USE HeapAssumption, HPAssumption, ThreadsAssumption
    DEF IInv, Quit, QuitSignal, heapVars, hpVars,
    hpLocals, locals
<1>1. TypeOK'
  BY DEF TypeOK, MainStates, HeapTypeOK, HPTypeOK, NodeOrNull, Statuses,
     Labels,
      PushLabels, PopLabels, GuardLabels, ScanStart, Slots, Threads
<1>2. CountsRetired' /\ MainAlone'
  BY DEF TypeOK, MainStates, HeapTypeOK, HPTypeOK, CountsRetired, Destroyed,
     MainAlone, PushLabels
<1>3. StackShape' /\ PushOwnsNode' /\ ProtectPublished' /\ GuardPublished' /\
      RetiredOnce' /\ PoppedByOne' /\ ScanSound'
  BY DEF StackShape, PushOwnsNode, PushLabels, ProtectPublished,
      GuardPublished, GuardedByHP, RetiredOnce, PoppedByOne, ScanSound,
      Candidate, Passed
<1> QED
  BY <1>1, <1>2, <1>3

(* A thread leaves its loop between two operations.                        *)
LEMMA ThreadExitInv ==
  ASSUME IInv, NEW t \in Threads, ThreadExit(t)
  PROVE  IInv'
<1> USE HeapAssumption, HPAssumption, ThreadsAssumption
    DEF IInv, ThreadExit, LeaveLoop, heapVars, hpVars,
    hpLocals, locals, Goto
<1>1. TypeOK'
  BY DEF TypeOK, MainStates, HeapTypeOK, HPTypeOK, NodeOrNull, Statuses,
     Labels,
      PushLabels, PopLabels, GuardLabels, ScanStart, Slots, Threads
<1>2. PushOwnsNode' /\ ProtectPublished' /\ GuardPublished'
  BY DEF TypeOK, MainStates, HeapTypeOK, HPTypeOK, PushOwnsNode, PushLabels,
      ProtectPublished, GuardPublished, GuardedByHP
<1>3. PoppedByOne' /\ ScanSound' /\ MainAlone'
  BY DEF TypeOK, MainStates, HeapTypeOK, HPTypeOK, PoppedByOne, ScanSound,
     GuardedByHP,
      Candidate, Passed, MainAlone, PushLabels
<1>4. StackShape' /\ RetiredOnce' /\ CountsRetired'
  BY DEF StackShape, RetiredOnce, CountsRetired, Destroyed
<1> QED
  BY <1>1, <1>2, <1>3, <1>4

(* Once all threads have been joined the main thread is alone.             *)
LEMMA JoinInv ==
  ASSUME IInv, Join
  PROVE  IInv'
<1> USE HeapAssumption, HPAssumption, ThreadsAssumption
    DEF IInv, Join, JoinThreads, heapVars, hpVars,
    hpLocals, locals
<1>1. TypeOK'
  BY DEF TypeOK, MainStates, HeapTypeOK, HPTypeOK, NodeOrNull, Statuses,
     Labels,
      PushLabels, PopLabels, GuardLabels, ScanStart, Slots, Threads
<1>2. PushOwnsNode' /\ ProtectPublished' /\ GuardPublished'
  BY DEF TypeOK, MainStates, HeapTypeOK, HPTypeOK, PushOwnsNode, PushLabels,
      ProtectPublished, GuardPublished, GuardedByHP
<1>3. PoppedByOne' /\ ScanSound' /\ CountsRetired'
  BY DEF TypeOK, MainStates, HeapTypeOK, HPTypeOK, PoppedByOne, ScanSound,
     GuardedByHP,
      Candidate, Passed, CountsRetired, Destroyed
<1>4. MainAlone'
  BY DEF TypeOK, MainStates, HeapTypeOK, HPTypeOK, MainAlone, PushLabels
<1>5. StackShape' /\ RetiredOnce'
  BY DEF StackShape, RetiredOnce
<1> QED
  BY <1>1, <1>2, <1>3, <1>4, <1>5

(* The destructors free the last node and the retired ones, with no thread *)
(* left to use them.                                                       *)
LEMMA DestroyInv ==
  ASSUME IInv, Destroy
  PROVE  IInv'
<1> USE HeapAssumption, HPAssumption, ThreadsAssumption
    DEF IInv, Destroy, DeleteStructure, heapVars, hpVars,
    hpLocals, locals, Delete, Retired, ToSet
<1>1. TypeOK'
  <2>1. HeapTypeOK'
    BY DEF TypeOK, HeapTypeOK, NodeOrNull, Statuses
  <2>2. retiredPointerList' \in [Threads -> Seq(Nodes)]
    OBVIOUS
  <2> QED BY <2>1, <2>2 DEF TypeOK, MainStates, HPTypeOK, NodeOrNull
<1>2. StackShape'
  <2>1. ASSUME NEW m \in Nodes, status[m] = "linked", NEW u \in Threads
        PROVE  m \notin Retired(u)
    <3>1. retiredPointerList[u] \in Seq(Nodes)
      BY DEF TypeOK, MainStates, HPTypeOK
    <3>2. DOMAIN retiredPointerList[u] = 1..Len(retiredPointerList[u])
      BY <3>1, LenProperties
    <3> QED BY <2>1, <3>2 DEF RetiredOnce
  <2>2. \A m \in Nodes : status'[m] = "linked" <=> status[m] = "linked" /\ m # top
    BY <2>1 DEF TypeOK, HeapTypeOK
  <2>3. \A m \in Nodes : status'[m] = "linked" => next'[m] = next[m]
    BY <2>1
  <2> QED BY <2>2, <2>3 DEF StackShape, TypeOK, HeapTypeOK, NodeOrNull
<1>3. PushOwnsNode'
  BY DEF TypeOK, MainStates, HeapTypeOK, HPTypeOK, PushOwnsNode, PushLabels,
     MainAlone
<1>4. GuardPublished'
  BY DEF TypeOK, MainStates, HeapTypeOK, HPTypeOK, GuardPublished, GuardedByHP,
     MainAlone
<1>5. RetiredOnce'
  BY DEF TypeOK, MainStates, HeapTypeOK, HPTypeOK, RetiredOnce
<1>6. PoppedByOne'
  BY DEF TypeOK, MainStates, HeapTypeOK, HPTypeOK, PoppedByOne, MainAlone,
     RetiredOnce
<1>7. ScanSound'
  BY DEF TypeOK, MainStates, HeapTypeOK, HPTypeOK, ScanSound, GuardedByHP,
     Candidate,
      Passed, MainAlone
<1>8. CountsRetired'
  BY DEF TypeOK, MainStates, HeapTypeOK, HPTypeOK, CountsRetired, Destroyed
<1>9. MainAlone'
  BY DEF TypeOK, MainStates, HeapTypeOK, HPTypeOK, MainAlone, PushLabels
<1>10. ProtectPublished'
  BY DEF ProtectPublished
<1> QED
  BY <1>1, <1>2, <1>3, <1>4, <1>5, <1>6, <1>7, <1>8, <1>9, <1>10

(* A slot the scan passes without a match does not guard the candidate,    *)
(* and no thread can come to guard a retired node afterwards.              *)
LEMMA ScanSlotInv ==
  ASSUME IInv, NEW t \in Threads, ScanSlot(t, "scan"), UNCHANGED <<top, locals, main>>
  PROVE  IInv'
<1> DEFINE s == scan[t]
           R == [i : Nat \ {0}, k : Nat, j : Slots, deleteNode : BOOLEAN]
<1>1. /\ pc[t] = "scan" /\ scan \in [Threads -> R] /\ s \in R
      /\ s.k \in 0..(NumThreads - 1)
  BY HPAssumption, ThreadsAssumption
  DEF IInv, TypeOK, MainStates, HPTypeOK, ScanSound, ScanSlot, ScannedAll
<1>2. scan' = [scan EXCEPT ![t] = IF Matches(t) THEN Blocked(s) ELSE NextSlot(s)]
  BY DEF ScanSlot
<1>3. /\ UNCHANGED <<heapVars, hpVars, pc, ptr, last, slot>>
      /\ UNCHANGED <<top, locals, main>>
  BY DEF ScanSlot
<1>4. /\ scan'[t] \in R /\ scan'[t].i = s.i /\ scan'[t].k \in 0..NumThreads
      /\ scan'[t].deleteNode =>
           /\ s.deleteNode /\ ~Matches(t)
           /\ \A u \in Threads : Passed(scan'[t], u) =>
                Passed(s, u) \/ (u = s.k /\ s.j = 0)
  <2>1. CASE Matches(t)
    <3>1. scan'[t] = [i |-> s.i, k |-> s.k + 1, j |-> 0, deleteNode |-> FALSE]
      BY <1>1, <1>2, <2>1 DEF Blocked
    <3> QED BY <3>1, <1>1, HPAssumption, ThreadsAssumption DEF Slots
  <2>2. CASE ~Matches(t) /\ s.j + 1 < SlotsPerThread
    <3>1. scan'[t] = [s EXCEPT !.j = s.j + 1]
      BY <1>1, <1>2, <2>2 DEF NextSlot
    <3>2. /\ scan'[t] \in R /\ scan'[t].i = s.i /\ scan'[t].k = s.k
          /\ scan'[t].j = s.j + 1 /\ scan'[t].deleteNode = s.deleteNode
      BY <3>1, <1>1, <2>2, HPAssumption DEF Slots
    <3>3. scan'[t].k \in 0..NumThreads
      BY <3>2, <1>1, ThreadsAssumption
    <3>4. \A u \in Threads : Passed(scan'[t], u) =>
            Passed(s, u) \/ (u = s.k /\ s.j = 0)
      BY <3>2, <1>1, HPAssumption DEF Slots, Passed
    <3> QED BY <3>2, <3>3, <3>4, <2>2
  <2>3. CASE ~Matches(t) /\ ~(s.j + 1 < SlotsPerThread)
    <3>1. scan'[t] = [i |-> s.i, k |-> s.k + 1, j |-> 0,
                      deleteNode |-> s.deleteNode]
      BY <1>1, <1>2, <2>3 DEF NextSlot
    <3>2. scan'[t].k \in 0..NumThreads /\ 0 \in Slots
      BY <3>1, <1>1, HPAssumption, ThreadsAssumption DEF Slots
    <3>3. /\ scan'[t] \in R /\ scan'[t].i = s.i /\ scan'[t].k = s.k + 1
          /\ scan'[t].j = 0 /\ scan'[t].deleteNode = s.deleteNode
      BY <3>1, <3>2, <1>1
    <3>4. \A u \in Threads : Passed(scan'[t], u) =>
            Passed(s, u) \/ (u = s.k /\ s.j = 0)
      BY <3>3, <1>1, HPAssumption DEF Slots, Passed, Threads
    <3> QED BY <3>2, <3>3, <3>4, <2>3
  <2> QED BY <2>1, <2>2, <2>3
<1>5. \A u \in Threads : u # t => scan'[u] = scan[u]
  BY <1>1, <1>2
<1>6. TypeOK'
  <2>1. scan' \in [Threads -> R]
    BY <1>1, <1>2, <1>4
  <2> QED BY <2>1, <1>3 DEF IInv, TypeOK, MainStates, HPTypeOK, HeapTypeOK,
     heapVars, hpVars, locals
<1>7. ScanSound'
  <2>1. s.deleteNode /\ ~Matches(t) =>
          \A u \in Threads : GuardedByHP(u) /\ u = s.k /\ s.j = 0 =>
             ptr[u] # Candidate(t)
    BY DEF IInv, GuardPublished, Matches
  <2> QED
    BY <2>1, <1>1, <1>3, <1>4, <1>5 DEF IInv, ScanSound, Candidate,
       GuardedByHP, heapVars, hpVars, locals
<1>8. StackShape' /\ PushOwnsNode' /\ RetiredOnce' /\ CountsRetired' /\ MainAlone'
  BY <1>3
  DEF IInv, StackShape, PushOwnsNode, RetiredOnce, CountsRetired, Destroyed,
     MainAlone, heapVars, hpVars, locals
<1>9. ProtectPublished' /\ GuardPublished' /\ PoppedByOne'
  BY <1>3
  DEF IInv, ProtectPublished, GuardPublished, GuardedByHP, PoppedByOne,
     heapVars, hpVars, locals
<1> QED
  BY <1>6, <1>7, <1>8, <1>9 DEF IInv

(* Moving on to the next candidate without deleting: the flag stays false, *)
(* so nothing is claimed of it.                                            *)
LEMMA KeepInv ==
  ASSUME IInv, NEW t \in Threads, Keep(t, "scan", "clear"),
         UNCHANGED <<top, locals, main>>
  PROVE  IInv'
<1> DEFINE s == scan[t]
           R == [i : Nat \ {0}, k : Nat, j : Slots, deleteNode : BOOLEAN]
           left == Len(retiredPointerList[t])
<1>1. /\ pc[t] = "scan" /\ scan \in [Threads -> R] /\ s \in R /\ left \in Nat
      /\ ~s.deleteNode
  BY LenProperties
  DEF IInv, TypeOK, MainStates, HPTypeOK, ScanSound, Keep, ScanContinue, Goto
<1>2. /\ pc' = [pc EXCEPT ![t] = IF s.i + 1 > left THEN "clear" ELSE "scan"]
      /\ scan' = [scan EXCEPT ![t] =
                    IF s.i + 1 > left THEN ScanStart ELSE NextCandidate(t)]
  BY DEF Keep, ScanContinue, Goto
<1>3. /\ UNCHANGED heapVars /\ UNCHANGED hpVars /\ UNCHANGED locals
      /\ UNCHANGED <<ptr, last, slot, top, main>>
  BY DEF Keep
<1> HIDE DEF left
<1>4. /\ scan'[t] \in R
      /\ pc'[t] = "scan" => /\ scan'[t].i \in 1..left
                            /\ scan'[t].k = 0 /\ ~scan'[t].deleteNode
  <2>1. CASE s.i + 1 > left
    BY <1>1, <1>2, <2>1, HPAssumption, ThreadsAssumption DEF ScanStart, Slots,
       IInv, TypeOK
  <2>2. CASE ~(s.i + 1 > left)
    <3>1. scan'[t] = [i |-> s.i + 1, k |-> 0, j |-> 0, deleteNode |-> FALSE]
      BY <1>1, <1>2, <2>2 DEF NextCandidate
    <3> QED BY <3>1, <1>1, <2>2, HPAssumption, ThreadsAssumption DEF Slots
  <2> QED BY <2>1, <2>2
<1>5. \A u \in Threads : u # t => scan'[u] = scan[u] /\ pc'[u] = pc[u]
  BY <1>1, <1>2 DEF IInv, TypeOK
<1>6. pc'[t] \in {"clear", "scan"}
  BY <1>2 DEF IInv, TypeOK
<1>7. TypeOK'
  <2>1. scan' \in [Threads -> R]
    BY <1>1, <1>2, <1>4
  <2>2. pc' \in [Threads -> Labels]
    BY <1>2 DEF IInv, TypeOK, Labels, PopLabels
  <2> QED BY <2>1, <2>2, <1>3 DEF IInv, TypeOK, MainStates, HPTypeOK,
     HeapTypeOK, heapVars, hpVars, locals
<1>8. ScanSound'
  <2>1. \A u \in Threads : GuardedByHP(u)' => GuardedByHP(u)
    BY <1>5, <1>6 DEF GuardedByHP
  <2>2. ASSUME NEW u \in Threads, u # t, pc'[u] = "scan"
        PROVE  /\ pc[u] = "scan" /\ scan'[u] = scan[u]
               /\ Candidate(u)' = Candidate(u)
               /\ Len(retiredPointerList'[u]) = Len(retiredPointerList[u])
    BY <1>3, <1>5, <2>2 DEF Candidate, hpVars
  <2> QED BY <1>3, <1>4, <2>1, <2>2, HPAssumption, ThreadsAssumption DEF IInv,
     ScanSound, left, hpVars
<1>9. StackShape' /\ RetiredOnce' /\ CountsRetired'
  BY <1>3 DEF IInv, StackShape, RetiredOnce, CountsRetired, Destroyed,
     heapVars, hpVars, locals
<1>10. PushOwnsNode' /\ MainAlone'
  BY <1>1, <1>3, <1>5, <1>6 DEF IInv, PushOwnsNode, PushLabels, MainAlone,
     heapVars, hpVars, locals
<1>11. ProtectPublished' /\ PoppedByOne'
  <2>1. \A u \in Threads : pc'[u] = "pop.item" => pc[u] = "pop.item"
    BY <1>5, <1>6
  <2>2. PoppedByOne'
    BY <2>1, <1>3 DEF IInv, PoppedByOne, heapVars, hpVars
  <2>3. ProtectPublished'
    BY <1>1, <1>3, <1>5, <1>6 DEF IInv, ProtectPublished, hpVars
  <2> QED BY <2>2, <2>3
<1>12. GuardPublished'
  BY <1>1, <1>3, <1>5, <1>6
  DEF IInv, GuardPublished, GuardedByHP, heapVars, hpVars, locals
<1> QED
  BY <1>7, <1>8, <1>9, <1>10, <1>11, <1>12 DEF IInv

(* A candidate whose scan is complete is guarded by nobody; erasing it     *)
(* keeps the rest of the lists disjoint.                                   *)
LEMMA ReclaimInv ==
  ASSUME IInv, NEW t \in Threads, Reclaim(t, "scan", "clear"),
         UNCHANGED <<top, locals, main>>
  PROVE  IInv'
<1> DEFINE c == Candidate(t)
           s == scan[t]
           rl == retiredPointerList[t]
           left == Len(rl) - 1
           R == [i : Nat \ {0}, k : Nat, j : Slots, deleteNode : BOOLEAN]
<1>1. /\ pc[t] = "scan" /\ scan \in [Threads -> R] /\ s \in R
      /\ s.deleteNode /\ s.k = NumThreads
      /\ rl \in Seq(Nodes) /\ Len(rl) \in Nat /\ s.i \in 1..Len(rl)
      /\ c = rl[s.i] /\ c \in Nodes /\ status[c] = "retired"
  BY LenProperties, ElementOfSeq
  DEF IInv, TypeOK, MainStates, HPTypeOK, ScanSound, RetiredOnce, Reclaim,
     ScannedAll,
      ScanContinue, Goto, Candidate
<1>2. /\ status' = [m \in Nodes |-> IF m = c THEN "free" ELSE status[m]]
      /\ next' = [m \in Nodes |-> IF m = c THEN NULL ELSE next[m]]
      /\ item' = [m \in Nodes |-> IF m = c THEN NULL ELSE item[m]]
  BY DEF Reclaim, Delete
<1>3. /\ retiredPointerList' = [retiredPointerList EXCEPT ![t] = RemoveAt(rl, s.i)]
      /\ retiredCount' = [retiredCount EXCEPT ![t] = retiredCount[t] - 1]
      /\ pc' = [pc EXCEPT ![t] = IF s.i + 1 > left THEN "clear" ELSE "scan"]
      /\ scan' = [scan EXCEPT ![t] =
                    IF s.i + 1 > left THEN ScanStart ELSE NextCandidate(t)]
  BY DEF Reclaim, ScanContinue, Goto
<1>4. /\ UNCHANGED <<threadCount, hazardPointerList, ptr, last, slot>>
      /\ UNCHANGED <<top, locals, main>>
  BY DEF Reclaim
<1> HIDE DEF rl
<1>5. /\ RemoveAt(rl, s.i) \in Seq(Nodes)
      /\ Len(RemoveAt(rl, s.i)) = Len(rl) - 1
      /\ \A j \in 1..(Len(rl) - 1) :
           RemoveAt(rl, s.i)[j] = IF j < s.i THEN rl[j] ELSE rl[j + 1]
  <2>1. rl \in Seq(Nodes) /\ s.i \in 1..Len(rl)
    BY <1>1
  <2> HIDE DEF s
  <2> QED BY <2>1, RemoveAtProperties
<1>6. \A u \in Threads : GuardedByHP(u) => ptr[u] # c
  <2>1. \A u \in Threads : Passed(s, u)
    BY <1>1, HPAssumption, ThreadsAssumption DEF Passed, Threads
  <2> QED BY <1>1, <2>1 DEF IInv, ScanSound
<1>7. \A u \in Threads : pc[u] = "pop.item" => ptr[u] # c
  BY <1>1 DEF IInv, PoppedByOne, rl
<1> HIDE DEF c, left
<1>8. /\ left = Len(rl) - 1 /\ left \in Nat /\ rl = retiredPointerList[t]
      /\ retiredPointerList'[t] \in Seq(Nodes)
      /\ Len(retiredPointerList'[t]) = left
      /\ \A j \in 1..left : retiredPointerList'[t][j] =
                              IF j < s.i THEN rl[j] ELSE rl[j + 1]
      /\ \A u \in Threads : u # t =>
           retiredPointerList'[u] = retiredPointerList[u]
  BY <1>1, <1>3, <1>5 DEF IInv, TypeOK, MainStates, HPTypeOK, left, rl
<1>9. left = Len(rl) - 1 /\ left \in Nat /\ rl = retiredPointerList[t]
  BY <1>8
(* Every entry of the new lists is an entry of the old ones, other than    *)
(* the deleted one, and no two come from the same.                         *)
<1> DEFINE old(u, j) == IF u = t /\ ~(j < s.i) THEN j + 1 ELSE j
<1>10. ASSUME NEW u \in Threads, NEW j \in 1..Len(retiredPointerList'[u])
       PROVE  /\ old(u, j) \in 1..Len(retiredPointerList[u])
              /\ retiredPointerList'[u][j] = retiredPointerList[u][old(u, j)]
              /\ retiredPointerList'[u][j] # c
              /\ status'[retiredPointerList'[u][j]] = "retired"
  <2>1. /\ old(u, j) \in 1..Len(retiredPointerList[u])
        /\ retiredPointerList'[u][j] = retiredPointerList[u][old(u, j)]
        /\ ~(u = t /\ old(u, j) = s.i)
    <3>1. CASE u # t
      BY <3>1, <1>8
    <3>2. CASE u = t /\ j < s.i
      BY <3>2, <1>1, <1>8, <1>9
    <3>3. CASE u = t /\ ~(j < s.i)
      BY <3>3, <1>1, <1>8, <1>9
    <3> QED BY <3>1, <3>2, <3>3
  <2>2. /\ status[retiredPointerList[u][old(u, j)]] = "retired"
        /\ retiredPointerList[u][old(u, j)] # c
    BY <2>1, <1>1, <1>9 DEF IInv, RetiredOnce
  <2>3. retiredPointerList[u][old(u, j)] \in Nodes
    BY <2>1, ElementOfSeq DEF IInv, TypeOK, MainStates, HPTypeOK
  <2> QED BY <2>1, <2>2, <2>3, <1>2
<1>11. RetiredOnce'
  <2> SUFFICES ASSUME NEW u \in Threads, NEW i \in 1..Len(retiredPointerList'[u]),
                      NEW v \in Threads, NEW j \in 1..Len(retiredPointerList'[v]),
                      retiredPointerList'[v][j] = retiredPointerList'[u][i]
               PROVE  v = u /\ j = i
    BY <1>10 DEF RetiredOnce
  <2>1. /\ old(u, i) \in 1..Len(retiredPointerList[u])
        /\ old(v, j) \in 1..Len(retiredPointerList[v])
        /\ retiredPointerList[v][old(v, j)] = retiredPointerList[u][old(u, i)]
    BY <1>10
  <2>2. v = u /\ old(v, j) = old(u, i)
    BY <2>1 DEF IInv, RetiredOnce
  <2>3. i \in Int /\ j \in Int /\ s.i \in Int
    BY <1>1, <1>8, <1>9, <2>2, LenProperties DEF IInv, TypeOK, MainStates,
       HPTypeOK
  <2> QED BY <2>2, <2>3
<1>12. PoppedByOne'
  <2>1. \A u \in Threads : pc'[u] = "pop.item" => pc[u] = "pop.item"
    BY <1>3 DEF IInv, TypeOK
  <2>2. ASSUME NEW u \in Threads, pc[u] = "pop.item",
               NEW v \in Threads, NEW j \in 1..Len(retiredPointerList'[v])
        PROVE  retiredPointerList'[v][j] # ptr[u]
    BY <1>10, <2>2 DEF IInv, PoppedByOne
  <2> QED BY <1>2, <1>4, <1>7, <2>1, <2>2 DEF IInv, PoppedByOne
<1>13. /\ scan'[t] \in R
       /\ pc'[t] = "scan" => scan'[t].i \in 1..left /\ scan'[t].k = 0 /\ scan'[t].j = 0
  <2>1. CASE s.i + 1 > left
    BY <1>1, <1>3, <2>1, HPAssumption, ThreadsAssumption DEF ScanStart, Slots,
       IInv, TypeOK
  <2>2. CASE ~(s.i + 1 > left)
    <3>1. scan'[t] = [i |-> s.i + 1, k |-> 0, j |-> 0, deleteNode |-> s.deleteNode]
      BY <1>1, <1>3, <2>2 DEF NextCandidate
    <3> QED BY <3>1, <1>1, <1>9, <2>2, HPAssumption, ThreadsAssumption DEF
       Slots
  <2> QED BY <2>1, <2>2
<1>14. \A u \in Threads : u # t => scan'[u] = scan[u] /\ pc'[u] = pc[u]
  BY <1>1, <1>3 DEF IInv, TypeOK
<1>15. pc'[t] \in {"clear", "scan"}
  BY <1>3 DEF IInv, TypeOK
<1>16. ScanSound'
  <2>1. \A u \in Threads : GuardedByHP(u)' => GuardedByHP(u)
    BY <1>14, <1>15 DEF GuardedByHP
  <2>2. ASSUME NEW u \in Threads, u # t, pc'[u] = "scan"
        PROVE  /\ pc[u] = "scan" /\ scan'[u] = scan[u]
               /\ Candidate(u)' = Candidate(u)
               /\ Len(retiredPointerList'[u]) = Len(retiredPointerList[u])
    BY <1>8, <1>14, <2>2 DEF Candidate
  <2>3. \A u \in Threads : pc'[t] = "scan" => ~Passed(scan'[t], u)
    BY <1>13, HPAssumption, ThreadsAssumption DEF Passed, Threads
  <2>4. ASSUME NEW u \in Threads, u # t, pc'[u] = "scan"
        PROVE  /\ scan'[u].i \in 1..Len(retiredPointerList'[u])
               /\ scan'[u].k \in 0..NumThreads
               /\ scan'[u].deleteNode =>
                    \A v \in Threads : GuardedByHP(v)' /\ Passed(scan'[u], v) =>
                      ptr'[v] # Candidate(u)'
    BY <1>4, <2>1, <2>2, <2>4 DEF IInv, ScanSound
  <2>5. ASSUME pc'[t] = "scan"
        PROVE  /\ scan'[t].i \in 1..Len(retiredPointerList'[t])
               /\ scan'[t].k \in 0..NumThreads
    BY <1>8, <1>13, <2>5, ThreadsAssumption
  <2> QED BY <2>3, <2>4, <2>5 DEF ScanSound
<1>17. CountsRetired'
  <2>1. /\ retiredCount'[t] = retiredCount[t] - 1
        /\ \A u \in Threads : u # t => retiredCount'[u] = retiredCount[u]
    BY <1>3 DEF IInv, TypeOK, MainStates, HPTypeOK
  <2>2. main' = main
    BY <1>4
  <2> QED BY <2>1, <2>2, <1>8 DEF IInv, CountsRetired, Destroyed
<1>18. StackShape'
  BY <1>1, <1>2, <1>4 DEF IInv, StackShape, TypeOK, HeapTypeOK, NodeOrNull
<1>19. PushOwnsNode' /\ MainAlone'
  <2>1. \A u \in Threads : pc'[u] \in PushLabels => pc[u] \in PushLabels
    BY <1>14, <1>15 DEF PushLabels
  <2>2. PushOwnsNode'
    <3>1. \A u \in Threads : pc[u] \in PushLabels => node[u] # c
      BY <1>1 DEF IInv, PushOwnsNode
    <3> QED BY <2>1, <3>1, <1>2, <1>4, <1>14, <1>15
            DEF IInv, PushOwnsNode, locals
  <2>3. MainAlone'
    BY <2>1, <1>1, <1>4, <1>14, SMTT(20) DEF IInv, MainAlone
  <2> QED BY <2>2, <2>3
<1>20. ProtectPublished'
  BY <1>1, <1>4, <1>14, <1>15 DEF IInv, ProtectPublished
<1>21. GuardPublished'
  BY <1>2, <1>4, <1>6, <1>14, <1>15
  DEF IInv, GuardPublished, GuardedByHP, locals
<1>22. TypeOK'
  <2>1. scan' \in [Threads -> R]
    BY <1>1, <1>3, <1>13
  <2>2. pc' \in [Threads -> Labels]
    BY <1>3 DEF IInv, TypeOK, Labels, PopLabels
  <2>3. retiredPointerList' \in [Threads -> Seq(Nodes)]
    BY <1>3, <1>5 DEF IInv, TypeOK, MainStates, HPTypeOK
  <2>4. retiredCount' \in [Threads -> Nat]
    <3>1. retiredCount[t] - 1 \in Nat
      BY <1>1, <1>9 DEF IInv, CountsRetired, Destroyed, MainAlone, TypeOK,
         MainStates, HPTypeOK
    <3> QED BY <3>1, <1>3 DEF IInv, TypeOK, MainStates, HPTypeOK
  <2>5. HeapTypeOK'
    BY <1>2 DEF IInv, TypeOK, HeapTypeOK, NodeOrNull, Statuses
  <2> QED BY <2>1, <2>2, <2>3, <2>4, <2>5, <1>4
          DEF IInv, TypeOK, MainStates, HPTypeOK, locals
<1> QED
  BY <1>11, <1>12, <1>16, <1>17, <1>18, <1>19, <1>20, <1>21, <1>22 DEF IInv

(* Every step preserves the invariant.                                     *)
LEMMA NextInv == IInv /\ [Next]_vars => IInv'
<1> SUFFICES ASSUME IInv, [Next]_vars PROVE IInv'
  OBVIOUS
<1>1. ASSUME NEW t \in Threads, ThreadStep(t) PROVE IInv'
  <2>1. CASE PushCall(t) \/ PushStep(t)
    BY <2>1, PushCallInv, PushLoadInv, PushPublishInv, PushCheckInv,
       PushCasInv DEF PushStep
  <2>2. CASE PopRetire(t)
    BY <2>2, ScanSlotInv, KeepInv, ReclaimInv DEF PopRetire, RetireScan
  <2>3. CASE PopCall(t) \/ (PopStep(t) /\ ~PopRetire(t))
    BY <2>3, PopCallInv, PopProtectInv, PopPublishInv, PopCheckInv,
       PopNextInv, PopCasInv, PopItemInv DEF PopStep
  <2>4. CASE Return(t) \/ ThreadExit(t)
    BY <2>4, ReturnInv, ThreadExitInv
  <2> QED BY <1>1, <2>1, <2>2, <2>3, <2>4 DEF ThreadStep
<1>2. ASSUME MainStep PROVE IInv'
  BY <1>2, QuitInv, JoinInv, DestroyInv DEF MainStep
<1>3. ASSUME UNCHANGED vars PROVE IInv'
  <2> USE <1>3 DEF vars, heapVars, hpVars, hpLocals, locals, IInv
  <2>1. TypeOK' /\ StackShape' /\ CountsRetired' /\ MainAlone'
    BY DEF TypeOK, MainStates, HeapTypeOK, HPTypeOK, StackShape, CountsRetired,
       Destroyed, MainAlone
  <2>2. PushOwnsNode' /\ ProtectPublished' /\ GuardPublished'
    BY DEF PushOwnsNode, ProtectPublished, GuardPublished, GuardedByHP
  <2>3. RetiredOnce' /\ PoppedByOne' /\ ScanSound'
    BY DEF RetiredOnce, PoppedByOne, ScanSound, Candidate, GuardedByHP
  <2> QED BY <2>1, <2>2, <2>3
<1> QED
  BY <1>1, <1>2, <1>3 DEF Next, Finished

(* The invariant includes types, and keeps accesses to allocated nodes.    *)
LEMMA InvSafe == IInv => TypeOK /\ MemorySafe
BY DEF IInv, TypeOK, HeapTypeOK, MemorySafe, Accesses, Allocated,
       PushOwnsNode, PushLabels, GuardPublished, GuardedByHP, PoppedByOne

(* The invariant holds in every reachable state.                           *)
THEOREM Invariance == Spec => []IInv
  BY InitInv, NextInv, PTL DEF Spec

(* Every variable keeps its type.                                          *)
THEOREM TypeCorrectness == Spec => []TypeOK
BY InvSafe, Invariance, PTL

(* No thread ever accesses a node that has been deleted.                   *)
THEOREM MemorySafety == Spec => []MemorySafe
BY InvSafe, Invariance, PTL

-----------------------------------------------------------------------------
(* The refinement of SafeReclamation: what each action does to the guards. *)
GuardsUnchanged == \A u \in Threads : Guards(u)' = Guards(u)

OnlyGuards(t, S) ==
  \A u \in Threads : Guards(u)' = IF u = t THEN S ELSE Guards(u)

(* A step that leaves life cycles and guards alone is a stutter of         *)
(* SafeReclamation.                                                        *)
LEMMA StutterMaps ==
  ASSUME UNCHANGED status, GuardsUnchanged
  PROVE  UNCHANGED SMR!vars
  BY DEF GuardsUnchanged, SMR!vars

(* A thread that comes to guard a linked node takes a Guard step.          *)
LEMMA GuardMaps ==
  ASSUME NEW t \in Threads, NEW n \in Nodes, status[n] = "linked",
         Guards(t) = {}, OnlyGuards(t, {n}), UNCHANGED status
  PROVE  SMR!Next
<1> DEFINE g == [u \in Threads |-> Guards(u)]
<1>1. g' = [g EXCEPT ![t] = g[t] \cup {n}]
  BY DEF OnlyGuards
<1>2. SMR!Guard(t, n)
  BY <1>1 DEF SMR!Guard
<1>3. n \in g'[t] /\ g'[t] # g[t]
  BY DEF OnlyGuards
<1> QED BY <1>2, <1>3 DEF SMR!Next

(* A thread that stops guarding takes a Release step, or one that changes  *)
(* nothing when it guarded nothing.                                        *)
LEMMA ReleaseMaps ==
  ASSUME NEW t \in Threads, OnlyGuards(t, {}), UNCHANGED status
  PROVE  [SMR!Next]_(SMR!vars)
<1> DEFINE g == [u \in Threads |-> Guards(u)]
<1>1. CASE Guards(t) = {}
  BY <1>1, StutterMaps DEF OnlyGuards, GuardsUnchanged
<1>2. CASE Guards(t) # {}
  <2>1. g' = [g EXCEPT ![t] = g[t] \cap g'[t]] /\ g'[t] # g[t]
    BY <1>2 DEF OnlyGuards
  <2>2. SMR!Release(t)
    BY <2>1 DEF SMR!Release
  <2> QED BY <2>1, <2>2 DEF SMR!Next
<1> QED BY <1>1, <1>2

(* One node changing its life cycle, with the guards as they were, is a    *)
(* Move.                                                                   *)
LEMMA MoveMaps ==
  ASSUME NEW n \in Nodes, NEW from, NEW to, status[n] = from,
         status \in [Nodes -> Statuses],
         status' = [status EXCEPT ![n] = to], GuardsUnchanged
  PROVE  SMR!Move({n}, from, to)
  BY DEF SMR!Move, GuardsUnchanged

(* The start of a push is an Allocate.                                     *)
LEMMA PushCallMaps ==
  ASSUME IInv, NEW t \in Threads, PushCall(t)
  PROVE  SMR!Next
<1>1. PICK n \in Nodes : status[n] = "free" /\ status' = [status EXCEPT ![n] = "private"]
  BY DEF PushCall, New
<1>2. GuardsUnchanged
  BY DEF PushCall, Goto, hpLocals, GuardsUnchanged, Guards, GuardLabels, IInv,
     TypeOK
<1>3. SMR!Allocate(n)
  BY <1>1, <1>2, MoveMaps DEF SMR!Allocate, IInv, TypeOK, HeapTypeOK
<1> QED BY <1>1, <1>3 DEF SMR!Next, SMR!Change, IInv, TypeOK, HeapTypeOK

(* The exchange of a push is a Link, or a stutter when it fails.           *)
LEMMA PushCasMaps ==
  ASSUME IInv, NEW t \in Threads, PushCas(t)
  PROVE  [SMR!Next]_(SMR!vars)
<1>1. GuardsUnchanged
  BY DEF PushCas, Goto, hpLocals, GuardsUnchanged, Guards, GuardLabels, IInv,
     TypeOK
<1>2. CASE top = ptr[t]
  <2>1. /\ node[t] \in Nodes /\ status[node[t]] = "private"
        /\ status' = [status EXCEPT ![node[t]] = "linked"]
    BY <1>2 DEF PushCas, Goto, IInv, PushOwnsNode, PushLabels
  <2>2. SMR!Link(node[t])
    BY <2>1, <1>1, MoveMaps DEF SMR!Link, IInv, TypeOK, HeapTypeOK
  <2> QED BY <2>1, <2>2 DEF SMR!Next, SMR!Change, IInv, TypeOK, HeapTypeOK
<1>3. CASE top # ptr[t]
  BY <1>1, <1>3, StutterMaps DEF PushCas
<1> QED BY <1>2, <1>3

(* protect, when it returns a node, takes a Guard step: that node is       *)
(* linked.                                                                 *)
LEMMA PopProtectMaps ==
  ASSUME IInv, NEW t \in Threads, PopProtect(t)
  PROVE  [SMR!Next]_(SMR!vars)
<1> USE DEF PopProtect, ProtectLoad, ProtectDone, Goto, heapVars, Guards,
            GuardLabels, IInv, TypeOK, MainStates, HPTypeOK
<1>1. CASE top = last[t] /\ top # NULL
  <2>1. top \in Nodes /\ status[top] = "linked"
    BY <1>1 DEF StackShape, NodeOrNull
  <2>2. Guards(t) = {} /\ OnlyGuards(t, {top})
    BY <1>1 DEF OnlyGuards
  <2>3. UNCHANGED status
    OBVIOUS
  <2> HIDE DEF Guards
  <2> QED BY <2>1, <2>2, <2>3, GuardMaps
<1>2. CASE ~(top = last[t] /\ top # NULL)
  <2>1. GuardsUnchanged
    BY <1>2 DEF GuardsUnchanged
  <2> QED BY <2>1, StutterMaps
<1> QED BY <1>1, <1>2

(* A comparison with top that fails is a Release.                          *)
LEMMA PopCheckMaps ==
  ASSUME IInv, NEW t \in Threads, PopCheck(t)
  PROVE  [SMR!Next]_(SMR!vars)
<1> USE DEF PopCheck, Goto, heapVars, hpLocals, Guards, GuardLabels, IInv,
            TypeOK
<1>1. CASE top = ptr[t]
  BY <1>1, StutterMaps DEF GuardsUnchanged
<1>2. CASE top # ptr[t]
  BY <1>2, ReleaseMaps DEF OnlyGuards
<1> QED BY <1>1, <1>2

(* The exchange of a pop is an Unlink, or a Release when it fails.         *)
LEMMA PopCasMaps ==
  ASSUME IInv, NEW t \in Threads, PopCas(t)
  PROVE  [SMR!Next]_(SMR!vars)
<1> USE DEF PopCas, Goto, hpLocals, Guards, GuardLabels, IInv, TypeOK
<1>1. CASE top = ptr[t]
  <2>1. /\ ptr[t] \in Nodes /\ status[ptr[t]] = "linked"
        /\ status' = [status EXCEPT ![ptr[t]] = "retired"]
    BY <1>1, HeapAssumption DEF GuardPublished, GuardedByHP, StackShape
  <2>2. GuardsUnchanged
    BY <1>1 DEF GuardsUnchanged
  <2>3. SMR!Unlink(ptr[t])
    BY <2>1, <2>2, MoveMaps DEF SMR!Unlink, HeapTypeOK
  <2> QED BY <2>1, <2>3 DEF SMR!Next, SMR!Change, HeapTypeOK
<1>2. CASE top # ptr[t]
  BY <1>2, ReleaseMaps DEF OnlyGuards
<1> QED BY <1>1, <1>2

(* Handing the node to retireNode ends the guard.                          *)
LEMMA PopItemMaps ==
  ASSUME IInv, NEW t \in Threads, PopItem(t)
  PROVE  [SMR!Next]_(SMR!vars)
<1>1. OnlyGuards(t, {}) /\ UNCHANGED status
  BY DEF PopItem, AfterRetirePush, Goto, heapVars, Guards, GuardLabels,
         OnlyGuards, IInv, TypeOK
<1> QED BY <1>1, ReleaseMaps

(* A deletion by retireNode is a Reclaim of an unguarded node.             *)
LEMMA ReclaimMaps ==
  ASSUME IInv, NEW t \in Threads, Reclaim(t, "scan", "clear")
  PROVE  SMR!Next
<1> DEFINE c == Candidate(t)
<1>1. /\ pc[t] = "scan" /\ scan[t].deleteNode /\ scan[t].k = NumThreads
      /\ scan[t].i \in 1..Len(retiredPointerList[t])
      /\ retiredPointerList[t] \in Seq(Nodes)
  BY DEF IInv, TypeOK, MainStates, HPTypeOK, ScanSound, Reclaim, ScannedAll,
     ScanContinue,
         Goto
<1>2. c \in Nodes /\ status[c] = "retired"
  BY <1>1, ElementOfSeq DEF IInv, RetiredOnce, Candidate
<1>3. \A u \in Threads : Passed(scan[t], u)
  BY <1>1, HPAssumption, ThreadsAssumption DEF Passed, Threads
<1>4. ASSUME NEW u \in Threads PROVE c \notin Guards(u)
  <2>1. CASE GuardedByHP(u)
    BY <2>1, <1>1, <1>3 DEF IInv, ScanSound, Guards
  <2>2. CASE pc[u] = "pop.item"
    BY <2>2, <1>1 DEF IInv, PoppedByOne, Candidate, Guards
  <2> QED BY <2>1, <2>2 DEF Guards, GuardLabels, GuardedByHP
<1>5. GuardsUnchanged
  BY <1>1 DEF Reclaim, ScanContinue, Goto, GuardsUnchanged, Guards,
              GuardLabels, IInv, TypeOK
<1>6. status' = [status EXCEPT ![c] = "free"]
  BY <1>2 DEF Reclaim, Delete, IInv, TypeOK, HeapTypeOK
<1> HIDE DEF c
<1>7. SMR!Move({c}, "retired", "free")
  BY <1>2, <1>5, <1>6, MoveMaps DEF IInv, TypeOK, HeapTypeOK
<1>8. SMR!Reclaim(c)
  BY <1>4, <1>7 DEF SMR!Reclaim, SMR!Unguarded
<1> QED BY <1>2, <1>6, <1>8 DEF SMR!Next, SMR!Change, IInv, TypeOK, HeapTypeOK

(* The destructors take the Destroy step.                                  *)
LEMMA DestroyMaps ==
  ASSUME IInv, Destroy
  PROVE  SMR!Next
<1> DEFINE S == {n \in Nodes : n = top \/ \E t \in Threads : n \in Retired(t)}
<1>1. status' = [n \in Nodes |-> IF n \in S THEN "free" ELSE status[n]]
  BY DEF Destroy, Delete
<1>2. \A t \in Threads : Guards(t) = {}
  BY DEF Destroy, DeleteStructure, IInv, MainAlone, Guards, GuardLabels
<1>3. GuardsUnchanged
  BY DEF Destroy, DeleteStructure, hpLocals, GuardsUnchanged, Guards
<1> HIDE DEF S
<1>4. SMR!Destroy
  BY <1>1, <1>2, <1>3 DEF SMR!Destroy, GuardsUnchanged
<1> QED BY <1>4 DEF SMR!Next

(* The remaining steps of a thread change neither life cycles nor guards.  *)
LEMMA OthersMap ==
  ASSUME IInv, NEW t \in Threads,
         \/ PushLoad(t) \/ PushPublish(t) \/ PushCheck(t) \/ PopCall(t)
         \/ PopPublish(t) \/ PopNext(t) \/ Return(t) \/ ThreadExit(t)
         \/ ScanSlot(t, "scan") \/ Keep(t, "scan", "clear")
  PROVE  UNCHANGED SMR!vars
<1> USE DEF Goto, heapVars, hpVars, hpLocals, Guards, GuardLabels,
            GuardsUnchanged, IInv, TypeOK, MainStates, HPTypeOK
<1>1. CASE PushLoad(t) \/ PushPublish(t) \/ PushCheck(t) \/ PopCall(t)
  <2>1. UNCHANGED status /\ GuardsUnchanged
    BY <1>1 DEF PushLoad, ArgumentLoad, PushPublish, StoreHazardPtr, PushCheck,
                PopCall
  <2> QED BY <2>1, StutterMaps
<1>2. CASE PopPublish(t) \/ PopNext(t) \/ Return(t) \/ ThreadExit(t)
  <2>1. CASE PopPublish(t) \/ PopNext(t)
    BY <2>1, StutterMaps DEF PopPublish, ProtectStore, PopNext
  <2>2. CASE Return(t)
    BY <2>2, StutterMaps DEF Return, ClearSlot
  <2>3. CASE ThreadExit(t)
    BY <2>3, StutterMaps DEF ThreadExit, LeaveLoop
  <2> QED BY <1>2, <2>1, <2>2, <2>3
<1>3. CASE ScanSlot(t, "scan") \/ Keep(t, "scan", "clear")
  <2>1. UNCHANGED status /\ GuardsUnchanged
    BY <1>3 DEF ScanSlot, Keep, ScanContinue
  <2> QED BY <2>1, StutterMaps
<1> QED BY <1>1, <1>2, <1>3

(* Every step of the stack is a step of SafeReclamation or a stutter.      *)
LEMMA StepMaps == IInv /\ [Next]_vars => [SMR!Next]_(SMR!vars)
<1> SUFFICES ASSUME IInv, [Next]_vars PROVE [SMR!Next]_(SMR!vars)
  OBVIOUS
<1>1. ASSUME NEW t \in Threads, ThreadStep(t) PROVE [SMR!Next]_(SMR!vars)
  <2>1. CASE PushCall(t) \/ PushStep(t)
    BY <2>1, PushCallMaps, PushCasMaps, OthersMap DEF PushStep
  <2>2. CASE PopRetire(t)
    BY <2>2, ReclaimMaps, OthersMap DEF PopRetire, RetireScan
  <2>3. CASE PopCall(t) \/ (PopStep(t) /\ ~PopRetire(t))
    BY <2>3, PopProtectMaps, PopCheckMaps, PopCasMaps, PopItemMaps, OthersMap
    DEF PopStep
  <2>4. CASE Return(t) \/ ThreadExit(t)
    BY <2>4, OthersMap
  <2> QED BY <1>1, <2>1, <2>2, <2>3, <2>4 DEF ThreadStep
<1>2. ASSUME MainStep PROVE [SMR!Next]_(SMR!vars)
  <2>1. CASE Quit \/ Join
    <3>1. UNCHANGED status /\ GuardsUnchanged
      BY <2>1, HPAssumption, ThreadsAssumption
      DEF Quit, Join, QuitSignal, JoinThreads, heapVars, hpLocals,
         GuardsUnchanged, Guards, GuardLabels,
          IInv, TypeOK, Threads
    <3> QED BY <3>1, StutterMaps
  <2> QED BY <2>1, <1>2, DestroyMaps DEF MainStep
<1>3. ASSUME UNCHANGED vars PROVE UNCHANGED SMR!vars
  <2>1. UNCHANGED status /\ GuardsUnchanged
    BY <1>3 DEF vars, heapVars, hpLocals, GuardsUnchanged, Guards
  <2> QED BY <2>1, StutterMaps
<1> QED
  BY <1>1, <1>2, <1>3 DEF Next, Finished

(* The constructor maps to an initial state of SafeReclamation.            *)
LEMMA InitMaps == Init => SMR!Init
BY DEF Init, BenchmarkInit, HeapWithSentinel, SMR!Init, Guards, GuardLabels

(* The hazard-pointer stack implements SafeReclamation: a node a pop has   *)
(* validated is reclaimed only after that pop has retired it or let go.    *)
THEOREM SafeReclamationRefined == Spec => ReclaimsSafely
BY InitMaps, Invariance, StepMaps, PTL DEF Spec, ReclaimsSafely, SMR!Spec

-----------------------------------------------------------------------------
(* Where every node is.                                                    *)

(* What the shape of the stack says of the linked nodes as a set.          *)
LEMMA LinkedWithin ==
  ASSUME IInv
  PROVE  /\ Linked \in SUBSET Nodes /\ Within(next, Linked)
         /\ top # NULL => top \in Linked
         /\ ScanTypes
         /\ \A t \in Threads : pc[t] = "scan" =>
              scan[t].i \in 1..Len(retiredPointerList[t])
<1>1. NumThreads \in 0..NumThreads
  BY ThreadsAssumption
<1>2. ScanTypes
  BY <1>1 DEF IInv, TypeOK, HPTypeOK, ScanTypes
<1>3. Within(next, Linked) /\ (top # NULL => top \in Linked)
  BY DEF IInv, TypeOK, HeapTypeOK, NodeOrNull, StackShape, Within, Linked
<1>4. \A t \in Threads : pc[t] = "scan" =>
              scan[t].i \in 1..Len(retiredPointerList[t])
  BY DEF IInv, ScanSound
<1> QED BY <1>2, <1>3, <1>4 DEF Linked

(* A step that changes the status of no node, links none of them anew and  *)
(* leaves what is held with who holds it.                                  *)
LEMMA StaysPlaced ==
  ASSUME IInv, Placed, UNCHANGED <<status, retiredPointerList>>,
         Destroyed => Destroyed',
         top' = top, \A n \in Nodes : status[n] = "linked" => next'[n] = next[n],
         \A n \in Nodes, t \in Threads :
           status[n] \in {"private", "retired"} /\ Holds(t, n) => Holds(t, n)'
  PROVE  Placed'
<1>1. Linked' = Linked
  BY DEF Linked
<1>2. ASSUME ~Destroyed' PROVE Reaches(top, next, Linked)'
  <2>0. ~Destroyed
    BY <1>2 DEF Destroyed
  <2>1. Reaches(top, next, Linked)
    BY <2>0 DEF Placed
  <2>1a. \A n \in Linked : next'[n] = next[n]
    BY DEF Linked
  <2>2. Reaches(top, next', Linked)
    BY <2>1, <2>1a, ReachesWithin, LinkedWithin
  <2> QED BY <1>1, <2>2 DEF Reaches, Closed
<1>3. ASSUME NEW n PROVE InNoList(n)' <=> InNoList(n)
  BY DEF InNoList
<1> QED BY <1>2, <1>3 DEF Placed

(* Most steps of an operation are of that kind.                            *)
LEMMA LoadsPlace ==
  ASSUME IInv, Placed, NEW t \in Threads,
         PushLoad(t) \/ PushPublish(t) \/ PushCheck(t) \/ PopCall(t)
         \/ PopProtect(t) \/ PopPublish(t) \/ PopCheck(t) \/ PopNext(t)
         \/ Return(t) \/ ThreadExit(t)
  PROVE  Placed'
<1>1. /\ UNCHANGED <<status, retiredPointerList, top>> /\ (Destroyed => Destroyed')
      /\ \A n \in Nodes : status[n] = "linked" => next'[n] = next[n]
  BY DEF IInv, TypeOK, HeapTypeOK, PushOwnsNode, PushLabels,
         PushLoad, ArgumentLoad, PushPublish, StoreHazardPtr, PushCheck,
         PopCall, PopProtect, ProtectLoad, PopPublish, ProtectStore, PopCheck,
         PopNext, Return, ReturnItem, ThreadExit, LeaveLoop, Destroyed,
         heapVars, hpVars, hpLocals, locals, Goto
<1>2. ASSUME NEW n \in Nodes, NEW u \in Threads, Holds(u, n)
      PROVE  Holds(u, n)'
  BY <1>2 DEF Holds, IInv, TypeOK, HPTypeOK, PushLabels, ClearSlot,
         PushLoad, ArgumentLoad, PushPublish, StoreHazardPtr, PushCheck,
         PopCall, PopProtect, ProtectLoad, PopPublish, ProtectStore, PopCheck,
         PopNext, Return, ThreadExit, LeaveLoop,
         heapVars, hpVars, hpLocals, locals, Goto
<1> QED BY <1>1, <1>2, StaysPlaced

(* A new node is in the hands of its push.                                 *)
LEMMA PushCallPlaces ==
  ASSUME IInv, Placed, NEW t \in Threads, PushCall(t)
  PROVE  Placed'
<1>1. PICK n \in Nodes, i \in Items :
        New(n, i) /\ node' = [node EXCEPT ![t] = n]
  BY DEF PushCall
<1>2. /\ UNCHANGED <<top, retiredPointerList, main, ptr>> /\ pc[t] = "idle"
      /\ pc' = [pc EXCEPT ![t] = "push.load"]
  BY DEF PushCall, Goto, hpVars, hpLocals
<1>3. /\ status[n] = "free" /\ status' = [status EXCEPT ![n] = "private"]
      /\ Linked' = Linked /\ \A m \in Linked : next'[m] = next[m]
  BY <1>1 DEF New, Linked, IInv, TypeOK, HeapTypeOK
<1>4. ASSUME ~Destroyed' PROVE Reaches(top, next, Linked)'
  <2>1. Reaches(top, next, Linked)
    BY <1>2, <1>4 DEF Placed, Destroyed
  <2>2. Reaches(top, next', Linked)
    BY <1>3, <2>1, ReachesWithin, LinkedWithin
  <2> QED BY <1>2, <1>3, <2>2 DEF Reaches, Closed
<1>5. Holds(t, n)'
  BY <1>1, <1>2 DEF Holds, PushLabels, IInv, TypeOK
<1>6. ASSUME NEW m \in Nodes, NEW u \in Threads, Holds(u, m)
      PROVE  Holds(u, m)'
  BY <1>1, <1>2, <1>6 DEF Holds, PushLabels, IInv, TypeOK
<1>7. \A m : InNoList(m)' <=> InNoList(m)
  BY <1>2 DEF InNoList
<1> QED BY <1>3, <1>4, <1>5, <1>6, <1>7 DEF Placed, IInv, TypeOK, HeapTypeOK

(* The exchange of a push hands its node over to the stack.                *)
LEMMA PushCasPlaces ==
  ASSUME IInv, Placed, NEW t \in Threads, PushCas(t)
  PROVE  Placed'
<1>1. CASE top # ptr[t]
  <2>1. /\ UNCHANGED <<status, retiredPointerList, top, next>>
        /\ (Destroyed => Destroyed')
    BY <1>1 DEF PushCas, hpVars, Destroyed
  <2>2. ASSUME NEW n \in Nodes, NEW u \in Threads, Holds(u, n)
        PROVE  Holds(u, n)'
    BY <1>1, <2>2 DEF PushCas, Holds, PushLabels, Goto, hpLocals, locals,
                      IInv, TypeOK
  <2> QED BY <2>1, <2>2, StaysPlaced
<1>2. CASE top = ptr[t]
  <2> DEFINE n == node[t]
  <2>1. /\ UNCHANGED <<next, retiredPointerList, main, node, ptr>>
        /\ pc[t] = "push.cas" /\ pc' = [pc EXCEPT ![t] = "clear"]
        /\ top' = n /\ status' = [status EXCEPT ![n] = "linked"]
    BY <1>2 DEF PushCas, Goto, hpVars, hpLocals, locals
  <2>2. n \in Nodes /\ status[n] = "private" /\ next[n] = top
    BY <1>2, <2>1 DEF IInv, PushOwnsNode, PushLabels
  <2>3. Linked' = Linked \cup {n}
    BY <2>1, <2>2 DEF Linked, IInv, TypeOK, HeapTypeOK
  <2>4. ASSUME ~Destroyed' PROVE Reaches(top, next, Linked)'
    <3>1. Reaches(top, next, Linked)
      BY <2>1, <2>4 DEF Placed, Destroyed
    <3>2. Reaches(n, next, Linked \cup {n})
      BY <2>2, <3>1, ReachesPushed, LinkedWithin
    <3> QED BY <2>1, <2>3, <3>2 DEF Reaches, Closed
  <2>5. ASSUME NEW m \in Nodes, NEW u \in Threads, Holds(u, m), m # n
        PROVE  Holds(u, m)'
    BY <2>1, <2>5 DEF Holds, PushLabels, IInv, TypeOK
  <2>6. \A m : InNoList(m)' <=> InNoList(m)
    BY <2>1 DEF InNoList
  <2> QED BY <2>1, <2>2, <2>4, <2>5, <2>6 DEF Placed, IInv, TypeOK, HeapTypeOK
<1> QED BY <1>1, <1>2

(* The exchange of a pop takes the first node into its hands.              *)
LEMMA PopCasPlaces ==
  ASSUME IInv, Placed, NEW t \in Threads, PopCas(t)
  PROVE  Placed'
<1>1. CASE top # ptr[t]
  <2>1. /\ UNCHANGED <<status, retiredPointerList, top, next>>
        /\ (Destroyed => Destroyed')
    BY <1>1 DEF PopCas, hpVars, Destroyed
  <2>2. ASSUME NEW n \in Nodes, NEW u \in Threads, Holds(u, n)
        PROVE  Holds(u, n)'
    BY <1>1, <2>2 DEF PopCas, Holds, PushLabels, Goto, hpLocals, IInv, TypeOK
  <2> QED BY <2>1, <2>2, StaysPlaced
<1>2. CASE top = ptr[t]
  <2>1. /\ UNCHANGED <<next, retiredPointerList, main, node, ptr>>
        /\ pc[t] = "pop.cas" /\ pc' = [pc EXCEPT ![t] = "pop.item"]
        /\ top' = nxt[t] /\ status' = [status EXCEPT ![top] = "retired"]
    BY <1>2 DEF PopCas, Goto, hpVars, hpLocals
  <2>2. top \in Linked /\ nxt[t] = next[top]
    BY <1>2, <2>1, HeapAssumption, LinkedWithin
       DEF IInv, GuardPublished, GuardedByHP
  <2>3. Linked' = Linked \ {top}
    BY <2>1, <2>2 DEF Linked, IInv, TypeOK, HeapTypeOK
  <2>4. ASSUME ~Destroyed' PROVE Reaches(top, next, Linked)'
    <3>1. Reaches(top, next, Linked)
      BY <2>1, <2>4 DEF Placed, Destroyed
    <3>2. Reaches(next[top], next, Linked \ {top})
      BY <2>2, <3>1, ReachesPopped, LinkedWithin
    <3> QED BY <2>1, <2>2, <2>3, <3>2 DEF Reaches, Closed
  <2>5. ASSUME NEW n, n = top PROVE Holds(t, n)'
    BY <1>2, <2>1, <2>5 DEF Holds, IInv, TypeOK
  <2>6. ASSUME NEW n \in Nodes, NEW u \in Threads, Holds(u, n)
        PROVE  Holds(u, n)'
    BY <2>1, <2>6 DEF Holds, PushLabels, IInv, TypeOK
  <2>7. \A n : InNoList(n)' <=> InNoList(n)
    BY <2>1 DEF InNoList
  <2> QED BY <2>1, <2>2, <2>4, <2>5, <2>6, <2>7
          DEF Placed, Linked, IInv, TypeOK, HeapTypeOK
<1> QED BY <1>1, <1>2

(* retireNode puts the node of a pop into the list of its thread.          *)
LEMMA PopItemPlaces ==
  ASSUME IInv, Placed, NEW t \in Threads, PopItem(t)
  PROVE  Placed'
<1>1. /\ UNCHANGED <<status, next, top, main, node, ptr>>
      /\ pc[t] = "pop.item" /\ pc' = [pc EXCEPT ![t] = pc'[t]]
      /\ pc'[t] \in {"scan", "clear"} /\ RetirePush(t, ptr[t])
  BY DEF PopItem, Goto, AfterRetirePush, heapVars, IInv, TypeOK
<1>2. ptr[t] \in Nodes
  BY <1>1 DEF IInv, PoppedByOne
<1>3. \A m : InNoList(m)' <=> InNoList(m) /\ m # ptr[t]
  BY <1>1, <1>2, PushEntry, LinkedWithin
<1>4. ASSUME ~Destroyed' PROVE Reaches(top, next, Linked)'
  BY <1>1, <1>4 DEF Placed, Destroyed, Reaches, Closed, Linked
<1>5. ASSUME NEW m \in Nodes, NEW u \in Threads, Holds(u, m), m # ptr[t]
      PROVE  Holds(u, m)'
  BY <1>1, <1>5 DEF Holds, PushLabels, IInv, TypeOK
<1>6. ASSUME NEW m \in Nodes, NEW u \in Threads, Holds(u, m),
             status[m] = "private"
      PROVE  Holds(u, m)'
  BY <1>1, <1>6 DEF Holds, PushLabels, IInv, TypeOK, PoppedByOne
<1> QED BY <1>1, <1>3, <1>4, <1>5, <1>6 DEF Placed

(* A scan deletes a node with its entry.                                   *)
LEMMA ScanPlaces ==
  ASSUME IInv, Placed, NEW t \in Threads, PopRetire(t)
  PROVE  Placed'
<1>1. /\ UNCHANGED <<top, main, node, ptr>>
      /\ pc[t] = "scan" /\ pc' = [pc EXCEPT ![t] = pc'[t]]
  BY DEF PopRetire, RetireScan, ScanSlot, Reclaim, Keep, ScanContinue, Goto,
         locals, IInv, TypeOK
<1>2. \A m \in Nodes, u \in Threads : Holds(u, m) => Holds(u, m)'
  BY <1>1 DEF Holds, PushLabels, IInv, TypeOK
<1>3. scan[t].i \in 1..Len(retiredPointerList[t]) /\ ScanTypes
  BY <1>1, LinkedWithin
<1>4. CASE UNCHANGED <<heapVars, retiredPointerList>>
  BY <1>1, <1>2, <1>4, StaysPlaced DEF heapVars, Destroyed
<1>5. CASE /\ Delete({Candidate(t)})
           /\ \A m : m # Candidate(t) /\ InNoList(m)' => InNoList(m)
  <2> DEFINE c == Candidate(t)
  <2>1. c \in Nodes /\ status[c] = "retired"
    BY <1>3, ListEntries DEF Candidate, IInv, RetiredOnce
  <2>2. /\ \A m \in Nodes : m # c => status'[m] = status[m] /\ next'[m] = next[m]
        /\ status'[c] = "free"
    BY <1>5, <2>1 DEF Delete
  <2>3. Linked' = Linked /\ \A m \in Linked : next'[m] = next[m]
    BY <2>1, <2>2 DEF Linked
  <2>4. ASSUME ~Destroyed' PROVE Reaches(top, next, Linked)'
    <3>1. Reaches(top, next, Linked)
      BY <1>1, <2>4 DEF Placed, Destroyed
    <3>2. Reaches(top, next', Linked)
      BY <2>3, <3>1, ReachesWithin, LinkedWithin
    <3> QED BY <1>1, <2>3, <3>2 DEF Reaches, Closed
  <2> HIDE DEF c
  <2>5. \A m : m # c /\ InNoList(m)' => InNoList(m)
    BY <1>5 DEF c
  <2> QED BY <1>2, <2>2, <2>4, <2>5 DEF Placed
<1> QED
  BY <1>1, <1>3, <1>4, <1>5, ScanEntries DEF PopRetire

(* The destructor deletes the node at the top and those of the lists.      *)
LEMMA DestroyPlaces ==
  ASSUME IInv, Placed, Destroy
  PROVE  Placed'
<1>1. /\ main = "deleting" /\ Destroyed' /\ UNCHANGED <<pc, node, ptr>>
      /\ Delete({n \in Nodes : n = top \/ \E t \in Threads : n \in Retired(t)})
  BY DEF Destroy, DeleteStructure, Destroyed, hpLocals, locals
<1>2. \A t \in Threads, n \in Nodes : ~Holds(t, n)
  BY <1>1 DEF Holds, IInv, MainAlone, PushLabels
<1>3. ASSUME NEW n \in Nodes, ~InNoList(n) PROVE \E t \in Threads : n \in Retired(t)
  BY <1>3, EntriesRetired, LinkedWithin
<1>4. \A n \in Nodes : status'[n] \notin {"private", "retired"}
  BY <1>1, <1>2, <1>3 DEF Delete, Placed, IInv, TypeOK, HeapTypeOK
<1> QED BY <1>1, <1>4 DEF Placed

(* Every step keeps every node in its place.                               *)
LEMMA NextPlaces == IInv /\ Placed /\ [Next]_vars => Placed'
<1> SUFFICES ASSUME IInv, Placed, [Next]_vars PROVE Placed'
  OBVIOUS
<1>1. ASSUME NEW t \in Threads, ThreadStep(t) PROVE Placed'
  BY <1>1, LoadsPlace, PushCallPlaces, PushCasPlaces, PopCasPlaces,
     PopItemPlaces, ScanPlaces DEF ThreadStep, PushStep, PopStep
<1>2. ASSUME Quit \/ Join \/ UNCHANGED vars PROVE Placed'
  <2>1. /\ UNCHANGED <<status, retiredPointerList, top, next>>
        /\ Destroyed => Destroyed'
    BY <1>2 DEF Quit, Join, QuitSignal, JoinThreads, vars, heapVars, hpVars,
                Destroyed
  <2>2. \A n \in Nodes, t \in Threads : Holds(t, n) => Holds(t, n)'
    BY <1>2 DEF Quit, Join, QuitSignal, JoinThreads, vars, hpLocals, locals,
                Holds, PushLabels, IInv, TypeOK
  <2> QED BY <2>1, <2>2, StaysPlaced
<1> QED BY <1>1, <1>2, DestroyPlaces DEF Next, MainStep, Finished

(* The constructor links the sentinel.                                     *)
LEMMA InitPlaced == Init => Placed
<1> SUFFICES ASSUME Init PROVE Placed
  OBVIOUS
<1>1. PICK s \in Nodes : HeapWithSentinel(s) /\ top = s
  BY DEF Init
<1>2. Linked = {s} /\ \A n \in Nodes : status[n] \in {"linked", "free"}
  BY <1>1 DEF HeapWithSentinel, Linked
<1>3. Reaches(top, next, Linked)
  BY <1>1, <1>2, HeapAssumption DEF Reaches, Closed
<1> QED BY <1>2, <1>3 DEF Placed

(* Nobody shares a node, and none is lost.                                 *)
LEMMA PlacedOwned == IInv /\ Placed => OneOwner
<1> SUFFICES ASSUME IInv, Placed, ~Destroyed PROVE OneOwner
  BY DEF OneOwner
<1>1. ChainSet(top) = Linked
  BY ChainIsLinked, LinkedWithin DEF Placed
<1>2. Straight(Linked, top)
  BY DEF Straight, Linked, IInv, StackShape
<1>3. ASSUME NEW n \in Nodes
      PROVE  InOnePlace(n, Linked, EntriesOf(retiredPointerList, n),
                        {t \in Threads : Holds(t, n)})
  <2> DEFINE entries == EntriesOf(retiredPointerList, n)
             holders == {t \in Threads : Holds(t, n)}
  <2>1. /\ InNoList(n) => entries = {}
        /\ ~InNoList(n) => status[n] = "retired" /\ \E x : entries = {x}
    BY OneEntry, LinkedWithin DEF IInv
  <2>2. ASSUME NEW t \in Threads, Holds(t, n)
        PROVE  /\ holders = {t} /\ InNoList(n)
               /\ status[n] \in {"private", "retired"}
    BY <2>1, <2>2 DEF Holds, IInv, PushOwnsNode, PoppedByOne, PushLabels, InNoList
  <2>3. /\ status[n] \in Statuses
        /\ status[n] = "private" => \E t \in Threads : Holds(t, n)
        /\ status[n] = "retired" =>
             ~InNoList(n) \/ \E t \in Threads : Holds(t, n)
    BY DEF Placed, IInv, TypeOK, HeapTypeOK
  <2>4. n \in Linked <=> status[n] = "linked"
    BY DEF Linked
  <2>5. holders = {} \/ \E t \in Threads : Holds(t, n)
    OBVIOUS
  <2> HIDE DEF entries, holders
  <2>6. /\ status[n] \in {"linked", "free"} => entries = {} /\ holders = {}
        /\ status[n] \in {"private", "retired"} =>
             \/ entries = {} /\ \E x : holders = {x}
             \/ holders = {} /\ \E x : entries = {x}
    BY <2>1, <2>2, <2>3, <2>5
  <2>7. InOnePlace(n, Linked, entries, holders)
    BY <2>3, <2>4, <2>6, PlacedOnce
  <2> QED BY <2>7 DEF entries, holders
<1>4. \A t \in Threads : retiredCount[t] = Len(retiredPointerList[t])
  BY DEF IInv, CountsRetired
<1> QED BY <1>1, <1>2, <1>3, <1>4 DEF OneOwner

(* Until the destructor has run every allocated node is in the stack, in   *)
(* one entry of a retired list or in the hands of one operation: nothing   *)
(* is lost and nothing can be freed twice.                                 *)
THEOREM OwnedOnce == Spec => []OneOwner
<1>1. Spec => []Placed
  <2>1. Spec => [](IInv /\ Placed)
    BY InitInv, InitPlaced, NextInv, NextPlaces, PTL DEF Spec
  <2> QED BY <2>1, PTL
<1> QED BY <1>1, Invariance, PlacedOwned, PTL

-----------------------------------------------------------------------------
(* What the destructor leaves.                                             *)

(* A pop returns nullptr only when it finds the stack empty, and while     *)
(* thread 0 drains the stack nobody pushes.                                *)
LEMMA ThreadDrains ==
  ASSUME IInv, Drained, NULL \notin RawItems, NEW t \in Threads, ThreadStep(t)
  PROVE  Drained'
<1>1. CASE main \notin {"draining", "deleting", "destroyed"}
  <2>1. main' = main
    BY <1>1 DEF ThreadStep, PushCall, PushStep, PushLoad, PushPublish,
           PushCheck, PushCas, PopCall, PopStep, PopProtect, PopPublish,
           PopCheck, PopNext, PopCas, PopItem, PopRetire, Return, ReturnItem,
           ThreadExit, LeaveLoop, locals
  <2> QED BY <1>1, <2>1 DEF Drained, Destroyed
<1>2. CASE main \in {"draining", "deleting", "destroyed"}
  <2>1. /\ t = 0 /\ pc[0] # "exited" /\ main = "draining"
        /\ pc \in [Threads -> Labels] /\ retData \in [Threads -> Items \cup {NULL}]
    BY <1>2 DEF IInv, TypeOK, MainAlone, PushLabels, Calling, DrainingAs, Goto,
           ThreadStep, PushCall, PushStep, PushLoad, ArgumentLoad, PushPublish,
           StoreHazardPtr, PushCheck, PushCas, PopCall, PopStep, PopProtect,
           ProtectLoad, PopPublish, ProtectStore, PopCheck, PopNext, PopCas,
           PopItem, PopRetire, RetireScan, ScanSlot, Reclaim, Keep,
           ScanContinue, Return, ClearSlot, ThreadExit, LeaveLoop
  <2>2. PopCall(t) \/ PopStep(t) \/ Return(t)
    BY <2>1, <1>2 DEF IInv, MainAlone, PushLabels, Calling, Goto,
           ThreadStep, PushCall, PushStep, PushLoad, ArgumentLoad, PushPublish,
           StoreHazardPtr, PushCheck, PushCas, ThreadExit, LeaveLoop
  <2>3. CASE PopCall(t) \/ PopPublish(t) \/ PopCheck(t) \/ PopNext(t) \/ PopCas(t)
    BY <2>1, <2>3 DEF Drained, Destroyed, Goto, locals, PopCall, PopPublish,
           ProtectStore, PopCheck, PopNext, PopCas
  <2>4. CASE PopProtect(t)
    BY <2>1, <2>4 DEF Drained, Destroyed, Goto, locals, PopProtect, ProtectLoad
  <2>5. CASE PopItem(t)
    BY <2>1, <2>5 DEF Drained, Destroyed, Goto, PopItem
  <2>6. CASE PopRetire(t)
    BY <2>1, <2>6 DEF Drained, Destroyed, Goto, locals, PopRetire, RetireScan,
           ScanSlot, Reclaim, Keep, ScanContinue
  <2>7. CASE Return(t)
    BY <2>1, <2>7 DEF Drained, Destroyed, Goto, Return, ClearSlot, ReturnItem
  <2> QED BY <2>2, <2>3, <2>4, <2>5, <2>6, <2>7 DEF PopStep
<1> QED BY <1>1, <1>2

(* The destructor finds no linked node and deletes every retired one.      *)
LEMMA DestroyDrains ==
  ASSUME IInv, Placed, Drained, NULL \notin RawItems, Destroy
  PROVE  Drained'
<1>1. /\ main = "deleting" /\ main' = "destroyed" /\ top' = NULL
      /\ Delete({n \in Nodes : n = top \/ \E t \in Threads : n \in Retired(t)})
  BY DEF Destroy, DeleteStructure
<1>2. Linked = {}
  <2>1. Reaches(NULL, next, Linked)
    BY <1>1 DEF Placed, Drained, Destroyed
  <2>2. Closed({}, NULL, next)
    BY DEF Closed
  <2> QED BY <2>1, <2>2 DEF Reaches
<1>3. ASSUME NEW n \in Nodes PROVE status'[n] \notin {"linked", "private", "retired"}
  <2>1. /\ status \in [Nodes -> Statuses] /\ status[n] # "linked"
        /\ \A t \in Threads : ~Holds(t, n)
    BY <1>1, <1>2 DEF IInv, TypeOK, HeapTypeOK, Linked, Holds, MainAlone, PushLabels
  <2>2. CASE status[n] = "retired"
    <3>1. PICK t \in Threads : n \in Retired(t)
      BY <2>1, <2>2, EntriesRetired, LinkedWithin DEF Placed
    <3> QED BY <1>1, <3>1 DEF Delete
  <2>3. status[n] # "private"
    BY <2>1 DEF Placed
  <2> QED BY <1>1, <2>1, <2>2, <2>3 DEF Delete
<1>4. Allocated' = {}
  BY <1>1, <1>3 DEF Allocated, Delete, IInv, TypeOK, HeapTypeOK, Statuses
<1> QED BY <1>1, <1>4 DEF Drained, Destroyed

(* At first there is nothing to drain.                                     *)
LEMMA InitDrained == Init => Drained
BY HeapAssumption DEF Init, BenchmarkInit, Drained, Destroyed

(* Every step keeps what the destructor relies on.                         *)
LEMMA NextDrained ==
  ASSUME IInv, Placed, Drained, NULL \notin RawItems, [Next]_vars
  PROVE  Drained'
<1>1. CASE Quit \/ Join
  BY <1>1, ThreadsAssumption DEF Quit, Join, QuitSignal, JoinThreads, Drained,
          Destroyed, IInv, TypeOK, Threads
<1>2. CASE UNCHANGED vars
  BY <1>2 DEF vars, heapVars, locals, Drained, Destroyed, Allocated
<1> QED BY <1>1, <1>2, ThreadDrains, DestroyDrains DEF Next, MainStep, Finished

(* Once the destructor has run nothing is left allocated, provided no node *)
(* holds a null item, which would end its loop early.                      *)
THEOREM NothingLeft == NULL \notin RawItems => (Spec => []NothingLeaked)
<1> SUFFICES ASSUME NULL \notin RawItems PROVE Spec => []NothingLeaked
  OBVIOUS
<1>1. IInv /\ Placed /\ Drained /\ [Next]_vars => Drained'
  BY NextDrained
<1>2. Drained => NothingLeaked
  BY DEF Drained, NothingLeaked
<1> QED BY <1>1, <1>2, InitDrained, InitInv, InitPlaced, NextInv, NextPlaces, PTL
    DEF Spec

-----------------------------------------------------------------------------
(* The refinement of LifoStack: the stack as a sequence.                   *)

(* s is the stack: the links lead from its top through the nodes of s, all *)
(* different and linked, and end.                                          *)
InOrder(s) ==
  /\ IsChain(s, top, NULL, next)
  /\ \A i \in 1..Len(s) : status[s[i]] = "linked"

(* Only a push, and the clear that ends it, has a new node.                *)
NodeOfPush ==
  \A t \in Threads :
    pc[t] \in PopLabels \cup {"idle", "exited"} => node[t] = NULL

Ordered == (\E s : InOrder(s)) /\ NodeOfPush

(* The sequence is the one ChainTo computes, now and after a step.         *)
LEMMA InOrderChain ==
  ASSUME NEW s
  PROVE  (InOrder(s) => Chain(top) = s) /\ (InOrder(s) => Chain(top) = s)'
<1>1. \A r : InOrder(r) => Chain(top) = r
  BY ChainComputed DEF InOrder, Chain
<1>2. (\A r : InOrder(r) => Chain(top) = r)'
  BY <1>1, PTL
<1> QED BY <1>1, <1>2

(* Taken steps of a thread that are neither a successful exchange nor a    *)
(* load that finds the stack empty leave the order of the nodes.           *)
LEMMA KeepsOrder ==
  ASSUME NEW s, InOrder(s), UNCHANGED top,
         \A n \in Nodes : status[n] = "linked" =>
           status'[n] = "linked" /\ next'[n] = next[n]
  PROVE  InOrder(s)'
<1>1. \A i \in 1..Len(s) : s[i] \in Nodes
  BY DEF InOrder, IsChain
<1> QED BY <1>1, ChainUnchanged DEF InOrder

(* The exchange of a push or a pop, when it succeeds.                      *)
Exchanges(t) == (PushCas(t) \/ PopCas(t)) /\ top = ptr[t]

LEMMA StepsKeepOrder ==
  ASSUME IInv, NEW t \in Threads, ThreadStep(t), ~Exchanges(t),
         NEW s, InOrder(s)
  PROVE  InOrder(s)'
<1>1. CASE PushCall(t)
  <2>1. /\ UNCHANGED top
        /\ \A n \in Nodes : status[n] = "linked" =>
             status'[n] = "linked" /\ next'[n] = next[n]
    BY <1>1 DEF PushCall, New, IInv, TypeOK, HeapTypeOK
  <2> QED BY <2>1, KeepsOrder
<1>2. CASE PushStep(t) \/ PopCall(t) \/ Return(t) \/ ThreadExit(t)
  <2>1. /\ UNCHANGED top
        /\ \A n \in Nodes : status[n] = "linked" =>
             status'[n] = "linked" /\ next'[n] = next[n]
    BY <1>2 DEF Exchanges, PushStep, PushLoad, ArgumentLoad, PushPublish,
           StoreHazardPtr, PushCheck, PushCas, PopCall, Return, ThreadExit,
           Goto, heapVars, IInv, TypeOK, HeapTypeOK, PushOwnsNode, PushLabels
  <2> QED BY <2>1, KeepsOrder
<1>3. CASE PopStep(t) /\ ~PopRetire(t)
  <2>1. UNCHANGED <<top, status, next>>
    BY <1>3 DEF Exchanges, PopStep, PopProtect, ProtectLoad, PopPublish,
           ProtectStore, PopCheck, PopNext, PopCas, PopItem, Goto, heapVars
  <2> QED BY <2>1, KeepsOrder
<1>4. CASE PopRetire(t)
  <2>1. UNCHANGED top /\ pc[t] = "scan"
    BY <1>4 DEF PopRetire, RetireScan, ScanSlot, Reclaim, Keep, ScanContinue,
           Goto
  <2>2. Candidate(t) \in Nodes /\ status[Candidate(t)] = "retired"
    BY <2>1, LinkedWithin, ListEntries DEF Candidate, IInv, RetiredOnce
  <2>3. UNCHANGED heapVars \/ Delete({Candidate(t)})
    BY <1>4 DEF PopRetire, RetireScan, ScanSlot, Reclaim, Keep
  <2>4. \A n \in Nodes : status[n] = "linked" =>
          status'[n] = "linked" /\ next'[n] = next[n]
    BY <2>2, <2>3 DEF Delete, heapVars
  <2> QED BY <2>1, <2>4, KeepsOrder
<1> QED BY <1>1, <1>2, <1>3, <1>4 DEF ThreadStep, PopStep

(* A push puts its node in front.                                          *)
LEMMA PushCasOrder ==
  ASSUME IInv, NEW t \in Threads, PushCas(t), top = ptr[t],
         NEW s, InOrder(s), NEW n, n = node[t]
  PROVE  InOrder(<<n>> \o s)'
<1>1. n \in Nodes /\ status[n] = "private" /\ next[n] = top /\ n # NULL
  BY HeapAssumption DEF PushCas, Goto, IInv, PushOwnsNode, PushLabels
<1>2. top' = n /\ next' = next /\ status' = [status EXCEPT ![n] = "linked"]
  BY DEF PushCas
<1>3. \A i \in 1..Len(s) : s[i] \in Nodes /\ status[s[i]] = "linked"
  BY DEF InOrder, IsChain
<1>4. IsChain(<<n>> \o s, n, NULL, next)
  BY <1>1, <1>3, ChainPushed DEF InOrder
<1>5. ASSUME NEW i \in 1..Len(<<n>> \o s)
      PROVE  status'[(<<n>> \o s)[i]] = "linked"
  <2>1. s \in Seq(Nodes) /\ status \in [Nodes -> Statuses]
    BY DEF InOrder, IsChain, IInv, TypeOK, HeapTypeOK
  <2>2. (<<n>> \o s)[i] = n \/ \E j \in 1..Len(s) : (<<n>> \o s)[i] = s[j]
    <3>1. i = 1 \/ i - 1 \in 1..Len(s)
      BY <1>1, <2>1
    <3>2. CASE i = 1
      BY <1>1, <2>1, <3>2
    <3>3. CASE i # 1
      <4>1. (<<n>> \o s)[i] = s[i - 1]
        BY <1>1, <2>1, <3>3
      <4> QED BY <3>1, <3>3, <4>1
    <3> QED BY <3>2, <3>3
  <2> QED BY <1>1, <1>2, <1>3, <2>1, <2>2
<1> QED BY <1>2, <1>4, <1>5 DEF InOrder

(* A pop takes the first node away.                                        *)
LEMMA PopCasOrder ==
  ASSUME IInv, NEW t \in Threads, PopCas(t), top = ptr[t],
         NEW s, InOrder(s)
  PROVE  s # <<>> /\ Head(s) = ptr[t] /\ InOrder(Tail(s))'
<1>1. /\ top \in Nodes /\ top # NULL /\ top' = next[top] /\ next' = next
      /\ status' = [status EXCEPT ![top] = "retired"]
  BY HeapAssumption DEF PopCas, Goto, IInv, GuardPublished, GuardedByHP
<1>2. /\ s # <<>> /\ Head(s) = top
      /\ IsChain(Tail(s), next[top], NULL, next)
      /\ Len(s) \in Nat \ {0} /\ Len(Tail(s)) = Len(s) - 1
      /\ \A i \in 1..Len(Tail(s)) : Tail(s)[i] = s[i + 1] /\ s[i + 1] # top
  BY <1>1, ChainPopped DEF InOrder
<1>3. ASSUME NEW i \in 1..Len(Tail(s))
      PROVE  status'[Tail(s)[i]] = "linked"
  <2>1. i + 1 \in 1..Len(s) /\ Tail(s)[i] = s[i + 1] /\ s[i + 1] # top
    BY <1>2
  <2>2. s[i + 1] \in Nodes /\ status[s[i + 1]] = "linked"
    BY <2>1 DEF InOrder, IsChain
  <2> QED BY <1>1, <2>1, <2>2 DEF IInv, TypeOK, HeapTypeOK
<1> QED BY <1>1, <1>2, <1>3 DEF InOrder

(* What a step does to the calls: t is now doing c, with the argument or   *)
(* result x, and the others what they did.                                 *)
CallsBecome(t, c, x) ==
  \A u \in Threads : /\ Call(u)' = IF u = t THEN c ELSE Call(u)
                     /\ Arg(u)' = IF u = t THEN x ELSE Arg(u)

LEMMA OthersCall ==
  ASSUME IInv, NEW t \in Threads, ThreadStep(t)
  PROVE  \A u \in Threads \ {t} : Call(u)' = Call(u) /\ Arg(u)' = Arg(u)
<1>1. \A u \in Threads \ {t} :
        pc'[u] = pc[u] /\ node'[u] = node[u] /\ ptr'[u] = ptr[u]
  <2> USE DEF Goto, hpLocals, locals, IInv, TypeOK, HPTypeOK
  <2>1. CASE PushCall(t) \/ PushStep(t) \/ PopCall(t)
    BY <2>1 DEF PushCall, PushStep, PushLoad, ArgumentLoad, PushPublish,
           StoreHazardPtr, PushCheck, PushCas, PopCall
  <2>2. CASE PopStep(t)
    BY <2>2 DEF PopStep, PopProtect, ProtectLoad, PopPublish, ProtectStore,
           PopCheck, PopNext, PopCas, PopItem, PopRetire, RetireScan,
           ScanSlot, Reclaim, Keep, ScanContinue
  <2>3. CASE Return(t) \/ ThreadExit(t)
    BY <2>3 DEF Return, ClearSlot, ThreadExit, LeaveLoop
  <2> QED BY <2>1, <2>2, <2>3 DEF ThreadStep
<1> QED BY <1>1 DEF Call, Arg

LEMMA BecomeMaps ==
  ASSUME NEW t \in Threads, NEW c, NEW x, CallsBecome(t, c, x)
  PROVE  /\ Lifo!Become(t, Call(t), c, x)
         /\ c # Call(t) => [u \in Threads |-> Call(u)]'[t]
                             # [u \in Threads |-> Call(u)][t]
BY DEF CallsBecome, Lifo!Become

(* A step that changes neither the order nor a call is a stutter.          *)
LEMMA LifoStutters ==
  ASSUME NEW s, InOrder(s), InOrder(s)',
         \A u \in Threads : Call(u)' = Call(u) /\ Arg(u)' = Arg(u)
  PROVE  UNCHANGED Lifo!vars
<1>1. Chain(top)' = Chain(top)
  BY InOrderChain
<1> QED BY <1>1 DEF Lifo!vars

(* push and pop begin and end.                                             *)
LEMMA CallsMap ==
  ASSUME IInv, NodeOfPush, NEW t \in Threads, NEW s, InOrder(s), InOrder(s)',
         PushCall(t) \/ PopCall(t) \/ Return(t) \/ ThreadExit(t)
  PROVE  [Lifo!Next]_(Lifo!vars)
<1> USE DEF Goto, hpLocals, locals, IInv, TypeOK, HPTypeOK, PushLabels,
            PopLabels, GuardLabels, Labels
<1>0. Chain(top)' = Chain(top) /\ ThreadStep(t)
  BY InOrderChain DEF ThreadStep
<1>1. CASE PushCall(t)
  <2>1. PICK n \in Nodes : Call(t) = "none" /\ Call(t)' = "push" /\ Arg(t)' = n
    BY <1>1 DEF PushCall, Call, Arg
  <2>2. CallsBecome(t, "push", n)
    BY <1>0, <2>1, OthersCall DEF CallsBecome
  <2>3. Lifo!CallPush(t, n)
    BY <1>0, <2>1, <2>2, BecomeMaps DEF Lifo!CallPush
  <2> QED BY <2>1, <2>2, <2>3, BecomeMaps DEF Lifo!Next
<1>2. CASE PopCall(t)
  <2>1. Call(t) = "none" /\ Call(t)' = "pop" /\ Arg(t)' = NULL
    BY <1>2 DEF PopCall, Call, Arg
  <2>2. CallsBecome(t, "pop", NULL)
    BY <1>0, <2>1, OthersCall DEF CallsBecome
  <2>3. Lifo!CallPop(t)
    BY <1>0, <2>1, <2>2, BecomeMaps DEF Lifo!CallPop
  <2> QED BY <2>1, <2>2, <2>3, BecomeMaps DEF Lifo!Next
<1>3. CASE Return(t) /\ slot[t] + 1 = SlotsPerThread
  <2>1. Call(t) = "done" /\ Call(t)' = "none" /\ Arg(t)' = NULL
    BY <1>3 DEF Return, ClearSlot, Call, Arg
  <2>2. CallsBecome(t, "none", NULL)
    BY <1>0, <2>1, OthersCall DEF CallsBecome
  <2>3. Lifo!Return(t)
    BY <1>0, <2>1, <2>2, BecomeMaps DEF Lifo!Return
  <2> QED BY <2>1, <2>2, <2>3, BecomeMaps DEF Lifo!Next
<1>4. CASE (Return(t) /\ slot[t] + 1 # SlotsPerThread) \/ ThreadExit(t)
  <2>1. Call(t)' = Call(t) /\ Arg(t)' = Arg(t)
    BY <1>4 DEF Return, ClearSlot, ThreadExit, LeaveLoop, Call, Arg
  <2> QED BY <1>0, <2>1, OthersCall, LifoStutters
<1> QED BY <1>1, <1>2, <1>3, <1>4

(* push takes effect at its exchange.                                      *)
LEMMA PushStepMaps ==
  ASSUME IInv, Ordered, NEW t \in Threads, PushStep(t)
  PROVE  [Lifo!Next]_(Lifo!vars)
<1> USE DEF Goto, hpLocals, locals, IInv, TypeOK, HPTypeOK, PushLabels,
            PopLabels, GuardLabels, Labels
<1>0. PICK s : InOrder(s)
  BY DEF Ordered
<1>1. ThreadStep(t)
  BY DEF ThreadStep
<1>2. CASE PushCas(t) /\ top = ptr[t]
  <2>1. Call(t) = "push" /\ Arg(t) = node[t] /\ Call(t)' = "done" /\ Arg(t)' = NULL
    BY <1>2, HeapAssumption DEF PushCas, Call, Arg, PushOwnsNode
  <2>2. CallsBecome(t, "done", NULL)
    BY <1>1, <2>1, OthersCall DEF CallsBecome
  <2>3. Chain(top) = s /\ Chain(top)' = <<node[t]>> \o s
    <3>1. PICK n : n = node[t]
      OBVIOUS
    <3>2. InOrder(<<n>> \o s)'
      BY <1>0, <1>2, <3>1, PushCasOrder
    <3> QED BY <1>0, <3>1, <3>2, InOrderChain
  <2>4. Lifo!Push(t)
    BY <2>1, <2>2, <2>3, BecomeMaps DEF Lifo!Push
  <2> QED BY <2>1, <2>2, <2>4, BecomeMaps DEF Lifo!Next
<1>3. CASE ~Exchanges(t)
  <2>1. Call(t)' = Call(t) /\ Arg(t)' = Arg(t)
    BY <1>3 DEF Exchanges, PushStep, PushLoad, ArgumentLoad, PushPublish,
           StoreHazardPtr, PushCheck, PushCas, Call, Arg
  <2> QED BY <1>0, <1>1, <1>3, <2>1, OthersCall, StepsKeepOrder, LifoStutters
<1> QED BY <1>2, <1>3 DEF Exchanges, PushStep, PopCas, PushLoad, ArgumentLoad,
           PushPublish, StoreHazardPtr, PushCheck

(* pop takes effect at its exchange, or at the load that finds no node.    *)
LEMMA PopStepMaps ==
  ASSUME IInv, Ordered, NEW t \in Threads, PopStep(t)
  PROVE  [Lifo!Next]_(Lifo!vars)
<1> USE DEF Goto, hpLocals, locals, IInv, TypeOK, HPTypeOK, PushLabels,
            PopLabels, GuardLabels, Labels
<1>0. PICK s : InOrder(s)
  BY DEF Ordered
<1>1. ThreadStep(t) /\ node[t] = NULL
  BY DEF ThreadStep, Ordered, NodeOfPush, PopStep, PopProtect, ProtectLoad,
         PopPublish, ProtectStore, PopCheck, PopNext, PopCas, PopItem,
         PopRetire, RetireScan, ScanSlot, Reclaim, Keep, ScanContinue
<1>2. CASE PopCas(t) /\ top = ptr[t]
  <2>1. Call(t) = "pop" /\ Call(t)' = "done" /\ Arg(t)' = ptr[t]
    BY <1>1, <1>2 DEF PopCas, Call, Arg
  <2>2. CallsBecome(t, "done", ptr[t])
    BY <1>1, <2>1, OthersCall DEF CallsBecome
  <2>3. /\ Chain(top) = s /\ Chain(top)' = Tail(s)
        /\ s # <<>> /\ Head(s) = ptr[t]
    BY <1>0, <1>2, PopCasOrder, InOrderChain
  <2>4. Lifo!Pop(t)
    BY <2>1, <2>2, <2>3, BecomeMaps DEF Lifo!Pop
  <2> QED BY <2>1, <2>2, <2>4, BecomeMaps DEF Lifo!Next
<1>3. CASE PopProtect(t) /\ ProtectDone(t, top) /\ top = NULL
  <2>1. Call(t) = "pop" /\ Call(t)' = "done" /\ Arg(t)' = NULL
    BY <1>1, <1>3 DEF PopProtect, ProtectLoad, Call, Arg
  <2>2. CallsBecome(t, "done", NULL)
    BY <1>1, <2>1, OthersCall DEF CallsBecome
  <2>3. ~Exchanges(t)
    BY <1>3 DEF Exchanges, PushCas, PopCas, PopProtect, ProtectLoad
  <2>4. InOrder(s)'
    BY <1>0, <1>1, <2>3, StepsKeepOrder
  <2>5. s = <<>>
    BY <1>0, <1>3, HeapAssumption DEF InOrder, IsChain
  <2>6. Chain(top) = <<>> /\ Chain(top)' = <<>>
    BY <1>0, <2>4, <2>5, InOrderChain
  <2>7. Lifo!PopEmpty(t)
    BY <2>1, <2>2, <2>6, BecomeMaps DEF Lifo!PopEmpty
  <2> QED BY <2>1, <2>2, <2>7, BecomeMaps DEF Lifo!Next
<1>4. CASE ~Exchanges(t) /\ ~(PopProtect(t) /\ ProtectDone(t, top) /\ top = NULL)
  <2>1. Call(t)' = Call(t) /\ Arg(t)' = Arg(t)
    BY <1>1, <1>4 DEF Exchanges, PopStep, PopProtect, ProtectLoad,
           PopPublish, ProtectStore, PopCheck, PopNext, PopCas, PopItem,
           AfterRetirePush, PopRetire, RetireScan, ScanSlot, Reclaim, Keep,
           ScanContinue, Call, Arg
  <2> QED BY <1>0, <1>1, <1>4, <2>1, OthersCall, StepsKeepOrder, LifoStutters
<1>5. ~PushCas(t)
  BY DEF PushCas, PopStep, PopProtect, ProtectLoad,
           PopPublish, ProtectStore, PopCheck, PopNext, PopCas, PopItem,
           PopRetire, RetireScan, ScanSlot, Reclaim, Keep, ScanContinue
<1> QED BY <1>2, <1>3, <1>4, <1>5 DEF Exchanges

(* Quit and Join touch nothing of the stack, and once the destructor has   *)
(* drained it no operation is running.                                     *)
LEMMA MainMaps ==
  ASSUME IInv, Ordered, MainStep \/ UNCHANGED vars
  PROVE  [Lifo!Next]_(Lifo!vars) /\ Ordered'
<1>0. PICK s : InOrder(s)
  BY DEF Ordered
<1>1. CASE Quit \/ Join \/ UNCHANGED vars
  <2>1. InOrder(s)'
    BY <1>0, <1>1, KeepsOrder DEF Quit, Join, vars, heapVars
  <2>2. \A u \in Threads : Call(u)' = Call(u) /\ Arg(u)' = Arg(u)
    BY <1>1 DEF Quit, Join, QuitSignal, JoinThreads, vars, hpLocals, locals,
           Call, Arg, PushLabels, PopLabels, GuardLabels, IInv, TypeOK
  <2>3. NodeOfPush'
    BY <1>1 DEF Quit, Join, QuitSignal, JoinThreads, vars, locals, Ordered,
           NodeOfPush, PopLabels, GuardLabels, IInv, TypeOK
  <2> QED BY <1>0, <2>1, <2>2, <2>3, LifoStutters DEF Ordered
<1>2. CASE Destroy
  <2>1. /\ main = "deleting" /\ top' = NULL /\ UNCHANGED <<pc, node, ptr>>
    BY <1>2 DEF Destroy, DeleteStructure, hpLocals, locals
  <2>2. \A u \in Threads : /\ pc[u] \in {"idle", "exited"}
                           /\ Call(u) = "none" /\ Call(u)' = Call(u)
                           /\ Arg(u)' = Arg(u)
    BY <2>1 DEF IInv, MainAlone, Call, Arg, PushLabels, PopLabels, GuardLabels
  <2>3. InOrder(<<>>)'
    BY <2>1 DEF InOrder, IsChain
  <2>4. Chain(top)' = <<>>
    BY <2>3, InOrderChain
  <2>5. Lifo!Destroy
    BY <2>2, <2>4 DEF Lifo!Destroy
  <2>6. NodeOfPush'
    BY <2>1 DEF Ordered, NodeOfPush
  <2> QED BY <2>3, <2>5, <2>6 DEF Ordered, Lifo!Next
<1> QED BY <1>1, <1>2 DEF MainStep

(* Every step leaves the stack a sequence.                                 *)
LEMMA ThreadOrders ==
  ASSUME IInv, Ordered, NEW t \in Threads, ThreadStep(t)
  PROVE  Ordered'
<1>0. PICK s : InOrder(s)
  BY DEF Ordered
<1>1. \E r : InOrder(r)'
  BY <1>0, StepsKeepOrder, PushCasOrder, PopCasOrder DEF Exchanges
<1>2. NodeOfPush'
  <2> USE DEF Goto, locals, IInv, TypeOK, NodeOfPush, Ordered, PopLabels,
              GuardLabels, PushLabels
  <2>1. CASE PushCall(t) \/ PushStep(t) \/ PopCall(t)
    BY <2>1 DEF PushCall, PushStep, PushLoad, ArgumentLoad, PushPublish,
           StoreHazardPtr, PushCheck, PushCas, PopCall
  <2>2. CASE PopStep(t)
    <3>1. /\ UNCHANGED node /\ pc[t] \in PopLabels
          /\ pc' = [pc EXCEPT ![t] = pc'[t]]
      BY <2>2 DEF PopStep, PopProtect, ProtectLoad, PopPublish, ProtectStore,
           PopCheck, PopNext, PopCas, PopItem, PopRetire, RetireScan,
           ScanSlot, Reclaim, Keep, ScanContinue
    <3> QED BY <3>1
  <2>3. CASE Return(t) \/ ThreadExit(t)
    BY <2>3 DEF Return, ClearSlot, ThreadExit, LeaveLoop
  <2> QED BY <2>1, <2>2, <2>3 DEF ThreadStep
<1>3. (\E r : InOrder(r))'
  BY <1>1
<1> QED BY <1>2, <1>3 DEF Ordered

LEMMA NextLifo ==
  IInv /\ Ordered /\ [Next]_vars => [Lifo!Next]_(Lifo!vars) /\ Ordered'
<1> SUFFICES ASSUME IInv, Ordered, [Next]_vars
             PROVE  [Lifo!Next]_(Lifo!vars) /\ Ordered'
  OBVIOUS
<1>1. ASSUME NEW t \in Threads, ThreadStep(t)
      PROVE  [Lifo!Next]_(Lifo!vars) /\ Ordered'
  <2>1. Ordered'
    BY <1>1, ThreadOrders
  <2>2. CASE PushStep(t) \/ PopStep(t)
    BY <2>1, <2>2, PushStepMaps, PopStepMaps
  <2>3. CASE PushCall(t) \/ PopCall(t) \/ Return(t) \/ ThreadExit(t)
    <3>1. PICK s : InOrder(s)
      BY DEF Ordered
    <3>2. ~Exchanges(t)
      BY <2>3 DEF Exchanges, PushCas, PopCas, PushCall, PopCall, Return,
             ClearSlot, ThreadExit, LeaveLoop, Goto
    <3>3. InOrder(s)'
      BY <1>1, <3>1, <3>2, StepsKeepOrder
    <3> QED BY <2>1, <2>3, <3>1, <3>3, CallsMap DEF Ordered
  <2> QED BY <1>1, <2>2, <2>3 DEF ThreadStep
<1> QED BY <1>1, MainMaps DEF Next, Finished

(* The constructor makes a stack of one node.                              *)
LEMMA InitLifo == Init => Lifo!Init /\ Ordered
<1> SUFFICES ASSUME Init PROVE Lifo!Init /\ Ordered
  OBVIOUS
<1>1. PICK p \in Nodes : HeapWithSentinel(p) /\ top = p
  BY DEF Init
<1>2. InOrder(<<p>>)
  BY <1>1, HeapAssumption DEF InOrder, IsChain, HeapWithSentinel
<1>3. Chain(top) = <<p>>
  BY <1>2, InOrderChain
<1>4. \A t \in Threads : Call(t) = "none" /\ Arg(t) = NULL /\ node[t] = NULL
  BY DEF Init, BenchmarkInit, Call, Arg, PushLabels, PopLabels, GuardLabels
<1>5. Lifo!Init
  BY <1>3, <1>4 DEF Lifo!Init
<1> QED BY <1>2, <1>4, <1>5 DEF Ordered, NodeOfPush

(* push and pop are linearizable: the stack with hazard pointers behaves   *)
(* like a LIFO stack whose operations take effect in one step each.        *)
THEOREM StackLinearizable == Spec => Linearizable
BY InitInv, InitLifo, NextInv, NextLifo, PTL DEF Spec, Linearizable, Lifo!Spec

=============================================================================
