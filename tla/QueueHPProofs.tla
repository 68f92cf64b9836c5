--------------------------- MODULE QueueHPProofs ---------------------------
(***************************************************************************)
(* What the steps of QueueHP do, for any number of threads, addresses and  *)
(* slots and any threshold: the invariant IInv is inductive, every step is *)
(* a step of SafeReclamation or a stutter, and the queue is all that is    *)
(* linked (Placed, Drained).  Its items are those of a FIFO queue, which   *)
(* each step changes as FifoQueue does.  ProgramHPProofs concludes.        *)
(*                                                                         *)
(* The invariant of one thread is kept by the steps of the others because  *)
(* of what such a step may do to a node at all (NodeStep): that is shown   *)
(* once, in OthersKept, and each action only shows that it is such a step. *)
(***************************************************************************)
EXTENDS QueueHP, HeapProofs, SequenceTheorems

-----------------------------------------------------------------------------
(* What HazardPointers does: its types, what protect, clear and retireNode *)
(* leave as it was, and what a scan that has come far enough knows of the  *)
(* slots, for any labels of the structure.                                 *)

(* What erase leaves of a retired list: every entry but one, in the same   *)
(* order.                                                                  *)
LEMMA RemoveAtProperties ==
  ASSUME NEW S, NEW s \in Seq(S), NEW i \in 1..Len(s)
  PROVE  /\ RemoveAt(s, i) \in Seq(S)
         /\ Len(RemoveAt(s, i)) = Len(s) - 1
         /\ \A j \in 1..(Len(s) - 1) :
              RemoveAt(s, i)[j] = IF j < i THEN s[j] ELSE s[j + 1]
<1> DEFINE a == SubSeq(s, 1, i - 1)
           b == SubSeq(s, i + 1, Len(s))
<1>1. /\ Len(s) \in Nat /\ \A j \in 1..Len(s) : s[j] \in S
  BY LenProperties, ElementOfSeq
<1>2. /\ a \in Seq(S) /\ Len(a) = i - 1 /\ \A j \in 1..(i - 1) : a[j] = s[j]
  <2>1. \A j \in 1..(i - 1) : s[j] \in S
    BY <1>1
  <2>2. 1 \in Int /\ i - 1 \in Int /\ i \in Int
    BY <1>1
  <2>3. /\ a \in Seq(S)
        /\ Len(a) = IF 1 <= i - 1 THEN (i - 1) - 1 + 1 ELSE 0
        /\ \A j \in 1..((i - 1) - 1 + 1) : a[j] = s[1 + j - 1]
    BY <2>1, <2>2, SubSeqProperties
  <2> HIDE DEF a
  <2> QED BY <2>2, <2>3, <1>1
<1>3. /\ b \in Seq(S) /\ Len(b) = Len(s) - i
      /\ \A j \in 1..(Len(s) - i) : b[j] = s[i + j]
  <2>1. \A j \in (i + 1)..Len(s) : s[j] \in S
    BY <1>1
  <2>2. i + 1 \in Int /\ Len(s) \in Int /\ i \in Int
    BY <1>1
  <2>3. /\ b \in Seq(S)
        /\ Len(b) = IF i + 1 <= Len(s) THEN Len(s) - (i + 1) + 1 ELSE 0
        /\ \A j \in 1..(Len(s) - (i + 1) + 1) : b[j] = s[(i + 1) + j - 1]
    BY <2>1, <2>2, SubSeqProperties
  <2> HIDE DEF b
  <2>4. /\ Len(b) = Len(s) - i
        /\ \A j \in 1..(Len(s) - i) : b[j] = s[i + j]
    BY <2>2, <2>3, <1>1, SMTT(20)
  <2> QED BY <2>3, <2>4
<1> HIDE DEF a, b
<1>4. /\ a \o b \in Seq(S)
      /\ Len(a \o b) = Len(a) + Len(b)
      /\ \A j \in 1..(Len(a) + Len(b)) :
           (a \o b)[j] = IF j <= Len(a) THEN a[j] ELSE b[j - Len(a)]
  BY <1>2, <1>3, ConcatProperties
<1>5. RemoveAt(s, i) = a \o b
  BY DEF RemoveAt, a, b
<1>6. ASSUME NEW j \in 1..(Len(s) - 1)
      PROVE  (a \o b)[j] = IF j < i THEN s[j] ELSE s[j + 1]
  <2>1. CASE j < i
    BY <1>1, <1>2, <1>3, <1>4, <2>1
  <2>2. CASE i <= j
    <3>1. j - (i - 1) \in 1..(Len(s) - i) /\ ~(j <= Len(a)) /\ ~(j < i)
          /\ j \in 1..(Len(a) + Len(b)) /\ j - Len(a) = j - (i - 1)
      BY <1>1, <1>2, <1>3, <2>2
    <3>2. (a \o b)[j] = b[j - (i - 1)]
      BY <1>4, <3>1
    <3>3. b[j - (i - 1)] = s[i + (j - (i - 1))] /\ i + (j - (i - 1)) = j + 1
      BY <1>1, <1>3, <3>1
    <3> QED BY <3>1, <3>2, <3>3
  <2>3. j < i \/ i <= j
    BY <1>1
  <2> QED BY <2>1, <2>2, <2>3
<1> QED
  BY <1>1, <1>2, <1>3, <1>4, <1>5, <1>6

(* The entries and lengths of the retired lists.                           *)
LEMMA ListEntries ==
  ASSUME ScanTypes, NEW t \in Threads
  PROVE  /\ retiredPointerList[t] \in Seq(Nodes)
         /\ Len(retiredPointerList[t]) \in Nat
         /\ \A i \in 1..Len(retiredPointerList[t]) :
              retiredPointerList[t][i] \in Nodes
BY LenProperties, ElementOfSeq DEF ScanTypes

(* A step that leaves lists and scans alone and lets nobody begin a scan   *)
(* keeps the scheme's invariant.  A slot that goes on holding its node     *)
(* shields it; so does a higher slot that takes it over, and any slot that *)
(* holds a node which is not retired.                                      *)
LEMMA SchemeKept ==
  ASSUME NEW S, Scheme(S),
         UNCHANGED <<threadCount, retiredPointerList, retiredCount, scan>>,
         hazardPointerList' \in [Threads -> [Slots -> NodeOrNull]],
         \A m \in Nodes : status[m] = "retired" => status'[m] = "retired",
         \A u \in Threads : pc'[u] \in S => pc[u] \in S,
         Destroyed => Destroyed'
  PROVE  /\ Scheme(S)'
         /\ \A n : InNoList(n) => InNoList(n)'
         /\ \A n : \A u \in Threads, i, j \in Slots :
              /\ Shields(u, i, n, S) /\ i <= j /\ hazardPointerList'[u][j] = n
              => Shields(u, j, n, S)'
         /\ \A u \in Threads, j \in Slots, n \in Nodes :
              /\ u < threadCount /\ hazardPointerList'[u][j] = n
              /\ status'[n] # "retired"
              => Shields(u, j, n, S)'
<1>1. ScanTypes'
  BY DEF Scheme, ScanTypes
<1>2. RetiredOnce'
  BY ListEntries DEF Scheme, RetiredOnce
<1>3. ScanInRange(S)' /\ CountsRetired'
  BY DEF Scheme, ScanInRange, CountsRetired
<1>4. \A n : InNoList(n) => InNoList(n)'
  BY DEF InNoList
<1>5. ASSUME NEW u \in Threads, NEW i \in Slots, NEW j \in Slots, NEW n,
             Shields(u, i, n, S), i <= j, hazardPointerList'[u][j] = n
      PROVE  Shields(u, j, n, S)'
  <2>1. ASSUME NEW v \in Threads, pc'[v] \in S, scan'[v].deleteNode,
               Candidate(v)' = n
        PROVE  ~Past(scan'[v], u, j)
    <3>1. ~Past(scan[v], u, i)
      BY <1>5, <2>1 DEF Shields, Candidate
    <3>2. scan[v].k \in Nat /\ scan[v].j \in Slots /\ scan'[v] = scan[v]
      BY DEF Scheme, ScanTypes
    <3> QED BY <3>1, <3>2, <1>5 DEF Past, Slots, Threads
  <2> QED BY <1>5, <2>1 DEF Shields
<1>6. ASSUME NEW u \in Threads, NEW j \in Slots, NEW n \in Nodes,
             u < threadCount, hazardPointerList'[u][j] = n,
             status'[n] # "retired"
      PROVE  Shields(u, j, n, S)'
  <2>1. ASSUME NEW v \in Threads, pc'[v] \in S
        PROVE  status'[Candidate(v)'] = "retired"
    BY <1>2, <1>3, <2>1 DEF ScanInRange, RetiredOnce, Candidate
  <2> QED BY <1>6, <2>1 DEF Shields
<1> QED BY <1>1, <1>2, <1>3, <1>4, <1>5, <1>6 DEF Scheme

(* retireNode appends a node that is in no list and begins a scan, which   *)
(* has not looked at any slot.                                             *)
LEMMA PushEffect ==
  ASSUME NEW S, Scheme(S), NEW t \in Threads, NEW n \in Nodes,
         NEW scanning \in S, NEW done, done \notin S, pc[t] \notin S,
         RetirePush(t, n), InNoList(n),
         UNCHANGED threadCount,
         hazardPointerList' \in [Threads -> [Slots -> NodeOrNull]],
         \A m \in Nodes : status[m] = "retired" \/ m = n => status'[m] = "retired",
         \A u \in Threads :
           IF u = t THEN pc'[u] \in {scanning, done} ELSE pc'[u] = pc[u],
         UNCHANGED main
  PROVE  /\ Scheme(S)'
         /\ \A m : m # n /\ InNoList(m) => InNoList(m)'
         /\ \A m : \A u \in Threads, j \in Slots :
              Shields(u, j, m, S) /\ hazardPointerList'[u][j] = m
              => Shields(u, j, m, S)'
<1> DEFINE rl == retiredPointerList[t]
<1>1. /\ rl \in Seq(Nodes) /\ Len(rl) \in Nat
      /\ retiredPointerList'[t] = Append(rl, n)
      /\ \A u \in Threads : u # t => retiredPointerList'[u] = retiredPointerList[u]
  BY ListEntries DEF RetirePush, Scheme, ScanTypes
<1>2. /\ Append(rl, n) \in Seq(Nodes) /\ Len(Append(rl, n)) = Len(rl) + 1
      /\ \A i \in 1..Len(rl) : Append(rl, n)[i] = rl[i]
      /\ Append(rl, n)[Len(rl) + 1] = n
  BY <1>1, AppendProperties
<1>3. \A u \in Threads : \A i \in 1..Len(retiredPointerList'[u]) :
        \/ /\ i \in 1..Len(retiredPointerList[u])
           /\ retiredPointerList'[u][i] = retiredPointerList[u][i]
        \/ /\ u = t /\ i = Len(rl) + 1
           /\ retiredPointerList'[u][i] = n
  <2>1. ASSUME NEW i \in 1..Len(Append(rl, n))
        PROVE  \/ i \in 1..Len(rl) /\ Append(rl, n)[i] = rl[i]
               \/ i = Len(rl) + 1 /\ Append(rl, n)[i] = n
    BY <1>1, <1>2
  <2> HIDE DEF rl
  <2> QED BY <1>1, <2>1 DEF rl
<1>4. /\ scan'[t] = ScanStart
      /\ \A u \in Threads : u # t => scan'[u] = scan[u]
      /\ retiredCount'[t] = retiredCount[t] + 1
      /\ \A u \in Threads : u # t => retiredCount'[u] = retiredCount[u]
  BY DEF RetirePush, Scheme, ScanTypes
<1>5. ScanTypes'
  <2>1. ScanStart \in [i : Nat \ {0}, k : Nat, j : Slots, deleteNode : BOOLEAN]
    BY HPAssumption DEF ScanStart, Slots
  <2>2. retiredPointerList' \in [Threads -> Seq(Nodes)]
    BY <1>1, <1>2 DEF RetirePush, Scheme, ScanTypes
  <2> QED BY <2>1, <2>2 DEF RetirePush, Scheme, ScanTypes
<1>6. RetiredOnce'
  <2>1. \A u \in Threads : \A i \in 1..Len(retiredPointerList[u]) :
          /\ retiredPointerList[u][i] # n /\ retiredPointerList[u][i] \in Nodes
          /\ status[retiredPointerList[u][i]] = "retired"
    BY ListEntries DEF InNoList, Scheme, RetiredOnce
  <2>2. \A u \in Threads : \A i \in 1..Len(retiredPointerList'[u]) :
          status'[retiredPointerList'[u][i]] = "retired"
    BY <1>3, <2>1
  <2>3. ASSUME NEW u \in Threads, NEW i \in 1..Len(retiredPointerList'[u]),
               NEW v \in Threads, NEW j \in 1..Len(retiredPointerList'[v]),
               retiredPointerList'[v][j] = retiredPointerList'[u][i]
        PROVE  v = u /\ j = i
    <3>1. CASE retiredPointerList'[u][i] = n
      <4>1. u = t /\ i = Len(rl) + 1
        BY <1>3, <2>1, <3>1
      <4>2. v = t /\ j = Len(rl) + 1
        <5>1. CASE /\ j \in 1..Len(retiredPointerList[v])
                   /\ retiredPointerList'[v][j] = retiredPointerList[v][j]
          BY <2>1, <2>3, <3>1, <5>1
        <5> QED BY <1>3, <5>1
      <4> QED BY <4>1, <4>2
    <3>2. CASE retiredPointerList'[u][i] # n
      <4>1. /\ i \in 1..Len(retiredPointerList[u])
            /\ j \in 1..Len(retiredPointerList[v])
            /\ retiredPointerList[v][j] = retiredPointerList[u][i]
        BY <1>3, <2>3, <3>2
      <4> QED BY <4>1 DEF Scheme, RetiredOnce
    <3> QED BY <3>1, <3>2
  <2> QED BY <2>2, <2>3 DEF RetiredOnce
<1>7. ScanInRange(S)'
  <2>1. /\ 1 \in 1..Len(retiredPointerList'[t]) /\ 0 \in 0..threadCount'
        /\ ScanStart.i = 1 /\ ScanStart.k = 0
    BY <1>1, <1>2 DEF Scheme, ScanTypes, ScanStart
  <2> QED BY <2>1, <1>1, <1>4 DEF Scheme, ScanInRange
<1>8. CountsRetired'
  BY <1>1, <1>2, <1>4 DEF Scheme, CountsRetired, Destroyed
<1>9. ASSUME NEW m, m # n, InNoList(m) PROVE InNoList(m)'
  BY <1>3, <1>9 DEF InNoList
<1>10. ASSUME NEW u \in Threads, NEW j \in Slots, NEW m, Shields(u, j, m, S),
              hazardPointerList'[u][j] = m
       PROVE  Shields(u, j, m, S)'
  <2>1. ~Past(ScanStart, u, j)
    BY DEF ScanStart, Past, Threads, Slots
  <2>2. ASSUME NEW v \in Threads, v # t, pc'[v] \in S, scan'[v].deleteNode,
               Candidate(v)' = m
        PROVE  ~Past(scan'[v], u, j)
    BY <1>1, <1>4, <1>10, <2>2 DEF Shields, Candidate
  <2> QED BY <2>1, <2>2, <1>4, <1>10 DEF Shields
<1> QED BY <1>5, <1>6, <1>7, <1>8, <1>9, <1>10 DEF Scheme

(* What a load of the scan leaves of its progress: the slots passed are    *)
(* those passed before and the one just loaded.                            *)
LEMMA ScanSlotProgress ==
  ASSUME NEW S, Scheme(S), NEW t \in Threads, NEW scanning \in S,
         ScanSlot(t, scanning)
  PROVE  /\ \A u \in Threads : u # t => scan'[u] = scan[u]
         /\ scan' \in [Threads -> [i : Nat \ {0}, k : Nat, j : Slots,
                                   deleteNode : BOOLEAN]]
         /\ scan'[t].i = scan[t].i /\ scan'[t].k \in 0..threadCount
         /\ scan'[t].deleteNode =>
              /\ scan[t].deleteNode /\ ~Matches(t)
              /\ \A u \in Threads, j \in Slots : Past(scan'[t], u, j) =>
                   Past(scan[t], u, j) \/ (u = scan[t].k /\ j = scan[t].j)
<1> DEFINE s == scan[t]
           R == [i : Nat \ {0}, k : Nat, j : Slots, deleteNode : BOOLEAN]
<1>1. /\ scan \in [Threads -> R] /\ s \in R /\ threadCount \in Nat
      /\ s.k \in 0..(threadCount - 1)
  BY ThreadsAssumption
  DEF Scheme, ScanTypes, ScanInRange, ScanSlot, ScannedAll
<1>2. scan' = [scan EXCEPT ![t] = IF Matches(t) THEN Blocked(s) ELSE NextSlot(s)]
  BY DEF ScanSlot
<1>3. /\ scan'[t] \in R /\ scan'[t].i = s.i /\ scan'[t].k \in 0..threadCount
      /\ scan'[t].deleteNode =>
           /\ s.deleteNode /\ ~Matches(t)
           /\ \A u \in Threads, j \in Slots : Past(scan'[t], u, j) =>
                Past(s, u, j) \/ (u = s.k /\ j = s.j)
  <2>1. CASE Matches(t)
    <3>1. scan'[t] = [i |-> s.i, k |-> s.k + 1, j |-> 0, deleteNode |-> FALSE]
      BY <1>1, <1>2, <2>1 DEF Blocked
    <3> QED BY <3>1, <1>1, HPAssumption DEF Slots
  <2>2. CASE ~Matches(t) /\ s.j + 1 < SlotsPerThread
    <3>1. scan'[t] = [s EXCEPT !.j = s.j + 1]
      BY <1>1, <1>2, <2>2 DEF NextSlot
    <3>2. /\ scan'[t] \in R /\ scan'[t].i = s.i /\ scan'[t].k = s.k
          /\ scan'[t].j = s.j + 1 /\ scan'[t].deleteNode = s.deleteNode
      BY <3>1, <1>1, <2>2, HPAssumption DEF Slots
    <3>3. scan'[t].k \in 0..threadCount
      BY <3>2, <1>1
    <3>4. \A u \in Threads, j \in Slots : Past(scan'[t], u, j) =>
            Past(s, u, j) \/ (u = s.k /\ j = s.j)
      BY <3>2, <1>1, HPAssumption DEF Slots, Past, Threads
    <3> QED BY <3>2, <3>3, <3>4, <2>2
  <2>3. CASE ~Matches(t) /\ ~(s.j + 1 < SlotsPerThread)
    <3>1. scan'[t] = [i |-> s.i, k |-> s.k + 1, j |-> 0,
                      deleteNode |-> s.deleteNode]
      BY <1>1, <1>2, <2>3 DEF NextSlot
    <3>2. scan'[t].k \in 0..threadCount /\ 0 \in Slots
      BY <3>1, <1>1, HPAssumption DEF Slots
    <3>3. \A u \in Threads, j \in Slots : Past(scan'[t], u, j) =>
            Past(s, u, j) \/ (u = s.k /\ j = s.j)
      BY <3>1, <1>1, <2>3, HPAssumption DEF Slots, Past, Threads
    <3> QED BY <3>1, <3>2, <3>3, <1>1, <2>3
  <2> QED BY <2>1, <2>2, <2>3
<1> QED BY <1>1, <1>2, <1>3

(* The effect of a step on the scheme, its lists and the shields.          *)
ScanKeeps(S) ==
  /\ Scheme(S)'
  /\ \A n : InNoList(n) => InNoList(n)'
  /\ \A n : \A u \in Threads, j \in Slots :
       Shields(u, j, n, S) => Shields(u, j, n, S)'

(* A load of the scan.                                                     *)
LEMMA ScanSlotEffect ==
  ASSUME NEW S, Scheme(S), NEW t \in Threads, NEW scanning \in S,
         ScanSlot(t, scanning), UNCHANGED main
  PROVE  ScanKeeps(S)
<1>1. /\ UNCHANGED <<heapVars, hpVars, pc, ptr, last, slot>>
      /\ pc[t] = scanning
  BY DEF ScanSlot
<1>2. ScanTypes' /\ RetiredOnce' /\ CountsRetired'
  <2>1. ScanTypes'
    BY <1>1, ScanSlotProgress DEF Scheme, ScanTypes, hpVars
  <2>2. RetiredOnce'
    BY <1>1 DEF Scheme, RetiredOnce, hpVars, heapVars
  <2>3. CountsRetired'
    BY <1>1 DEF Scheme, CountsRetired, Destroyed, hpVars
  <2> QED BY <2>1, <2>2, <2>3
<1>3. ScanInRange(S)'
  BY <1>1, ScanSlotProgress DEF Scheme, ScanInRange, hpVars
<1>4. \A n : InNoList(n) => InNoList(n)'
  BY <1>1 DEF InNoList, hpVars
<1>5. ASSUME NEW u \in Threads, NEW j \in Slots, NEW n, Shields(u, j, n, S)
      PROVE  Shields(u, j, n, S)'
  <2>1. ASSUME NEW v \in Threads, pc'[v] \in S, scan'[v].deleteNode,
               Candidate(v)' = n
        PROVE  ~Past(scan'[v], u, j)
    <3>1. CASE v = t
      <4>1. scan[t].deleteNode /\ Candidate(t) = n
        BY <1>1, <2>1, <3>1, ScanSlotProgress DEF Candidate, hpVars
      <4>2. ~Past(scan[t], u, j) /\ hazardPointerList[u][j] = n
        BY <1>1, <1>5, <4>1 DEF Shields
      <4>3. ~(u = scan[t].k /\ j = scan[t].j)
        BY <2>1, <3>1, <4>1, <4>2, ScanSlotProgress DEF Matches
      <4> QED BY <2>1, <3>1, <4>2, <4>3, ScanSlotProgress
    <3>2. CASE v # t
      BY <1>1, <1>5, <2>1, <3>2, ScanSlotProgress DEF Shields, Candidate, hpVars
    <3> QED BY <3>1, <3>2
  <2> QED BY <1>1, <1>5, <2>1 DEF Shields, hpVars
<1> QED BY <1>2, <1>3, <1>4, <1>5 DEF Scheme, ScanKeeps

(* Where a scan goes on after a candidate.                                 *)
LEMMA ScanContinues ==
  ASSUME NEW S, Scheme(S), NEW t \in Threads, NEW scanning \in S, NEW done,
         done \notin S, pc = [u \in Threads |-> pc[u]], NEW left \in Nat,
         ScanContinue(t, scanning, done, left)
  PROVE  /\ pc[t] = scanning /\ pc'[t] \in {scanning, done}
         /\ \A u \in Threads : u # t => pc'[u] = pc[u] /\ scan'[u] = scan[u]
         /\ scan' \in [Threads -> [i : Nat \ {0}, k : Nat, j : Slots,
                                   deleteNode : BOOLEAN]]
         /\ pc'[t] = scanning => scan'[t].i \in 1..left
         /\ scan'[t].k = 0 /\ scan'[t].j = 0
<1> DEFINE s == scan[t]
           R == [i : Nat \ {0}, k : Nat, j : Slots, deleteNode : BOOLEAN]
<1>1. scan \in [Threads -> R] /\ s \in R
  BY DEF Scheme, ScanTypes
<1>2. /\ pc[t] = scanning
      /\ pc' = [pc EXCEPT ![t] = IF s.i + 1 > left THEN done ELSE scanning]
      /\ scan' = [scan EXCEPT ![t] = IF s.i + 1 > left THEN ScanStart
                                     ELSE NextCandidate(t)]
  BY DEF ScanContinue, Goto
<1>3. ScanStart \in R /\ ScanStart.k = 0 /\ ScanStart.j = 0
  BY HPAssumption DEF ScanStart, Slots
<1>4. CASE s.i + 1 > left
  BY <1>1, <1>2, <1>3, <1>4
<1>5. CASE ~(s.i + 1 > left)
  <2>1. scan'[t] = [i |-> s.i + 1, k |-> 0, j |-> 0, deleteNode |-> s.deleteNode]
    BY <1>1, <1>2, <1>5 DEF NextCandidate
  <2>2. scan'[t] \in R /\ s.i + 1 \in 1..left
    BY <2>1, <1>1, <1>5, HPAssumption DEF Slots
  <2>3. scan' = [scan EXCEPT ![t] = scan'[t]]
    BY <1>2, <1>5
  <2>4. scan' \in [Threads -> R] /\ \A u \in Threads : u # t => scan'[u] = scan[u]
    BY <2>2, <2>3, <1>1
  <2> QED BY <2>1, <2>2, <2>4, <1>2, <1>5
<1> QED BY <1>4, <1>5

(* A candidate that a slot holds stays in its list.                        *)
LEMMA KeepEffect ==
  ASSUME NEW S, Scheme(S), NEW t \in Threads, NEW scanning \in S, NEW done,
         done \notin S, pc = [u \in Threads |-> pc[u]],
         Keep(t, scanning, done), UNCHANGED main
  PROVE  ScanKeeps(S)
<1>1. /\ UNCHANGED <<heapVars, hpVars>>
      /\ ScanContinue(t, scanning, done, Len(retiredPointerList[t]))
  BY DEF Keep
<1>2. Len(retiredPointerList[t]) \in Nat /\ threadCount \in Nat
  BY ListEntries DEF Scheme, ScanTypes
<1>3. /\ pc[t] = scanning /\ pc'[t] \in {scanning, done}
      /\ \A u \in Threads : u # t => pc'[u] = pc[u] /\ scan'[u] = scan[u]
      /\ scan' \in [Threads -> [i : Nat \ {0}, k : Nat, j : Slots,
                                deleteNode : BOOLEAN]]
      /\ pc'[t] = scanning => scan'[t].i \in 1..Len(retiredPointerList[t])
      /\ scan'[t].k = 0 /\ scan'[t].j = 0
  BY <1>1, <1>2, ScanContinues
<1>4. ScanTypes' /\ RetiredOnce' /\ CountsRetired'
  <2>1. ScanTypes'
    BY <1>1, <1>3 DEF Scheme, ScanTypes, hpVars
  <2>2. RetiredOnce'
    BY <1>1 DEF Scheme, RetiredOnce, hpVars, heapVars
  <2>3. CountsRetired'
    BY <1>1 DEF Scheme, CountsRetired, Destroyed, hpVars
  <2> QED BY <2>1, <2>2, <2>3
<1>5. ScanInRange(S)'
  BY <1>1, <1>2, <1>3 DEF Scheme, ScanInRange, hpVars
<1>6. \A n : InNoList(n) => InNoList(n)'
  BY <1>1 DEF InNoList, hpVars
<1>7. ASSUME NEW u \in Threads, NEW j \in Slots, NEW n, Shields(u, j, n, S)
      PROVE  Shields(u, j, n, S)'
  <2>1. ~Past(scan'[t], u, j)
    BY <1>3 DEF Past, Threads, Slots
  <2>2. ASSUME NEW v \in Threads, v # t, pc'[v] \in S, scan'[v].deleteNode,
               Candidate(v)' = n
        PROVE  ~Past(scan'[v], u, j)
    BY <1>1, <1>3, <1>7, <2>2 DEF Shields, Candidate, hpVars
  <2> QED BY <1>1, <1>7, <2>1, <2>2 DEF Shields, hpVars
<1> QED BY <1>4, <1>5, <1>6, <1>7 DEF Scheme, ScanKeeps

(* A candidate that the whole scan has not found is deleted and erased:    *)
(* it was in one place, and shielded by no slot.                           *)
LEMMA ReclaimEffect ==
  ASSUME NEW S, Scheme(S), NEW t \in Threads, NEW scanning \in S, NEW done,
         done \notin S, pc = [u \in Threads |-> pc[u]], status \in [Nodes -> Statuses],
         Reclaim(t, scanning, done), UNCHANGED main, ~Destroyed
  PROVE  /\ ScanKeeps(S)
         /\ \E c \in Nodes :
              /\ c = Candidate(t) /\ Delete({c})
              /\ status[c] = "retired" /\ ~InNoList(c) /\ InNoList(c)'
              /\ \A u \in Threads, j \in Slots : ~Shields(u, j, c, S)
<1> DEFINE c == Candidate(t)
           rl == retiredPointerList[t]
           R == [i : Nat \ {0}, k : Nat, j : Slots, deleteNode : BOOLEAN]
<1>1. /\ scan[t].deleteNode /\ scan[t].k = threadCount
      /\ ScanContinue(t, scanning, done, Len(rl) - 1)
      /\ Delete({c})
      /\ retiredPointerList' =
           [retiredPointerList EXCEPT ![t] = RemoveAt(rl, scan[t].i)]
      /\ retiredCount' = [retiredCount EXCEPT ![t] = @ - 1]
      /\ UNCHANGED <<threadCount, hazardPointerList>>
  BY DEF Reclaim, ScannedAll
<1>2. pc[t] = scanning
  BY <1>1 DEF ScanContinue, Goto
<1>3. /\ rl \in Seq(Nodes) /\ Len(rl) \in Nat /\ scan[t].i \in 1..Len(rl)
      /\ Len(rl) - 1 \in Nat
  <2>1. rl \in Seq(Nodes) /\ Len(rl) \in Nat /\ scan[t].i \in 1..Len(rl)
    BY <1>2, ListEntries DEF Scheme, ScanInRange
  <2> QED BY <2>1
<1>4. c = rl[scan[t].i] /\ c \in Nodes /\ status[c] = "retired" /\ ~InNoList(c)
  BY <1>3, ListEntries DEF Candidate, Scheme, RetiredOnce, InNoList
<1>5. ASSUME NEW u \in Threads, NEW j \in Slots PROVE ~Shields(u, j, c, S)
  <2>1. ~(u < threadCount) \/ Past(scan[t], u, j)
    BY <1>1, <1>5 DEF Past, Threads, Scheme, ScanTypes
  <2> QED BY <1>1, <1>2, <2>1 DEF Shields
<1>6. /\ pc'[t] \in {scanning, done}
      /\ \A u \in Threads : u # t => pc'[u] = pc[u] /\ scan'[u] = scan[u]
      /\ scan' \in [Threads -> R]
      /\ pc'[t] = scanning => scan'[t].i \in 1..(Len(rl) - 1)
      /\ scan'[t].k = 0 /\ scan'[t].j = 0
  BY <1>1, <1>3, ScanContinues
<1>7. /\ retiredPointerList'[t] \in Seq(Nodes)
      /\ Len(retiredPointerList'[t]) = Len(rl) - 1
      /\ \A i \in 1..(Len(rl) - 1) : retiredPointerList'[t][i] =
            IF i < scan[t].i THEN rl[i] ELSE rl[i + 1]
      /\ \A u \in Threads : u # t => retiredPointerList'[u] = retiredPointerList[u]
      /\ retiredPointerList' \in [Threads -> Seq(Nodes)]
  <2> DEFINE r == RemoveAt(rl, scan[t].i)
  <2>1. /\ r \in Seq(Nodes) /\ Len(r) = Len(rl) - 1
        /\ \A i \in 1..(Len(rl) - 1) :
             r[i] = IF i < scan[t].i THEN rl[i] ELSE rl[i + 1]
    BY <1>3, RemoveAtProperties
  <2>2. retiredPointerList' = [retiredPointerList EXCEPT ![t] = r]
    BY <1>1
  <2>3. retiredPointerList \in [Threads -> Seq(Nodes)]
    BY DEF Scheme, ScanTypes
  <2> HIDE DEF r
  <2>4. retiredPointerList'[t] = r
    BY <2>2, <2>3
  <2> QED BY <2>1, <2>2, <2>3, <2>4
(* Where an entry of the lists after the step was before.                  *)
<1> DEFINE From(u, i) == IF u = t /\ i >= scan[t].i THEN i + 1 ELSE i
<1>8. ASSUME NEW u \in Threads, NEW i \in 1..Len(retiredPointerList'[u])
      PROVE  /\ From(u, i) \in 1..Len(retiredPointerList[u])
             /\ retiredPointerList'[u][i] = retiredPointerList[u][From(u, i)]
             /\ u = t => From(u, i) # scan[t].i
  <2>1. CASE u = t
    <3>1. i \in 1..(Len(rl) - 1)
      BY <2>1, <1>7
    <3>2. From(u, i) \in 1..Len(rl) /\ From(u, i) # scan[t].i
      BY <3>1, <2>1, <1>3
    <3>3. rl[From(u, i)] = IF i < scan[t].i THEN rl[i] ELSE rl[i + 1]
      BY <3>1, <2>1, <1>3
    <3>4. retiredPointerList'[t][i] = IF i < scan[t].i THEN rl[i] ELSE rl[i + 1]
      BY <3>1, <1>7
    <3> QED BY <2>1, <3>2, <3>3, <3>4
  <2>2. CASE u # t
    BY <2>2, <1>7
  <2> QED BY <2>1, <2>2
<1>9. ASSUME NEW u \in Threads, NEW i \in 1..Len(retiredPointerList'[u]),
             NEW v \in Threads, NEW j \in 1..Len(retiredPointerList'[v]),
             retiredPointerList'[v][j] = retiredPointerList'[u][i]
      PROVE  v = u /\ j = i
  <2>1. v = u /\ From(v, j) = From(u, i)
    <3> HIDE DEF From
    <3>1. /\ From(u, i) \in 1..Len(retiredPointerList[u])
          /\ From(v, j) \in 1..Len(retiredPointerList[v])
          /\ retiredPointerList[v][From(v, j)] = retiredPointerList[u][From(u, i)]
      BY <1>8, <1>9
    <3>2. RetiredOnce
      BY DEF Scheme
    <3> QED BY <3>1, <3>2 DEF RetiredOnce
  <2>2. i \in Nat /\ j \in Nat /\ scan[t].i \in Nat
    <3>1. Len(retiredPointerList'[u]) \in Nat /\ Len(retiredPointerList'[v]) \in Nat
      BY <1>7, LenProperties
    <3> QED BY <3>1, <1>3
  <2> QED BY <2>1, <2>2
<1>10. \A u \in Threads : \A i \in 1..Len(retiredPointerList'[u]) :
         retiredPointerList'[u][i] # c
  <2> HIDE DEF From
  <2> QED BY <1>3, <1>4, <1>8 DEF Scheme, RetiredOnce
<1>11. /\ \A m \in Nodes : m # c => status'[m] = status[m]
  BY <1>1, <1>4 DEF Delete
<1>12. RetiredOnce'
  <2> HIDE DEF From
  <2>1. ASSUME NEW u \in Threads, NEW i \in 1..Len(retiredPointerList'[u])
        PROVE  status'[retiredPointerList'[u][i]] = "retired"
    <3>1. retiredPointerList'[u][i] \in Nodes
      BY <1>8, ListEntries DEF Scheme
    <3>2. status[retiredPointerList'[u][i]] = "retired"
      BY <1>8 DEF Scheme, RetiredOnce
    <3> QED BY <3>1, <3>2, <1>10, <1>11
  <2> QED BY <2>1, <1>9 DEF RetiredOnce
<1>13. ScanTypes'
  <2>1. retiredCount[t] - 1 \in Nat /\ retiredCount \in [Threads -> Nat]
    BY <1>3 DEF Scheme, CountsRetired, ScanTypes
  <2>2. retiredCount' \in [Threads -> Nat]
    BY <2>1, <1>1
  <2> QED BY <2>2, <1>1, <1>6, <1>7 DEF Scheme, ScanTypes
<1>14. ScanInRange(S)'
  <2>1. /\ 0 \in 0..threadCount' /\ threadCount' = threadCount
    BY <1>1 DEF Scheme, ScanTypes
  <2> QED BY <2>1, <1>6, <1>7 DEF Scheme, ScanInRange
<1>15. CountsRetired'
  BY <1>1, <1>3, <1>7 DEF Scheme, ScanTypes, CountsRetired, Destroyed
<1>16. \A n : InNoList(n) => InNoList(n)'
  <2> HIDE DEF From
  <2> QED BY <1>8 DEF InNoList
<1>17. ASSUME NEW u \in Threads, NEW j \in Slots, NEW n, Shields(u, j, n, S)
       PROVE  Shields(u, j, n, S)'
  <2>1. ~Past(scan'[t], u, j)
    BY <1>6 DEF Past, Threads, Slots
  <2>2. ASSUME NEW v \in Threads, v # t, pc'[v] \in S, scan'[v].deleteNode,
               Candidate(v)' = n
        PROVE  ~Past(scan'[v], u, j)
    BY <1>6, <1>7, <1>17, <2>2 DEF Shields, Candidate
  <2> QED BY <1>1, <1>17, <2>1, <2>2 DEF Shields
<1>18. \A n : n = c => InNoList(n)'
  BY <1>10 DEF InNoList
<1>19. ScanKeeps(S)
  BY <1>12, <1>13, <1>14, <1>15, <1>16, <1>17 DEF Scheme, ScanKeeps
<1> QED BY <1>1, <1>4, <1>5, <1>18, <1>19

(* The scan as a whole.                                                    *)
LEMMA ScanEffect ==
  ASSUME NEW S, Scheme(S), NEW t \in Threads, NEW scanning \in S, NEW done,
         done \notin S, pc = [u \in Threads |-> pc[u]], status \in [Nodes -> Statuses],
         RetireScan(t, scanning, done), UNCHANGED main, ~Destroyed
  PROVE  /\ ScanKeeps(S)
         /\ UNCHANGED <<threadCount, hazardPointerList, ptr, last, slot>>
         /\ pc[t] = scanning /\ pc'[t] \in {scanning, done}
         /\ pc' = [pc EXCEPT ![t] = pc'[t]]
         /\ \/ UNCHANGED heapVars
            \/ \E c \in Nodes :
                 /\ c = Candidate(t) /\ Delete({c})
                 /\ status[c] = "retired" /\ ~InNoList(c) /\ InNoList(c)'
                 /\ \A u \in Threads, j \in Slots : ~Shields(u, j, c, S)
<1>1. CASE ScanSlot(t, scanning)
  BY <1>1, ScanSlotEffect DEF ScanSlot, hpVars
<1>2. CASE Keep(t, scanning, done)
  <2>1. ScanContinue(t, scanning, done, Len(retiredPointerList[t]))
    BY <1>2 DEF Keep
  <2>2. pc[t] = scanning /\ pc'[t] \in {scanning, done} /\ pc' = [pc EXCEPT ![t] = pc'[t]]
    BY <2>1 DEF ScanContinue, Goto
  <2> QED BY <1>2, <2>2, KeepEffect DEF Keep, hpVars
<1>3. CASE Reclaim(t, scanning, done)
  <2>1. ScanContinue(t, scanning, done, Len(retiredPointerList[t]) - 1)
    BY <1>3 DEF Reclaim
  <2>2. pc[t] = scanning /\ pc'[t] \in {scanning, done} /\ pc' = [pc EXCEPT ![t] = pc'[t]]
    BY <2>1 DEF ScanContinue, Goto
  <2> QED BY <1>3, <2>2, ReclaimEffect DEF Reclaim
<1> QED BY <1>1, <1>2, <1>3 DEF RetireScan

(* A node is in one entry of the retired lists, or in none.                *)
LEMMA OneEntry ==
  ASSUME ScanTypes, RetiredOnce, NEW n
  PROVE  IF InNoList(n) THEN EntriesOf(retiredPointerList, n) = {}
         ELSE /\ status[n] = "retired"
              /\ \E x : EntriesOf(retiredPointerList, n) = {x}
<1>1. DOMAIN retiredPointerList = Threads
  BY DEF ScanTypes
<1>2. CASE InNoList(n)
  BY <1>1, <1>2, EntriesDef DEF InNoList
<1>3. CASE ~InNoList(n)
  <2>0. PICK t \in Threads : \E i \in 1..Len(retiredPointerList[t]) :
          retiredPointerList[t][i] = n
    BY <1>3 DEF InNoList
  <2>1. PICK i \in 1..Len(retiredPointerList[t]) : retiredPointerList[t][i] = n
    BY <2>0
  <2>2. EntriesOf(retiredPointerList, n) = {<<t, i>>}
    BY <1>1, <2>1, EntriesDef DEF RetiredOnce
  <2> QED BY <1>3, <2>1, <2>2 DEF RetiredOnce
<1> QED BY <1>2, <1>3

(* A node with an entry is in the set of nodes that a destructor deletes.  *)
LEMMA EntriesRetired ==
  ASSUME ScanTypes, NEW n, ~InNoList(n)
  PROVE  \E t \in Threads : n \in Retired(t)
<1>1. PICK t \in Threads : \E i \in 1..Len(retiredPointerList[t]) :
          retiredPointerList[t][i] = n
  BY DEF InNoList
<1>2. DOMAIN retiredPointerList[t] = 1..Len(retiredPointerList[t])
  BY ListEntries, LenProperties
<1> QED BY <1>1, <1>2 DEF Retired, ToSet

(* retireNode adds an entry for its node.                                  *)
LEMMA PushEntry ==
  ASSUME ScanTypes, NEW t \in Threads, NEW n \in Nodes, RetirePush(t, n)
  PROVE  \A m : InNoList(m)' <=> InNoList(m) /\ m # n
<1> DEFINE rl == retiredPointerList[t]
<1>1. /\ rl \in Seq(Nodes) /\ Len(rl) \in Nat
      /\ retiredPointerList' = [retiredPointerList EXCEPT ![t] = Append(rl, n)]
  BY ListEntries DEF RetirePush
<1>2. /\ Len(Append(rl, n)) = Len(rl) + 1
      /\ \A i \in 1..Len(rl) : Append(rl, n)[i] = rl[i]
      /\ Append(rl, n)[Len(rl) + 1] = n
  BY <1>1, AppendProperties
<1>3. /\ retiredPointerList'[t] = Append(rl, n)
      /\ \A u \in Threads : u # t => retiredPointerList'[u] = retiredPointerList[u]
  BY <1>1 DEF ScanTypes
<1>4. ASSUME NEW m, InNoList(m), m # n PROVE InNoList(m)'
  BY <1>1, <1>2, <1>3, <1>4 DEF InNoList
<1>5. ASSUME NEW m, InNoList(m)' PROVE InNoList(m) /\ m # n
  <2>1. m # n
    BY <1>1, <1>2, <1>3, <1>5 DEF InNoList
  <2>2. ASSUME NEW u \in Threads, NEW i \in 1..Len(retiredPointerList[u])
        PROVE  retiredPointerList[u][i] # m
    <3>1. CASE u = t
      <4>1. i \in 1..Len(Append(rl, n)) /\ Append(rl, n)[i] = rl[i]
        BY <1>1, <1>2, <2>2, <3>1
      <4> QED BY <1>3, <1>5, <3>1, <4>1 DEF InNoList
    <3>2. CASE u # t
      BY <1>3, <1>5, <2>2, <3>2 DEF InNoList
    <3> QED BY <3>1, <3>2
  <2> QED BY <2>1, <2>2 DEF InNoList
<1> QED BY <1>4, <1>5

(* The scan removes the entry of the node it deletes, and no other.        *)
LEMMA ScanEntries ==
  ASSUME ScanTypes, NEW t \in Threads, NEW scanning, NEW done,
         scan[t].i \in 1..Len(retiredPointerList[t]),
         RetireScan(t, scanning, done)
  PROVE  \/ UNCHANGED <<heapVars, retiredPointerList>>
         \/ /\ Delete({Candidate(t)})
            /\ \A m : m # Candidate(t) /\ InNoList(m)' => InNoList(m)
<1>1. CASE ScanSlot(t, scanning) \/ Keep(t, scanning, done)
  BY <1>1 DEF ScanSlot, Keep, hpVars
<1>2. CASE Reclaim(t, scanning, done)
  <2> DEFINE rl == retiredPointerList[t]
             e == scan[t].i
  <2>1. /\ rl \in Seq(Nodes) /\ Len(rl) \in Nat /\ e \in 1..Len(rl)
        /\ retiredPointerList' = [retiredPointerList EXCEPT ![t] = RemoveAt(rl, e)]
    BY <1>2, ListEntries DEF Reclaim
  <2>2. /\ Len(RemoveAt(rl, e)) = Len(rl) - 1
        /\ \A j \in 1..(Len(rl) - 1) :
             RemoveAt(rl, e)[j] = IF j < e THEN rl[j] ELSE rl[j + 1]
    BY <2>1, RemoveAtProperties
  <2>3. /\ retiredPointerList'[t] = RemoveAt(rl, e)
        /\ \A u \in Threads : u # t => retiredPointerList'[u] = retiredPointerList[u]
    BY <2>1 DEF ScanTypes
  <2> HIDE DEF rl, e
  <2>4. ASSUME NEW m, m # Candidate(t), InNoList(m)',
               NEW u \in Threads, NEW i \in 1..Len(retiredPointerList[u]),
               retiredPointerList[u][i] = m
        PROVE  FALSE
    <3>1. CASE u # t
      BY <2>3, <2>4, <3>1 DEF InNoList
    <3>2. CASE u = t
      <4>1. i \in 1..Len(rl) /\ i # e /\ rl[i] = m
        BY <2>4, <3>2 DEF Candidate, rl, e
      <4>2. CASE i < e
        <5>1. i \in 1..(Len(rl) - 1) /\ RemoveAt(rl, e)[i] = m
          BY <2>1, <2>2, <4>1, <4>2
        <5> QED BY <2>2, <2>3, <2>4, <5>1 DEF InNoList
      <4>3. CASE i > e
        <5>1. /\ i - 1 \in 1..(Len(rl) - 1) /\ ~(i - 1 < e) /\ (i - 1) + 1 = i
          BY <2>1, <4>1, <4>3
        <5>2. RemoveAt(rl, e)[i - 1] = m
          BY <2>2, <4>1, <5>1
        <5> QED BY <2>2, <2>3, <2>4, <5>1, <5>2 DEF InNoList
      <4> QED BY <2>1, <4>1, <4>2, <4>3
    <3> QED BY <3>1, <3>2
  <2> QED BY <1>2, <2>4 DEF Reclaim, InNoList
<1> QED BY <1>1, <1>2 DEF RetireScan

-----------------------------------------------------------------------------
(* The steps of the queue.                                                 *)

(* The slots that hold what they shielded still shield it.                 *)
ShieldsKept ==
  \A n : \A u \in Threads, j \in Slots :
    Shields(u, j, n, {"scan"}) /\ hazardPointerList'[u][j] = n =>
      Shields(u, j, n, {"scan"})'

(* A step of t leaves the locals and the slots of the others alone.        *)
OthersStay(t) ==
  \A u \in Threads : u # t =>
    /\ pc'[u] = pc[u] /\ node'[u] = node[u] /\ nxt'[u] = nxt[u]
    /\ ptr'[u] = ptr[u] /\ last'[u] = last[u]
    /\ hazardPointerList'[u] = hazardPointerList[u]

(* What a step of t does to a node, besides nothing.                       *)
NodeStep(t, m) ==
  \/ status'[m] = status[m] /\ next'[m] = next[m]
  \/ status[m] = "linked" /\ status'[m] = "linked" /\ next[m] = NULL
  \/ status[m] = "linked" /\ status'[m] = "retired" /\ next'[m] = next[m]
  \/ status[m] = "free" /\ status'[m] = "private" /\ next'[m] = NULL
  \/ /\ status[m] = "private" /\ status'[m] = "linked"
     /\ Enqueuing(t) /\ node[t] = m
  \/ /\ status[m] = "retired" /\ ~InNoList(m)
     /\ \A u \in Threads, j \in Slots : ~Shields(u, j, m, {"scan"})

(* Nodes come into the hands of t from the heap or from the queue.         *)
OwnStep(t) ==
  /\ Enqueuing(t)' => \/ Enqueuing(t) /\ node'[t] = node[t]
                      \/ status[node'[t]] = "free"
  /\ Dequeued(t)' => \/ Dequeued(t) /\ node'[t] = node[t]
                     \/ status[node'[t]] = "linked"

(* head leaves a node that is dequeued; tail goes to the end.              *)
EndsStep ==
  /\ head' = head \/ status'[head] = "retired"
  /\ \/ tail' = tail /\ next'[tail] = next[tail]
     \/ tail' = tail /\ \A m \in Nodes : status[m] \in {"linked", "retired"} => m # next'[tail]
     \/ tail' = next[tail] /\ tail' # head' /\ next'[tail'] = NULL

(* What the invariant of a thread has to stand: a step of thread t.        *)
Step(t) ==
  /\ OthersStay(t) /\ \A m \in Nodes : NodeStep(t, m)
  /\ OwnStep(t) /\ EndsStep /\ ShieldsKept
  /\ \A u \in Threads : u # t /\ Dequeued(u) /\ InNoList(node[u]) =>
       InNoList(node[u])'

(* Of every other thread a step keeps what the invariant says.             *)
LEMMA OthersKept ==
  ASSUME IInv, ~Destroyed, NEW t \in Threads, Step(t),
         NEW u \in Threads, u # t
  PROVE  ThreadInv(u)'
<1>1. /\ pc'[u] = pc[u] /\ node'[u] = node[u] /\ nxt'[u] = nxt[u]
      /\ ptr'[u] = ptr[u] /\ last'[u] = last[u]
      /\ hazardPointerList'[u] = hazardPointerList[u]
  BY DEF Step, OthersStay
<1>2. ThreadInv(u) /\ \A v \in Threads : ThreadInv(v)
  BY DEF IInv
<1>3. \A v \in Threads : v # t => pc'[v] = pc[v] /\ node'[v] = node[v]
  BY DEF Step, OthersStay
<1>4. \A m \in Nodes : NodeStep(t, m)
  BY DEF Step
<1>5. FoundShielded(u)'
  <2>1. ASSUME NEW s \in Slots, NEW n \in NodeOrNull, Found(u, s, n)'
        PROVE  /\ n # NULL /\ status'[n] \in {"linked", "retired"}
               /\ Shields(u, s, n, {"scan"})'
    <3>1. Found(u, s, n)
      BY <1>1, <2>1 DEF Found, FoundTail, FoundHead
    <3>2. /\ n # NULL /\ n \in Nodes /\ status[n] \in {"linked", "retired"}
          /\ Shields(u, s, n, {"scan"})
      BY <1>2, <3>1 DEF ThreadInv, FoundShielded, NodeOrNull
    <3>3. hazardPointerList'[u][s] = n
      BY <1>1, <3>2 DEF Shields
    <3>4. Shields(u, s, n, {"scan"})'
      BY <3>2, <3>3 DEF Step, ShieldsKept
    <3>5. status'[n] \in {"linked", "retired"}
      BY <1>4, <3>2 DEF NodeStep
    <3> QED BY <3>2, <3>4, <3>5
  <2> QED BY <2>1 DEF FoundShielded
(* The nodes a thread has found keep their links, once they have one.      *)
<1>6. ASSUME NEW s \in Slots, NEW n \in NodeOrNull, Found(u, s, n)
      PROVE  /\ n \in Nodes /\ status[n] \in {"linked", "retired"}
             /\ next[n] # NULL => next'[n] = next[n]
             /\ status[n] = "retired" => status'[n] = "retired"
  <2>1. /\ n \in Nodes /\ status[n] \in {"linked", "retired"}
        /\ Shields(u, s, n, {"scan"})
    BY <1>2, <1>6 DEF ThreadInv, FoundShielded, NodeOrNull
  <2> QED BY <2>1, <1>4 DEF NodeStep
<1>7. 0 \in Slots /\ ptr[u] \in NodeOrNull /\ node[u] \in NodeOrNull
  BY HPAssumption DEF Slots, IInv, TypeOK, HPTypeOK
<1>8. OwnsNode(u)'
  <2>1. ASSUME Enqueuing(u)'
        PROVE  /\ node'[u] \in Nodes /\ status'[node'[u]] = "private"
               /\ next'[node'[u]] = NULL
               /\ \A v \in Threads : Enqueuing(v)' /\ node'[v] = node'[u] => v = u
    <3>1. Enqueuing(u)
      BY <1>1, <2>1 DEF Enqueuing
    <3>2. /\ node[u] \in Nodes /\ status[node[u]] = "private" /\ next[node[u]] = NULL
          /\ \A v \in Threads : Enqueuing(v) /\ node[v] = node[u] => v = u
      BY <1>2, <3>1 DEF ThreadInv, OwnsNode
    <3>3. ~(Enqueuing(t) /\ node[t] = node[u])
      BY <3>2
    <3>4. status'[node[u]] = "private" /\ next'[node[u]] = NULL
      BY <1>4, <3>2, <3>3 DEF NodeStep
    <3>5. ~(Enqueuing(t)' /\ node'[t] = node[u])
      BY <3>2, <3>3 DEF Step, OwnStep
    <3>6. \A v \in Threads : v # t /\ Enqueuing(v)' => Enqueuing(v)
      BY <1>3 DEF Enqueuing
    <3> QED BY <1>1, <1>3, <3>2, <3>4, <3>5, <3>6
  <2>2. ASSUME pc'[u] \in {"enq.swing", "enq.help"}
        PROVE  ptr[u] \in Nodes /\ next[ptr[u]] \in Nodes => next'[ptr[u]] = next[ptr[u]]
    <3>1. Found(u, 0, ptr[u])
      BY <1>1, <2>2 DEF Found, FoundTail, FoundHead
    <3> QED BY <3>1, <1>6, <1>7, HeapAssumption
  <2>3. /\ pc'[u] \in {"enq.swing", "enq.help"} => ptr[u] \in Nodes
        /\ pc[u] = "enq.swing" => node[u] \in Nodes /\ next[ptr[u]] = node[u]
        /\ pc[u] = "enq.help" => nxt[u] \in Nodes /\ next[ptr[u]] = nxt[u]
    <3>1. pc[u] \in {"enq.swing", "enq.help"} => Found(u, 0, ptr[u])
      BY DEF Found, FoundTail, FoundHead
    <3> QED BY <1>1, <1>2, <1>6, <1>7, <3>1 DEF ThreadInv, OwnsNode
  <2> QED BY <1>1, <2>1, <2>2, <2>3 DEF OwnsNode
<1>9. DequeuedByOne(u)'
  <2> SUFFICES ASSUME Dequeued(u)'
               PROVE  /\ node'[u] \in Nodes /\ status'[node'[u]] = "retired"
                      /\ InNoList(node[u])'
                      /\ \A v \in Threads : Dequeued(v)' /\ node'[v] = node'[u] => v = u
    BY <1>1 DEF DequeuedByOne, InNoList
  <2>1. Dequeued(u)
    BY <1>1 DEF Dequeued
  <2>2. /\ node[u] \in Nodes /\ status[node[u]] = "retired" /\ InNoList(node[u])
        /\ \A v \in Threads : Dequeued(v) /\ node[v] = node[u] => v = u
    BY <1>2, <2>1 DEF ThreadInv, DequeuedByOne
  <2>3. status'[node[u]] = "retired"
    BY <1>4, <2>2 DEF NodeStep
  <2>4. ~(Dequeued(t)' /\ node'[t] = node[u])
    BY <2>2 DEF Step, OwnStep
  <2>5. \A v \in Threads : v # t /\ Dequeued(v)' => Dequeued(v)
    BY <1>3 DEF Dequeued
  <2>6. InNoList(node[u])'
    <3>1. \A n : n = node[u] => InNoList(n)'
      BY <1>1, <2>1, <2>2 DEF Step, InNoList
    <3> QED BY <1>1, <3>1 DEF InNoList
  <2> QED BY <1>1, <1>3, <2>2, <2>3, <2>4, <2>5, <2>6
<1>10. TailAhead(u)' /\ ProtectPublished(u)'
  <2>1. FoundTail(u)' = FoundTail(u) /\ FoundHead(u)' = FoundHead(u)
    BY <1>1 DEF FoundTail, FoundHead
  <2>2. TailAhead(u)'
    <3>1. /\ FoundTail(u) => ptr[u] \in Nodes /\ status[ptr[u]] \in {"linked", "retired"}
          /\ pc[u] = "deq.tail" /\ status[ptr[u]] = "retired" =>
               status'[ptr[u]] = "retired"
          /\ FoundHead(u) /\ status[node[u]] = "retired" =>
               status'[node[u]] = "retired"
      BY <1>6, <1>7 DEF Found, FoundTail, FoundHead
    <3>2. QueueShape /\ EndsStep /\ TailAhead(u)
      BY <1>2 DEF IInv, Step, ThreadInv
    <3>3. FoundTail(u) => ptr[u] # next'[tail']
      BY <3>1, <3>2, HeapAssumption DEF EndsStep, TailAhead, QueueShape
    <3>4. pc[u] = "deq.tail" => ptr[u] = head' \/ status'[ptr[u]] = "retired"
      BY <3>1, <3>2 DEF EndsStep, TailAhead
    <3>5. FoundHead(u) => \/ node[u] = head' /\ tail' # head'
                          \/ status'[node[u]] = "retired"
      BY <3>1, <3>2 DEF EndsStep, TailAhead, QueueShape
    <3> QED BY <1>1, <2>1, <3>3, <3>4, <3>5 DEF TailAhead
  <2>3. FoundHead(u) => next[node[u]] # NULL /\ next'[node[u]] = next[node[u]]
    <3>1. FoundHead(u) => Found(u, 0, node[u])
      BY DEF Found, FoundTail, FoundHead
    <3>2. QueueShape /\ TailAhead(u)
      BY <1>2 DEF IInv, ThreadInv
    <3>3. FoundHead(u) => next[node[u]] # NULL
      BY <1>6, <1>7, <3>1, <3>2, HeapAssumption DEF TailAhead, QueueShape
    <3> QED BY <1>6, <1>7, <3>1, <3>3
  <2>4. ProtectPublished(u)
    BY <1>2 DEF ThreadInv
  <2>5. ProtectPublished(u)'
    BY <1>1, <2>3, <2>4 DEF ProtectPublished, FoundHead
  <2> QED BY <2>2, <2>5
<1> QED BY <1>5, <1>8, <1>9, <1>10 DEF ThreadInv

(* A step that keeps the queue, the lists and the others' invariants.      *)
LEMMA StepInv ==
  ASSUME IInv, ~Destroyed, ~Destroyed', NEW t \in Threads, Step(t),
         TypeOK', Scheme({"scan"})', QueueShape', ThreadInv(t)', MainAlone'
  PROVE  IInv'
BY OthersKept DEF IInv

(* The main thread is as alone as before when t goes on with what it does. *)
LEMMA AloneKept ==
  ASSUME IInv, NEW t \in Threads, \A u \in Threads : u # t => pc'[u] = pc[u],
         UNCHANGED main, pc[t] \notin {"idle", "exited"},
         pc'[t] \in EnqLabels => pc[t] \in EnqLabels
  PROVE  MainAlone'
BY DEF IInv, MainAlone

(* Nothing but locals and slots of t changes, and t begins no scan.        *)
Local(t) ==
  /\ UNCHANGED <<heapVars, ends, threadCount, retiredPointerList,
                 retiredCount, scan>>
  /\ hazardPointerList' \in [Threads -> [Slots -> NodeOrNull]]
  /\ OthersStay(t) /\ OwnStep(t) /\ pc'[t] # "scan"

(* A slot shields a node it takes over from a lower one, and a node that   *)
(* is not retired from the moment it holds it.                             *)
LEMMA LocalEffect ==
  ASSUME IInv, ~Destroyed, NEW t \in Threads, Local(t)
  PROVE  /\ Scheme({"scan"})' /\ Step(t) /\ QueueShape'
         /\ \A n : InNoList(n) => InNoList(n)'
         /\ \A j \in Slots, n \in Nodes :
              /\ hazardPointerList'[t][j] = n /\ status[n] # "retired"
              => Shields(t, j, n, {"scan"})'
<1>1. /\ Scheme({"scan"}) /\ QueueShape /\ threadCount = NumThreads
  BY DEF IInv, TypeOK, HPTypeOK
<1>2. /\ UNCHANGED <<threadCount, retiredPointerList, retiredCount, scan>>
      /\ hazardPointerList' \in [Threads -> [Slots -> NodeOrNull]]
      /\ \A m \in Nodes : status[m] = "retired" => status'[m] = "retired"
      /\ \A u \in Threads : pc'[u] \in {"scan"} => pc[u] \in {"scan"}
  BY DEF Local, OthersStay, heapVars
<1>3. /\ Scheme({"scan"})'
      /\ \A n : InNoList(n) => InNoList(n)'
      /\ \A n : \A u \in Threads, i, j \in Slots :
           /\ Shields(u, i, n, {"scan"}) /\ i <= j /\ hazardPointerList'[u][j] = n
           => Shields(u, j, n, {"scan"})'
      /\ \A u \in Threads, j \in Slots, n \in Nodes :
           /\ u < threadCount /\ hazardPointerList'[u][j] = n
           /\ status'[n] # "retired"
           => Shields(u, j, n, {"scan"})'
  BY <1>1, <1>2, SchemeKept
<1>4. ShieldsKept
  <2>1. \A j \in Slots : j <= j
    BY DEF Slots
  <2> QED BY <1>3, <2>1 DEF ShieldsKept
<1>5. QueueShape' /\ EndsStep /\ \A m \in Nodes : NodeStep(t, m)
  BY <1>1 DEF Local, heapVars, ends, QueueShape, EndsStep, NodeStep
<1>6. \A u \in Threads : u # t /\ Dequeued(u) /\ InNoList(node[u]) =>
        InNoList(node[u])'
  BY <1>3 DEF Local, OthersStay, InNoList
<1>7. Step(t)
  BY <1>4, <1>5, <1>6 DEF Step, Local
<1>8. \A j \in Slots, n \in Nodes :
        /\ hazardPointerList'[t][j] = n /\ status[n] # "retired"
        => Shields(t, j, n, {"scan"})'
  BY <1>1, <1>3, ThreadsAssumption DEF Local, heapVars, Threads
<1> QED BY <1>3, <1>5, <1>7, <1>8

(* The types of what a local step assigns.                                 *)
LocalTypes ==
  /\ pc \in [Threads -> Labels]
  /\ ptr \in [Threads -> NodeOrNull]
  /\ last \in [Threads -> NodeOrNull]
  /\ slot \in [Threads -> Slots]
  /\ node \in [Threads -> NodeOrNull]
  /\ nxt \in [Threads -> NodeOrNull]
  /\ retData \in [Threads -> Items \cup {NULL}]
  /\ main \in MainStates

(* A local step keeps the invariant if it does so for its own thread.      *)
LEMMA LocalInv ==
  ASSUME IInv, ~Destroyed, ~Destroyed', NEW t \in Threads, Local(t),
         LocalTypes', ThreadInv(t)', MainAlone'
  PROVE  IInv'
<1>1. Scheme({"scan"})' /\ Step(t) /\ QueueShape'
  BY LocalEffect
<1>2. TypeOK'
  <2>1. HeapTypeOK' /\ threadCount' = NumThreads /\ head' \in NodeOrNull
        /\ tail' \in NodeOrNull
    BY DEF IInv, TypeOK, HeapTypeOK, HPTypeOK, Local, heapVars, ends
  <2>2. HPTypeOK'
    BY <1>1, <2>1 DEF HPTypeOK, LocalTypes, Scheme, ScanTypes
  <2> QED BY <2>1, <2>2 DEF TypeOK, LocalTypes
<1> QED BY <1>1, <1>2, StepInv

(* The slots an operation uses exist.                                      *)
LEMMA SlotsInRange ==
  /\ 0 \in Slots
  /\ EnoughSlots => 1 \in Slots
BY HPAssumption DEF Slots, EnoughSlots

(* enqueue loads tail.                                                     *)
LEMMA EnqLoadInv ==
  ASSUME IInv, ~Destroyed, NEW t \in Threads, EnqLoad(t)
  PROVE  IInv'
<1>1. /\ pc[t] = "enq.load" /\ pc' = [pc EXCEPT ![t] = "enq.publish"]
      /\ ptr' = [ptr EXCEPT ![t] = tail]
      /\ UNCHANGED <<heapVars, hpVars, last, slot, scan, ends, locals, main>>
  BY DEF EnqLoad, ArgumentLoad, Goto
<1>2. TypeOK /\ ThreadInv(t) /\ ~Destroyed'
  BY <1>1 DEF IInv, Destroyed
<1>3. Local(t) /\ LocalTypes'
  BY <1>1, <1>2 DEF Local, OthersStay, OwnStep, Enqueuing, Dequeued, EnqLabels,
     TypeOK, HPTypeOK, Labels, LocalTypes, locals, hpVars, ends, heapVars
<1>4. ThreadInv(t)'
  BY <1>1, <1>2, <1>3
     DEF ThreadInv, OwnsNode, Enqueuing, EnqLabels, DequeuedByOne, Dequeued,
         ProtectPublished, TailAhead, FoundShielded, Found, FoundTail,
         FoundHead, TypeOK, HPTypeOK, locals, hpVars, heapVars, ends, Local, OthersStay
<1>5. MainAlone'
  BY <1>1, <1>3, AloneKept DEF Local, OthersStay, EnqLabels
<1> QED BY <1>2, <1>3, <1>4, <1>5, LocalInv

(* enqueue publishes what it has loaded.                                   *)
LEMMA EnqPublishInv ==
  ASSUME IInv, ~Destroyed, NEW t \in Threads, EnqPublish(t)
  PROVE  IInv'
<1>1. /\ pc[t] = "enq.publish" /\ pc' = [pc EXCEPT ![t] = "enq.check"]
      /\ hazardPointerList' = [hazardPointerList EXCEPT ![t][0] = ptr[t]]
      /\ UNCHANGED <<heapVars, threadCount, retiredPointerList, retiredCount,
                     hpLocals, ends, locals, main>>
  BY DEF EnqPublish, StoreHazardPtr, Publish, Goto
<1>2. TypeOK /\ ThreadInv(t) /\ ~Destroyed'
  BY <1>1 DEF IInv, Destroyed
<1>3. Local(t) /\ LocalTypes'
  BY <1>1, <1>2, SlotsInRange
     DEF Local, OthersStay, OwnStep, Enqueuing, Dequeued, EnqLabels,
     TypeOK, HPTypeOK, Labels, LocalTypes, locals, hpVars, hpLocals, ends, heapVars
<1>4. ThreadInv(t)'
  BY <1>1, <1>2, <1>3, SlotsInRange
     DEF ThreadInv, OwnsNode, Enqueuing, EnqLabels, DequeuedByOne, Dequeued,
         ProtectPublished, TailAhead, FoundShielded, Found, FoundTail,
         FoundHead, TypeOK, HPTypeOK, locals, hpVars, hpLocals, heapVars, ends, Local,
         OthersStay
<1>5. MainAlone'
  BY <1>1, <1>3, AloneKept DEF Local, OthersStay, EnqLabels
<1> QED BY <1>2, <1>3, <1>4, <1>5, LocalInv

(* enqueue finds tail where it was: the slot shields it, as it is linked.  *)
LEMMA EnqCheckInv ==
  ASSUME IInv, ~Destroyed, NEW t \in Threads, EnqCheck(t)
  PROVE  IInv'
<1>1. /\ pc[t] = "enq.check"
      /\ pc' = [pc EXCEPT ![t] = IF tail = ptr[t] THEN "enq.next" ELSE "enq.load"]
      /\ UNCHANGED <<heapVars, hpVars, ptr, last, slot, scan, ends, locals, main>>
  BY DEF EnqCheck, Goto, hpLocals
<1>2. TypeOK /\ ThreadInv(t) /\ ~Destroyed'
  BY <1>1 DEF IInv, Destroyed
<1>3. Local(t) /\ LocalTypes'
  BY <1>1, <1>2 DEF Local, OthersStay, OwnStep, Enqueuing, Dequeued, EnqLabels,
     TypeOK, HPTypeOK, Labels, LocalTypes, locals, hpVars, ends, heapVars
<1>4. QueueShape /\ Step(t)
  BY <1>3, LocalEffect DEF IInv
<1>5. /\ \A n : \A j \in Slots :
           Shields(t, j, n, {"scan"}) /\ hazardPointerList'[t][j] = hazardPointerList[t][j]
           => Shields(t, j, n, {"scan"})'
      /\ \A j \in Slots, n \in Nodes :
           hazardPointerList'[t][j] = n /\ status[n] # "retired"
           => Shields(t, j, n, {"scan"})'
  BY <1>3, <1>4, LocalEffect DEF Step, ShieldsKept, Shields
<1>6. ThreadInv(t)'
  <2>1. OwnsNode(t)' /\ DequeuedByOne(t)' /\ ProtectPublished(t)' /\ TailAhead(t)'
    <3>1. OwnsNode(t)'
      BY <1>1, <1>2, <1>3, HeapAssumption
         DEF OwnsNode, NodeOrNull, ThreadInv, Enqueuing, EnqLabels, Dequeued, FoundTail,
             FoundHead, TypeOK,
          HPTypeOK, locals, heapVars, hpVars, ends, Local, OthersStay
    <3>2. DequeuedByOne(t)'
      BY <1>1, <1>2, <1>3
         DEF DequeuedByOne, NodeOrNull, ThreadInv, Enqueuing, EnqLabels, Dequeued,
             FoundTail, FoundHead, TypeOK,
          HPTypeOK, locals, heapVars, hpVars, ends, Local, OthersStay
    <3>3. ProtectPublished(t)'
      BY <1>1, <1>2, <1>3, HeapAssumption
         DEF ProtectPublished, NodeOrNull, ThreadInv, Enqueuing, EnqLabels, Dequeued,
             FoundTail, FoundHead, TypeOK,
          HPTypeOK, locals, heapVars, hpVars, ends, Local, OthersStay
    <3>4. TailAhead(t)'
      BY <1>1, <1>2, <1>3, <1>4, HeapAssumption
         DEF TailAhead, QueueShape, NodeOrNull, ThreadInv, Enqueuing, EnqLabels,
             Dequeued, FoundTail, FoundHead, TypeOK,
          HPTypeOK, locals, heapVars, hpVars, ends, Local, OthersStay
    <3> QED BY <3>1, <3>2, <3>3, <3>4
  <2>2. FoundShielded(t)'
    <3>1. tail = ptr[t] => Shields(t, 0, ptr[t], {"scan"})' /\ status[ptr[t]] = "linked"
      BY <1>1, <1>2, <1>4, <1>5, SlotsInRange
         DEF QueueShape, ThreadInv, ProtectPublished, hpVars
    <3>2. ptr'[t] = ptr[t] /\ status' = status
          /\ pc'[t] = IF tail = ptr[t] THEN "enq.next" ELSE "enq.load"
      BY <1>1, <1>2 DEF TypeOK, heapVars
    <3>3. tail # NULL
      BY <1>4, HeapAssumption DEF QueueShape
    <3> QED BY <3>1, <3>2, <3>3 DEF FoundShielded, Found, FoundTail, FoundHead, Shields
  <2> QED BY <2>1, <2>2 DEF ThreadInv
<1>7. MainAlone'
  BY <1>1, <1>3, AloneKept DEF Local, OthersStay, EnqLabels
<1> QED BY <1>2, <1>3, <1>6, <1>7, LocalInv

(* enqueue loads the next of the node it has found.                        *)
LEMMA EnqNextInv ==
  ASSUME IInv, ~Destroyed, NEW t \in Threads, EnqNext(t)
  PROVE  IInv'
<1>1. /\ pc[t] = "enq.next"
      /\ pc' = [pc EXCEPT ![t] =
                  IF next[ptr[t]] = NULL THEN "enq.link" ELSE "enq.help"]
      /\ nxt' = [nxt EXCEPT ![t] = next[ptr[t]]]
      /\ next[ptr[t]] \in NodeOrNull
      /\ UNCHANGED <<heapVars, hpVars, ptr, last, slot, scan, ends, node, retData, main>>
  <2>1. pc[t] = "enq.next"
    BY DEF EnqNext, Goto
  <2>2. ptr[t] \in Nodes
    BY <2>1, SlotsInRange DEF IInv, TypeOK, HPTypeOK, NodeOrNull, ThreadInv,
       FoundShielded, Found, FoundTail, FoundHead
  <2> QED BY <2>2 DEF EnqNext, Goto, hpLocals, IInv, TypeOK, HeapTypeOK
<1>2. TypeOK /\ ThreadInv(t) /\ ~Destroyed'
  BY <1>1 DEF IInv, Destroyed
<1>3. Local(t) /\ LocalTypes'
  BY <1>1, <1>2 DEF Local, OthersStay, OwnStep, Enqueuing, Dequeued, EnqLabels,
     TypeOK, HPTypeOK, Labels, LocalTypes, locals, hpVars, ends, heapVars
<1>4. QueueShape /\ Step(t)
  BY <1>3, LocalEffect DEF IInv
<1>5. /\ \A n : \A j \in Slots :
           Shields(t, j, n, {"scan"}) /\ hazardPointerList'[t][j] = hazardPointerList[t][j]
           => Shields(t, j, n, {"scan"})'
      /\ \A j \in Slots, n \in Nodes :
           hazardPointerList'[t][j] = n /\ status[n] # "retired"
           => Shields(t, j, n, {"scan"})'
  BY <1>3, <1>4, LocalEffect DEF Step, ShieldsKept, Shields
<1>6. ThreadInv(t)'
  <2>1. OwnsNode(t)' /\ DequeuedByOne(t)' /\ ProtectPublished(t)' /\ TailAhead(t)'
    <3>1. OwnsNode(t)'
      BY <1>1, <1>2, <1>3, HeapAssumption, SlotsInRange
         DEF OwnsNode, NodeOrNull, ThreadInv, Enqueuing, EnqLabels, Dequeued, FoundTail,
             FoundHead, TypeOK,
          HPTypeOK, locals, heapVars, hpVars, ends, Local, OthersStay
    <3>2. DequeuedByOne(t)'
      BY <1>1, <1>2, <1>3
         DEF DequeuedByOne, NodeOrNull, ThreadInv, Enqueuing, EnqLabels, Dequeued,
             FoundTail, FoundHead, TypeOK,
          HPTypeOK, locals, heapVars, hpVars, ends, Local, OthersStay
    <3>3. ProtectPublished(t)'
      BY <1>1, <1>2, <1>3, HeapAssumption, SlotsInRange
         DEF ProtectPublished, NodeOrNull, ThreadInv, Enqueuing, EnqLabels, Dequeued,
             FoundTail, FoundHead, TypeOK,
          HPTypeOK, locals, heapVars, hpVars, ends, Local, OthersStay
    <3>4. TailAhead(t)'
      BY <1>1, <1>2, <1>3, <1>4, HeapAssumption, SlotsInRange
         DEF TailAhead, QueueShape, NodeOrNull, ThreadInv, Enqueuing, EnqLabels,
             Dequeued, FoundTail, FoundHead, TypeOK,
          HPTypeOK, locals, heapVars, hpVars, ends, Local, OthersStay
    <3> QED BY <3>1, <3>2, <3>3, <3>4
  <2>2. FoundShielded(t)'
    BY <1>1, <1>2, <1>4, <1>5, SlotsInRange
       DEF ThreadInv, FoundShielded, Found, FoundTail, FoundHead, TypeOK, HPTypeOK,
           locals, heapVars, hpVars
  <2> QED BY <2>1, <2>2 DEF ThreadInv
<1>7. MainAlone'
  BY <1>1, <1>3, AloneKept DEF Local, OthersStay, EnqLabels
<1> QED BY <1>2, <1>3, <1>6, <1>7, LocalInv

(* A step that moves tail to the node behind it.                           *)
LEMMA TailMovesInv ==
  ASSUME IInv, ~Destroyed, NEW t \in Threads,
         tail' = next[tail], next[tail] # NULL,
         UNCHANGED <<heapVars, hpVars, scan, head, main>>,
         OthersStay(t), OwnStep(t), pc'[t] # "scan",
         LocalTypes', ThreadInv(t)', MainAlone'
  PROVE  IInv'
<1>1. TypeOK /\ QueueShape /\ Scheme({"scan"})
  BY DEF IInv
<1>2. /\ Scheme({"scan"})'
      /\ \A n : InNoList(n) => InNoList(n)'
      /\ \A n : \A u \in Threads, i, j \in Slots :
           /\ Shields(u, i, n, {"scan"}) /\ i <= j /\ hazardPointerList'[u][j] = n
           => Shields(u, j, n, {"scan"})'
  <2>1. /\ hazardPointerList' \in [Threads -> [Slots -> NodeOrNull]]
        /\ UNCHANGED <<threadCount, retiredPointerList, retiredCount, scan, status, main>>
        /\ \A u \in Threads : pc'[u] \in {"scan"} => pc[u] \in {"scan"}
    BY <1>1 DEF TypeOK, HPTypeOK, hpVars, heapVars, OthersStay
  <2> QED BY <1>1, <2>1, SchemeKept
<1>3. ShieldsKept
  <2>1. \A j \in Slots : j <= j
    BY DEF Slots
  <2> QED BY <1>2, <2>1 DEF ShieldsKept
<1>4. next[tail] \in Nodes /\ status[next[tail]] = "linked" /\ next[next[tail]] = NULL
      /\ next[tail] # head
  BY <1>1 DEF QueueShape, TypeOK, HeapTypeOK, NodeOrNull
<1>5. QueueShape'
  BY <1>1, <1>4 DEF QueueShape, heapVars
<1>6. EndsStep /\ \A m \in Nodes : NodeStep(t, m)
  BY <1>4 DEF EndsStep, NodeStep, heapVars
<1>7. Step(t)
  <2>1. \A u \in Threads : u # t /\ Dequeued(u) /\ InNoList(node[u]) =>
          InNoList(node[u])'
    BY <1>2 DEF OthersStay, InNoList, hpVars
  <2> QED BY <2>1, <1>3, <1>6 DEF Step
<1>8. TypeOK'
  BY <1>1, <1>4 DEF TypeOK, HeapTypeOK, HPTypeOK, LocalTypes, NodeOrNull,
     hpVars, heapVars
<1>9. ~Destroyed'
  BY DEF Destroyed
<1> QED BY <1>2, <1>5, <1>7, <1>8, <1>9, StepInv

(* enqueue helps tail along.                                               *)
LEMMA EnqHelpInv ==
  ASSUME IInv, ~Destroyed, NEW t \in Threads, EnqHelp(t)
  PROVE  IInv'
<1>1. /\ pc[t] = "enq.help" /\ pc' = [pc EXCEPT ![t] = "enq.load"]
      /\ tail' = IF tail = ptr[t] THEN nxt[t] ELSE tail
      /\ nxt' = [nxt EXCEPT ![t] = NULL]
      /\ UNCHANGED <<heapVars, hpVars, hpLocals, head, node, retData, main>>
  BY DEF EnqHelp, Goto
<1>2. TypeOK /\ ThreadInv(t) /\ ~Destroyed'
  BY <1>1 DEF IInv, Destroyed
<1>3. /\ OthersStay(t) /\ OwnStep(t) /\ LocalTypes' /\ pc'[t] = "enq.load"
  <2>1. OthersStay(t) /\ pc'[t] \in {"enq.load", "clear"}
    BY <1>1, <1>2 DEF OthersStay, TypeOK, hpVars, hpLocals, locals
  <2>2. OwnStep(t)
    BY <1>1, <1>2 DEF OwnStep, Enqueuing, Dequeued, EnqLabels, TypeOK, locals
  <2>3. LocalTypes'
    BY <1>1, <1>2 DEF LocalTypes, TypeOK, HPTypeOK, hpLocals, locals, Labels,
       EnqLabels, NodeOrNull
  <2> QED BY <2>1, <2>2, <2>3, <1>1, <1>2 DEF TypeOK
<1>4. ThreadInv(t)'
  BY <1>1, <1>2, <1>3
     DEF hpLocals, ThreadInv, OwnsNode, Enqueuing, EnqLabels, DequeuedByOne, Dequeued,
         ProtectPublished, TailAhead, FoundShielded, Found, FoundTail,
         FoundHead, TypeOK, HPTypeOK, locals, hpVars, heapVars, ends, Local, OthersStay
<1>5. MainAlone'
  BY <1>1, <1>3, AloneKept DEF OthersStay, EnqLabels
<1>6. CASE tail = ptr[t]
  <2>1. tail' = next[tail] /\ next[tail] # NULL
    BY <1>1, <1>2, <1>6, HeapAssumption DEF ThreadInv, OwnsNode
  <2> QED BY <2>1, <1>1, <1>2, <1>3, <1>4, <1>5, TailMovesInv DEF hpLocals
<1>7. CASE tail # ptr[t]
  <2>1. Local(t)
    BY <1>1, <1>2, <1>3, <1>7 DEF Local, hpVars, hpLocals, ends, TypeOK, HPTypeOK
  <2> QED BY <2>1, <1>2, <1>3, <1>4, <1>5, LocalInv
<1> QED BY <1>6, <1>7

(* enqueue moves tail to its node.                                         *)
LEMMA EnqSwingInv ==
  ASSUME IInv, ~Destroyed, NEW t \in Threads, EnqSwing(t)
  PROVE  IInv'
<1>1. /\ pc[t] = "enq.swing" /\ pc' = [pc EXCEPT ![t] = "clear"]
      /\ tail' = IF tail = ptr[t] THEN node[t] ELSE tail
      /\ UNCHANGED <<heapVars, hpVars, hpLocals, head, locals, main>>
  BY DEF EnqSwing, Goto
<1>2. TypeOK /\ ThreadInv(t) /\ ~Destroyed'
  BY <1>1 DEF IInv, Destroyed
<1>3. /\ OthersStay(t) /\ OwnStep(t) /\ LocalTypes' /\ pc'[t] = "clear"
  <2>1. OthersStay(t) /\ pc'[t] \in {"enq.load", "clear"}
    BY <1>1, <1>2 DEF OthersStay, TypeOK, hpVars, hpLocals, locals
  <2>2. OwnStep(t)
    BY <1>1, <1>2 DEF OwnStep, Enqueuing, Dequeued, EnqLabels, TypeOK, locals
  <2>3. LocalTypes'
    BY <1>1, <1>2 DEF LocalTypes, TypeOK, HPTypeOK, hpLocals, locals, Labels,
       EnqLabels, NodeOrNull
  <2> QED BY <2>1, <2>2, <2>3, <1>1, <1>2 DEF TypeOK
<1>4. ThreadInv(t)'
  BY <1>1, <1>2, <1>3
     DEF hpLocals, ThreadInv, OwnsNode, Enqueuing, EnqLabels, DequeuedByOne, Dequeued,
         ProtectPublished, TailAhead, FoundShielded, Found, FoundTail,
         FoundHead, TypeOK, HPTypeOK, locals, hpVars, heapVars, ends, Local, OthersStay
<1>5. MainAlone'
  BY <1>1, <1>3, AloneKept DEF OthersStay, EnqLabels
<1>6. CASE tail = ptr[t]
  <2>1. tail' = next[tail] /\ next[tail] # NULL
    BY <1>1, <1>2, <1>6, HeapAssumption DEF ThreadInv, OwnsNode
  <2> QED BY <2>1, <1>1, <1>2, <1>3, <1>4, <1>5, TailMovesInv DEF hpLocals
<1>7. CASE tail # ptr[t]
  <2>1. Local(t)
    BY <1>1, <1>2, <1>3, <1>7 DEF Local, hpVars, hpLocals, ends, TypeOK, HPTypeOK
  <2> QED BY <2>1, <1>2, <1>3, <1>4, <1>5, LocalInv
<1> QED BY <1>6, <1>7

(* enqueue links its node behind the last one: that is tail, since the     *)
(* node it has found is not the one behind tail.                           *)
LEMMA EnqLinkInv ==
  ASSUME IInv, ~Destroyed, NEW t \in Threads, EnqLink(t)
  PROVE  IInv'
<1>1. /\ pc[t] = "enq.link"
      /\ pc' = [pc EXCEPT ![t] =
                  IF next[ptr[t]] = NULL THEN "enq.swing" ELSE "enq.load"]
      /\ UNCHANGED <<item, hpVars, hpLocals, ends, locals, main>>
  BY DEF EnqLink, Goto
<1>2. TypeOK /\ ThreadInv(t) /\ ~Destroyed' /\ QueueShape /\ Scheme({"scan"})
  BY <1>1 DEF IInv, Destroyed
<1>3. /\ OthersStay(t) /\ OwnStep(t) /\ LocalTypes'
      /\ pc'[t] = IF next[ptr[t]] = NULL THEN "enq.swing" ELSE "enq.load"
  <2>1. OthersStay(t)
    BY <1>1, <1>2 DEF OthersStay, TypeOK, HPTypeOK, hpVars, hpLocals, locals
  <2>2. OwnStep(t)
    BY <1>1, <1>2 DEF OwnStep, Enqueuing, Dequeued, EnqLabels, TypeOK, locals
  <2>3. LocalTypes'
    BY <1>1, <1>2 DEF LocalTypes, TypeOK, HPTypeOK, hpLocals, locals, Labels,
       EnqLabels, DeqLabels, NodeOrNull
  <2> QED BY <2>1, <2>2, <2>3, <1>1, <1>2 DEF TypeOK
<1>4. /\ ptr[t] \in Nodes /\ status[ptr[t]] \in {"linked", "retired"}
      /\ Shields(t, 0, ptr[t], {"scan"}) /\ ptr[t] # next[tail]
  <2>1. Found(t, 0, ptr[t]) /\ FoundTail(t)
    BY <1>1 DEF Found, FoundTail
  <2> QED BY <2>1, <1>2, SlotsInRange
          DEF ThreadInv, FoundShielded, TailAhead, TypeOK, HPTypeOK, NodeOrNull
<1>5. /\ Enqueuing(t) /\ node[t] \in Nodes /\ status[node[t]] = "private"
      /\ next[node[t]] = NULL
  BY <1>1, <1>2 DEF ThreadInv, OwnsNode, Enqueuing, EnqLabels
<1>6. MainAlone'
  BY <1>1, <1>3, AloneKept DEF OthersStay, EnqLabels
<1>7. CASE next[ptr[t]] # NULL
  <2>1. Local(t)
    BY <1>1, <1>2, <1>3, <1>7
       DEF EnqLink, Local, hpVars, hpLocals, heapVars, ends, TypeOK, HPTypeOK
  <2>2. ThreadInv(t)'
    BY <1>1, <1>2, <1>3, <1>7, <2>1
       DEF hpLocals, ThreadInv, OwnsNode, Enqueuing, EnqLabels, DequeuedByOne, Dequeued,
         ProtectPublished, TailAhead, FoundShielded, Found, FoundTail,
         FoundHead, TypeOK, HPTypeOK, locals, hpVars, heapVars, ends, Local, OthersStay
  <2> QED BY <2>1, <2>2, <1>2, <1>3, <1>6, LocalInv
<1>8. CASE next[ptr[t]] = NULL
  <2>1. /\ next' = [next EXCEPT ![ptr[t]] = node[t]]
        /\ status' = [status EXCEPT ![node[t]] = "linked"]
    BY <1>8 DEF EnqLink
  <2>2. ptr[t] = tail /\ status[tail] = "linked" /\ node[t] # tail
    BY <1>2, <1>4, <1>5, <1>8 DEF QueueShape
  <2>3. /\ next'[tail] = node[t] /\ status'[node[t]] = "linked"
        /\ \A m \in Nodes : m # tail => next'[m] = next[m]
        /\ \A m \in Nodes : m # node[t] => status'[m] = status[m]
    BY <2>1, <2>2, <1>2, <1>5 DEF TypeOK, HeapTypeOK, QueueShape
  <2>4. QueueShape'
    <3>1. \A m \in Nodes : status[m] = "linked" => next[m] # node[t]
      BY <1>2, <1>5, HeapAssumption DEF QueueShape
    <3>2. head' = head /\ tail' = tail /\ head # node[t] /\ head \in Nodes /\ tail \in Nodes
          /\ next[tail] = NULL
      BY <1>1, <1>2, <1>5, <1>8, <2>2 DEF ends, QueueShape
    <3>3. \A m \in Nodes : status'[m] = "linked" =>
            m = node[t] \/ status[m] = "linked"
      BY <2>3
    <3>4. ASSUME NEW m \in Nodes, status'[m] = "linked", next'[m] # NULL
          PROVE  /\ status'[next'[m]] = "linked" /\ next'[m] # head
                 /\ \A n \in Nodes : status'[n] = "linked" /\ next'[n] = next'[m] => n = m
      <4>1. CASE m = tail
        BY <4>1, <3>1, <3>2, <3>3, <2>2, <2>3, <1>5, HeapAssumption
      <4>2. CASE m # tail
        <5>1. status[m] = "linked" /\ next'[m] = next[m]
          BY <4>2, <3>3, <3>4, <2>3, <1>5
        <5>2. status[next[m]] = "linked" /\ next[m] # head /\ next[m] \in Nodes
          BY <5>1, <3>4, <1>2 DEF QueueShape, TypeOK, HeapTypeOK, NodeOrNull
        <5>3. status'[next[m]] = "linked" /\ next[m] # node[t]
          BY <5>2, <2>3, <1>5
        <5>4. ASSUME NEW n \in Nodes, status'[n] = "linked", next'[n] = next[m]
              PROVE  n = m
          <6>1. n # tail /\ n # node[t]
            BY <5>3, <5>4, <3>4, <5>1, <2>2, <2>3, <1>5
          <6>2. status[n] = "linked" /\ next[n] = next[m]
            BY <6>1, <5>4, <3>3, <2>3
          <6> QED BY <6>2, <5>1, <3>4, <1>2 DEF QueueShape
        <5> QED BY <5>1, <5>2, <5>3, <5>4
      <4> QED BY <4>1, <4>2
    <3>5. ASSUME NEW m \in Nodes, status'[m] = "linked", next'[m] = NULL
          PROVE  m = tail \/ m = next'[tail]
      <4>1. CASE m # tail /\ m # node[t]
        <5>1. status[m] = "linked" /\ next[m] = NULL
          BY <4>1, <3>3, <3>5, <2>3
        <5> QED BY <5>1, <3>2, <1>2, HeapAssumption DEF QueueShape
      <4> QED BY <4>1, <2>3
    <3>6. next'[next'[tail]] = NULL
      BY <2>2, <2>3, <1>5
    <3>7. \A m \in Nodes : status'[m] = "retired" => next'[m] # NULL
      BY <2>3, <1>2, <1>5, HeapAssumption DEF QueueShape
    <3>8. status'[head] = "linked" /\ status'[tail] = "linked"
      BY <3>2, <2>2, <2>3, <1>2, <1>5 DEF QueueShape
    <3> QED BY <3>2, <3>4, <3>5, <3>6, <3>7, <3>8 DEF QueueShape
  <2>5. /\ Scheme({"scan"})'
        /\ \A n : InNoList(n) => InNoList(n)'
        /\ \A n : \A u \in Threads, i, j \in Slots :
             /\ Shields(u, i, n, {"scan"}) /\ i <= j /\ hazardPointerList'[u][j] = n
             => Shields(u, j, n, {"scan"})'
    <3>1. /\ hazardPointerList' \in [Threads -> [Slots -> NodeOrNull]]
          /\ UNCHANGED <<threadCount, retiredPointerList, retiredCount, scan, main>>
          /\ \A u \in Threads : pc'[u] \in {"scan"} => pc[u] \in {"scan"}
          /\ \A m \in Nodes : status[m] = "retired" => status'[m] = "retired"
      BY <1>1, <1>2, <1>3, <1>5, <1>8, <2>3
         DEF TypeOK, HPTypeOK, hpVars, hpLocals, OthersStay
    <3> QED BY <3>1, <1>2, SchemeKept
  <2>6. ShieldsKept /\ \A j \in Slots : j <= j
    <3>1. \A j \in Slots : j <= j
      BY DEF Slots
    <3> QED BY <2>5, <3>1 DEF ShieldsKept
  <2>7. Step(t)
    <3>1. \A m \in Nodes : NodeStep(t, m)
      BY <1>5, <2>2, <2>3, <1>8 DEF NodeStep
    <3>2. EndsStep
      BY <1>1, <1>5, <2>3 DEF EndsStep, ends
    <3>3. \A u \in Threads : u # t /\ Dequeued(u) /\ InNoList(node[u]) =>
            InNoList(node[u])'
      BY <2>5, <1>1 DEF InNoList, locals
    <3> QED BY <3>1, <3>2, <3>3, <2>6, <1>3 DEF Step
  <2>8. TypeOK'
    <3>1. HeapTypeOK'
      BY <1>1, <1>2, <1>4, <1>5, <2>1 DEF TypeOK, HeapTypeOK, Statuses, NodeOrNull
    <3> QED BY <3>1, <1>1, <1>2, <1>3
               DEF TypeOK, HPTypeOK, LocalTypes, hpVars, ends, hpLocals
  <2>9. ThreadInv(t)'
    <3>1. /\ pc'[t] = "enq.swing" /\ ptr'[t] = ptr[t] /\ node'[t] = node[t]
          /\ last'[t] = last[t] /\ hazardPointerList' = hazardPointerList /\ tail' = tail
          /\ last[t] = NULL
      BY <1>1, <1>2, <1>3, <1>8
         DEF hpLocals, hpVars, locals, ends, ThreadInv, ProtectPublished
    <3>2. Shields(t, 0, ptr[t], {"scan"})'
      BY <3>1, <2>6, <1>4, SlotsInRange DEF ShieldsKept, Shields
    <3>3. status'[ptr[t]] = "linked" /\ ptr[t] # next'[tail]
      BY <2>2, <2>3, <1>5, <1>4
    <3>4. OwnsNode(t)' /\ DequeuedByOne(t)' /\ ProtectPublished(t)' /\ TailAhead(t)'
      BY <3>1, <3>3, <2>2, <2>3, <1>5
         DEF OwnsNode, DequeuedByOne, ProtectPublished, TailAhead, Enqueuing,
             EnqLabels, Dequeued, FoundTail, FoundHead
    <3>5. FoundShielded(t)'
      BY <3>1, <3>2, <3>3, <1>4, HeapAssumption
         DEF FoundShielded, Found, FoundTail, FoundHead
    <3> QED BY <3>4, <3>5 DEF ThreadInv
  <2> QED BY <2>4, <2>5, <2>7, <2>8, <2>9, <1>2, <1>6, StepInv
<1> QED BY <1>7, <1>8

(* A dequeue begins.                                                       *)
LEMMA DeqCallInv ==
  ASSUME IInv, ~Destroyed, NEW t \in Threads, DeqCall(t)
  PROVE  IInv'
<1>1. /\ pc[t] = "idle" /\ pc' = [pc EXCEPT ![t] = "deq.protect"]
      /\ Calling \/ DrainingAs(t)
      /\ UNCHANGED <<heapVars, hpVars, hpLocals, ends, locals, main>>
  BY DEF DeqCall, Goto
<1>2. /\ TypeOK /\ ThreadInv(t) /\ ~Destroyed' /\ QueueShape
      /\ 0 \in Slots
  BY <1>1, SlotsInRange DEF IInv, Destroyed, ReturnItem
<1>3. Local(t) /\ LocalTypes'
  <2>1. OthersStay(t)
    BY <1>1, <1>2 DEF OthersStay, TypeOK, HPTypeOK, hpVars, hpLocals, locals
  <2>2. OwnStep(t)
    BY <1>1, <1>2 DEF OwnStep, Enqueuing, Dequeued, EnqLabels, TypeOK, locals
  <2>3. LocalTypes'
    BY <1>1, <1>2 DEF LocalTypes, TypeOK, HPTypeOK, hpLocals, locals, Labels,
       EnqLabels, DeqLabels, NodeOrNull
  <2> QED BY <2>1, <2>2, <2>3, <1>1, <1>2
          DEF Local, TypeOK, HPTypeOK, hpVars, hpLocals, heapVars, ends, locals
<1>4. Step(t) /\ MainAlone'
  <2>1. MainAlone'
    BY <1>1, <1>2, <1>3
       DEF IInv, MainAlone, Calling, DrainingAs, EnqLabels, Local, OthersStay, TypeOK
  <2> QED BY <2>1, <1>3, LocalEffect
<1>5. /\ \A n : \A j \in Slots :
           Shields(t, j, n, {"scan"}) /\ hazardPointerList'[t][j] = hazardPointerList[t][j]
           => Shields(t, j, n, {"scan"})'
      /\ \A j \in Slots, n \in Nodes :
           hazardPointerList'[t][j] = n /\ status[n] # "retired"
           => Shields(t, j, n, {"scan"})'
      /\ \A n : InNoList(n) => InNoList(n)'
  BY <1>3, <1>4, LocalEffect DEF Step, ShieldsKept, Shields
<1>6. ThreadInv(t)'
  BY <1>1, <1>2, <1>3
     DEF hpLocals, ThreadInv, OwnsNode, Enqueuing, EnqLabels, DequeuedByOne, Dequeued,
         ProtectPublished, TailAhead, FoundShielded, Found, FoundTail,
         FoundHead, TypeOK, HPTypeOK, locals, hpVars, heapVars, ends, Local, OthersStay
<1> QED BY <1>2, <1>3, <1>4, <1>6, LocalInv

(* protect of head: a node that is at head after the store of slot 0 is    *)
(* linked, so the slot shields it.                                         *)
LEMMA DeqProtectInv ==
  ASSUME IInv, ~Destroyed, NEW t \in Threads, DeqProtect(t)
  PROVE  IInv'
<1>1. /\ pc[t] = "deq.protect"
      /\ pc' = [pc EXCEPT ![t] = IF head = last[t] THEN "deq.tail" ELSE "deq.publish"]
      /\ ptr' = [ptr EXCEPT ![t] = head]
      /\ last' = [last EXCEPT ![t] = IF head = last[t] THEN NULL ELSE @]
      /\ UNCHANGED <<heapVars, hpVars, slot, scan, ends, locals, main>>
  BY DEF DeqProtect, ProtectLoad, ProtectDone, Goto
<1>2. /\ TypeOK /\ ThreadInv(t) /\ ~Destroyed' /\ QueueShape
      /\ 0 \in Slots
  BY <1>1, SlotsInRange DEF IInv, Destroyed, ReturnItem
<1>3. Local(t) /\ LocalTypes'
  <2>1. OthersStay(t)
    BY <1>1, <1>2 DEF OthersStay, TypeOK, HPTypeOK, hpVars, hpLocals, locals
  <2>2. OwnStep(t)
    BY <1>1, <1>2 DEF OwnStep, Enqueuing, Dequeued, EnqLabels, TypeOK, locals
  <2>3. LocalTypes'
    BY <1>1, <1>2 DEF LocalTypes, TypeOK, HPTypeOK, hpLocals, locals, Labels,
       EnqLabels, DeqLabels, NodeOrNull
  <2> QED BY <2>1, <2>2, <2>3, <1>1, <1>2
          DEF Local, TypeOK, HPTypeOK, hpVars, hpLocals, heapVars, ends, locals
<1>4. Step(t) /\ MainAlone'
  <2>1. MainAlone'
    BY <1>1, <1>3, AloneKept DEF Local, OthersStay, EnqLabels
  <2> QED BY <2>1, <1>3, LocalEffect
<1>5. /\ \A n : \A j \in Slots :
           Shields(t, j, n, {"scan"}) /\ hazardPointerList'[t][j] = hazardPointerList[t][j]
           => Shields(t, j, n, {"scan"})'
      /\ \A j \in Slots, n \in Nodes :
           hazardPointerList'[t][j] = n /\ status[n] # "retired"
           => Shields(t, j, n, {"scan"})'
      /\ \A n : InNoList(n) => InNoList(n)'
  BY <1>3, <1>4, LocalEffect DEF Step, ShieldsKept, Shields
<1>6. ThreadInv(t)'
  <2>1. OwnsNode(t)' /\ DequeuedByOne(t)' /\ ProtectPublished(t)' /\ TailAhead(t)'
    BY <1>1, <1>2
       DEF ThreadInv, OwnsNode, DequeuedByOne, ProtectPublished, TailAhead,
           Enqueuing, EnqLabels, Dequeued, FoundTail, FoundHead, TypeOK,
           HPTypeOK, hpVars, heapVars, ends
  <2>2. ASSUME NEW n, n = head, head = last[t] PROVE Shields(t, 0, n, {"scan"})'
    <3>1. n \in Nodes /\ status[n] = "linked"
      BY <1>2, <2>2 DEF QueueShape
    <3>2. hazardPointerList'[t][0] = n
      BY <1>1, <1>2, <2>2, <3>1, HeapAssumption DEF ThreadInv, ProtectPublished, hpVars
    <3> QED BY <3>1, <3>2, <1>2, <1>5
  <2>3. FoundShielded(t)'
    <3>1. /\ pc'[t] = IF head = last[t] THEN "deq.tail" ELSE "deq.publish"
          /\ ptr'[t] = head /\ head # NULL /\ status' = status /\ status[head] = "linked"
      BY <1>1, <1>2, HeapAssumption DEF TypeOK, HPTypeOK, QueueShape, heapVars
    <3> QED BY <2>2, <3>1 DEF FoundShielded, Found, FoundTail, FoundHead
  <2> QED BY <2>1, <2>3 DEF ThreadInv
<1> QED BY <1>2, <1>3, <1>4, <1>6, LocalInv

(* protect publishes the head it has loaded.                               *)
LEMMA DeqPublishInv ==
  ASSUME IInv, ~Destroyed, NEW t \in Threads, DeqPublish(t)
  PROVE  IInv'
<1>1. /\ pc[t] = "deq.publish" /\ pc' = [pc EXCEPT ![t] = "deq.protect"]
      /\ hazardPointerList' = [hazardPointerList EXCEPT ![t][0] = ptr[t]]
      /\ last' = [last EXCEPT ![t] = ptr[t]]
      /\ UNCHANGED <<heapVars, threadCount, retiredPointerList, retiredCount,
                     ptr, slot, scan, ends, locals, main>>
  BY DEF DeqPublish, ProtectStore, Publish, Goto
<1>2. /\ TypeOK /\ ThreadInv(t) /\ ~Destroyed' /\ QueueShape
      /\ 0 \in Slots
  BY <1>1, SlotsInRange DEF IInv, Destroyed, ReturnItem
<1>3. Local(t) /\ LocalTypes'
  <2>1. OthersStay(t)
    BY <1>1, <1>2 DEF OthersStay, TypeOK, HPTypeOK, hpVars, hpLocals, locals
  <2>2. OwnStep(t)
    BY <1>1, <1>2 DEF OwnStep, Enqueuing, Dequeued, EnqLabels, TypeOK, locals
  <2>3. LocalTypes'
    BY <1>1, <1>2 DEF LocalTypes, TypeOK, HPTypeOK, hpLocals, locals, Labels,
       EnqLabels, DeqLabels, NodeOrNull
  <2> QED BY <2>1, <2>2, <2>3, <1>1, <1>2
          DEF Local, TypeOK, HPTypeOK, hpVars, hpLocals, heapVars, ends, locals
<1>4. Step(t) /\ MainAlone'
  <2>1. MainAlone'
    BY <1>1, <1>3, AloneKept DEF Local, OthersStay, EnqLabels
  <2> QED BY <2>1, <1>3, LocalEffect
<1>5. /\ \A n : \A j \in Slots :
           Shields(t, j, n, {"scan"}) /\ hazardPointerList'[t][j] = hazardPointerList[t][j]
           => Shields(t, j, n, {"scan"})'
      /\ \A j \in Slots, n \in Nodes :
           hazardPointerList'[t][j] = n /\ status[n] # "retired"
           => Shields(t, j, n, {"scan"})'
      /\ \A n : InNoList(n) => InNoList(n)'
  BY <1>3, <1>4, LocalEffect DEF Step, ShieldsKept, Shields
<1>6. ThreadInv(t)'
  BY <1>1, <1>2, <1>3
     DEF hpLocals, ThreadInv, OwnsNode, Enqueuing, EnqLabels, DequeuedByOne, Dequeued,
         ProtectPublished, TailAhead, FoundShielded, Found, FoundTail,
         FoundHead, TypeOK, HPTypeOK, locals, hpVars, heapVars, ends, Local, OthersStay
<1> QED BY <1>2, <1>3, <1>4, <1>6, LocalInv

(* dequeue compares the head it has found with tail.                       *)
LEMMA DeqTailInv ==
  ASSUME IInv, ~Destroyed, NEW t \in Threads, DeqTail(t)
  PROVE  IInv'
<1>1. /\ pc[t] = "deq.tail"
      /\ pc' = [pc EXCEPT ![t] = IF tail = ptr[t] THEN "clear" ELSE "deq.protectNext"]
      /\ node' = [node EXCEPT ![t] = IF tail = ptr[t] THEN NULL ELSE ptr[t]]
      /\ ptr' = [ptr EXCEPT ![t] = NULL]
      /\ UNCHANGED <<heapVars, hpVars, last, slot, scan, ends, nxt, retData, main>>
  BY DEF DeqTail, Goto
<1>2. /\ TypeOK /\ ThreadInv(t) /\ ~Destroyed' /\ QueueShape
      /\ 0 \in Slots
  BY <1>1, SlotsInRange DEF IInv, Destroyed, ReturnItem
<1>3. Local(t) /\ LocalTypes'
  <2>1. OthersStay(t)
    BY <1>1, <1>2 DEF OthersStay, TypeOK, HPTypeOK, hpVars, hpLocals, locals
  <2>2. OwnStep(t)
    BY <1>1, <1>2 DEF OwnStep, Enqueuing, Dequeued, EnqLabels, TypeOK, locals
  <2>3. LocalTypes'
    BY <1>1, <1>2 DEF LocalTypes, TypeOK, HPTypeOK, hpLocals, locals, Labels,
       EnqLabels, DeqLabels, NodeOrNull
  <2> QED BY <2>1, <2>2, <2>3, <1>1, <1>2
          DEF Local, TypeOK, HPTypeOK, hpVars, hpLocals, heapVars, ends, locals
<1>4. Step(t) /\ MainAlone'
  <2>1. MainAlone'
    BY <1>1, <1>3, AloneKept DEF Local, OthersStay, EnqLabels
  <2> QED BY <2>1, <1>3, LocalEffect
<1>5. /\ \A n : \A j \in Slots :
           Shields(t, j, n, {"scan"}) /\ hazardPointerList'[t][j] = hazardPointerList[t][j]
           => Shields(t, j, n, {"scan"})'
      /\ \A j \in Slots, n \in Nodes :
           hazardPointerList'[t][j] = n /\ status[n] # "retired"
           => Shields(t, j, n, {"scan"})'
      /\ \A n : InNoList(n) => InNoList(n)'
  BY <1>3, <1>4, LocalEffect DEF Step, ShieldsKept, Shields
<1>6. ThreadInv(t)'
  <2>1. OwnsNode(t)' /\ DequeuedByOne(t)' /\ ProtectPublished(t)' /\ TailAhead(t)'
    BY <1>1, <1>2
       DEF ThreadInv, OwnsNode, DequeuedByOne, ProtectPublished, TailAhead,
           Enqueuing, EnqLabels, Dequeued, FoundTail, FoundHead, TypeOK,
           HPTypeOK, hpVars, heapVars, ends
  <2>2. ASSUME NEW n, n = ptr[t]
        PROVE  /\ n # NULL /\ status[n] \in {"linked", "retired"}
               /\ Shields(t, 0, n, {"scan"})'
    <3>1. /\ n # NULL /\ status[n] \in {"linked", "retired"}
          /\ Shields(t, 0, n, {"scan"})
      BY <1>1, <1>2, <2>2 DEF ThreadInv, FoundShielded, Found, TypeOK, HPTypeOK
    <3> QED BY <1>1, <1>2, <1>5, <3>1 DEF hpVars
  <2>3. FoundShielded(t)'
    <3>1. /\ pc'[t] = IF tail = ptr[t] THEN "clear" ELSE "deq.protectNext"
          /\ tail # ptr[t] => node'[t] = ptr[t]
          /\ status' = status
      BY <1>1, <1>2 DEF TypeOK, heapVars
    <3> QED BY <2>2, <3>1 DEF FoundShielded, Found, FoundTail, FoundHead
  <2> QED BY <2>1, <2>3 DEF ThreadInv
<1> QED BY <1>2, <1>3, <1>4, <1>6, LocalInv

(* The node a dequeue has found at head is protected, and not the last.    *)
LEMMA FoundHeadFacts ==
  ASSUME IInv, ~Destroyed, NEW t \in Threads, FoundHead(t)
  PROVE  /\ node[t] \in Nodes /\ status[node[t]] \in {"linked", "retired"}
         /\ Shields(t, 0, node[t], {"scan"})
         /\ next[node[t]] \in Nodes
<1>1. Found(t, 0, node[t])
  BY DEF Found
<1>2. /\ node[t] \in Nodes /\ status[node[t]] \in {"linked", "retired"}
      /\ Shields(t, 0, node[t], {"scan"})
      /\ (node[t] = head /\ tail # head) \/ status[node[t]] = "retired"
  BY <1>1, SlotsInRange
     DEF IInv, TypeOK, NodeOrNull, ThreadInv, FoundShielded, TailAhead
<1>3. next[node[t]] # NULL
  BY <1>2, HeapAssumption DEF QueueShape, IInv
<1> QED BY <1>2, <1>3 DEF IInv, TypeOK, HeapTypeOK, NodeOrNull

(* protect of the next of that node.                                       *)
LEMMA DeqProtectNextInv ==
  ASSUME IInv, ~Destroyed, NEW t \in Threads, DeqProtectNext(t)
  PROVE  IInv'
<1>1. /\ pc[t] = "deq.protectNext"
      /\ pc' = [pc EXCEPT ![t] =
                  IF next[node[t]] = last[t] THEN "deq.cas" ELSE "deq.publishNext"]
      /\ ptr' = [ptr EXCEPT ![t] = next[node[t]]]
      /\ last' = [last EXCEPT ![t] = IF next[node[t]] = last[t] THEN NULL ELSE @]
      /\ UNCHANGED <<heapVars, hpVars, slot, scan, ends, locals, main>>
      /\ node[t] \in Nodes /\ next[node[t]] \in NodeOrNull
  <2>1. pc[t] = "deq.protectNext"
    BY DEF DeqProtectNext, ProtectLoad, Goto
  <2>2. node[t] \in Nodes /\ next[node[t]] \in NodeOrNull
    BY <2>1, FoundHeadFacts DEF FoundHead, NodeOrNull
  <2> QED BY <2>1, <2>2 DEF DeqProtectNext, ProtectLoad, ProtectDone, Goto
<1>2. /\ TypeOK /\ ThreadInv(t) /\ ~Destroyed' /\ QueueShape
      /\ 0 \in Slots
  BY <1>1, SlotsInRange DEF IInv, Destroyed, ReturnItem
<1>3. Local(t) /\ LocalTypes'
  <2>1. OthersStay(t)
    BY <1>1, <1>2 DEF OthersStay, TypeOK, HPTypeOK, hpVars, hpLocals, locals
  <2>2. OwnStep(t)
    BY <1>1, <1>2 DEF OwnStep, Enqueuing, Dequeued, EnqLabels, TypeOK, locals
  <2>3. LocalTypes'
    BY <1>1, <1>2 DEF LocalTypes, TypeOK, HPTypeOK, hpLocals, locals, Labels,
       EnqLabels, DeqLabels, NodeOrNull
  <2> QED BY <2>1, <2>2, <2>3, <1>1, <1>2
          DEF Local, TypeOK, HPTypeOK, hpVars, hpLocals, heapVars, ends, locals
<1>4. Step(t) /\ MainAlone'
  <2>1. MainAlone'
    BY <1>1, <1>3, AloneKept DEF Local, OthersStay, EnqLabels
  <2> QED BY <2>1, <1>3, LocalEffect
<1>5. /\ \A n : \A j \in Slots :
           Shields(t, j, n, {"scan"}) /\ hazardPointerList'[t][j] = hazardPointerList[t][j]
           => Shields(t, j, n, {"scan"})'
      /\ \A j \in Slots, n \in Nodes :
           hazardPointerList'[t][j] = n /\ status[n] # "retired"
           => Shields(t, j, n, {"scan"})'
      /\ \A n : InNoList(n) => InNoList(n)'
  BY <1>3, <1>4, LocalEffect DEF Step, ShieldsKept, Shields
<1>6. ThreadInv(t)'
  <2>1. /\ node[t] \in Nodes /\ status[node[t]] \in {"linked", "retired"}
        /\ Shields(t, 0, node[t], {"scan"}) /\ next[node[t]] \in Nodes
    BY <1>1, FoundHeadFacts DEF FoundHead
  <2>2. OwnsNode(t)' /\ DequeuedByOne(t)' /\ ProtectPublished(t)' /\ TailAhead(t)'
    BY <1>1, <1>2, <2>1, HeapAssumption
       DEF ThreadInv, OwnsNode, DequeuedByOne, ProtectPublished, TailAhead,
           Enqueuing, EnqLabels, Dequeued, FoundTail, FoundHead, TypeOK,
           HPTypeOK, hpVars, heapVars, ends, locals
  <2>3. FoundShielded(t)'
    BY <1>1, <1>2, <1>5, <2>1, HeapAssumption
       DEF FoundShielded, Found, FoundTail, FoundHead, TypeOK, heapVars, hpVars, locals
  <2> QED BY <2>2, <2>3 DEF ThreadInv
<1> QED BY <1>2, <1>3, <1>4, <1>6, LocalInv

(* protect publishes it in slot 1.                                         *)
LEMMA DeqPublishNextInv ==
  ASSUME IInv, ~Destroyed, EnoughSlots, NEW t \in Threads, DeqPublishNext(t)
  PROVE  IInv'
<1>1. /\ pc[t] = "deq.publishNext" /\ pc' = [pc EXCEPT ![t] = "deq.protectNext"]
      /\ hazardPointerList' = [hazardPointerList EXCEPT ![t][1] = ptr[t]]
      /\ last' = [last EXCEPT ![t] = ptr[t]]
      /\ UNCHANGED <<heapVars, threadCount, retiredPointerList, retiredCount,
                     ptr, slot, scan, ends, locals, main>>
      /\ 1 \in Slots
  BY SlotsInRange DEF DeqPublishNext, ProtectStore, Publish, Goto
<1>2. /\ TypeOK /\ ThreadInv(t) /\ ~Destroyed' /\ QueueShape
      /\ 0 \in Slots
  BY <1>1, SlotsInRange DEF IInv, Destroyed, ReturnItem
<1>3. Local(t) /\ LocalTypes'
  <2>1. OthersStay(t)
    BY <1>1, <1>2 DEF OthersStay, TypeOK, HPTypeOK, hpVars, hpLocals, locals
  <2>2. OwnStep(t)
    BY <1>1, <1>2 DEF OwnStep, Enqueuing, Dequeued, EnqLabels, TypeOK, locals
  <2>3. LocalTypes'
    BY <1>1, <1>2 DEF LocalTypes, TypeOK, HPTypeOK, hpLocals, locals, Labels,
       EnqLabels, DeqLabels, NodeOrNull
  <2> QED BY <2>1, <2>2, <2>3, <1>1, <1>2
          DEF Local, TypeOK, HPTypeOK, hpVars, hpLocals, heapVars, ends, locals
<1>4. Step(t) /\ MainAlone'
  <2>1. MainAlone'
    BY <1>1, <1>3, AloneKept DEF Local, OthersStay, EnqLabels
  <2> QED BY <2>1, <1>3, LocalEffect
<1>5. /\ \A n : \A j \in Slots :
           Shields(t, j, n, {"scan"}) /\ hazardPointerList'[t][j] = hazardPointerList[t][j]
           => Shields(t, j, n, {"scan"})'
      /\ \A j \in Slots, n \in Nodes :
           hazardPointerList'[t][j] = n /\ status[n] # "retired"
           => Shields(t, j, n, {"scan"})'
      /\ \A n : InNoList(n) => InNoList(n)'
  BY <1>3, <1>4, LocalEffect DEF Step, ShieldsKept, Shields
<1>6. ThreadInv(t)'
  <2>1. /\ node[t] \in Nodes /\ status[node[t]] \in {"linked", "retired"}
        /\ Shields(t, 0, node[t], {"scan"}) /\ next[node[t]] \in Nodes
    BY <1>1, FoundHeadFacts DEF FoundHead
  <2>2. OwnsNode(t)' /\ DequeuedByOne(t)' /\ ProtectPublished(t)' /\ TailAhead(t)'
    BY <1>1, <1>2, <2>1, HeapAssumption
       DEF ThreadInv, OwnsNode, DequeuedByOne, ProtectPublished, TailAhead,
           Enqueuing, EnqLabels, Dequeued, FoundTail, FoundHead, TypeOK,
           HPTypeOK, hpVars, heapVars, ends, locals
  <2>3. hazardPointerList'[t][0] = hazardPointerList[t][0]
    BY <1>1, <1>2 DEF TypeOK, HPTypeOK
  <2>4. FoundShielded(t)'
    BY <1>1, <1>2, <1>5, <2>1, <2>3, HeapAssumption
       DEF FoundShielded, Found, FoundTail, FoundHead, TypeOK, heapVars, hpVars, locals
  <2> QED BY <2>2, <2>4 DEF ThreadInv
<1> QED BY <1>2, <1>3, <1>4, <1>6, LocalInv

(* dequeue reads the item of the node behind the one it has taken.         *)
LEMMA DeqItemInv ==
  ASSUME IInv, ~Destroyed, NEW t \in Threads, DeqItem(t)
  PROVE  IInv'
<1>1. /\ pc[t] = "deq.item" /\ pc' = [pc EXCEPT ![t] = "deq.clear"]
      /\ \E v \in RawItems : retData' = [retData EXCEPT ![t] = v]
      /\ UNCHANGED <<heapVars, hpVars, hpLocals, ends, node, nxt, main>>
  BY DEF DeqItem, Goto
<1>2. /\ TypeOK /\ ThreadInv(t) /\ ~Destroyed' /\ QueueShape
      /\ 0 \in Slots
  BY <1>1, SlotsInRange DEF IInv, Destroyed, ReturnItem
<1>3. Local(t) /\ LocalTypes'
  <2>1. OthersStay(t)
    BY <1>1, <1>2 DEF OthersStay, TypeOK, HPTypeOK, hpVars, hpLocals, locals
  <2>2. OwnStep(t)
    BY <1>1, <1>2 DEF OwnStep, Enqueuing, Dequeued, EnqLabels, TypeOK, locals
  <2>3. LocalTypes'
    BY <1>1, <1>2, HPAssumption
       DEF LocalTypes, TypeOK, HPTypeOK, hpLocals, locals, Labels,
       EnqLabels, DeqLabels, NodeOrNull
  <2> QED BY <2>1, <2>2, <2>3, <1>1, <1>2, HPAssumption
          DEF Local, TypeOK, HPTypeOK, hpVars, hpLocals, heapVars, ends, locals
<1>4. Step(t) /\ MainAlone'
  <2>1. MainAlone'
    BY <1>1, <1>3, AloneKept DEF Local, OthersStay, EnqLabels
  <2> QED BY <2>1, <1>3, LocalEffect
<1>5. /\ \A n : \A j \in Slots :
           Shields(t, j, n, {"scan"}) /\ hazardPointerList'[t][j] = hazardPointerList[t][j]
           => Shields(t, j, n, {"scan"})'
      /\ \A j \in Slots, n \in Nodes :
           hazardPointerList'[t][j] = n /\ status[n] # "retired"
           => Shields(t, j, n, {"scan"})'
      /\ \A n : InNoList(n) => InNoList(n)'
  BY <1>3, <1>4, LocalEffect DEF Step, ShieldsKept, Shields
<1>6. ThreadInv(t)'
  <2>1. OwnsNode(t)' /\ ProtectPublished(t)' /\ TailAhead(t)' /\ FoundShielded(t)'
    BY <1>1, <1>2
       DEF ThreadInv, OwnsNode, ProtectPublished, TailAhead, FoundShielded, Found,
           Enqueuing, EnqLabels, FoundTail, FoundHead, TypeOK,
           HPTypeOK, hpVars, hpLocals
  <2>2. DequeuedByOne(t)'
    BY <1>1, <1>2, <1>3, <1>5
       DEF ThreadInv, DequeuedByOne, Dequeued, InNoList, heapVars, Local, OthersStay
  <2> QED BY <2>1, <2>2 DEF ThreadInv
<1> QED BY <1>2, <1>3, <1>4, <1>6, LocalInv

(* dequeue returns.                                                        *)
LEMMA DeqReturnInv ==
  ASSUME IInv, ~Destroyed, NEW t \in Threads, DeqReturn(t)
  PROVE  IInv'
<1>1. /\ pc[t] = "deq.return" /\ pc' = [pc EXCEPT ![t] = "idle"]
      /\ ReturnItem(retData[t] = NULL)
      /\ main' = main \/ (main = "draining" /\ main' = "deleting")
      /\ node' = [node EXCEPT ![t] = NULL]
      /\ ptr' = [ptr EXCEPT ![t] = NULL]
      /\ retData' = [retData EXCEPT ![t] = NULL]
      /\ UNCHANGED <<heapVars, hpVars, last, slot, scan, ends, nxt>>
  BY DEF DeqReturn, Goto, ReturnItem
<1>2. /\ TypeOK /\ ThreadInv(t) /\ ~Destroyed' /\ QueueShape
      /\ 0 \in Slots
  BY <1>1, SlotsInRange DEF IInv, Destroyed, ReturnItem
<1>3. Local(t) /\ LocalTypes'
  <2>1. OthersStay(t)
    BY <1>1, <1>2 DEF OthersStay, TypeOK, HPTypeOK, hpVars, hpLocals, locals
  <2>2. OwnStep(t)
    BY <1>1, <1>2 DEF OwnStep, Enqueuing, Dequeued, EnqLabels, TypeOK, locals
  <2>3. LocalTypes'
    BY <1>1, <1>2 DEF LocalTypes, TypeOK, HPTypeOK, hpLocals, locals, Labels,
       EnqLabels, DeqLabels, NodeOrNull, MainStates
  <2> QED BY <2>1, <2>2, <2>3, <1>1, <1>2
          DEF Local, TypeOK, HPTypeOK, hpVars, hpLocals, heapVars, ends, locals
<1>4. Step(t) /\ MainAlone'
  <2>1. MainAlone'
    BY <1>1, <1>2, <1>3
       DEF IInv, MainAlone, ReturnItem, EnqLabels, Local, OthersStay, TypeOK, MainStates
  <2> QED BY <2>1, <1>3, LocalEffect
<1>5. /\ \A n : \A j \in Slots :
           Shields(t, j, n, {"scan"}) /\ hazardPointerList'[t][j] = hazardPointerList[t][j]
           => Shields(t, j, n, {"scan"})'
      /\ \A j \in Slots, n \in Nodes :
           hazardPointerList'[t][j] = n /\ status[n] # "retired"
           => Shields(t, j, n, {"scan"})'
      /\ \A n : InNoList(n) => InNoList(n)'
  BY <1>3, <1>4, LocalEffect DEF Step, ShieldsKept, Shields
<1>6. ThreadInv(t)'
  BY <1>1, <1>2, <1>3
     DEF hpLocals, ThreadInv, OwnsNode, Enqueuing, EnqLabels, DequeuedByOne, Dequeued,
         ProtectPublished, TailAhead, FoundShielded, Found, FoundTail,
         FoundHead, TypeOK, HPTypeOK, locals, hpVars, heapVars, ends, Local, OthersStay
<1> QED BY <1>2, <1>3, <1>4, <1>6, LocalInv

(* clear, and the return of an enqueue or an empty dequeue.                *)
LEMMA ReturnInv ==
  ASSUME IInv, ~Destroyed, NEW t \in Threads, Return(t)
  PROVE  IInv'
<1>1. /\ pc[t] = "clear"
      /\ \E l \in {"clear", "idle"} :
           /\ pc' = [pc EXCEPT ![t] = l]
           /\ main' = main \/ (main = "draining" /\ main' = "deleting" /\ l = "idle")
      /\ \E s \in Slots :
           hazardPointerList' = [hazardPointerList EXCEPT ![t][s] = NULL]
      /\ \E s \in Slots : slot' = [slot EXCEPT ![t] = s]
      /\ ptr' = ptr \/ ptr' = [ptr EXCEPT ![t] = NULL]
      /\ node' = node \/ node' = [node EXCEPT ![t] = NULL]
      /\ UNCHANGED <<heapVars, threadCount, retiredPointerList, retiredCount,
                     last, scan, ends, nxt, retData>>
  <2>1. slot[t] \in Slots /\ (slot[t] + 1) % SlotsPerThread \in Slots
    <3>1. slot[t] \in Slots
      BY DEF IInv, TypeOK, HPTypeOK
    <3> QED BY <3>1, HPAssumption DEF Slots
  <2>2. /\ pc[t] = "clear"
        /\ pc' = [pc EXCEPT ![t] =
                    IF slot[t] + 1 = SlotsPerThread THEN "idle" ELSE "clear"]
        /\ hazardPointerList' = [hazardPointerList EXCEPT ![t][slot[t]] = NULL]
        /\ slot' = [slot EXCEPT ![t] = (@ + 1) % SlotsPerThread]
    BY DEF Return, ClearSlot, Goto
  <2>3. /\ ptr' = ptr \/ ptr' = [ptr EXCEPT ![t] = NULL]
        /\ node' = node \/ node' = [node EXCEPT ![t] = NULL]
        /\ UNCHANGED <<heapVars, threadCount, retiredPointerList, retiredCount,
                       last, scan, ends, nxt, retData>>
    BY DEF Return
  <2>4. \/ main' = main
        \/ slot[t] + 1 = SlotsPerThread /\ main = "draining" /\ main' = "deleting"
    BY DEF Return, ReturnItem
  <2> QED BY <2>1, <2>2, <2>3, <2>4
<1>2. /\ TypeOK /\ ThreadInv(t) /\ ~Destroyed' /\ QueueShape
      /\ 0 \in Slots
  BY <1>1, SlotsInRange DEF IInv, Destroyed, ReturnItem
<1>3. Local(t) /\ LocalTypes'
  <2>1. OthersStay(t)
    BY <1>1, <1>2 DEF OthersStay, TypeOK, HPTypeOK, hpVars, hpLocals, locals
  <2>2. OwnStep(t)
    BY <1>1, <1>2 DEF OwnStep, Enqueuing, Dequeued, EnqLabels, TypeOK, locals
  <2>3. LocalTypes'
    <3>1. ptr' \in [Threads -> NodeOrNull] /\ node' \in [Threads -> NodeOrNull]
      BY <1>1, <1>2 DEF TypeOK, HPTypeOK, NodeOrNull
    <3>2. slot' \in [Threads -> Slots] /\ pc' \in [Threads -> Labels]
      BY <1>1, <1>2 DEF TypeOK, HPTypeOK, Labels
    <3>3. main' \in MainStates
      BY <1>1, <1>2 DEF TypeOK, MainStates
    <3> QED BY <1>1, <1>2, <3>1, <3>2, <3>3 DEF LocalTypes, TypeOK, HPTypeOK
  <2>4. hazardPointerList' \in [Threads -> [Slots -> NodeOrNull]]
    BY <1>1, <1>2 DEF TypeOK, HPTypeOK, NodeOrNull
  <2>5. pc'[t] # "scan"
    BY <1>1, <1>2 DEF TypeOK
  <2>6. UNCHANGED <<heapVars, ends, threadCount, retiredPointerList, retiredCount,
                    scan>>
    BY <1>1
  <2> QED BY <2>1, <2>2, <2>3, <2>4, <2>5, <2>6 DEF Local
<1>4. Step(t) /\ MainAlone'
  <2>1. MainAlone'
    BY <1>1, <1>2, <1>3
       DEF IInv, MainAlone, ReturnItem, EnqLabels, Local, OthersStay, TypeOK, MainStates
  <2> QED BY <2>1, <1>3, LocalEffect
<1>5. /\ \A n : \A j \in Slots :
           Shields(t, j, n, {"scan"}) /\ hazardPointerList'[t][j] = hazardPointerList[t][j]
           => Shields(t, j, n, {"scan"})'
      /\ \A j \in Slots, n \in Nodes :
           hazardPointerList'[t][j] = n /\ status[n] # "retired"
           => Shields(t, j, n, {"scan"})'
      /\ \A n : InNoList(n) => InNoList(n)'
  BY <1>3, <1>4, LocalEffect DEF Step, ShieldsKept, Shields
<1>6. ThreadInv(t)'
  BY <1>1, <1>2, <1>3
     DEF hpLocals, ThreadInv, OwnsNode, Enqueuing, EnqLabels, DequeuedByOne, Dequeued,
         ProtectPublished, TailAhead, FoundShielded, Found, FoundTail,
         FoundHead, TypeOK, HPTypeOK, locals, hpVars, heapVars, ends, Local, OthersStay
<1> QED BY <1>2, <1>3, <1>4, <1>6, LocalInv

(* A thread that has seen quit leaves its loop.                            *)
LEMMA ThreadExitInv ==
  ASSUME IInv, ~Destroyed, NEW t \in Threads, ThreadExit(t)
  PROVE  IInv'
<1>1. /\ pc[t] = "idle" /\ pc' = [pc EXCEPT ![t] = "exited"]
      /\ main = "joining"
      /\ UNCHANGED <<heapVars, hpVars, hpLocals, ends, locals, main>>
  BY DEF ThreadExit, LeaveLoop, Goto
<1>2. /\ TypeOK /\ ThreadInv(t) /\ ~Destroyed' /\ QueueShape
      /\ 0 \in Slots
  BY <1>1, SlotsInRange DEF IInv, Destroyed, ReturnItem
<1>3. Local(t) /\ LocalTypes'
  <2>1. OthersStay(t)
    BY <1>1, <1>2 DEF OthersStay, TypeOK, HPTypeOK, hpVars, hpLocals, locals
  <2>2. OwnStep(t)
    BY <1>1, <1>2 DEF OwnStep, Enqueuing, Dequeued, EnqLabels, TypeOK, locals
  <2>3. LocalTypes'
    BY <1>1, <1>2 DEF LocalTypes, TypeOK, HPTypeOK, hpLocals, locals, Labels,
       EnqLabels, DeqLabels, NodeOrNull
  <2> QED BY <2>1, <2>2, <2>3, <1>1, <1>2
          DEF Local, TypeOK, HPTypeOK, hpVars, hpLocals, heapVars, ends, locals
<1>4. Step(t) /\ MainAlone'
  <2>1. MainAlone'
    BY <1>1 DEF MainAlone
  <2> QED BY <2>1, <1>3, LocalEffect
<1>5. /\ \A n : \A j \in Slots :
           Shields(t, j, n, {"scan"}) /\ hazardPointerList'[t][j] = hazardPointerList[t][j]
           => Shields(t, j, n, {"scan"})'
      /\ \A j \in Slots, n \in Nodes :
           hazardPointerList'[t][j] = n /\ status[n] # "retired"
           => Shields(t, j, n, {"scan"})'
      /\ \A n : InNoList(n) => InNoList(n)'
  BY <1>3, <1>4, LocalEffect DEF Step, ShieldsKept, Shields
<1>6. ThreadInv(t)'
  BY <1>1, <1>2, <1>3
     DEF hpLocals, ThreadInv, OwnsNode, Enqueuing, EnqLabels, DequeuedByOne, Dequeued,
         ProtectPublished, TailAhead, FoundShielded, Found, FoundTail,
         FoundHead, TypeOK, HPTypeOK, locals, hpVars, heapVars, ends, Local, OthersStay
<1> QED BY <1>2, <1>3, <1>4, <1>6, LocalInv

(* enqueue makes a node.                                                   *)
LEMMA EnqCallInv ==
  ASSUME IInv, ~Destroyed, NEW t \in Threads, EnqCall(t)
  PROVE  IInv'
<1>1. PICK n \in Nodes, i \in Items :
        /\ New(n, i) /\ node' = [node EXCEPT ![t] = n]
  BY DEF EnqCall
<1>2. /\ pc[t] = "idle" /\ pc' = [pc EXCEPT ![t] = "enq.load"]
      /\ main = "sleeping"
      /\ UNCHANGED <<hpVars, hpLocals, ends, nxt, retData, main>>
  BY DEF EnqCall, Goto, Calling
<1>3. /\ TypeOK /\ ThreadInv(t) /\ ~Destroyed' /\ QueueShape /\ Scheme({"scan"})
  BY <1>2 DEF IInv, Destroyed
<1>4. /\ status[n] = "free" /\ status'[n] = "private" /\ next'[n] = NULL
      /\ status' = [status EXCEPT ![n] = "private"]
      /\ next' = [next EXCEPT ![n] = NULL]
      /\ item' = [item EXCEPT ![n] = i]
      /\ \A m \in Nodes : m # n => status'[m] = status[m] /\ next'[m] = next[m]
  BY <1>1, <1>3 DEF New, TypeOK, HeapTypeOK
<1>5. TypeOK'
  <2>1. HeapTypeOK'
    BY <1>3, <1>4 DEF TypeOK, HeapTypeOK, Statuses, NodeOrNull
  <2> QED BY <2>1, <1>1, <1>2, <1>3
          DEF TypeOK, HPTypeOK, hpVars, hpLocals, ends, Labels, EnqLabels, NodeOrNull
<1>6. /\ Scheme({"scan"})'
      /\ \A m : InNoList(m) => InNoList(m)'
      /\ \A m : \A u \in Threads, i1, j \in Slots :
           /\ Shields(u, i1, m, {"scan"}) /\ i1 <= j /\ hazardPointerList'[u][j] = m
           => Shields(u, j, m, {"scan"})'
  <2>1. /\ hazardPointerList' \in [Threads -> [Slots -> NodeOrNull]]
        /\ UNCHANGED <<threadCount, retiredPointerList, retiredCount, scan, main>>
        /\ \A u \in Threads : pc'[u] \in {"scan"} => pc[u] \in {"scan"}
        /\ \A m \in Nodes : status[m] = "retired" => status'[m] = "retired"
    BY <1>2, <1>3, <1>4 DEF TypeOK, HPTypeOK, hpVars, hpLocals
  <2> QED BY <2>1, <1>3, SchemeKept
<1>7. ShieldsKept
  <2>1. \A j \in Slots : j <= j
    BY DEF Slots
  <2> QED BY <1>6, <2>1 DEF ShieldsKept
<1>8. OthersStay(t) /\ node'[t] = n
  BY <1>1, <1>2, <1>3 DEF OthersStay, TypeOK, HPTypeOK, hpVars, hpLocals
<1>9. QueueShape'
  BY <1>2, <1>3, <1>4 DEF QueueShape, ends, TypeOK, HeapTypeOK, NodeOrNull
<1>10. Step(t)
  <2>1. OwnStep(t)
    BY <1>2, <1>3, <1>4, <1>8 DEF OwnStep, Enqueuing, Dequeued, EnqLabels, TypeOK
  <2>2. \A m \in Nodes : NodeStep(t, m)
    BY <1>4 DEF NodeStep
  <2>3. EndsStep
    BY <1>2, <1>3, <1>4 DEF EndsStep, ends, QueueShape
  <2>4. \A u \in Threads : u # t /\ Dequeued(u) /\ InNoList(node[u]) =>
          InNoList(node[u])'
    <3>1. \A u \in Threads : u # t => node'[u] = node[u]
      BY <1>8 DEF OthersStay
    <3>2. retiredPointerList' = retiredPointerList
      BY <1>2 DEF hpVars
    <3> QED BY <3>1, <3>2 DEF InNoList
  <2> QED BY <2>1, <2>2, <2>3, <2>4, <1>7, <1>8 DEF Step
<1>11. ThreadInv(t)'
  <2>1. pc'[t] = "enq.load" /\ last'[t] = last[t] /\ last[t] = NULL
    BY <1>2, <1>3 DEF TypeOK, hpLocals, ThreadInv, ProtectPublished
  <2>2. \A u \in Threads : Enqueuing(u)' /\ u # t => Enqueuing(u) /\ node'[u] = node[u]
    BY <1>8 DEF Enqueuing, OthersStay
  <2>3. \A u \in Threads : Enqueuing(u) => node[u] # n
    BY <1>4 DEF IInv, ThreadInv, OwnsNode
  <2>4. OwnsNode(t)'
    BY <2>1, <2>2, <2>3, <1>4, <1>8 DEF OwnsNode
  <2>5. DequeuedByOne(t)' /\ ProtectPublished(t)' /\ TailAhead(t)' /\ FoundShielded(t)'
    BY <2>1 DEF DequeuedByOne, Dequeued, ProtectPublished, TailAhead,
       FoundShielded, Found, FoundTail, FoundHead
  <2> QED BY <2>4, <2>5 DEF ThreadInv
<1>12. MainAlone'
  BY <1>2 DEF MainAlone
<1> QED BY <1>3, <1>5, <1>6, <1>9, <1>10, <1>11, <1>12, StepInv

(* The exchange of head: the node dequeued is retired, its next, still     *)
(* shielded by slot 1, is at head.                                         *)
LEMMA DeqCasInv ==
  ASSUME IInv, ~Destroyed, EnoughSlots, NEW t \in Threads, DeqCas(t)
  PROVE  IInv'
<1>1. /\ pc[t] = "deq.cas"
      /\ pc' = [pc EXCEPT ![t] = IF head = node[t] THEN "deq.item" ELSE "deq.protect"]
      /\ UNCHANGED <<next, item, hpVars, hpLocals, tail, nxt, retData, main>>
  BY DEF DeqCas, Goto
<1>2. /\ TypeOK /\ ThreadInv(t) /\ ~Destroyed' /\ QueueShape /\ Scheme({"scan"})
  BY <1>1 DEF IInv, Destroyed
<1>3. /\ node[t] \in Nodes /\ next[node[t]] \in Nodes /\ ptr[t] = next[node[t]]
      /\ hazardPointerList[t][1] = ptr[t] /\ last[t] = NULL
      /\ node[t] = head => tail # head
  BY <1>1, <1>2, FoundHeadFacts
     DEF FoundHead, ThreadInv, ProtectPublished, TailAhead, QueueShape
<1>4. MainAlone'
  BY <1>1, <1>2, AloneKept DEF TypeOK, EnqLabels
<1>5. CASE head # node[t]
  <2>1. /\ node' = [node EXCEPT ![t] = NULL] /\ UNCHANGED <<head, status>>
        /\ pc'[t] = "deq.protect"
    BY <1>1, <1>2, <1>5 DEF DeqCas, TypeOK
  <2>2. Local(t) /\ LocalTypes'
    BY <1>1, <1>2, <2>1
       DEF Local, OthersStay, OwnStep, Enqueuing, Dequeued, EnqLabels, TypeOK,
           HPTypeOK, Labels, DeqLabels, LocalTypes, hpVars, hpLocals, ends,
           heapVars, NodeOrNull
  <2>3. ThreadInv(t)'
    BY <1>1, <1>2, <1>3, <2>1
       DEF ThreadInv, OwnsNode, DequeuedByOne, ProtectPublished, TailAhead,
           FoundShielded, Found, Enqueuing, EnqLabels, Dequeued, FoundTail,
           FoundHead, hpLocals
  <2> QED BY <2>2, <2>3, <1>2, <1>4, LocalInv
<1>6. CASE head = node[t]
  <2>1. /\ head' = ptr[t] /\ status' = [status EXCEPT ![head] = "retired"]
        /\ node' = node /\ pc'[t] = "deq.item"
        /\ status'[head] = "retired"
        /\ \A m \in Nodes : m # head => status'[m] = status[m]
    BY <1>1, <1>2, <1>3, <1>6 DEF DeqCas, TypeOK, HeapTypeOK
  <2>2. /\ head \in Nodes /\ status[head] = "linked" /\ ptr[t] = next[head]
        /\ status[ptr[t]] = "linked" /\ ptr[t] # head /\ tail # head
        /\ status'[ptr[t]] = "linked" /\ ptr[t] # NULL /\ ptr[t] \in Nodes
    BY <1>2, <1>3, <1>6, <2>1, HeapAssumption DEF QueueShape
  <2>3. QueueShape'
    <3>1. \A m \in Nodes : status'[m] = "linked" => m # head /\ status[m] = "linked"
      BY <2>1
    <3>2. ASSUME NEW m \in Nodes, status'[m] = "linked", next[m] # NULL
          PROVE  /\ status'[next[m]] = "linked" /\ next[m] # ptr[t]
                 /\ \A n \in Nodes : status'[n] = "linked" /\ next[n] = next[m] => n = m
      <4>1. m # head /\ status[m] = "linked"
        BY <3>1, <3>2
      <4>2. /\ status[next[m]] = "linked" /\ next[m] # head /\ next[m] \in Nodes
            /\ \A n \in Nodes : status[n] = "linked" /\ next[n] = next[m] => n = m
        BY <4>1, <3>2, <1>2 DEF QueueShape, TypeOK, HeapTypeOK, NodeOrNull
      <4>3. status'[next[m]] = "linked"
        BY <4>2, <2>1
      <4>4. next[m] # ptr[t]
        BY <4>1, <4>2, <2>2
      <4> QED BY <3>1, <4>2, <4>3, <4>4
    <3>3. \A m \in Nodes : status'[m] = "retired" => next[m] # NULL
      BY <2>1, <2>2, <1>2 DEF QueueShape
    <3>4. tail \in Nodes /\ status'[tail] = "linked"
      BY <2>1, <2>2, <1>2 DEF QueueShape
    <3> QED BY <1>1, <1>2, <2>1, <2>2, <3>1, <3>2, <3>3, <3>4 DEF QueueShape
  <2>4. /\ Scheme({"scan"})'
        /\ \A m : InNoList(m) => InNoList(m)'
        /\ \A m : \A u \in Threads, i, j \in Slots :
             /\ Shields(u, i, m, {"scan"}) /\ i <= j /\ hazardPointerList'[u][j] = m
             => Shields(u, j, m, {"scan"})'
        /\ \A u \in Threads, j \in Slots, n \in Nodes :
             /\ u < threadCount /\ hazardPointerList'[u][j] = n
             /\ status'[n] # "retired"
             => Shields(u, j, n, {"scan"})'
    <3>1. /\ hazardPointerList' \in [Threads -> [Slots -> NodeOrNull]]
          /\ UNCHANGED <<threadCount, retiredPointerList, retiredCount, scan, main>>
          /\ \A u \in Threads : pc'[u] \in {"scan"} => pc[u] \in {"scan"}
          /\ \A m \in Nodes : status[m] = "retired" => status'[m] = "retired"
      BY <1>1, <1>2, <2>1 DEF TypeOK, HPTypeOK, hpVars, hpLocals
    <3> QED BY <3>1, <1>2, SchemeKept
  <2>5. ShieldsKept
    <3>1. \A j \in Slots : j <= j
      BY DEF Slots
    <3> QED BY <2>4, <3>1 DEF ShieldsKept
  <2>6. OthersStay(t) /\ LocalTypes'
    BY <1>1, <1>2, <2>1
       DEF OthersStay, TypeOK, HPTypeOK, Labels, DeqLabels, LocalTypes, hpVars, hpLocals
  <2>7. Step(t)
    <3>1. OwnStep(t)
      BY <1>6, <2>1, <2>2 DEF OwnStep, Enqueuing, Dequeued, EnqLabels
    <3>2. \A m \in Nodes : NodeStep(t, m)
      BY <1>1, <2>1, <2>2 DEF NodeStep
    <3>3. EndsStep
      BY <1>1, <2>1 DEF EndsStep
    <3>4. \A u \in Threads : u # t /\ Dequeued(u) /\ InNoList(node[u]) =>
            InNoList(node[u])'
      BY <2>1, <2>4 DEF InNoList
    <3> QED BY <3>1, <3>2, <3>3, <3>4, <2>5, <2>6 DEF Step
  <2>8. TypeOK'
    <3>1. HeapTypeOK'
      BY <1>1, <1>2, <2>1 DEF TypeOK, HeapTypeOK, Statuses
    <3> QED BY <3>1, <1>1, <1>2, <2>1, <2>2, <2>6
            DEF TypeOK, HPTypeOK, LocalTypes, hpVars, hpLocals, NodeOrNull
  <2>9. ThreadInv(t)'
    <3>1. /\ ptr'[t] = ptr[t] /\ last'[t] = NULL
          /\ hazardPointerList' = hazardPointerList
      BY <1>1, <1>3 DEF hpLocals, hpVars
    <3>2. OwnsNode(t)' /\ ProtectPublished(t)' /\ TailAhead(t)'
      BY <2>1, <3>1 DEF OwnsNode, ProtectPublished, TailAhead, Enqueuing,
         EnqLabels, FoundTail, FoundHead
    <3>3. Shields(t, 1, ptr[t], {"scan"})'
      BY <3>1, <1>2, <1>3, <2>2, <2>4, SlotsInRange, ThreadsAssumption
         DEF Threads, TypeOK, HPTypeOK
    <3>4. FoundShielded(t)'
      BY <2>1, <2>2, <3>1, <3>3 DEF FoundShielded, Found, FoundTail, FoundHead
    <3>5. InNoList(head)
      BY <2>2, <1>2 DEF InNoList, Scheme, RetiredOnce
    <3>6. \A u \in Threads : Dequeued(u) => node[u] # head
      BY <2>2 DEF IInv, ThreadInv, DequeuedByOne
    <3>7. \A u \in Threads : u # t /\ Dequeued(u)' => Dequeued(u)
      BY <2>6 DEF OthersStay, Dequeued
    <3>8. InNoList(node[t])'
      BY <2>1, <3>5, <1>1, <1>6 DEF InNoList, hpVars
    <3>9. DequeuedByOne(t)'
      BY <2>1, <2>2, <3>6, <3>7, <3>8, <1>6 DEF DequeuedByOne
    <3> QED BY <3>2, <3>4, <3>9 DEF ThreadInv
  <2> QED BY <2>3, <2>4, <2>7, <2>8, <2>9, <1>2, <1>4, StepInv
<1> QED BY <1>5, <1>6

(* clear(tid), and with its last store the node goes into a retired list.  *)
LEMMA DeqClearInv ==
  ASSUME IInv, ~Destroyed, NEW t \in Threads, DeqClear(t)
  PROVE  IInv'
<1>1. /\ pc[t] = "deq.clear"
      /\ pc' = [pc EXCEPT ![t] = IF slot[t] + 1 = SlotsPerThread
                                 THEN AfterRetirePush(t, "scan", "deq.return")
                                 ELSE "deq.clear"]
      /\ hazardPointerList' = [hazardPointerList EXCEPT ![t][slot[t]] = NULL]
      /\ slot' = [slot EXCEPT ![t] = (@ + 1) % SlotsPerThread]
      /\ UNCHANGED <<heapVars, threadCount, ptr, last, ends, locals, main>>
  BY DEF DeqClear, ClearSlot, Goto
<1>2. /\ TypeOK /\ ThreadInv(t) /\ ~Destroyed' /\ QueueShape /\ Scheme({"scan"})
      /\ AfterRetirePush(t, "scan", "deq.return") \in {"scan", "deq.return"}
  BY <1>1 DEF IInv, Destroyed, AfterRetirePush
<1>3. /\ OthersStay(t) /\ LocalTypes' /\ pc'[t] \in {"scan", "deq.return", "deq.clear"}
      /\ slot[t] + 1 # SlotsPerThread => pc'[t] = "deq.clear"
      /\ slot[t] + 1 = SlotsPerThread => pc'[t] \in {"scan", "deq.return"}
      /\ \A u \in Threads : u # t => pc'[u] = pc[u]
      /\ hazardPointerList' \in [Threads -> [Slots -> NodeOrNull]]
  <2>1. slot[t] \in Slots /\ (slot[t] + 1) % SlotsPerThread \in Slots
    <3>1. slot[t] \in Slots
      BY <1>2 DEF TypeOK, HPTypeOK
    <3> QED BY <3>1, HPAssumption DEF Slots
  <2>2. hazardPointerList' \in [Threads -> [Slots -> NodeOrNull]]
    BY <1>1, <1>2, <2>1 DEF TypeOK, HPTypeOK, NodeOrNull
  <2>3. LocalTypes'
    <3> DEFINE l == IF slot[t] + 1 = SlotsPerThread
                    THEN AfterRetirePush(t, "scan", "deq.return") ELSE "deq.clear"
    <3>1. l \in Labels
      BY <1>2 DEF Labels, DeqLabels
    <3> HIDE DEF l
    <3>2. pc' \in [Threads -> Labels] /\ slot' \in [Threads -> Slots]
      BY <3>1, <1>1, <1>2, <2>1 DEF l, TypeOK, HPTypeOK
    <3> QED BY <3>2, <1>1, <1>2 DEF LocalTypes, TypeOK, HPTypeOK, locals
  <2>4. OthersStay(t)
    BY <1>1, <1>2 DEF OthersStay, TypeOK, HPTypeOK, locals
  <2> QED BY <2>2, <2>3, <2>4, <1>1, <1>2 DEF TypeOK
<1>4. /\ Dequeued(t) /\ ~Enqueuing(t) /\ last[t] = NULL
      /\ node[t] \in Nodes /\ status[node[t]] = "retired" /\ InNoList(node[t])
      /\ \A u \in Threads : Dequeued(u) /\ node[u] = node[t] => u = t
  BY <1>1, <1>2 DEF ThreadInv, DequeuedByOne, Dequeued, ProtectPublished,
     Enqueuing, EnqLabels
<1>5. MainAlone'
  BY <1>1, <1>3, AloneKept DEF EnqLabels
<1>6. CASE slot[t] + 1 # SlotsPerThread
  <2>1. UNCHANGED <<retiredPointerList, retiredCount, scan>> /\ pc'[t] = "deq.clear"
    BY <1>3, <1>6 DEF DeqClear
  <2>2. Local(t)
    BY <1>1, <1>3, <1>4, <2>1 DEF Local, OwnStep, Enqueuing, EnqLabels, ends, locals
  <2>3. \A n : InNoList(n) => InNoList(n)'
    BY <2>2, LocalEffect
  <2>4. ThreadInv(t)'
    <3>1. DequeuedByOne(t)'
      BY <1>1, <1>3, <1>4, <2>1
         DEF DequeuedByOne, Dequeued, InNoList, heapVars, locals
    <3>2. OwnsNode(t)' /\ ProtectPublished(t)' /\ TailAhead(t)' /\ FoundShielded(t)'
      BY <1>1, <1>4, <2>1 DEF OwnsNode, ProtectPublished, TailAhead,
         FoundShielded, Found, Enqueuing, EnqLabels, FoundTail, FoundHead
    <3> QED BY <3>1, <3>2 DEF ThreadInv
  <2> QED BY <2>2, <2>4, <1>2, <1>3, <1>5, LocalInv
<1>7. CASE slot[t] + 1 = SlotsPerThread
  <2>1. RetirePush(t, node[t])
    BY <1>7 DEF DeqClear
  <2>2. pc'[t] \in {"scan", "deq.return"}
    BY <1>3, <1>7
  <2>3. /\ Scheme({"scan"})'
        /\ \A m : m # node[t] /\ InNoList(m) => InNoList(m)'
        /\ \A m : \A u \in Threads, j \in Slots :
             Shields(u, j, m, {"scan"}) /\ hazardPointerList'[u][j] = m
             => Shields(u, j, m, {"scan"})'
    <3>1. /\ pc[t] \notin {"scan"} /\ "deq.return" \notin {"scan"} /\ "scan" \in {"scan"}
          /\ UNCHANGED <<threadCount, main>>
          /\ \A m \in Nodes : status[m] = "retired" \/ m = node[t] => status'[m] = "retired"
          /\ \A u \in Threads :
               IF u = t THEN pc'[u] \in {"scan", "deq.return"} ELSE pc'[u] = pc[u]
      BY <1>1, <1>3, <1>4, <2>2 DEF heapVars
    <3> QED BY <3>1, <2>1, <1>2, <1>3, <1>4, PushEffect
  <2>4. ShieldsKept
    BY <2>3 DEF ShieldsKept
  <2>5. QueueShape' /\ EndsStep /\ \A m \in Nodes : NodeStep(t, m)
    BY <1>1, <1>2 DEF heapVars, ends, QueueShape, EndsStep, NodeStep
  <2>6. Step(t)
    <3>1. OwnStep(t)
      BY <2>2 DEF OwnStep, Enqueuing, Dequeued, EnqLabels
    <3>2. \A u \in Threads : u # t /\ Dequeued(u) /\ InNoList(node[u]) =>
            InNoList(node[u])'
      BY <1>1, <1>4, <2>3 DEF InNoList, locals
    <3> QED BY <3>1, <3>2, <2>4, <2>5, <1>3 DEF Step
  <2>7. TypeOK'
    BY <1>1, <1>2, <1>3, <2>3 DEF TypeOK, HeapTypeOK, HPTypeOK, LocalTypes, Scheme,
       ScanTypes, heapVars, ends
  <2>8. ThreadInv(t)'
    BY <1>1, <1>4, <2>2 DEF ThreadInv, DequeuedByOne, Dequeued, OwnsNode,
       ProtectPublished, TailAhead, FoundShielded, Found, Enqueuing, EnqLabels,
       FoundTail, FoundHead
  <2> QED BY <2>3, <2>5, <2>6, <2>7, <2>8, <1>2, <1>5, StepInv
<1> QED BY <1>6, <1>7

(* A step of retireNode's scan: a node it deletes is linked nowhere, in    *)
(* nobody's hands and shielded by nobody.                                  *)
LEMMA DeqRetireInv ==
  ASSUME IInv, ~Destroyed, NEW t \in Threads, DeqRetire(t)
  PROVE  IInv'
<1>1. RetireScan(t, "scan", "deq.return") /\ UNCHANGED <<ends, locals, main>>
  BY DEF DeqRetire
<1>2. /\ TypeOK /\ ThreadInv(t) /\ ~Destroyed' /\ QueueShape /\ Scheme({"scan"})
  BY <1>1 DEF IInv, Destroyed
<1>3. /\ ScanKeeps({"scan"})
      /\ UNCHANGED <<threadCount, hazardPointerList, ptr, last, slot>>
      /\ pc[t] = "scan" /\ pc'[t] \in {"scan", "deq.return"}
      /\ pc' = [pc EXCEPT ![t] = pc'[t]]
      /\ \/ UNCHANGED heapVars
         \/ \E c \in Nodes :
              /\ c = Candidate(t) /\ Delete({c})
              /\ status[c] = "retired" /\ ~InNoList(c) /\ InNoList(c)'
              /\ \A u \in Threads, j \in Slots : ~Shields(u, j, c, {"scan"})
  <2>1. /\ pc = [u \in Threads |-> pc[u]] /\ status \in [Nodes -> Statuses]
        /\ "scan" \in {"scan"} /\ "deq.return" \notin {"scan"}
    BY <1>2 DEF TypeOK, HeapTypeOK, Labels, EnqLabels, DeqLabels
  <2> QED BY <2>1, <1>1, <1>2, ScanEffect
<1>4. OthersStay(t) /\ LocalTypes' /\ OwnStep(t) /\ ShieldsKept
  <2>1. OthersStay(t) /\ OwnStep(t)
    BY <1>1, <1>2, <1>3 DEF OthersStay, OwnStep, Enqueuing, Dequeued, EnqLabels,
       TypeOK, HPTypeOK, locals
  <2>2. LocalTypes'
    BY <1>1, <1>2, <1>3 DEF LocalTypes, TypeOK, HPTypeOK, locals, Labels, DeqLabels
  <2> QED BY <2>1, <2>2, <1>3 DEF ScanKeeps, ShieldsKept
<1>5. \A m \in Nodes : status[m] # "retired" => status'[m] = status[m] /\ next'[m] = next[m]
  BY <1>3 DEF Delete, heapVars
<1>6. \A m \in Nodes : \/ status'[m] = status[m] /\ next'[m] = next[m]
                       \/ /\ status[m] = "retired" /\ ~InNoList(m)
                          /\ \A u \in Threads, j \in Slots : ~Shields(u, j, m, {"scan"})
                          /\ status'[m] = "free"
  BY <1>3 DEF Delete, heapVars
<1>7. HeapTypeOK'
  BY <1>2, <1>3 DEF TypeOK, HeapTypeOK, Delete, heapVars, Statuses, NodeOrNull
<1>8. QueueShape'
  <2>1. \A m \in Nodes : status'[m] \in {"linked", "retired"} =>
          status'[m] = status[m] /\ next'[m] = next[m]
    BY <1>6
  <2>2. \A m \in Nodes : status[m] = "linked" =>
          status'[m] = "linked" /\ next'[m] = next[m]
    BY <1>5
  <2>3. head' = head /\ tail' = tail
    BY <1>1 DEF ends
  <2>4. next[tail] \in Nodes => status[next[tail]] = "linked"
    BY <1>2, HeapAssumption DEF QueueShape
  <2> QED BY <2>1, <2>2, <2>3, <2>4, <1>2, HeapAssumption
          DEF QueueShape, TypeOK, HeapTypeOK, NodeOrNull
<1>9. Step(t)
  <2>1. \A m \in Nodes : NodeStep(t, m)
    BY <1>6 DEF NodeStep
  <2>2. EndsStep
    BY <1>1, <1>2, <1>5 DEF EndsStep, ends, QueueShape
  <2>3. \A u \in Threads : u # t /\ Dequeued(u) /\ InNoList(node[u]) =>
          InNoList(node[u])'
    <3>1. node' = node /\ \A m : InNoList(m) => InNoList(m)'
      BY <1>1, <1>3 DEF ScanKeeps, locals
    <3>2. ASSUME NEW u \in Threads, InNoList(node[u]) PROVE InNoList(node[u])'
      <4>1. PICK m : m = node[u]
        OBVIOUS
      <4>2. InNoList(m)'
        BY <3>1, <3>2, <4>1
      <4> QED BY <3>1, <4>1, <4>2 DEF InNoList
    <3> QED BY <3>2
  <2> QED BY <2>1, <2>2, <2>3, <1>4 DEF Step
<1>10. TypeOK'
  BY <1>1, <1>2, <1>3, <1>4, <1>7
     DEF TypeOK, HPTypeOK, LocalTypes, ScanKeeps, Scheme, ScanTypes, ends
<1>11. ThreadInv(t)'
  <2>1. last'[t] = NULL
    BY <1>2, <1>3 DEF ThreadInv, ProtectPublished
  <2> QED BY <2>1, <1>3 DEF ThreadInv, DequeuedByOne, Dequeued, OwnsNode,
       ProtectPublished, TailAhead, FoundShielded, Found, Enqueuing, EnqLabels,
       FoundTail, FoundHead
<1>12. MainAlone'
  BY <1>1, <1>3, <1>4, AloneKept DEF EnqLabels, OthersStay
<1> QED BY <1>2, <1>3, <1>8, <1>9, <1>10, <1>11, <1>12, StepInv DEF ScanKeeps

(* What only the main thread changes concerns nobody's nodes.              *)
LEMMA QuietInv ==
  ASSUME IInv, ~Destroyed, ~Destroyed',
         UNCHANGED <<heapVars, hpVars, hpLocals, ends, locals>>,
         \A u \in Threads : pc'[u] = pc[u] \/ (pc[u] = "exited" /\ pc'[u] = "idle"),
         pc' \in [Threads -> Labels], main' \in MainStates, MainAlone'
  PROVE  IInv'
<1>1. TypeOK /\ Scheme({"scan"}) /\ QueueShape /\ \A u \in Threads : ThreadInv(u)
  BY DEF IInv
<1>2. TypeOK' /\ QueueShape'
  BY <1>1 DEF TypeOK, HeapTypeOK, HPTypeOK, QueueShape, heapVars, hpVars,
     hpLocals, ends, locals
<1>3. /\ Scheme({"scan"})' /\ \A n : InNoList(n) => InNoList(n)'
      /\ \A n : \A u \in Threads, j \in Slots :
           Shields(u, j, n, {"scan"}) => Shields(u, j, n, {"scan"})'
  <2>1. /\ UNCHANGED <<threadCount, retiredPointerList, retiredCount, scan>>
        /\ hazardPointerList' \in [Threads -> [Slots -> NodeOrNull]]
        /\ \A m \in Nodes : status[m] = "retired" => status'[m] = "retired"
        /\ \A u \in Threads : pc'[u] \in {"scan"} => pc[u] \in {"scan"}
        /\ Destroyed => Destroyed'
    BY <1>1 DEF TypeOK, HPTypeOK, heapVars, hpVars, hpLocals
  <2>2. /\ Scheme({"scan"})' /\ \A n : InNoList(n) => InNoList(n)'
        /\ \A n : \A u \in Threads, i, j \in Slots :
             /\ Shields(u, i, n, {"scan"}) /\ i <= j /\ hazardPointerList'[u][j] = n
             => Shields(u, j, n, {"scan"})'
    BY <1>1, <2>1, SchemeKept
  <2>3. \A j \in Slots : j <= j
    BY DEF Slots
  <2> QED BY <2>2, <2>3 DEF Shields, hpVars
<1>4. ASSUME NEW u \in Threads PROVE ThreadInv(u)'
  <2>1. /\ node'[u] = node[u] /\ nxt'[u] = nxt[u] /\ ptr'[u] = ptr[u]
        /\ last'[u] = last[u] /\ hazardPointerList'[u] = hazardPointerList[u]
        /\ \A v \in Threads : node'[v] = node[v]
        /\ ThreadInv(u)
    BY <1>1 DEF hpVars, hpLocals, locals
  <2>2. \A v \in Threads : /\ Enqueuing(v)' => Enqueuing(v)
                           /\ Dequeued(v)' => Dequeued(v)
    BY DEF Enqueuing, EnqLabels, Dequeued
  <2>3. pc'[u] = pc[u] \/ (pc[u] = "exited" /\ pc'[u] = "idle")
    OBVIOUS
  <2>4. OwnsNode(u)'
    BY <2>1, <2>2, <2>3 DEF ThreadInv, OwnsNode, heapVars
  <2>5. DequeuedByOne(u)'
    <3>1. Dequeued(u)' => InNoList(node[u])'
      BY <2>1, <2>2, <1>3 DEF ThreadInv, DequeuedByOne, InNoList, locals
    <3> QED BY <2>1, <2>2, <3>1 DEF ThreadInv, DequeuedByOne, heapVars
  <2>6. ProtectPublished(u)' /\ TailAhead(u)'
    BY <2>1, <2>3 DEF ThreadInv, ProtectPublished, TailAhead, FoundTail,
       FoundHead, heapVars, ends
  <2>7. FoundShielded(u)'
    BY <2>1, <2>3, <1>3 DEF ThreadInv, FoundShielded, Found, FoundTail,
       FoundHead, heapVars
  <2> QED BY <2>4, <2>5, <2>6, <2>7 DEF ThreadInv
<1> QED BY <1>2, <1>3, <1>4 DEF IInv

(* quit is set.                                                            *)
LEMMA QuitInv ==
  ASSUME IInv, Quit
  PROVE  IInv'
<1>1. /\ main = "sleeping" /\ main' = "joining" /\ pc' = pc
      /\ UNCHANGED <<heapVars, hpVars, hpLocals, ends, locals>>
  BY DEF Quit, QuitSignal
<1>2. pc' \in [Threads -> Labels] /\ MainAlone' /\ ~Destroyed /\ ~Destroyed'
      /\ main' \in MainStates
  BY <1>1 DEF IInv, TypeOK, MainAlone, Destroyed, MainStates
<1> QED BY <1>1, <1>2, QuietInv

(* The threads are joined, and the main thread begins to drain the queue.  *)
LEMMA JoinInv ==
  ASSUME IInv, Join
  PROVE  IInv'
<1>1. /\ main = "joining" /\ main' = "draining" /\ pc' = [pc EXCEPT ![0] = "idle"]
      /\ \A t \in Threads : pc[t] = "exited"
      /\ UNCHANGED <<heapVars, hpVars, hpLocals, ends, locals>>
  BY DEF Join, JoinThreads
<1>2. /\ pc' \in [Threads -> Labels] /\ MainAlone' /\ ~Destroyed /\ ~Destroyed'
      /\ main' \in MainStates
      /\ \A u \in Threads : pc'[u] = pc[u] \/ (pc[u] = "exited" /\ pc'[u] = "idle")
  BY <1>1 DEF IInv, TypeOK, MainAlone, Destroyed, MainStates, Labels, EnqLabels
<1> QED BY <1>1, <1>2, QuietInv

(* The queue and the retired nodes are deleted; no operation is left.      *)
LEMMA DestroyInv ==
  ASSUME IInv, Destroy
  PROVE  IInv'
<1>1. /\ main = "deleting" /\ main' = "destroyed" /\ pc' = pc
      /\ Delete({n \in Nodes : n = head \/ \E t \in Threads : n \in Retired(t)})
      /\ head' = NULL /\ tail' = NULL
      /\ retiredPointerList' = [t \in Threads |-> <<>>]
      /\ UNCHANGED <<threadCount, hazardPointerList, retiredCount, hpLocals, locals>>
  BY DEF Destroy, DeleteStructure
<1>2. \A t \in Threads : pc'[t] \in {"idle", "exited"}
  BY <1>1 DEF IInv, MainAlone
<1>3. /\ \A t \in Threads : last[t] = NULL
  BY <1>1, <1>2 DEF IInv, ThreadInv, ProtectPublished
<1>4. TypeOK'
  <2>1. HeapTypeOK'
    <3> DEFINE S == {n \in Nodes : n = head \/ \E t \in Threads : n \in Retired(t)}
    <3>1. Delete(S)
      BY <1>1
    <3> HIDE DEF S
    <3> QED BY <3>1 DEF IInv, TypeOK, HeapTypeOK, Delete, Statuses, NodeOrNull
  <2>2. retiredPointerList' \in [Threads -> Seq(Nodes)]
    BY <1>1
  <2> QED BY <1>1, <2>1, <2>2
          DEF IInv, TypeOK, HPTypeOK, MainStates, NodeOrNull, hpLocals, locals
<1>5. Scheme({"scan"})'
  <2>1. ScanTypes'
    BY <1>1, <1>4, ThreadsAssumption DEF ScanTypes, TypeOK, HPTypeOK
  <2>2. RetiredOnce' /\ CountsRetired'
    BY <1>1 DEF RetiredOnce, CountsRetired, Destroyed
  <2>3. ScanInRange({"scan"})'
    BY <1>2 DEF ScanInRange
  <2> QED BY <2>1, <2>2, <2>3 DEF Scheme
<1>6. \A t \in Threads : ThreadInv(t)'
  BY <1>1, <1>2, <1>3
     DEF ThreadInv, DequeuedByOne, Dequeued, OwnsNode, ProtectPublished,
         TailAhead, FoundShielded, Found, Enqueuing, EnqLabels, FoundTail,
         FoundHead, hpLocals
<1>7. MainAlone'
  BY <1>1 DEF IInv, MainAlone
<1> QED BY <1>1, <1>4, <1>5, <1>6, <1>7 DEF IInv, Destroyed

(* The invariant holds initially.                                          *)
LEMMA InitInv == Init => IInv
<1> SUFFICES ASSUME Init PROVE IInv
  OBVIOUS
<1>1. PICK s \in Nodes : HeapWithSentinel(s) /\ head = s /\ tail = s
  BY DEF Init
<1>2. /\ HPInit /\ threadCount = NumThreads /\ BenchmarkInit
      /\ node = [t \in Threads |-> NULL]
      /\ nxt = [t \in Threads |-> NULL]
      /\ retData = [t \in Threads |-> NULL]
  BY DEF Init
<1>3. \A t \in Threads : pc[t] = "idle" /\ last[t] = NULL
                         /\ retiredPointerList[t] = <<>> /\ retiredCount[t] = 0
  BY <1>2 DEF HPInit, BenchmarkInit
<1>4. TypeOK
  <2>1. HeapTypeOK
    BY <1>1 DEF HeapWithSentinel, HeapTypeOK, Statuses, NodeOrNull
  <2>2. ScanStart \in [i : Nat \ {0}, k : Nat, j : Slots, deleteNode : BOOLEAN]
    BY SlotsInRange DEF ScanStart
  <2>3. HPTypeOK
    BY <1>2, <2>2, SlotsInRange DEF HPInit, HPTypeOK, NodeOrNull
  <2> QED BY <1>1, <1>2, <2>1, <2>3
          DEF TypeOK, BenchmarkInit, Labels, MainStates, NodeOrNull
<1>5. Scheme({"scan"})
  <2>1. ScanTypes
    BY <1>4, ThreadsAssumption DEF TypeOK, HPTypeOK, ScanTypes
  <2> QED BY <2>1, <1>3 DEF Scheme, RetiredOnce, ScanInRange, CountsRetired
<1>6. QueueShape
  BY <1>1 DEF HeapWithSentinel, QueueShape
<1>7. \A t \in Threads : ThreadInv(t)
  BY <1>3 DEF ThreadInv, DequeuedByOne, Dequeued, OwnsNode, ProtectPublished,
         TailAhead, FoundShielded, Found, Enqueuing, EnqLabels, FoundTail,
         FoundHead
<1>8. MainAlone
  BY <1>2 DEF BenchmarkInit, MainAlone
<1> QED BY <1>4, <1>5, <1>6, <1>7, <1>8 DEF IInv

(* Once the queue is destroyed nothing happens any more.                   *)
LEMMA DestroyedStops ==
  ASSUME IInv, Destroyed, NEW t \in Threads, ThreadStep(t)
  PROVE  FALSE
<1>1. pc[t] \in {"idle", "exited"} /\ main = "destroyed"
  BY DEF IInv, MainAlone, Destroyed
<1> QED
  BY <1>1 DEF ThreadStep, EnqStep, DeqStep, EnqCall, EnqLoad, EnqPublish,
     EnqCheck, EnqNext, EnqHelp, EnqLink, EnqSwing, DeqCall, DeqProtect,
     DeqPublish, DeqTail, DeqProtectNext, DeqPublishNext, DeqCas, DeqItem,
     DeqClear, DeqRetire, DeqReturn, Return, ThreadExit, LeaveLoop, Calling,
     DrainingAs, ArgumentLoad, StoreHazardPtr, ProtectLoad, ProtectStore,
     ClearSlot, RetireScan, ScanSlot, Reclaim, Keep, ScanContinue, Goto

(* Every step preserves the invariant.                                     *)
LEMMA NextInv ==
  ASSUME EnoughSlots, IInv, [Next]_vars
  PROVE  IInv'
<1>1. ASSUME NEW t \in Threads, ThreadStep(t) PROVE IInv'
  <2>0. ~Destroyed
    BY <1>1, DestroyedStops
  <2>1. CASE EnqCall(t) \/ EnqStep(t)
    BY <2>0, <2>1, EnqCallInv, EnqLoadInv, EnqPublishInv, EnqCheckInv,
       EnqNextInv, EnqHelpInv, EnqLinkInv, EnqSwingInv DEF EnqStep
  <2>2. CASE DeqCall(t) \/ DeqStep(t)
    BY <2>0, <2>2, DeqCallInv, DeqProtectInv, DeqPublishInv, DeqTailInv,
       DeqProtectNextInv, DeqPublishNextInv, DeqCasInv, DeqItemInv,
       DeqClearInv, DeqRetireInv, DeqReturnInv DEF DeqStep
  <2>3. CASE Return(t) \/ ThreadExit(t)
    BY <2>0, <2>3, ReturnInv, ThreadExitInv
  <2> QED BY <1>1, <2>1, <2>2, <2>3 DEF ThreadStep
<1>2. ASSUME MainStep PROVE IInv'
  BY <1>2, QuitInv, JoinInv, DestroyInv DEF MainStep
<1>3. ASSUME UNCHANGED vars PROVE IInv'
  <2>1. UNCHANGED <<heapVars, hpVars, hpLocals, ends, locals, pc, main>>
    BY <1>3 DEF vars
  <2>2. CASE ~Destroyed
    <3>1. pc' \in [Threads -> Labels] /\ MainAlone' /\ ~Destroyed' /\ main' \in MainStates
      BY <2>1, <2>2 DEF IInv, TypeOK, MainAlone, Destroyed
    <3> QED BY <2>1, <2>2, <3>1, QuietInv
  <2>3. CASE Destroyed
    <3>1. \A t \in Threads : pc[t] \in {"idle", "exited"} /\ last[t] = NULL
      BY <2>3 DEF IInv, MainAlone, Destroyed, ThreadInv, ProtectPublished
    <3>2. \A t \in Threads : ThreadInv(t)'
      BY <2>1, <3>1
         DEF ThreadInv, DequeuedByOne, Dequeued, OwnsNode, ProtectPublished,
             TailAhead, FoundShielded, Found, Enqueuing, EnqLabels, FoundTail,
             FoundHead, hpLocals
    <3>3. TypeOK' /\ MainAlone' /\ Destroyed'
      BY <2>1, <2>3 DEF IInv, TypeOK, HeapTypeOK, HPTypeOK, MainAlone, Destroyed,
         heapVars, hpVars, hpLocals, ends, locals
    <3>4. Scheme({"scan"})'
      BY <2>1, <2>3, <3>1, <3>3
         DEF IInv, Scheme, ScanTypes, RetiredOnce, ScanInRange, CountsRetired,
             heapVars, hpVars, hpLocals
    <3> QED BY <3>2, <3>3, <3>4 DEF IInv
  <2> QED BY <2>2, <2>3
<1> QED BY <1>1, <1>2, <1>3 DEF Next, Finished

(* What a thread guards has been found in the queue and is shielded since, *)
(* or is the node it has dequeued.                                         *)
LEMMA GuardsFound ==
  ASSUME IInv, EnoughSlots, NEW t \in Threads, NEW n \in Guards(t)
  PROVE  /\ n \in Nodes /\ status[n] \in {"linked", "retired"}
         /\ InNoList(n) \/ \E s \in Slots : Shields(t, s, n, {"scan"})
<1>1. CASE \E s \in Slots : Found(t, s, n)
  <2>1. PICK s \in Slots : Found(t, s, n)
    BY <1>1
  <2>2. n \in NodeOrNull
    BY <2>1 DEF Found, IInv, TypeOK, HPTypeOK
  <2> QED BY <2>1, <2>2 DEF IInv, ThreadInv, FoundShielded, NodeOrNull
<1>2. CASE pc[t] = "deq.item" /\ n = node[t]
  BY <1>2 DEF IInv, ThreadInv, DequeuedByOne, Dequeued
<1>3. Found(t, 0, n) \/ Found(t, 1, n) \/ (pc[t] = "deq.item" /\ n = node[t])
  BY DEF Guards, Found, FoundTail, FoundHead
<1> QED BY <1>1, <1>2, <1>3, SlotsInRange

(* What the invariant says of accesses.                                    *)
LEMMA InvSafe == EnoughSlots /\ IInv => TypeOK /\ MemorySafe
<1> SUFFICES ASSUME EnoughSlots, IInv PROVE MemorySafe
  BY DEF IInv
<1>1. ASSUME NEW t \in Threads PROVE Accesses(t) \subseteq Guards(t)
  BY DEF Accesses, Guards
<1> QED BY <1>1, GuardsFound DEF MemorySafe, Allocated

-----------------------------------------------------------------------------
(* The queue as a safe memory reclamation scheme.                          *)
SMR == INSTANCE SafeReclamation WITH guards <- [t \in Threads |-> Guards(t)]

(* What a step does to the guards.                                         *)
GuardsUnchanged == \A u \in Threads : Guards(u)' = Guards(u)

OnlyGuards(t, S) ==
  \A u \in Threads : Guards(u)' = IF u = t THEN S ELSE Guards(u)

(* The guards of the threads that do not move.                             *)
LEMMA OthersGuard ==
  ASSUME IInv, NEW t \in Threads, NEW to, pc' = [pc EXCEPT ![t] = to],
         \A u \in Threads : u # t => ptr'[u] = ptr[u] /\ node'[u] = node[u]
  PROVE  /\ Guards(t)' = Guards(t) => GuardsUnchanged
         /\ OnlyGuards(t, Guards(t)')
         /\ pc'[t] = to
<1>1. pc = [u \in Threads |-> pc[u]]
  BY DEF IInv, TypeOK
<1>2. \A u \in Threads : u # t => pc'[u] = pc[u]
  BY <1>1
<1>3. \A u \in Threads : u # t => Guards(u)' = Guards(u)
  BY <1>2 DEF Guards
<1> QED BY <1>1, <1>3 DEF GuardsUnchanged, OnlyGuards

(* A step that leaves life cycles and guards alone is a stutter.           *)
LEMMA StutterMaps ==
  ASSUME UNCHANGED status, GuardsUnchanged
  PROVE  [SMR!Next]_(SMR!vars)
BY DEF GuardsUnchanged, SMR!vars

(* A thread that comes to guard a linked node.                             *)
LEMMA GuardMaps ==
  ASSUME NEW t \in Threads, NEW n \in Nodes, status[n] = "linked",
         Guards(t) = {}, OnlyGuards(t, {n}), UNCHANGED status
  PROVE  [SMR!Next]_(SMR!vars)
<1> DEFINE g == [u \in Threads |-> Guards(u)]
<1>1. g' = [g EXCEPT ![t] = g[t] \cup {n}]
  BY DEF OnlyGuards
<1>2. SMR!Guard(t, n)
  BY <1>1 DEF SMR!Guard
<1>3. n \in g'[t] /\ g'[t] # g[t]
  BY DEF OnlyGuards
<1> QED BY <1>2, <1>3 DEF SMR!Next

(* A thread that guards nothing any more.                                  *)
LEMMA ReleaseMaps ==
  ASSUME NEW t \in Threads, OnlyGuards(t, {}), UNCHANGED status
  PROVE  [SMR!Next]_(SMR!vars)
<1> DEFINE g == [u \in Threads |-> Guards(u)]
<1>1. CASE Guards(t) = {}
  BY <1>1, StutterMaps DEF OnlyGuards, GuardsUnchanged
<1>2. CASE Guards(t) # {}
  <2>1. g' = [g EXCEPT ![t] = g[t] \cap g'[t]] /\ g'[t] # g[t]
    BY <1>2 DEF OnlyGuards
  <2>2. SMR!Release(t)
    BY <2>1 DEF SMR!Release
  <2> QED BY <2>1, <2>2 DEF SMR!Next
<1> QED BY <1>1, <1>2

(* One node goes from one life cycle to another.                           *)
LEMMA MoveMaps ==
  ASSUME NEW n \in Nodes, NEW from, NEW to, status[n] = from,
         status \in [Nodes -> Statuses],
         status' = [status EXCEPT ![n] = to], GuardsUnchanged
  PROVE  SMR!Move({n}, from, to)
BY DEF SMR!Move, GuardsUnchanged

(* A step that leaves the life cycles alone and in which t keeps what it   *)
(* guards, gives it up, or finds a linked node.                            *)
LEMMA OwnGuards ==
  ASSUME IInv, NEW t \in Threads, NEW to, pc' = [pc EXCEPT ![t] = to],
         \A u \in Threads : u # t => ptr'[u] = ptr[u] /\ node'[u] = node[u],
         UNCHANGED status,
         \/ Guards(t)' = Guards(t) \/ Guards(t)' = {}
         \/ \E n \in Nodes :
              status[n] = "linked" /\ Guards(t) = {} /\ Guards(t)' = {n}
  PROVE  [SMR!Next]_(SMR!vars)
<1>1. /\ Guards(t)' = Guards(t) => GuardsUnchanged
      /\ OnlyGuards(t, Guards(t)')
  BY OthersGuard
<1>2. CASE Guards(t)' = Guards(t)
  BY <1>1, <1>2, StutterMaps
<1>3. CASE Guards(t)' = {}
  <2>1. OnlyGuards(t, {})
    BY <1>1, <1>3
  <2> QED BY <2>1, ReleaseMaps
<1>4. ASSUME NEW n \in Nodes, status[n] = "linked", Guards(t) = {},
             Guards(t)' = {n}
      PROVE  SMR!Next \/ UNCHANGED SMR!vars
  <2>1. OnlyGuards(t, {n})
    BY <1>1, <1>4
  <2> QED BY <2>1, <1>4, GuardMaps
<1> QED BY <1>2, <1>3, <1>4

(* The loads, stores and exchanges of an enqueue.                          *)
LEMMA EnqMaps ==
  ASSUME IInv, EnoughSlots, NEW t \in Threads, EnqCall(t) \/ EnqStep(t)
  PROVE  [SMR!Next]_(SMR!vars)
<1>1. CASE EnqCall(t)
  <2>1. PICK n \in Nodes :
          /\ status[n] = "free" /\ status' = [status EXCEPT ![n] = "private"]
          /\ node' = [node EXCEPT ![t] = n]
    BY <1>1 DEF EnqCall, New
  <2>2. /\ pc[t] = "idle" /\ pc' = [pc EXCEPT ![t] = "enq.load"] /\ ptr' = ptr
        /\ \A u \in Threads : u # t => ptr'[u] = ptr[u] /\ node'[u] = node[u]
    BY <1>1, <2>1 DEF EnqCall, Goto, hpLocals
  <2>3. GuardsUnchanged
    <3>1. pc'[t] = "enq.load"
      BY <2>2, OthersGuard
    <3>2. Guards(t) = {} /\ Guards(t)' = {}
      BY <2>2, <3>1 DEF Guards
    <3> QED BY <2>2, <3>2, OthersGuard
  <2>4. SMR!Allocate(n)
    BY <2>1, <2>3, MoveMaps DEF SMR!Allocate, IInv, TypeOK, HeapTypeOK
  <2> QED BY <2>1, <2>4 DEF SMR!Next, SMR!Change, IInv, TypeOK, HeapTypeOK
<1>2. CASE EnqLoad(t) \/ EnqPublish(t) \/ EnqNext(t) \/ EnqHelp(t) \/ EnqSwing(t)
  <2>1. PICK to \in Labels :
          /\ pc' = [pc EXCEPT ![t] = to]
          /\ \/ pc[t] = "enq.load" /\ to = "enq.publish"
             \/ pc[t] = "enq.publish" /\ to = "enq.check" /\ ptr' = ptr
             \/ pc[t] = "enq.next" /\ to \in {"enq.link", "enq.help"} /\ ptr' = ptr
             \/ to \in {"enq.load", "clear"}
    BY <1>2 DEF EnqLoad, ArgumentLoad, EnqPublish, StoreHazardPtr, EnqNext, EnqHelp,
       EnqSwing, Goto, Labels, EnqLabels, hpLocals
  <2>2. /\ UNCHANGED status
        /\ \A u \in Threads : u # t => ptr'[u] = ptr[u] /\ node'[u] = node[u]
    BY <1>2 DEF EnqLoad, ArgumentLoad, EnqPublish, StoreHazardPtr, EnqNext, EnqHelp,
       EnqSwing, heapVars, hpLocals, locals, IInv, TypeOK, HPTypeOK
  <2>3. pc'[t] = to
    BY <2>1, <2>2, OthersGuard
  <2>4. Guards(t)' = Guards(t) \/ Guards(t)' = {}
    BY <2>1, <2>3 DEF Guards
  <2> QED BY <2>1, <2>2, <2>4, OwnGuards
<1>3. CASE EnqCheck(t)
  <2>1. /\ UNCHANGED <<status, ptr, node>> /\ pc[t] = "enq.check"
        /\ pc' = [pc EXCEPT ![t] = IF tail = ptr[t] THEN "enq.next" ELSE "enq.load"]
    BY <1>3 DEF EnqCheck, Goto, heapVars, hpLocals, locals
  <2>2. pc'[t] = IF tail = ptr[t] THEN "enq.next" ELSE "enq.load"
    BY <2>1, OthersGuard
  <2>3. tail \in Nodes /\ status[tail] = "linked"
    BY <2>1 DEF IInv, MainAlone, Destroyed, QueueShape
  <2>4. Guards(t) = {} /\ Guards(t)' = IF tail = ptr[t] THEN {tail} ELSE {}
    BY <2>1, <2>2 DEF Guards
  <2> QED BY <2>1, <2>3, <2>4, OwnGuards
<1>4. CASE EnqLink(t)
  <2>1. /\ pc[t] = "enq.link" /\ UNCHANGED <<ptr, node>>
        /\ pc' = [pc EXCEPT ![t] = IF next[ptr[t]] = NULL THEN "enq.swing"
                                   ELSE "enq.load"]
    BY <1>4 DEF EnqLink, Goto, hpLocals, locals
  <2>2. pc'[t] = IF next[ptr[t]] = NULL THEN "enq.swing" ELSE "enq.load"
    BY <2>1, OthersGuard
  <2>3. CASE next[ptr[t]] = NULL
    <3>1. /\ node[t] \in Nodes /\ status[node[t]] = "private"
          /\ status' = [status EXCEPT ![node[t]] = "linked"]
      BY <1>4, <2>1, <2>3 DEF EnqLink, IInv, ThreadInv, OwnsNode, Enqueuing, EnqLabels
    <3>2. GuardsUnchanged
      <4>1. Guards(t)' = Guards(t)
        BY <2>1, <2>2, <2>3 DEF Guards
      <4> QED BY <2>1, <4>1, OthersGuard
    <3>3. SMR!Link(node[t])
      BY <3>1, <3>2, MoveMaps DEF SMR!Link, IInv, TypeOK, HeapTypeOK
    <3> QED BY <3>1, <3>3 DEF SMR!Next, SMR!Change, IInv, TypeOK, HeapTypeOK
  <2>4. CASE next[ptr[t]] # NULL
    <3>1. Guards(t)' = {} /\ UNCHANGED status
      BY <1>4, <2>2, <2>4 DEF Guards, EnqLink
    <3> QED BY <2>1, <3>1, OwnGuards
  <2> QED BY <2>3, <2>4
<1> QED BY <1>1, <1>2, <1>3, <1>4 DEF EnqStep

(* The loads and stores of a dequeue, and its return.                      *)
LEMMA DeqMaps ==
  ASSUME IInv, EnoughSlots, NEW t \in Threads,
         \/ DeqCall(t) \/ DeqProtect(t) \/ DeqPublish(t) \/ DeqTail(t)
         \/ DeqProtectNext(t) \/ DeqPublishNext(t) \/ DeqItem(t) \/ DeqClear(t)
         \/ DeqReturn(t) \/ Return(t) \/ ThreadExit(t)
  PROVE  [SMR!Next]_(SMR!vars)
<1>1. CASE \/ DeqCall(t) \/ DeqPublish(t) \/ DeqClear(t) \/ DeqItem(t)
           \/ DeqReturn(t) \/ Return(t) \/ ThreadExit(t)
  <2>1. PICK to \in {"deq.protect", "deq.clear", "scan", "deq.return", "clear",
                     "idle", "exited"} : pc' = [pc EXCEPT ![t] = to]
    BY <1>1 DEF DeqCall, DeqPublish, ProtectStore, DeqClear, ClearSlot, DeqItem,
       DeqReturn, Return, ThreadExit, LeaveLoop, AfterRetirePush, Goto
  <2>2. /\ UNCHANGED status
        /\ \A u \in Threads : u # t => ptr'[u] = ptr[u] /\ node'[u] = node[u]
    BY <1>1 DEF DeqCall, DeqPublish, ProtectStore, DeqClear, ClearSlot, DeqItem,
       DeqReturn, Return, ThreadExit, heapVars, hpLocals, locals, IInv, TypeOK,
       HPTypeOK
  <2>3. pc'[t] = to
    BY <2>1, <2>2, OthersGuard
  <2>4. Guards(t)' = {}
    BY <2>3 DEF Guards
  <2> QED BY <2>1, <2>2, <2>4, OwnGuards
<1>2. CASE DeqProtect(t)
  <2>1. /\ UNCHANGED status /\ pc[t] = "deq.protect"
        /\ pc' = [pc EXCEPT ![t] = IF head = last[t] THEN "deq.tail" ELSE "deq.publish"]
        /\ \A u \in Threads : u # t => ptr'[u] = ptr[u] /\ node'[u] = node[u]
        /\ ptr'[t] = head
    BY <1>2 DEF DeqProtect, ProtectLoad, ProtectDone, Goto, heapVars, locals, IInv,
       TypeOK, HPTypeOK
  <2>2. pc'[t] = IF head = last[t] THEN "deq.tail" ELSE "deq.publish"
    <3>1. pc = [u \in Threads |-> pc[u]]
      BY DEF IInv, TypeOK
    <3> QED BY <2>1, <3>1
  <2>3. head \in Nodes /\ status[head] = "linked"
    BY <2>1 DEF IInv, MainAlone, Destroyed, QueueShape
  <2>4. Guards(t) = {} /\ Guards(t)' = IF head = last[t] THEN {head} ELSE {}
    BY <2>1, <2>2 DEF Guards
  <2> QED BY <2>1, <2>3, <2>4, OwnGuards
<1>3. CASE DeqTail(t)
  <2>1. /\ UNCHANGED status /\ pc[t] = "deq.tail"
        /\ pc' = [pc EXCEPT ![t] = IF tail = ptr[t] THEN "clear" ELSE "deq.protectNext"]
        /\ \A u \in Threads : u # t => ptr'[u] = ptr[u] /\ node'[u] = node[u]
    BY <1>3 DEF DeqTail, Goto, heapVars, IInv, TypeOK, HPTypeOK
  <2>2. pc'[t] = IF tail = ptr[t] THEN "clear" ELSE "deq.protectNext"
    <3>1. pc = [u \in Threads |-> pc[u]]
      BY DEF IInv, TypeOK
    <3> QED BY <2>1, <3>1
  <2>3. Guards(t) = {ptr[t]} /\ Guards(t)' = IF tail = ptr[t] THEN {} ELSE {ptr[t]}
    <3>1. tail # ptr[t] => node'[t] = ptr[t]
      BY <1>3 DEF DeqTail, IInv, TypeOK, HPTypeOK
    <3> QED BY <2>1, <2>2, <3>1 DEF Guards
  <2> QED BY <2>1, <2>3, OwnGuards
<1>4. CASE DeqProtectNext(t) \/ DeqPublishNext(t)
  <2>1. PICK to \in {"deq.protectNext", "deq.publishNext", "deq.cas"} :
          pc' = [pc EXCEPT ![t] = to]
    BY <1>4 DEF DeqProtectNext, DeqPublishNext, ProtectLoad, ProtectStore, Goto
  <2>2. /\ UNCHANGED <<status, node>> /\ pc[t] \in {"deq.protectNext", "deq.publishNext"}
        /\ \A u \in Threads : u # t => ptr'[u] = ptr[u] /\ node'[u] = node[u]
    BY <1>4 DEF DeqProtectNext, DeqPublishNext, ProtectLoad, ProtectStore, Goto,
       heapVars, locals, IInv, TypeOK, HPTypeOK
  <2>3. pc'[t] = to
    BY <2>1, <2>2, OthersGuard
  <2>4. Guards(t)' = Guards(t)
    BY <2>2, <2>3 DEF Guards
  <2> QED BY <2>1, <2>2, <2>4, OwnGuards
<1> QED BY <1>1, <1>2, <1>3, <1>4

(* The exchange of head: it retires one node and leaves the next one in    *)
(* the hands of the dequeue.                                               *)
LEMMA DeqCasMaps ==
  ASSUME IInv, EnoughSlots, NEW t \in Threads, DeqCas(t)
  PROVE  [SMR!Next]_(SMR!vars)
<1>1. /\ pc[t] = "deq.cas"
      /\ pc' = [pc EXCEPT ![t] = IF head = node[t] THEN "deq.item" ELSE "deq.protect"]
      /\ UNCHANGED <<next, hpVars, hpLocals, tail>> /\ ptr' = ptr
      /\ \A u \in Threads : u # t => ptr'[u] = ptr[u] /\ node'[u] = node[u]
  BY DEF DeqCas, Goto, IInv, TypeOK, hpLocals
<1>2. /\ OnlyGuards(t, Guards(t)') /\ Guards(t) = {node[t]}
      /\ pc'[t] = IF head = node[t] THEN "deq.item" ELSE "deq.protect"
  <2>1. Guards(t) = {node[t]}
    BY <1>1 DEF Guards
  <2> QED BY <1>1, <2>1, OthersGuard
<1>3. CASE head # node[t]
  <2>1. Guards(t)' = {} /\ UNCHANGED status
    BY <1>2, <1>3 DEF DeqCas, Guards
  <2> QED BY <1>2, <2>1, ReleaseMaps
<1>4. CASE head = node[t]
  <2> DEFINE g == [u \in Threads |-> Guards(u)]
             n == node[t]
             m == ptr[t]
  <2>1. ~Destroyed /\ QueueShape
    BY <1>1 DEF IInv, MainAlone, Destroyed
  <2>2. /\ n \in Nodes /\ m \in Nodes /\ m = next[n] /\ tail # head
    BY <1>1, <1>4, <2>1, FoundHeadFacts
       DEF FoundHead, IInv, ThreadInv, ProtectPublished, TailAhead, QueueShape
  <2>3. status[n] = "linked" /\ status[m] = "linked" /\ m # n
    BY <1>4, <2>1, <2>2, HeapAssumption DEF QueueShape
  <2>4. status' = [status EXCEPT ![n] = "retired"] /\ node' = node
    BY <1>4 DEF DeqCas
  <2>5. g' = [g EXCEPT ![t] = g[t] \cup {m}]
    <3>1. Guards(t)' = {n, m}
      BY <1>1, <1>2, <1>4, <2>4 DEF Guards
    <3> QED BY <1>2, <3>1 DEF OnlyGuards
  <2>6. status'[n] = "retired"
    BY <2>2, <2>4 DEF IInv, TypeOK, HeapTypeOK
  <2> HIDE DEF n, m, g
  <2>7. SMR!Advance(t, n, m)
    BY <2>3, <2>4, <2>5, <2>6 DEF SMR!Advance, g
  <2>8. SMR!Change(n)
    BY <2>2, <2>7 DEF SMR!Change
  <2> QED BY <2>2, <2>3, <2>6, <2>8 DEF SMR!Next
<1> QED BY <1>3, <1>4

(* A deletion of retireNode.                                               *)
LEMMA DeqRetireMaps ==
  ASSUME IInv, EnoughSlots, NEW t \in Threads, DeqRetire(t)
  PROVE  [SMR!Next]_(SMR!vars)
<1>1. RetireScan(t, "scan", "deq.return") /\ UNCHANGED <<ends, locals, main>>
  BY DEF DeqRetire
<1>2. pc[t] = "scan"
  BY <1>1 DEF RetireScan, ScanSlot, Reclaim, Keep, ScanContinue, Goto
<1>3. ~Destroyed
  BY <1>2 DEF IInv, MainAlone, Destroyed
<1>4. /\ UNCHANGED <<ptr, node>> /\ pc'[t] \in {"scan", "deq.return"}
      /\ pc' = [pc EXCEPT ![t] = pc'[t]]
      /\ \/ UNCHANGED heapVars
         \/ \E c \in Nodes :
              /\ Delete({c}) /\ status[c] = "retired" /\ ~InNoList(c)
              /\ \A u \in Threads, j \in Slots : ~Shields(u, j, c, {"scan"})
  <2>1. /\ pc = [u \in Threads |-> pc[u]] /\ status \in [Nodes -> Statuses]
        /\ "scan" \in {"scan"} /\ "deq.return" \notin {"scan"} /\ Scheme({"scan"})
    BY DEF IInv, TypeOK, HeapTypeOK
  <2>2. UNCHANGED <<node, main>>
    BY <1>1 DEF locals
  <2> QED BY <1>1, <1>3, <2>1, <2>2, ScanEffect
<1>5. GuardsUnchanged
  <2>1. Guards(t) = {} /\ Guards(t)' = {}
    BY <1>2, <1>4 DEF Guards
  <2> QED BY <1>4, <2>1, OthersGuard
<1>6. CASE UNCHANGED heapVars
  BY <1>5, <1>6, StutterMaps DEF heapVars
<1>7. ASSUME NEW c \in Nodes, Delete({c}), status[c] = "retired", ~InNoList(c),
             \A u \in Threads, j \in Slots : ~Shields(u, j, c, {"scan"})
      PROVE  SMR!Next
  <2>1. \A u \in Threads : c \notin Guards(u)
    BY <1>7, GuardsFound
  <2>2. status' = [status EXCEPT ![c] = "free"]
    BY <1>7 DEF Delete, IInv, TypeOK, HeapTypeOK
  <2>3. SMR!Move({c}, "retired", "free")
    BY <1>5, <1>7, <2>2, MoveMaps DEF IInv, TypeOK, HeapTypeOK
  <2>4. SMR!Reclaim(c)
    BY <2>1, <2>3 DEF SMR!Reclaim, SMR!Unguarded
  <2> QED BY <1>7, <2>2, <2>4 DEF SMR!Next, SMR!Change, IInv, TypeOK, HeapTypeOK
<1> QED BY <1>4, <1>6, <1>7

(* Every step of the queue is a step of SafeReclamation or a stutter.      *)
LEMMA StepMaps ==
  ASSUME EnoughSlots, IInv, [Next]_vars
  PROVE  [SMR!Next]_(SMR!vars)
<1>1. ASSUME NEW t \in Threads, ThreadStep(t) PROVE [SMR!Next]_(SMR!vars)
  BY <1>1, EnqMaps, DeqMaps, DeqCasMaps, DeqRetireMaps DEF ThreadStep, DeqStep
<1>2. CASE Quit \/ Join
  <2>1. UNCHANGED <<status, ptr, node>> /\ \A u \in Threads : Guards(u)' = Guards(u)
    <3>1. UNCHANGED <<status, ptr, node>>
      BY <1>2 DEF Quit, Join, heapVars, hpLocals, locals
    <3>2. \A u \in Threads :
            \/ pc'[u] = pc[u]
            \/ pc[u] = "exited" /\ pc'[u] = "idle"
      BY <1>2, ThreadsAssumption DEF Quit, Join, QuitSignal, JoinThreads, IInv,
         TypeOK, Threads
    <3> QED BY <3>1, <3>2 DEF Guards
  <2> QED BY <2>1, StutterMaps DEF GuardsUnchanged
<1>3. CASE Destroy
  <2> DEFINE S == {n \in Nodes : n = head \/ \E t \in Threads : n \in Retired(t)}
  <2>1. status' = [n \in Nodes |-> IF n \in S THEN "free" ELSE status[n]]
    BY <1>3 DEF Destroy, Delete
  <2>2. \A t \in Threads : Guards(t) = {} /\ Guards(t)' = {}
    <3>1. \A t \in Threads : pc[t] \in {"idle", "exited"} /\ pc'[t] = pc[t]
      BY <1>3 DEF Destroy, DeleteStructure, IInv, MainAlone
    <3> QED BY <3>1 DEF Guards
  <2> HIDE DEF S
  <2>3. SMR!Destroy
    BY <2>1, <2>2 DEF SMR!Destroy
  <2> QED BY <2>3 DEF SMR!Next
<1>4. CASE UNCHANGED vars
  <2>1. UNCHANGED status /\ GuardsUnchanged
    BY <1>4 DEF vars, heapVars, hpLocals, locals, GuardsUnchanged, Guards
  <2> QED BY <2>1, StutterMaps
<1> QED BY <1>1, <1>2, <1>3, <1>4 DEF Next, MainStep, Finished

(* Initially nothing is guarded.                                           *)
LEMMA InitMaps == Init => SMR!Init
<1> SUFFICES ASSUME Init PROVE SMR!Init
  OBVIOUS
<1>1. [t \in Threads |-> Guards(t)] = [t \in Threads |-> {}]
  BY DEF Init, BenchmarkInit, Guards
<1>2. status \in [Nodes -> {"free", "linked"}]
  BY DEF Init, HeapWithSentinel
<1> QED BY <1>1, <1>2 DEF SMR!Init

-----------------------------------------------------------------------------
(* Where every node is.                                                    *)

(* What the shape of the queue says of the linked nodes as a set.          *)
LEMMA LinkedWithin ==
  ASSUME IInv
  PROVE  /\ ScanTypes
         /\ \A t \in Threads : pc[t] = "scan" =>
              scan[t].i \in 1..Len(retiredPointerList[t])
         /\ Linked \in SUBSET Nodes
         /\ ~Destroyed => /\ Within(next, Linked)
                          /\ head # NULL /\ head \in Linked
<1>1. ScanTypes /\ \A t \in Threads : pc[t] = "scan" =>
                     scan[t].i \in 1..Len(retiredPointerList[t])
  BY DEF IInv, Scheme, ScanInRange
<1>2. ~Destroyed => Within(next, Linked) /\ head # NULL /\ head \in Linked
  BY HeapAssumption DEF IInv, TypeOK, HeapTypeOK, NodeOrNull, QueueShape, Within, Linked
<1> QED BY <1>1, <1>2 DEF Linked

(* A step that changes the status of no node, links none of them anew and  *)
(* leaves what is held with who holds it.                                  *)
LEMMA StaysPlaced ==
  ASSUME IInv, Placed, UNCHANGED <<status, next, head, retiredPointerList>>,
         Destroyed => Destroyed',
         \A n \in Nodes, t \in Threads : Holds(t, n) => Holds(t, n)'
  PROVE  Placed'
<1>1. Linked' = Linked /\ \A n : InNoList(n)' <=> InNoList(n)
  BY DEF Linked, InNoList
<1> QED BY <1>1 DEF Placed, Reaches, Closed

(* Most steps of an operation are of that kind.                            *)
LEMMA LoadsPlace ==
  ASSUME IInv, Placed, NEW t \in Threads,
         EnqLoad(t) \/ EnqPublish(t) \/ EnqCheck(t) \/ EnqNext(t) \/ EnqHelp(t)
         \/ EnqSwing(t) \/ DeqCall(t) \/ DeqProtect(t) \/ DeqPublish(t)
         \/ DeqTail(t) \/ DeqProtectNext(t) \/ DeqPublishNext(t)
         \/ DeqItem(t) \/ DeqReturn(t) \/ Return(t) \/ ThreadExit(t)
  PROVE  Placed'
<1>1. UNCHANGED <<status, next, head, retiredPointerList>> /\ (Destroyed => Destroyed')
  BY DEF EnqLoad, ArgumentLoad, EnqPublish, StoreHazardPtr, EnqCheck, EnqNext,
         EnqHelp, EnqSwing, DeqCall, DeqProtect, ProtectLoad, DeqPublish,
         ProtectStore, DeqTail, DeqProtectNext, DeqPublishNext, DeqItem,
         DeqReturn, Return, ReturnItem, ThreadExit, LeaveLoop, Destroyed,
         heapVars, hpVars, ends
<1>2. ASSUME NEW n \in Nodes, NEW u \in Threads, Holds(u, n)
      PROVE  Holds(u, n)'
  <2>1. pc \in [Threads -> Labels] /\ node \in [Threads -> NodeOrNull]
    BY DEF IInv, TypeOK
  <2>2. CASE u # t
    <3>1. pc'[u] = pc[u] /\ node'[u] = node[u]
      BY <2>1, <2>2
         DEF EnqLoad, ArgumentLoad, EnqPublish, StoreHazardPtr, EnqCheck,
             EnqNext, EnqHelp, EnqSwing, DeqCall, DeqProtect, ProtectLoad,
             DeqPublish, ProtectStore, DeqTail, DeqProtectNext,
             DeqPublishNext, DeqItem, DeqReturn, Return, ClearSlot,
             ThreadExit, LeaveLoop, Goto, locals
    <3> QED BY <1>2, <3>1 DEF Holds
  <2>3. CASE u = t
    BY <1>2, <2>1, <2>3
       DEF Holds, EnqLabels,
           EnqLoad, ArgumentLoad, EnqPublish, StoreHazardPtr, EnqCheck,
           EnqNext, EnqHelp, EnqSwing, DeqCall, DeqProtect, ProtectLoad,
           DeqPublish, ProtectStore, DeqTail, DeqProtectNext,
           DeqPublishNext, DeqItem, DeqReturn, Return, ClearSlot,
           ThreadExit, LeaveLoop, Goto, locals
  <2> QED BY <2>2, <2>3
<1> QED BY <1>1, <1>2, StaysPlaced

(* A new node is in the hands of its enqueue.                              *)
LEMMA EnqCallPlaces ==
  ASSUME IInv, Placed, NEW t \in Threads, EnqCall(t)
  PROVE  Placed'
<1>1. PICK n \in Nodes, i \in Items :
        New(n, i) /\ node' = [node EXCEPT ![t] = n]
  BY DEF EnqCall
<1>2. /\ UNCHANGED <<head, retiredPointerList, main>> /\ pc[t] = "idle"
      /\ pc' = [pc EXCEPT ![t] = "enq.load"]
  BY DEF EnqCall, Goto, hpVars, ends
<1>3. /\ status[n] = "free" /\ status' = [status EXCEPT ![n] = "private"]
      /\ Linked' = Linked /\ \A m \in Linked : next'[m] = next[m]
  BY <1>1 DEF New, Linked, IInv, TypeOK, HeapTypeOK
<1>4. ASSUME ~Destroyed' PROVE Reaches(head, next, Linked)'
  <2>1. Reaches(head, next, Linked) /\ ~Destroyed
    BY <1>2, <1>4 DEF Placed, Destroyed
  <2>2. Reaches(head, next', Linked)
    BY <1>3, <2>1, ReachesWithin, LinkedWithin
  <2> QED BY <1>2, <1>3, <2>2 DEF Reaches, Closed
<1>5. Holds(t, n)'
  BY <1>1, <1>2 DEF Holds, EnqLabels, IInv, TypeOK
<1>6. ASSUME NEW m \in Nodes, NEW u \in Threads, Holds(u, m)
      PROVE  Holds(u, m)'
  BY <1>1, <1>2, <1>6 DEF Holds, EnqLabels, IInv, TypeOK
<1>7. \A m : InNoList(m)' <=> InNoList(m)
  BY <1>2 DEF InNoList
<1> QED BY <1>3, <1>4, <1>5, <1>6, <1>7 DEF Placed, IInv, TypeOK, HeapTypeOK

(* The exchange of an enqueue hands its node over to the queue.            *)
LEMMA EnqLinkPlaces ==
  ASSUME IInv, Placed, NEW t \in Threads, EnqLink(t)
  PROVE  Placed'
<1>0. /\ UNCHANGED <<head, retiredPointerList, main, node, ptr>>
      /\ pc[t] = "enq.link" /\ pc' = [pc EXCEPT ![t] = pc'[t]]
      /\ ~Destroyed
  BY DEF EnqLink, Goto, ends, hpVars, hpLocals, locals, Destroyed, IInv, TypeOK,
         MainAlone, EnqLabels
<1>1. CASE next[ptr[t]] # NULL
  <2>1. UNCHANGED <<status, next>> /\ pc'[t] = "enq.load"
    BY <1>1 DEF EnqLink, Goto, IInv, TypeOK
  <2>2. ASSUME NEW n \in Nodes, NEW u \in Threads, Holds(u, n)
        PROVE  Holds(u, n)'
    BY <1>0, <2>1, <2>2 DEF Holds, EnqLabels, IInv, TypeOK
  <2> QED BY <1>0, <2>1, <2>2, StaysPlaced
<1>2. CASE next[ptr[t]] = NULL
  <2> DEFINE n == node[t]
             m == ptr[t]
  <2>1. /\ next' = [next EXCEPT ![m] = n] /\ pc'[t] = "enq.swing"
        /\ status' = [status EXCEPT ![n] = "linked"]
    BY <1>2 DEF EnqLink, Goto, IInv, TypeOK
  <2>2. n \in Nodes /\ status[n] = "private" /\ next[n] = NULL
    BY <1>0 DEF IInv, ThreadInv, OwnsNode, Enqueuing, EnqLabels
  <2>3. m \in Nodes /\ status[m] = "linked"
    <3>1. m \in NodeOrNull /\ Found(t, 0, m) /\ 0 \in Slots
      BY <1>0, HPAssumption DEF IInv, TypeOK, HPTypeOK, Found, FoundTail, Slots
    <3>2. m # NULL /\ status[m] \in {"linked", "retired"}
      BY <3>1 DEF IInv, ThreadInv, FoundShielded
    <3> QED BY <1>0, <1>2, <3>1, <3>2 DEF IInv, QueueShape, NodeOrNull
  <2> HIDE DEF n, m
  <2>4. Linked' = Linked \cup {n} /\ n \notin Linked /\ m \in Linked
    BY <2>1, <2>2, <2>3 DEF Linked, IInv, TypeOK, HeapTypeOK
  <2>5. Reaches(head, next', Linked \cup {n})
    <3>1. Reaches(head, next, Linked)
      BY <1>0 DEF Placed
    <3>2. /\ next'[m] = n /\ next'[n] = next[m]
          /\ \A k \in Linked : k # m => next'[k] = next[k]
      BY <1>2, <2>1, <2>2, <2>3, <2>4 DEF IInv, TypeOK, HeapTypeOK, Linked, m
    <3> QED BY <1>0, <2>2, <2>4, <3>1, <3>2, ReachesInserted, LinkedWithin
  <2>6. Reaches(head, next, Linked)'
    BY <1>0, <2>4, <2>5 DEF Reaches, Closed
  <2>7. ASSUME NEW k \in Nodes, NEW u \in Threads, Holds(u, k), k # n
        PROVE  Holds(u, k)'
    BY <1>0, <2>7 DEF Holds, EnqLabels, IInv, TypeOK, n
  <2>8. \A k : InNoList(k)' <=> InNoList(k)
    BY <1>0 DEF InNoList
  <2> QED BY <2>1, <2>2, <2>6, <2>7, <2>8 DEF Placed, IInv, TypeOK, HeapTypeOK
<1> QED BY <1>1, <1>2

(* The exchange of a dequeue takes the first node into its hands.          *)
LEMMA DeqCasPlaces ==
  ASSUME IInv, Placed, NEW t \in Threads, DeqCas(t)
  PROVE  Placed'
<1>0. /\ UNCHANGED <<next, retiredPointerList, main>>
      /\ pc[t] = "deq.cas" /\ pc' = [pc EXCEPT ![t] = pc'[t]]
      /\ \A u \in Threads : u # t => node'[u] = node[u]
      /\ ~Destroyed
  BY DEF DeqCas, Goto, hpVars, locals, Destroyed, IInv, TypeOK, MainAlone
<1>1. CASE head # node[t]
  <2>1. UNCHANGED <<status, head>>
    BY <1>1 DEF DeqCas
  <2>2. ASSUME NEW n \in Nodes, NEW u \in Threads, Holds(u, n)
        PROVE  Holds(u, n)'
    BY <1>0, <2>2 DEF Holds, EnqLabels, IInv, TypeOK
  <2> QED BY <1>0, <2>1, <2>2, StaysPlaced
<1>2. CASE head = node[t]
  <2>1. /\ head' = ptr[t] /\ status' = [status EXCEPT ![head] = "retired"]
        /\ node' = node /\ pc'[t] = "deq.item"
    BY <1>2 DEF DeqCas, Goto, IInv, TypeOK
  <2>2. head \in Linked /\ ptr[t] = next[head]
    BY <1>0, <1>2, LinkedWithin DEF IInv, ThreadInv, ProtectPublished
  <2>3. Linked' = Linked \ {head}
    BY <2>1, <2>2 DEF Linked, IInv, TypeOK, HeapTypeOK
  <2>4. Reaches(head, next, Linked)'
    <3>1. Reaches(head, next, Linked)
      BY <1>0 DEF Placed
    <3>2. Reaches(next[head], next, Linked \ {head})
      BY <1>0, <2>2, <3>1, ReachesPopped, LinkedWithin
    <3> QED BY <1>0, <2>1, <2>2, <2>3, <3>2 DEF Reaches, Closed
  <2>5. ASSUME NEW n, n = head PROVE Holds(t, n)'
    BY <1>2, <2>1, <2>5 DEF Holds
  <2>6. ASSUME NEW n \in Nodes, NEW u \in Threads, Holds(u, n)
        PROVE  Holds(u, n)'
    BY <1>0, <2>1, <2>6 DEF Holds, EnqLabels, IInv, TypeOK
  <2>7. \A n : InNoList(n)' <=> InNoList(n)
    BY <1>0 DEF InNoList
  <2> QED BY <2>1, <2>2, <2>4, <2>5, <2>6, <2>7
          DEF Placed, Linked, IInv, TypeOK, HeapTypeOK
<1> QED BY <1>1, <1>2

(* retireNode puts the node of a dequeue into the list of its thread.      *)
LEMMA DeqClearPlaces ==
  ASSUME IInv, Placed, NEW t \in Threads, DeqClear(t)
  PROVE  Placed'
<1>1. /\ UNCHANGED <<status, next, head, main, node>>
      /\ pc[t] = "deq.clear" /\ pc' = [pc EXCEPT ![t] = pc'[t]]
  BY DEF DeqClear, ClearSlot, Goto, heapVars, ends, locals, IInv, TypeOK
<1>2. CASE slot[t] + 1 # SlotsPerThread
  <2>1. retiredPointerList' = retiredPointerList /\ pc' = pc
    BY <1>2 DEF DeqClear, ClearSlot, Goto, IInv, TypeOK
  <2>2. \A n \in Nodes, u \in Threads : Holds(u, n) => Holds(u, n)'
    BY <1>1, <2>1 DEF Holds
  <2> QED BY <1>1, <2>1, <2>2, StaysPlaced DEF Destroyed
<1>3. CASE slot[t] + 1 = SlotsPerThread
  <2>1. RetirePush(t, node[t]) /\ node[t] \in Nodes
    BY <1>1, <1>3 DEF DeqClear, IInv, ThreadInv, DequeuedByOne, Dequeued
  <2>2. \A m : InNoList(m)' <=> InNoList(m) /\ m # node[t]
    BY <2>1, PushEntry, LinkedWithin
  <2>3. ASSUME ~Destroyed' PROVE Reaches(head, next, Linked)'
    BY <1>1, <2>3 DEF Placed, Destroyed, Reaches, Closed, Linked
  <2>4. ASSUME NEW m \in Nodes, NEW u \in Threads, Holds(u, m), m # node[t]
        PROVE  Holds(u, m)'
    BY <1>1, <2>4 DEF Holds, IInv, TypeOK
  <2>5. status[node[t]] = "retired"
    BY <1>1 DEF IInv, ThreadInv, DequeuedByOne, Dequeued
  <2> QED BY <1>1, <2>2, <2>3, <2>4, <2>5 DEF Placed
<1> QED BY <1>2, <1>3

(* A scan deletes a node with its entry.                                   *)
LEMMA ScanPlaces ==
  ASSUME IInv, Placed, NEW t \in Threads, DeqRetire(t)
  PROVE  Placed'
<1>1. /\ UNCHANGED <<head, main, node>>
      /\ pc[t] = "scan" /\ pc' = [pc EXCEPT ![t] = pc'[t]]
  BY DEF DeqRetire, RetireScan, ScanSlot, Reclaim, Keep, ScanContinue, Goto,
         ends, locals, IInv, TypeOK
<1>2. \A m \in Nodes, u \in Threads : Holds(u, m) => Holds(u, m)'
  BY <1>1 DEF Holds, EnqLabels, IInv, TypeOK
<1>3. scan[t].i \in 1..Len(retiredPointerList[t]) /\ ScanTypes
  BY <1>1, LinkedWithin
<1>4. CASE UNCHANGED <<heapVars, retiredPointerList>>
  BY <1>1, <1>2, <1>4, StaysPlaced DEF heapVars, Destroyed
<1>5. CASE /\ Delete({Candidate(t)})
           /\ \A m : m # Candidate(t) /\ InNoList(m)' => InNoList(m)
  <2> DEFINE c == Candidate(t)
  <2>1. c \in Nodes /\ status[c] = "retired"
    BY <1>3, ListEntries DEF Candidate, IInv, Scheme, RetiredOnce
  <2>2. /\ \A m \in Nodes : m # c => status'[m] = status[m] /\ next'[m] = next[m]
        /\ status'[c] = "free"
    BY <1>5, <2>1 DEF Delete
  <2>3. Linked' = Linked /\ \A m \in Linked : next'[m] = next[m]
    BY <2>1, <2>2 DEF Linked
  <2>4. ASSUME ~Destroyed' PROVE Reaches(head, next, Linked)'
    <3>1. Reaches(head, next, Linked) /\ ~Destroyed
      BY <1>1, <2>4 DEF Placed, Destroyed
    <3>2. Reaches(head, next', Linked)
      BY <2>3, <3>1, ReachesWithin, LinkedWithin
    <3> QED BY <1>1, <2>3, <3>2 DEF Reaches, Closed
  <2> HIDE DEF c
  <2>5. \A m : m # c /\ InNoList(m)' => InNoList(m)
    BY <1>5 DEF c
  <2> QED BY <1>2, <2>2, <2>4, <2>5 DEF Placed
<1> QED
  BY <1>1, <1>3, <1>4, <1>5, ScanEntries DEF DeqRetire

(* The destructor deletes the node at the head and those of the lists.     *)
LEMMA DestroyPlaces ==
  ASSUME IInv, Placed, Destroy
  PROVE  Placed'
<1>1. /\ main = "deleting" /\ Destroyed' /\ UNCHANGED <<pc, node>>
      /\ Delete({n \in Nodes : n = head \/ \E t \in Threads : n \in Retired(t)})
  BY DEF Destroy, DeleteStructure, Destroyed, locals
<1>2. \A t \in Threads, n \in Nodes : ~Holds(t, n)
  BY <1>1 DEF Holds, IInv, MainAlone, EnqLabels
<1>3. ASSUME NEW n \in Nodes, ~InNoList(n) PROVE \E t \in Threads : n \in Retired(t)
  BY <1>3, EntriesRetired, LinkedWithin
<1>4. \A n \in Nodes : status'[n] \notin {"private", "retired"}
  BY <1>1, <1>2, <1>3 DEF Delete, Placed, IInv, TypeOK, HeapTypeOK
<1> QED BY <1>1, <1>4 DEF Placed

(* Every step keeps every node in its place.                               *)
LEMMA NextPlaces == IInv /\ Placed /\ [Next]_vars => Placed'
<1> SUFFICES ASSUME IInv, Placed, [Next]_vars PROVE Placed'
  OBVIOUS
<1>1. ASSUME NEW t \in Threads, ThreadStep(t) PROVE Placed'
  BY <1>1, LoadsPlace, EnqCallPlaces, EnqLinkPlaces, DeqCasPlaces,
     DeqClearPlaces, ScanPlaces DEF ThreadStep, EnqStep, DeqStep
<1>2. ASSUME Quit \/ Join \/ UNCHANGED vars PROVE Placed'
  <2>1. /\ UNCHANGED <<status, retiredPointerList, head, next>>
        /\ Destroyed => Destroyed'
    BY <1>2 DEF Quit, Join, QuitSignal, JoinThreads, vars, heapVars, hpVars,
                ends, Destroyed
  <2>2. \A n \in Nodes, t \in Threads : Holds(t, n) => Holds(t, n)'
    BY <1>2 DEF Quit, Join, QuitSignal, JoinThreads, vars, locals,
                Holds, EnqLabels, IInv, TypeOK
  <2> QED BY <2>1, <2>2, StaysPlaced
<1> QED BY <1>1, <1>2, DestroyPlaces DEF Next, MainStep, Finished

(* The constructor links the sentinel.                                     *)
LEMMA InitPlaced == Init => Placed
<1> SUFFICES ASSUME Init PROVE Placed
  OBVIOUS
<1>1. PICK s \in Nodes : HeapWithSentinel(s) /\ head = s
  BY DEF Init
<1>2. Linked = {s} /\ \A n \in Nodes : status[n] \in {"linked", "free"}
  BY <1>1 DEF HeapWithSentinel, Linked
<1>3. Reaches(head, next, Linked)
  BY <1>1, <1>2, HeapAssumption DEF Reaches, Closed
<1> QED BY <1>2, <1>3 DEF Placed

(* Nobody shares a node, and none is lost.                                 *)
LEMMA PlacedOwned == IInv /\ Placed => OneOwner
<1> SUFFICES ASSUME IInv, Placed, ~Destroyed PROVE OneOwner
  BY DEF OneOwner
<1>1. ChainSet(head) = Linked
  BY ChainIsLinked, LinkedWithin DEF Placed
<1>2. Straight(Linked, head)
  BY DEF Straight, Linked, IInv, QueueShape
<1>3. ASSUME NEW n \in Nodes
      PROVE  InOnePlace(n, Linked, EntriesOf(retiredPointerList, n),
                        {t \in Threads : Holds(t, n)})
  <2> DEFINE entries == EntriesOf(retiredPointerList, n)
             holders == {t \in Threads : Holds(t, n)}
  <2>1. /\ InNoList(n) => entries = {}
        /\ ~InNoList(n) => status[n] = "retired" /\ \E x : entries = {x}
    BY OneEntry, LinkedWithin DEF IInv, Scheme
  <2>2. ASSUME NEW t \in Threads, Holds(t, n)
        PROVE  /\ holders = {t} /\ InNoList(n)
               /\ status[n] \in {"private", "retired"}
    BY <2>1, <2>2 DEF Holds, IInv, ThreadInv, OwnsNode, Enqueuing,
                      DequeuedByOne, Dequeued
  <2>3. /\ status[n] \in Statuses
        /\ status[n] = "private" => \E t \in Threads : Holds(t, n)
        /\ status[n] = "retired" =>
             ~InNoList(n) \/ \E t \in Threads : Holds(t, n)
    BY DEF Placed, IInv, TypeOK, HeapTypeOK
  <2>4. n \in Linked <=> status[n] = "linked"
    BY DEF Linked
  <2>5. holders = {} \/ \E t \in Threads : Holds(t, n)
    OBVIOUS
  <2> HIDE DEF entries, holders
  <2>6. /\ status[n] \in {"linked", "free"} => entries = {} /\ holders = {}
        /\ status[n] \in {"private", "retired"} =>
             \/ entries = {} /\ \E x : holders = {x}
             \/ holders = {} /\ \E x : entries = {x}
    BY <2>1, <2>2, <2>3, <2>5
  <2>7. InOnePlace(n, Linked, entries, holders)
    BY <2>3, <2>4, <2>6, PlacedOnce
  <2> QED BY <2>7 DEF entries, holders
<1> QED BY <1>1, <1>2, <1>3 DEF OneOwner

(* tail is in the queue, at most one node behind its end.                  *)
LEMMA PlacedFollows == IInv /\ Placed => TailFollows
<1> SUFFICES ASSUME IInv, Placed, ~Destroyed PROVE TailFollows
  BY DEF TailFollows
<1>1. ChainSet(head) = Linked
  BY ChainIsLinked, LinkedWithin DEF Placed
<1> QED BY <1>1 DEF TailFollows, IInv, QueueShape, Linked

-----------------------------------------------------------------------------
(* What the destructor leaves.                                             *)

(* Steps that move neither the end of the queue nor tail let no enqueue    *)
(* forget to swing it.                                                     *)
LEMMA SwungKept ==
  ASSUME TailSwung, UNCHANGED tail, ~Destroyed => next'[tail] = next[tail],
         Destroyed => Destroyed',
         \A t \in Threads : ~Destroyed /\ pc[t] = "enq.swing" /\ ptr[t] = tail =>
           pc'[t] = "enq.swing" /\ ptr'[t] = ptr[t]
  PROVE  TailSwung'
BY DEF TailSwung

(* tail lags only until the enqueue that linked the last node swings it,   *)
(* unless another one does it first.                                       *)
LEMMA ThreadSwings ==
  ASSUME IInv, TailSwung, NEW t \in Threads, ThreadStep(t)
  PROVE  TailSwung'
<1>0. /\ ~Destroyed /\ pc \in [Threads -> Labels] /\ ptr \in [Threads -> NodeOrNull]
      /\ next \in [Nodes -> NodeOrNull] /\ QueueShape
  BY DestroyedStops DEF IInv, TypeOK, HeapTypeOK, HPTypeOK
<1>1. CASE EnqSwing(t)
  <2>1. CASE tail = ptr[t]
    <3>1. tail' = next[tail] /\ next' = next /\ next[tail] # NULL
      BY <1>1, <2>1, HeapAssumption
         DEF EnqSwing, Goto, heapVars, IInv, ThreadInv, OwnsNode
    <3> QED BY <1>0, <3>1 DEF TailSwung, QueueShape
  <2>2. CASE tail # ptr[t]
    <3>1. UNCHANGED <<tail, next, ptr>> /\ \A u \in Threads : u # t => pc'[u] = pc[u]
      BY <1>0, <1>1, <2>2 DEF EnqSwing, Goto, heapVars, hpLocals
    <3> QED BY <1>0, <2>2, <3>1, SwungKept
  <2> QED BY <2>1, <2>2
<1>2. CASE EnqHelp(t)
  <2>1. CASE tail = ptr[t]
    <3>1. tail' = next[tail] /\ next' = next
      BY <1>2, <2>1 DEF EnqHelp, Goto, heapVars, IInv, ThreadInv, OwnsNode
    <3>2. next[tail] # NULL
      BY <1>2, <2>1, HeapAssumption DEF EnqHelp, Goto, IInv, ThreadInv, OwnsNode
    <3> QED BY <1>0, <3>1, <3>2 DEF TailSwung, QueueShape
  <2>2. CASE tail # ptr[t]
    <3>1. /\ UNCHANGED <<tail, next, ptr>> /\ pc[t] = "enq.help"
          /\ \A u \in Threads : u # t => pc'[u] = pc[u]
      BY <1>0, <1>2, <2>2 DEF EnqHelp, Goto, heapVars, hpLocals
    <3> QED BY <1>0, <3>1, SwungKept
  <2> QED BY <2>1, <2>2
<1>3. CASE EnqLink(t)
  <2>0. pc[t] = "enq.link" /\ UNCHANGED <<tail, ptr, main>> /\ FoundTail(t)
    BY <1>3 DEF EnqLink, Goto, ends, hpLocals, FoundTail
  <2>1. CASE next[ptr[t]] # NULL
    <3>1. next' = next /\ \A u \in Threads : u # t => pc'[u] = pc[u]
      BY <1>0, <1>3, <2>1 DEF EnqLink, Goto
    <3> QED BY <1>0, <2>0, <3>1, SwungKept
  <2>2. CASE next[ptr[t]] = NULL
    <3>1. Found(t, 0, ptr[t]) /\ 0 \in Slots /\ ptr[t] # next[tail]
      BY <2>0, HPAssumption DEF Found, Slots, IInv, ThreadInv, TailAhead
    <3>2. ptr[t] \in Nodes /\ status[ptr[t]] \in {"linked", "retired"}
      BY <1>0, <3>1 DEF IInv, ThreadInv, FoundShielded, NodeOrNull
    <3>3. ptr[t] = tail
      BY <1>0, <2>2, <3>1, <3>2 DEF QueueShape
    <3>4. pc'[t] = "enq.swing"
      BY <1>0, <1>3, <2>2 DEF EnqLink, Goto
    <3> QED BY <2>0, <3>3, <3>4 DEF TailSwung
  <2> QED BY <2>1, <2>2
<1>4. CASE EnqCall(t)
  <2>1. PICK n \in Nodes, i \in Items : New(n, i)
    BY <1>4 DEF EnqCall
  <2>2. next'[tail] = next[tail]
    BY <1>0, <2>1 DEF New, QueueShape
  <2>3. /\ UNCHANGED <<tail, ptr, main>> /\ pc[t] = "idle"
        /\ \A u \in Threads : u # t => pc'[u] = pc[u]
    BY <1>0, <1>4 DEF EnqCall, Goto, ends, hpLocals
  <2> QED BY <1>0, <2>2, <2>3, SwungKept
<1>5. CASE DeqRetire(t)
  <2>1. /\ UNCHANGED <<tail, ptr, main>> /\ pc[t] = "scan"
        /\ \A u \in Threads : u # t => pc'[u] = pc[u]
    BY <1>0, <1>5 DEF DeqRetire, RetireScan, ScanSlot, Reclaim, Keep,
       ScanContinue, Goto, ends, locals
  <2>2. next'[tail] = next[tail]
    <3>1. CASE UNCHANGED <<heapVars, retiredPointerList>>
      BY <3>1 DEF heapVars
    <3>2. CASE Delete({Candidate(t)})
      <4>1. status[Candidate(t)] = "retired"
        BY <2>1, LinkedWithin, ListEntries DEF Candidate, IInv, Scheme, RetiredOnce
      <4> QED BY <1>0, <3>2, <4>1 DEF Delete, QueueShape
    <3> QED BY <1>5, <2>1, <3>1, <3>2, ScanEntries, LinkedWithin DEF DeqRetire
  <2> QED BY <1>0, <2>1, <2>2, SwungKept
<1>6. CASE \/ EnqLoad(t) \/ EnqPublish(t) \/ EnqCheck(t) \/ EnqNext(t)
           \/ DeqCall(t) \/ DeqProtect(t) \/ DeqPublish(t) \/ DeqTail(t)
           \/ DeqProtectNext(t) \/ DeqPublishNext(t) \/ DeqCas(t)
           \/ DeqItem(t) \/ DeqClear(t) \/ DeqReturn(t) \/ Return(t)
           \/ ThreadExit(t)
  <2>1. /\ UNCHANGED <<tail, next>> /\ pc[t] # "enq.swing"
        /\ \A u \in Threads : u # t => pc'[u] = pc[u] /\ ptr'[u] = ptr[u]
    BY <1>0, <1>6
       DEF EnqLoad, ArgumentLoad, EnqPublish, StoreHazardPtr, EnqCheck,
           EnqNext, DeqCall, DeqProtect, ProtectLoad, DeqPublish,
           ProtectStore, DeqTail, DeqProtectNext, DeqPublishNext, DeqCas,
           DeqItem, DeqClear, DeqReturn, Return, ClearSlot, ThreadExit,
           LeaveLoop, Goto, heapVars, ends, locals, hpVars, hpLocals
  <2> QED BY <1>0, <2>1, SwungKept
<1> QED BY <1>1, <1>2, <1>3, <1>4, <1>5, <1>6 DEF ThreadStep, EnqStep, DeqStep

(* A dequeue that returns nullptr has found head and tail equal, and while *)
(* thread 0 drains the queue nobody enqueues.                              *)
LEMMA ThreadDrains ==
  ASSUME IInv, Drained, NULL \notin RawItems, NEW t \in Threads, ThreadStep(t)
  PROVE  Drained'
<1>0. ~Destroyed
  BY DestroyedStops
<1>1. CASE main \notin {"draining", "deleting"}
  <2>1. main' = main
    BY <1>1 DEF ThreadStep, EnqCall, EnqStep, EnqLoad, EnqPublish, EnqCheck,
           EnqNext, EnqHelp, EnqLink, EnqSwing, DeqCall, DeqStep, DeqProtect,
           DeqPublish, DeqTail, DeqProtectNext, DeqPublishNext, DeqCas,
           DeqItem, DeqClear, DeqRetire, DeqReturn, Return, ReturnItem,
           ThreadExit, LeaveLoop
  <2> QED BY <1>0, <1>1, <2>1 DEF Drained, Destroyed
<1>2. CASE main \in {"draining", "deleting"}
  <2>0. /\ t = 0 \/ pc[t] = "exited"
        /\ pc[0] \notin EnqLabels
        /\ main = "deleting" => pc[0] = "idle"
    BY <1>2, ThreadsAssumption DEF IInv, MainAlone, Threads
  <2>1. /\ t = 0 /\ main = "draining"
        /\ pc \in [Threads -> Labels] /\ retData \in [Threads -> Items \cup {NULL}]
        /\ DeqCall(t) \/ DeqStep(t) \/ Return(t)
    BY <1>2, <2>0 DEF IInv, TypeOK, EnqLabels, Calling, DrainingAs, Goto,
           ThreadStep, EnqCall, EnqStep, EnqLoad, ArgumentLoad, EnqPublish,
           StoreHazardPtr, EnqCheck, EnqNext, EnqHelp, EnqLink, EnqSwing,
           DeqCall, DeqStep, DeqProtect, ProtectLoad, DeqPublish,
           ProtectStore, DeqTail, DeqProtectNext, DeqPublishNext, DeqCas,
           DeqItem, DeqClear, DeqRetire, RetireScan, ScanSlot, Reclaim, Keep,
           ScanContinue, DeqReturn, Return, ClearSlot, ThreadExit, LeaveLoop
  <2>3. CASE \/ DeqCall(t) \/ DeqProtect(t) \/ DeqPublish(t) \/ DeqCas(t)
             \/ DeqProtectNext(t) \/ DeqPublishNext(t)
    BY <2>1, <2>3 DEF Drained, Destroyed, Goto, DeqCall, DeqProtect,
           ProtectLoad, DeqPublish, ProtectStore, DeqCas, DeqProtectNext,
           DeqPublishNext
  <2>4. CASE DeqTail(t)
    <3>1. pc[t] = "deq.tail" /\ UNCHANGED <<head, tail, main, retData>>
      BY <2>4 DEF DeqTail, Goto, ends
    <3>2. tail = ptr[t] => head = tail
      BY <1>0, <3>1 DEF IInv, ThreadInv, TailAhead, QueueShape
    <3> QED BY <2>1, <2>4, <3>1, <3>2 DEF Drained, Destroyed, Goto, DeqTail
  <2>5. CASE DeqItem(t)
    BY <2>1, <2>5 DEF Drained, Destroyed, Goto, DeqItem
  <2>6. CASE DeqClear(t)
    BY <2>1, <2>6 DEF Drained, Destroyed, Goto, DeqClear, ClearSlot, AfterRetirePush,
       locals
  <2>7. CASE DeqRetire(t)
    BY <2>1, <2>7 DEF Drained, Destroyed, Goto, locals, DeqRetire, RetireScan,
           ScanSlot, Reclaim, Keep, ScanContinue
  <2>8. CASE DeqReturn(t)
    BY <2>1, <2>8 DEF Drained, Destroyed, Goto, DeqReturn, ReturnItem
  <2>9. CASE Return(t)
    BY <2>1, <2>9 DEF Drained, Destroyed, Goto, Return, ClearSlot, ReturnItem, ends
  <2> QED BY <2>1, <2>3, <2>4, <2>5, <2>6, <2>7, <2>8, <2>9 DEF DeqStep
<1> QED BY <1>1, <1>2

(* The destructor finds one linked node, which no link leaves, and deletes *)
(* it and every retired one.                                               *)
LEMMA DestroyDrains ==
  ASSUME IInv, Placed, TailSwung, Drained, NULL \notin RawItems, Destroy
  PROVE  Drained'
<1>1. /\ main = "deleting" /\ main' = "destroyed"
      /\ Delete({n \in Nodes : n = head \/ \E t \in Threads : n \in Retired(t)})
  BY DEF Destroy, DeleteStructure
<1>2. Linked = {head}
  <2>1. Reaches(head, next, Linked) /\ head = tail /\ head \in Linked
    BY <1>1, LinkedWithin DEF Placed, Drained, Destroyed
  <2>2. \A t \in Threads : pc[t] # "enq.swing"
    BY <1>1 DEF IInv, MainAlone
  <2>3. Closed({head}, head, next)
    BY <1>1, <2>1, <2>2 DEF Closed, TailSwung, Destroyed
  <2> QED BY <2>1, <2>3, LinkedWithin DEF Reaches
<1>3. ASSUME NEW n \in Nodes PROVE status'[n] \notin {"linked", "private", "retired"}
  <2>1. /\ status \in [Nodes -> Statuses]
        /\ status[n] = "linked" => n = head
        /\ \A t \in Threads : ~Holds(t, n)
    BY <1>1, <1>2 DEF IInv, TypeOK, HeapTypeOK, Linked, Holds, MainAlone, EnqLabels
  <2>2. CASE status[n] = "retired"
    <3>1. PICK t \in Threads : n \in Retired(t)
      BY <2>1, <2>2, EntriesRetired, LinkedWithin DEF Placed
    <3> QED BY <1>1, <3>1 DEF Delete
  <2>3. status[n] # "private"
    BY <2>1 DEF Placed
  <2>4. CASE n = head
    BY <1>1, <2>4 DEF Delete
  <2>5. CASE n # head /\ status[n] # "retired"
    BY <1>1, <2>1, <2>3, <2>5 DEF Delete
  <2> QED BY <2>2, <2>4, <2>5
<1>4. Allocated' = {}
  BY <1>1, <1>3 DEF Allocated, Delete, IInv, TypeOK, HeapTypeOK, Statuses
<1> QED BY <1>1, <1>4 DEF Drained, Destroyed

(* The constructor leaves head and tail at the sentinel.                   *)
LEMMA InitDrained == Init => TailSwung /\ Drained
<1> SUFFICES ASSUME Init PROVE TailSwung /\ Drained
  OBVIOUS
<1>1. PICK s \in Nodes : HeapWithSentinel(s) /\ tail = s
  BY DEF Init
<1>2. next[tail] = NULL /\ main = "sleeping"
  BY <1>1 DEF HeapWithSentinel, Init, BenchmarkInit
<1> QED BY <1>2 DEF TailSwung, Drained, Destroyed

(* Every step keeps what the destructor relies on.                         *)
LEMMA NextDrained ==
  ASSUME IInv, Placed, TailSwung, Drained, NULL \notin RawItems, [Next]_vars
  PROVE  TailSwung' /\ Drained'
<1>1. CASE Quit
  BY <1>1 DEF Quit, QuitSignal, Drained, TailSwung, Destroyed, heapVars, hpLocals, ends
<1>2. CASE Join
  <2>1. /\ UNCHANGED <<next, tail, ptr>> /\ main = "joining" /\ main' = "draining"
        /\ \A t \in Threads : pc[t] = "exited"
    BY <1>2 DEF Join, JoinThreads, heapVars, hpLocals, ends
  <2>2. pc'[0] = "idle"
    BY <1>2, ThreadsAssumption DEF Join, JoinThreads, IInv, TypeOK, Threads
  <2> QED BY <2>1, <2>2, SwungKept DEF Drained, Destroyed
<1>3. CASE UNCHANGED vars
  BY <1>3 DEF vars, heapVars, hpLocals, ends, locals, Drained, TailSwung, Destroyed,
     Allocated
<1>4. CASE Destroy
  BY <1>4, DestroyDrains DEF TailSwung, Destroy, DeleteStructure, Destroyed
<1> QED
  BY <1>1, <1>2, <1>3, <1>4, ThreadSwings, ThreadDrains DEF Next, MainStep, Finished

-----------------------------------------------------------------------------
(* The refinement of FifoQueue: the queue as a sequence.                   *)

Fifo == INSTANCE FifoQueue WITH
  Tokens <- Nodes,
  q      <- Contents,
  call   <- [t \in Threads |-> Call(t)],
  arg    <- [t \in Threads |-> Arg(t)]

(* s is the queue with the node before it: the links lead from head        *)
(* through the nodes of s, all different and linked, to tail.              *)
InOrder(s) ==
  /\ IsChain(s, head, tail, next)
  /\ Len(s) # 0 /\ s[Len(s)] = tail
  /\ \A i \in 1..Len(s) : status[s[i]] = "linked"

(* No two enqueues have linked a node to the one at tail.                  *)
Swings(t) == pc[t] = "enq.swing" /\ ptr[t] = tail
SwingsAlone ==
  ~Destroyed => \A t, u \in Threads : Swings(t) /\ Swings(u) => u = t

Ordered ==
  /\ ~Destroyed => \E s : InOrder(s)
  /\ SwingsAlone /\ TailSwung

(* The sequence is the one ChainTo computes, now and after a step.         *)
LEMMA InOrderContents ==
  ASSUME NEW s
  PROVE  /\ InOrder(s) /\ head # NULL => Contents = Tail(s)
         /\ (InOrder(s) /\ head # NULL => Contents = Tail(s))'
<1>1. \A r : InOrder(r) /\ head # NULL => Contents = Tail(r)
  BY ChainComputed DEF InOrder, Contents
<1>2. (\A r : InOrder(r) /\ head # NULL => Contents = Tail(r))'
  BY <1>1, PTL
<1> QED BY <1>1, <1>2

(* Steps that move neither end leave the order of the nodes.               *)
LEMMA KeepsOrder ==
  ASSUME NEW s, InOrder(s), UNCHANGED ends,
         \A n \in Nodes : status[n] = "linked" =>
           status'[n] = "linked" /\ (n # tail => next'[n] = next[n])
  PROVE  InOrder(s)'
<1>1. \A i \in 1..Len(s) : s[i] \in Nodes
  BY DEF InOrder, IsChain
<1>2. IsChain(s, head, tail, next')
  BY <1>1, ChainUnchanged DEF InOrder
<1> QED BY <1>1, <1>2 DEF InOrder, ends

(* What the invariant says of an enqueue that is about to link its node:   *)
(* if the node it found has no successor, that is the one at tail.         *)
LEMMA LinksAtTail ==
  ASSUME IInv, ~Destroyed, NEW t \in Threads, pc[t] = "enq.link",
         next[ptr[t]] = NULL
  PROVE  ptr[t] = tail /\ node[t] \in Nodes /\ status[node[t]] = "private"
<1>1. Found(t, 0, ptr[t]) /\ 0 \in Slots /\ ptr[t] # next[tail]
  BY HPAssumption DEF Found, FoundTail, Slots, IInv, ThreadInv, TailAhead
<1>2. ptr[t] \in Nodes /\ status[ptr[t]] \in {"linked", "retired"}
  BY <1>1 DEF IInv, ThreadInv, FoundShielded, NodeOrNull, TypeOK, HPTypeOK
<1>3. ptr[t] = tail
  BY <1>1, <1>2 DEF IInv, QueueShape
<1> QED BY <1>3 DEF IInv, ThreadInv, OwnsNode, Enqueuing, EnqLabels

(* The exchange of head by a dequeue, and those of tail, when they succeed.*)
MovesHead(t) == DeqCas(t) /\ head = node[t]
MovesTail(t) == (EnqHelp(t) \/ EnqSwing(t)) /\ tail = ptr[t]

LEMMA StepsKeepOrder ==
  ASSUME IInv, NEW t \in Threads, ThreadStep(t), ~MovesHead(t), ~MovesTail(t),
         NEW s, InOrder(s)
  PROVE  InOrder(s)' /\ UNCHANGED ends
<1>0. ~Destroyed
  BY DestroyedStops
<1>1. CASE EnqCall(t)
  <2>1. /\ UNCHANGED ends
        /\ \A n \in Nodes : status[n] = "linked" =>
             status'[n] = "linked" /\ next'[n] = next[n]
    BY <1>1 DEF EnqCall, New, IInv, TypeOK, HeapTypeOK
  <2> QED BY <2>1, KeepsOrder
<1>2. CASE EnqLink(t)
  <2>1. pc[t] = "enq.link" /\ UNCHANGED ends
    BY <1>2 DEF EnqLink, Goto
  <2>2. \A n \in Nodes : status[n] = "linked" =>
          status'[n] = "linked" /\ (n # tail => next'[n] = next[n])
    BY <1>0, <1>2, <2>1, LinksAtTail DEF EnqLink, IInv, TypeOK, HeapTypeOK
  <2> QED BY <2>1, <2>2, KeepsOrder
<1>3. CASE EnqStep(t) /\ ~EnqLink(t)
  <2>1. UNCHANGED <<ends, status, next>>
    BY <1>3 DEF MovesTail, EnqStep, EnqLoad, ArgumentLoad, EnqPublish,
           StoreHazardPtr, EnqCheck, EnqNext, EnqHelp, EnqSwing, heapVars, ends
  <2> QED BY <2>1, KeepsOrder
<1>4. CASE DeqCall(t) \/ Return(t) \/ ThreadExit(t)
  <2>1. UNCHANGED <<ends, status, next>>
    BY <1>4 DEF DeqCall, Return, ThreadExit, heapVars
  <2> QED BY <2>1, KeepsOrder
<1>5. CASE DeqStep(t) /\ ~DeqRetire(t)
  <2>1. UNCHANGED <<ends, status, next>>
    BY <1>5 DEF MovesHead, DeqStep, DeqProtect, ProtectLoad, DeqPublish,
           ProtectStore, DeqTail, DeqProtectNext, DeqPublishNext, DeqCas,
           DeqItem, DeqClear, DeqReturn, heapVars, ends
  <2> QED BY <2>1, KeepsOrder
<1>6. CASE DeqRetire(t)
  <2>1. UNCHANGED ends /\ pc[t] = "scan"
    BY <1>6 DEF DeqRetire, RetireScan, ScanSlot, Reclaim, Keep, ScanContinue,
           Goto
  <2>2. Candidate(t) \in Nodes /\ status[Candidate(t)] = "retired"
    BY <2>1, LinkedWithin, ListEntries DEF Candidate, IInv, Scheme, RetiredOnce
  <2>3. UNCHANGED heapVars \/ Delete({Candidate(t)})
    BY <1>6 DEF DeqRetire, RetireScan, ScanSlot, Reclaim, Keep
  <2>4. \A n \in Nodes : status[n] = "linked" =>
          status'[n] = "linked" /\ next'[n] = next[n]
    BY <2>2, <2>3 DEF Delete, heapVars
  <2> QED BY <2>1, <2>4, KeepsOrder
<1> QED BY <1>1, <1>2, <1>3, <1>4, <1>5, <1>6 DEF ThreadStep

(* The exchange of head takes the first element away.                      *)
LEMMA DeqCasOrder ==
  ASSUME IInv, NEW t \in Threads, MovesHead(t), NEW s, InOrder(s)
  PROVE  /\ Tail(s) # <<>> /\ Head(Tail(s)) = ptr[t]
         /\ InOrder(Tail(s))' /\ head' # NULL /\ tail' = tail
<1>0. ~Destroyed /\ pc[t] = "deq.cas" /\ node[t] = head
  BY DestroyedStops DEF MovesHead, ThreadStep, DeqStep, DeqCas, Goto
<1>1. head \in Nodes /\ status[head] = "linked" /\ head # tail /\ ptr[t] = next[head]
  BY <1>0 DEF IInv, QueueShape, ThreadInv, TailAhead, FoundHead, ProtectPublished
<1>2. /\ head' = next[head] /\ UNCHANGED <<next, tail>>
      /\ status' = [status EXCEPT ![head] = "retired"]
  BY <1>0, <1>1 DEF MovesHead, DeqCas
<1>3. /\ s # <<>> /\ Head(s) = head
      /\ IsChain(Tail(s), next[head], tail, next)
      /\ Len(s) \in Nat \ {0} /\ Len(Tail(s)) = Len(s) - 1
      /\ \A i \in 1..Len(Tail(s)) : Tail(s)[i] = s[i + 1] /\ s[i + 1] # head
  BY <1>1, ChainPopped DEF InOrder
<1>4. ASSUME NEW i \in 1..Len(Tail(s))
      PROVE  status'[Tail(s)[i]] = "linked"
  <2>1. i + 1 \in 1..Len(s) /\ Tail(s)[i] = s[i + 1] /\ s[i + 1] # head
    BY <1>3
  <2>2. s[i + 1] \in Nodes /\ status[s[i + 1]] = "linked"
    BY <2>1 DEF InOrder, IsChain
  <2> QED BY <1>2, <2>1, <2>2 DEF IInv, TypeOK, HeapTypeOK
<1>5. Len(Tail(s)) # 0 /\ Tail(s)[Len(Tail(s))] = tail
  <2>1. Len(s) # 1
    BY <1>1 DEF InOrder, IsChain
  <2>2. Len(Tail(s)) \in 1..Len(Tail(s)) /\ Len(Tail(s)) + 1 = Len(s)
    BY <1>3, <2>1
  <2> QED BY <1>3, <2>2 DEF InOrder
<1>6. Tail(s) # <<>> /\ Head(Tail(s)) = next[head] /\ next[head] # NULL
  <2>1. next[head] = Tail(s)[1] /\ Tail(s) \in Seq(Nodes)
    BY <1>3, <1>5 DEF IsChain
  <2>2. Tail(s)[1] \in Nodes /\ Head(Tail(s)) = Tail(s)[1]
    BY <1>3, <1>5, <2>1
  <2>3. Tail(s) # <<>>
    <3>1. Len(<<>>) = 0
      OBVIOUS
    <3> QED BY <1>5, <3>1, Zenon
  <2> QED BY <2>1, <2>2, <2>3, HeapAssumption, Zenon
<1> QED BY <1>1, <1>2, <1>3, <1>4, <1>5, <1>6 DEF InOrder

(* That of tail adds the node behind it.                                   *)
LEMMA TailMovesOrder ==
  ASSUME IInv, ~Destroyed, next[tail] # NULL, NEW s, InOrder(s),
         NEW n, n = next[tail], tail' = n, UNCHANGED <<head, next, status>>
  PROVE  InOrder(Append(s, n))'
<1>1. /\ tail \in Nodes /\ n \in Nodes /\ status[n] = "linked"
      /\ next[n] = NULL
  BY DEF IInv, QueueShape, TypeOK, HeapTypeOK, NodeOrNull
<1>2. /\ s \in Seq(Nodes) /\ Len(s) \in Nat \ {0} /\ s[Len(s)] = tail
      /\ \A i \in 1..Len(s) : s[i] \in Nodes /\ status[s[i]] = "linked"
  BY DEF InOrder, IsChain
<1>3. ASSUME NEW i \in 1..Len(s) PROVE s[i] # n
  <2>1. CASE i = 1
    BY <1>1, <2>1 DEF InOrder, IsChain, IInv, QueueShape
  <2>2. CASE i # 1
    <3>1. i - 1 \in 1..Len(s) /\ next[s[i - 1]] = s[i] /\ s[i - 1] # tail
      BY <1>2, <2>2 DEF InOrder, IsChain
    <3> QED BY <1>1, <1>2, <3>1 DEF IInv, QueueShape
  <2> QED BY <2>1, <2>2
<1>4. IsChain(Append(s, n), head, n, next)
  BY <1>1, <1>2, <1>3, ChainAppended DEF InOrder
<1>5. /\ Len(Append(s, n)) = Len(s) + 1 /\ Append(s, n)[Len(s) + 1] = n
      /\ \A i \in 1..Len(s) : Append(s, n)[i] = s[i]
  BY <1>1, <1>2
<1>6. ASSUME NEW i \in 1..Len(Append(s, n))
      PROVE  status[Append(s, n)[i]] = "linked"
  <2>1. i = Len(s) + 1 \/ i \in 1..Len(s)
    BY <1>2, <1>5
  <2> QED BY <1>1, <1>2, <1>5, <2>1
<1> QED BY <1>2, <1>4, <1>5, <1>6 DEF InOrder

(* What a step does to the calls: t is now doing c, with the argument or   *)
(* result x, and the others what they did.                                 *)
CallsBecome(t, c, x) ==
  \A u \in Threads : /\ Call(u)' = IF u = t THEN c ELSE Call(u)
                     /\ Arg(u)' = IF u = t THEN x ELSE Arg(u)

LEMMA BecomeMaps ==
  ASSUME NEW t \in Threads, NEW c, NEW x, CallsBecome(t, c, x)
  PROVE  /\ Fifo!Become(t, Call(t), c, x)
         /\ c # Call(t) => [u \in Threads |-> Call(u)]'[t]
                             # [u \in Threads |-> Call(u)][t]
BY DEF CallsBecome, Fifo!Become

(* What a thread enqueues is its node, until tail has reached it.          *)
ArgFits(t) ==
  /\ Call(t) = "enqueue" => Arg(t) = node[t]
  /\ pc[t] = "enq.swing" =>
       Call(t) = IF tail = ptr[t] THEN "enqueue" ELSE "done"
  /\ pc[t] \in {"enq.swing", "clear"} /\ Call(t) = "done" => Arg(t) = NULL

LEMMA ArgOfCall == \A t : ArgFits(t) /\ ArgFits(t)'
<1>1. \A t : ArgFits(t)
  BY DEF ArgFits, Arg, Call, EnqLabels, DeqLabels
<1>2. (\A t : ArgFits(t))'
  BY <1>1, PTL
<1> QED BY <1>1, <1>2

(* A step changes its own thread, and the other calls only with tail.      *)
LEMMA OthersCall ==
  ASSUME IInv, NEW t \in Threads, ThreadStep(t)
  PROVE  \A u \in Threads \ {t} :
           /\ pc'[u] = pc[u] /\ node'[u] = node[u] /\ ptr'[u] = ptr[u]
           /\ tail' = tail => Call(u)' = Call(u) /\ Arg(u)' = Arg(u)
<1>1. \A u \in Threads \ {t} :
        pc'[u] = pc[u] /\ node'[u] = node[u] /\ ptr'[u] = ptr[u]
  <2>0. /\ pc \in [Threads -> Labels] /\ node \in [Threads -> NodeOrNull]
        /\ ptr \in [Threads -> NodeOrNull]
    BY DEF IInv, TypeOK, HPTypeOK
  <2> USE <2>0 DEF Goto, hpLocals, locals
  <2>1. CASE EnqCall(t) \/ EnqStep(t) \/ DeqCall(t)
    BY <2>1 DEF EnqCall, EnqStep, EnqLoad, ArgumentLoad, EnqPublish,
           StoreHazardPtr, EnqCheck, EnqNext, EnqHelp, EnqLink, EnqSwing,
           DeqCall
  <2>2. CASE DeqStep(t)
    BY <2>2 DEF DeqStep, DeqProtect, ProtectLoad, DeqPublish, ProtectStore,
           DeqTail, DeqProtectNext, DeqPublishNext, DeqCas, DeqItem, DeqClear,
           ClearSlot, DeqRetire, RetireScan, ScanSlot, Reclaim, Keep,
           ScanContinue, DeqReturn
  <2>3. CASE Return(t) \/ ThreadExit(t)
    BY <2>3 DEF Return, ClearSlot, ThreadExit, LeaveLoop
  <2> QED BY <2>1, <2>2, <2>3 DEF ThreadStep
<1>2. ASSUME NEW u \in Threads \ {t}, tail' = tail
      PROVE  Call(u)' = Call(u) /\ Arg(u)' = Arg(u)
  <2>1. Call(u)' = Call(u)
    BY <1>1, <1>2 DEF Call
  <2> QED BY <1>1, <1>2, <2>1 DEF Arg, Call
<1> QED BY <1>1, <1>2

(* A step that changes neither the order nor a call is a stutter.          *)
LEMMA FifoStutters ==
  ASSUME NEW s, InOrder(s), InOrder(s)', head # NULL, head' # NULL,
         \A u \in Threads : Call(u)' = Call(u) /\ Arg(u)' = Arg(u)
  PROVE  UNCHANGED Fifo!vars
<1>1. Contents' = Contents
  BY InOrderContents
<1> QED BY <1>1 DEF Fifo!vars

(* What a step does that moves neither end.                                *)
LEMMA QuietStep ==
  ASSUME IInv, Ordered, NEW t \in Threads, ThreadStep(t), ~MovesHead(t),
         ~MovesTail(t)
  PROVE  /\ Contents' = Contents /\ UNCHANGED ends
         /\ \E s : InOrder(s) /\ InOrder(s)' /\ Contents = Tail(s)
         /\ \A u \in Threads \ {t} : Call(u)' = Call(u) /\ Arg(u)' = Arg(u)
         /\ Call(t)' = Call(t) /\ Arg(t)' = Arg(t) => UNCHANGED Fifo!vars
<1>0. ~Destroyed /\ head # NULL
  BY DestroyedStops, HeapAssumption DEF IInv, QueueShape
<1>1. PICK s : InOrder(s)
  BY <1>0 DEF Ordered
<1>2. InOrder(s)' /\ UNCHANGED ends /\ head' # NULL
  BY <1>0, <1>1, StepsKeepOrder DEF ends
<1>3. Contents = Tail(s) /\ Contents' = Tail(s)
  BY <1>0, <1>1, <1>2, InOrderContents
<1>4. \A u \in Threads \ {t} : Call(u)' = Call(u) /\ Arg(u)' = Arg(u)
  BY <1>2, OthersCall DEF ends
<1> QED BY <1>0, <1>1, <1>2, <1>3, <1>4, FifoStutters DEF CallsBecome

(* enqueue and dequeue begin and end.                                      *)
LEMMA CallsMap ==
  ASSUME IInv, Ordered, NEW t \in Threads,
         \/ EnqCall(t) \/ DeqCall(t) \/ DeqReturn(t) \/ Return(t)
         \/ ThreadExit(t)
  PROVE  [Fifo!Next]_(Fifo!vars)
<1>0. ThreadStep(t) /\ ~MovesHead(t) /\ ~MovesTail(t)
  BY DEF ThreadStep, DeqStep, MovesHead, MovesTail, DeqCas, EnqHelp, EnqSwing,
         EnqCall, DeqCall, DeqReturn, Return, ClearSlot, ThreadExit,
         LeaveLoop, Goto
<1>1. /\ Contents' = Contents
      /\ \A u \in Threads \ {t} : Call(u)' = Call(u) /\ Arg(u)' = Arg(u)
  BY <1>0, QuietStep
<1> USE DEF Goto, hpLocals, locals, IInv, TypeOK, HPTypeOK, EnqLabels,
            DeqLabels, Labels
<1>3. CASE EnqCall(t)
  <2>1. PICK n \in Nodes : Call(t) = "none" /\ Call(t)' = "enqueue" /\ Arg(t)' = n
    BY <1>3 DEF EnqCall, Call, Arg
  <2>2. CallsBecome(t, "enqueue", n)
    BY <1>1, <2>1 DEF CallsBecome
  <2>3. Fifo!CallEnqueue(t, n)
    BY <1>1, <2>1, <2>2, BecomeMaps DEF Fifo!CallEnqueue
  <2> QED BY <2>1, <2>2, <2>3, BecomeMaps DEF Fifo!Next
<1>4. CASE DeqCall(t)
  <2>1. Call(t) = "none" /\ Call(t)' = "dequeue" /\ Arg(t)' = NULL
    BY <1>4 DEF DeqCall, Call, Arg
  <2>2. CallsBecome(t, "dequeue", NULL)
    BY <1>1, <2>1 DEF CallsBecome
  <2>3. Fifo!CallDequeue(t)
    BY <1>1, <2>1, <2>2, BecomeMaps DEF Fifo!CallDequeue
  <2> QED BY <2>1, <2>2, <2>3, BecomeMaps DEF Fifo!Next
<1>5. CASE DeqReturn(t) \/ (Return(t) /\ slot[t] + 1 = SlotsPerThread)
  <2>1. Call(t) = "done" /\ Call(t)' = "none" /\ Arg(t)' = NULL
    BY <1>5 DEF DeqReturn, Return, ClearSlot, Call, Arg
  <2>2. CallsBecome(t, "none", NULL)
    BY <1>1, <2>1 DEF CallsBecome
  <2>3. Fifo!Return(t)
    BY <1>1, <2>1, <2>2, BecomeMaps DEF Fifo!Return
  <2> QED BY <2>1, <2>2, <2>3, BecomeMaps DEF Fifo!Next
<1>6. CASE (Return(t) /\ slot[t] + 1 # SlotsPerThread) \/ ThreadExit(t)
  <2>1. Call(t)' = Call(t) /\ Arg(t)' = Arg(t)
    BY <1>6 DEF Return, ClearSlot, ThreadExit, LeaveLoop, Call, Arg
  <2> QED BY <1>0, <2>1, QuietStep
<1> QED BY <1>3, <1>4, <1>5, <1>6

(* An exchange of tail is the moment the enqueue takes effect that linked  *)
(* the node behind it, whichever thread made the exchange.                 *)
LEMMA TailMovesMaps ==
  ASSUME IInv, Ordered, NEW t \in Threads, MovesTail(t)
  PROVE  /\ \E u \in Threads : Fifo!Enqueue(u) /\ Call(u)' # Call(u)
         /\ (\E s : InOrder(s)) ' /\ SwingsAlone'
<1>0. /\ ThreadStep(t) /\ ~Destroyed /\ QueueShape
      /\ pc \in [Threads -> Labels] /\ ptr \in [Threads -> NodeOrNull]
  <2>1. ThreadStep(t)
    BY DEF MovesTail, ThreadStep, EnqStep
  <2> QED BY <2>1, DestroyedStops DEF IInv, TypeOK, HPTypeOK
<1>1. /\ next[tail] \in Nodes /\ tail' = next[tail] /\ tail = ptr[t]
      /\ UNCHANGED <<head, next, status, ptr, node, main>>
      /\ \/ pc[t] = "enq.help" /\ pc'[t] = "enq.load"
         \/ pc[t] = "enq.swing" /\ pc'[t] = "clear"
  BY <1>0 DEF MovesTail, EnqHelp, EnqSwing, Goto, heapVars, hpLocals, locals,
         IInv, ThreadInv, OwnsNode
<1>2. next[tail] # NULL /\ head # NULL /\ tail # next[tail] /\ next[next[tail]] = NULL
  BY <1>0, <1>1, HeapAssumption DEF QueueShape
<1>3. PICK u \in Threads : Swings(u)
  BY <1>0, <1>2 DEF Ordered, TailSwung, Swings
<1>4. node[u] = next[tail] /\ Call(u) = "enqueue" /\ Arg(u) = next[tail]
  <2>1. node[u] = next[tail]
    BY <1>3 DEF Swings, IInv, ThreadInv, OwnsNode
  <2> QED BY <1>3, <2>1, ArgOfCall DEF ArgFits, Swings
<1>5. pc'[u] \in {"enq.swing", "clear"} /\ Call(u)' = "done" /\ Arg(u)' = NULL
  <2>1. pc'[u] = IF u = t THEN "clear" ELSE "enq.swing"
    BY <1>0, <1>1, <1>3, OthersCall DEF Swings
  <2>2. Call(u)' = "done"
    BY <1>1, <1>2, <1>3, <2>1 DEF Swings, Call, EnqLabels, DeqLabels
  <2> QED BY <2>1, <2>2, ArgOfCall DEF ArgFits
<1>6. ASSUME NEW v \in Threads, v # u PROVE Call(v)' = Call(v) /\ Arg(v)' = Arg(v)
  <2>1. ~Swings(v)
    BY <1>0, <1>3, <1>6 DEF Ordered, SwingsAlone
  <2>2. CASE v = t
    <3>1. pc[v] = "enq.help" /\ pc'[v] = "enq.load"
      BY <1>1, <2>1, <2>2 DEF Swings
    <3>2. Call(v) = "enqueue" /\ Call(v)' = "enqueue"
      BY <3>1 DEF Call, EnqLabels, DeqLabels
    <3> QED BY <1>1, <3>2, ArgOfCall DEF ArgFits
  <2>3. CASE v # t
    <3>1. pc'[v] = pc[v]
      BY <1>0, <2>3, OthersCall
    <3>2. pc[v] = "enq.swing" => ptr[v] # tail /\ ptr[v] # next[tail]
      BY <2>1 DEF Swings, IInv, ThreadInv, TailAhead, FoundTail
    <3>3. CASE pc[v] = "enq.swing"
      BY <1>1, <3>1, <3>2, <3>3, ArgOfCall DEF ArgFits
    <3>4. CASE pc[v] # "enq.swing"
      BY <1>1, <3>1, <3>4 DEF Call, Arg
    <3> QED BY <3>3, <3>4
  <2> QED BY <2>2, <2>3
<1>7. PICK s, n : InOrder(s) /\ n = next[tail]
  BY <1>0 DEF Ordered
<1>8. InOrder(Append(s, n))'
  BY <1>0, <1>1, <1>2, <1>7, TailMovesOrder
<1>9. Contents = Tail(s) /\ Contents' = Append(Tail(s), n)
  <2>1. Contents = Tail(s) /\ Contents' = Tail(Append(s, n))
    BY <1>1, <1>2, <1>7, <1>8, InOrderContents
  <2>2. s \in Seq(Nodes) /\ Len(s) # 0 /\ n \in Nodes
    BY <1>1, <1>7 DEF InOrder, IsChain
  <2>3. Tail(Append(s, n)) = Append(Tail(s), n)
    BY <2>2
  <2> QED BY <2>1, <2>3
<1>10. Fifo!Enqueue(u)
  <2>1. CallsBecome(u, "done", NULL)
    BY <1>5, <1>6 DEF CallsBecome
  <2> QED BY <1>4, <1>7, <1>9, <2>1, BecomeMaps DEF Fifo!Enqueue
<1>11. \A v \in Threads : ~Swings(v)'
  <2>1. ASSUME NEW v \in Threads, Swings(v)' PROVE FALSE
    <3>1. ptr[v] = next[tail] /\ pc'[v] = "enq.swing"
      BY <1>1, <2>1 DEF Swings
    <3>2. pc[v] = "enq.swing"
      BY <1>0, <1>1, <3>1, OthersCall
    <3> QED BY <3>1, <3>2 DEF IInv, ThreadInv, TailAhead, FoundTail
  <2> QED BY <2>1
<1> QED BY <1>4, <1>5, <1>8, <1>10, <1>11 DEF SwingsAlone

(* The steps of an enqueue.                                                *)
LEMMA EnqStepMaps ==
  ASSUME IInv, Ordered, NEW t \in Threads, EnqStep(t)
  PROVE  [Fifo!Next]_(Fifo!vars)
<1>0. ThreadStep(t) /\ ~MovesHead(t) /\ ~Destroyed
  <2>1. ThreadStep(t)
    BY DEF ThreadStep
  <2> QED BY <2>1, DestroyedStops
          DEF EnqStep, MovesHead, DeqCas, EnqLoad, ArgumentLoad, EnqPublish,
              StoreHazardPtr, EnqCheck, EnqNext, EnqHelp, EnqLink, EnqSwing,
              Goto
<1>1. CASE MovesTail(t)
  <2>1. PICK u \in Threads : Fifo!Enqueue(u) /\ Call(u)' # Call(u)
    BY <1>1, TailMovesMaps
  <2> QED BY <2>1 DEF Fifo!Next
<1>2. CASE ~MovesTail(t)
  <2>0. UNCHANGED ends
    BY <1>0, <1>2, QuietStep
  <2>1. Call(t)' = Call(t) /\ Arg(t)' = Arg(t)
    <3> USE DEF Goto, hpLocals, locals, ends, IInv, TypeOK, HPTypeOK,
                EnqLabels, DeqLabels, Call, Arg
    <3>1. CASE EnqLink(t)
      <4>1. pc[t] = "enq.link" /\ (next[ptr[t]] = NULL => ptr[t] = tail)
        BY <1>0, <3>1, LinksAtTail DEF EnqLink
      <4> QED BY <2>0, <3>1, <4>1 DEF EnqLink
    <3>2. CASE EnqSwing(t)
      <4>1. tail # ptr[t]
        BY <1>2, <3>2 DEF MovesTail
      <4> QED BY <2>0, <3>2, <4>1 DEF EnqSwing
    <3>3. CASE EnqStep(t) /\ ~EnqLink(t) /\ ~EnqSwing(t)
      BY <3>3 DEF EnqStep, EnqLoad, ArgumentLoad, EnqPublish,
             StoreHazardPtr, EnqCheck, EnqNext, EnqHelp
    <3> QED BY <3>1, <3>2, <3>3
  <2> QED BY <1>0, <1>2, <2>1, QuietStep
<1> QED BY <1>1, <1>2

(* Those of a dequeue, which takes effect at its exchange of head, or at   *)
(* the load of tail that finds it equal to head.                           *)
LEMMA DeqStepMaps ==
  ASSUME IInv, Ordered, NEW t \in Threads, DeqStep(t), ~DeqReturn(t)
  PROVE  [Fifo!Next]_(Fifo!vars)
<1>0. ThreadStep(t) /\ ~MovesTail(t) /\ ~Destroyed
  <2>1. ThreadStep(t)
    BY DEF ThreadStep
  <2>2. pc[t] \notin {"enq.help", "enq.swing"}
    BY DEF DeqStep, DeqProtect, ProtectLoad, DeqPublish, ProtectStore,
           DeqTail, DeqProtectNext, DeqPublishNext, DeqCas, DeqItem,
           DeqClear, ClearSlot, DeqRetire, RetireScan, ScanSlot, Reclaim,
           Keep, ScanContinue, DeqReturn, Goto
  <2> QED BY <2>1, <2>2, DestroyedStops DEF MovesTail, EnqHelp, EnqSwing, Goto
<1>1. CASE MovesHead(t)
  <2>1. PICK s : InOrder(s)
    BY <1>0 DEF Ordered
  <2>2. /\ Tail(s) # <<>> /\ Head(Tail(s)) = ptr[t]
        /\ InOrder(Tail(s))' /\ head' # NULL /\ tail' = tail
    BY <1>1, <2>1, DeqCasOrder
  <2>3. Contents = Tail(s) /\ Contents' = Tail(Tail(s))
    BY <1>0, <2>1, <2>2, InOrderContents, HeapAssumption DEF IInv, QueueShape
  <2>4. Call(t) = "dequeue" /\ Call(t)' = "done" /\ Arg(t)' = ptr[t]
    BY <1>1 DEF MovesHead, DeqCas, Goto, hpLocals, Call, Arg, EnqLabels,
           DeqLabels, IInv, TypeOK
  <2>5. CallsBecome(t, "done", ptr[t])
    BY <1>0, <2>2, <2>4, OthersCall DEF CallsBecome
  <2>6. Fifo!Dequeue(t)
    BY <2>2, <2>3, <2>4, <2>5, BecomeMaps DEF Fifo!Dequeue
  <2> QED BY <2>4, <2>5, <2>6, BecomeMaps DEF Fifo!Next
<1>2. CASE DeqTail(t) /\ tail = ptr[t]
  <2>0. ~MovesHead(t) /\ pc[t] = "deq.tail"
    BY <1>2 DEF MovesHead, DeqCas, DeqTail, Goto
  <2>1. /\ Contents' = Contents /\ \E s : InOrder(s) /\ Contents = Tail(s)
        /\ \A u \in Threads \ {t} : Call(u)' = Call(u) /\ Arg(u)' = Arg(u)
    BY <1>0, <2>0, QuietStep
  <2>2. head = tail
    BY <1>0, <1>2, <2>0 DEF IInv, QueueShape, ThreadInv, TailAhead
  <2>3. PICK s : InOrder(s) /\ Contents = Tail(s)
    BY <2>1
  <2>4. Contents = <<>>
    <3>0. s \in Seq(Nodes) /\ s[Len(s)] = s[1] /\ Len(s) # 0
      BY <2>2, <2>3 DEF InOrder, IsChain
    <3>1. s \in Seq(Nodes) /\ Len(s) \in Nat \ {0} /\ s[Len(s)] = s[1]
      BY <3>0
    <3>2. 1 \in 1..Len(s) /\ Len(s) \in 1..Len(s)
      BY <3>1
    <3>3. Len(s) = 1
      BY <2>3, <3>1, <3>2 DEF InOrder, IsChain
    <3> QED BY <2>3, <3>1, <3>3
  <2>5. Call(t) = "dequeue" /\ Call(t)' = "done" /\ Arg(t)' = NULL
    BY <1>2 DEF DeqTail, Goto, Call, Arg, EnqLabels, DeqLabels, IInv, TypeOK
  <2>6. CallsBecome(t, "done", NULL)
    BY <2>1, <2>5 DEF CallsBecome
  <2>7. Fifo!DequeueEmpty(t)
    BY <2>1, <2>4, <2>5, <2>6, BecomeMaps DEF Fifo!DequeueEmpty
  <2> QED BY <2>5, <2>6, <2>7, BecomeMaps DEF Fifo!Next
<1>3. CASE ~MovesHead(t) /\ ~(DeqTail(t) /\ tail = ptr[t])
  <2>1. Call(t)' = Call(t) /\ Arg(t)' = Arg(t)
    BY <1>3 DEF MovesHead, DeqStep, DeqProtect, ProtectLoad, DeqPublish,
           ProtectStore, DeqTail, DeqProtectNext, DeqPublishNext, DeqCas,
           DeqItem, DeqClear, ClearSlot, AfterRetirePush, DeqRetire,
           RetireScan, ScanSlot, Reclaim, Keep, ScanContinue, Goto, hpLocals,
           locals, Call, Arg, EnqLabels, DeqLabels, IInv, TypeOK
  <2> QED BY <1>0, <1>3, <2>1, QuietStep
<1> QED BY <1>1, <1>2, <1>3

(* A step that leaves tail keeps the enqueues alone that are about to move *)
(* it.                                                                     *)
LEMMA QuietSwings ==
  ASSUME IInv, Ordered, NEW t \in Threads, ThreadStep(t), ~MovesTail(t)
  PROVE  SwingsAlone'
<1>0. /\ ~Destroyed /\ QueueShape
      /\ pc \in [Threads -> Labels] /\ ptr \in [Threads -> NodeOrNull]
  BY DestroyedStops DEF IInv, TypeOK, HPTypeOK
<1>1. tail' = tail
  BY <1>0, StepsKeepOrder DEF ends, Ordered, MovesHead, DeqCas
<1>2. \A u \in Threads \ {t} : Swings(u)' <=> Swings(u)
  BY <1>1, OthersCall DEF Swings
<1>3. ASSUME Swings(t)', ~Swings(t), NEW u \in Threads \ {t}, Swings(u)
      PROVE  FALSE
  <2>1. EnqLink(t) /\ next[ptr[t]] = NULL /\ ptr'[t] = ptr[t]
    <3>1. CASE EnqCall(t) \/ EnqStep(t) \/ DeqCall(t)
      BY <1>0, <1>1, <1>3, <3>1
         DEF Swings, EnqCall, EnqStep, EnqLoad, ArgumentLoad, EnqPublish,
             StoreHazardPtr, EnqCheck, EnqNext, EnqHelp, EnqLink, EnqSwing,
             DeqCall, Goto, hpLocals
    <3>2. CASE DeqStep(t)
      BY <1>0, <1>3, <3>2
         DEF Swings, DeqStep, DeqProtect, ProtectLoad, DeqPublish,
             ProtectStore, DeqTail, DeqProtectNext, DeqPublishNext, DeqCas,
             DeqItem, DeqClear, ClearSlot, AfterRetirePush, DeqRetire,
             RetireScan, ScanSlot, Reclaim, Keep, ScanContinue, DeqReturn, Goto
    <3>3. CASE Return(t) \/ ThreadExit(t)
      BY <1>0, <1>3, <3>3 DEF Swings, Return, ClearSlot, ThreadExit, LeaveLoop,
             Goto
    <3> QED BY <3>1, <3>2, <3>3 DEF ThreadStep
  <2>2. next[tail] = NULL
    BY <1>1, <1>3, <2>1 DEF Swings
  <2>3. next[tail] = node[u] /\ node[u] \in Nodes
    BY <1>3 DEF Swings, IInv, ThreadInv, OwnsNode
  <2> QED BY <2>2, <2>3, HeapAssumption
<1>4. \A u, v \in Threads : Swings(u)' /\ Swings(v)' => v = u
  BY <1>0, <1>2, <1>3 DEF Ordered, SwingsAlone
<1> QED BY <1>4 DEF SwingsAlone

(* Every step of a thread leaves the queue a sequence.                     *)
LEMMA ThreadOrders ==
  ASSUME IInv, Ordered, NEW t \in Threads, ThreadStep(t)
  PROVE  Ordered'
<1>1. TailSwung'
  BY ThreadSwings DEF Ordered
<1>2. PICK s : InOrder(s)
  BY DestroyedStops DEF Ordered
<1>3. CASE MovesTail(t)
  BY <1>1, <1>3, TailMovesMaps DEF Ordered
<1>4. CASE ~MovesTail(t)
  <2>1. SwingsAlone'
    BY <1>4, QuietSwings
  <2>2. \E r : InOrder(r)'
    BY <1>2, <1>4, StepsKeepOrder, DeqCasOrder
  <2>3. (\E r : InOrder(r))'
    BY <2>2
  <2> QED BY <1>1, <2>1, <2>3 DEF Ordered
<1> QED BY <1>3, <1>4

(* Quit and Join touch nothing of the queue, and once the destructor has   *)
(* drained it no operation is running.                                     *)
LEMMA MainMaps ==
  ASSUME IInv, Ordered, MainStep \/ UNCHANGED vars
  PROVE  [Fifo!Next]_(Fifo!vars) /\ Ordered'
<1>1. CASE Quit \/ Join \/ UNCHANGED vars
  <2>1. UNCHANGED <<head, tail, next, status, node, ptr>> /\ (Destroyed' <=> Destroyed)
    BY <1>1 DEF Quit, QuitSignal, Join, JoinThreads, Destroyed, vars,
           heapVars, hpLocals, locals, ends
  <2>2. \A u \in Threads :
          pc'[u] = pc[u] \/ (pc[u] = "exited" /\ pc'[u] = "idle")
    BY <1>1 DEF Quit, QuitSignal, Join, JoinThreads, vars, IInv, TypeOK
  <2>3. \A u \in Threads : Call(u)' = Call(u) /\ Arg(u)' = Arg(u)
    BY <2>1, <2>2 DEF Call, Arg, EnqLabels, DeqLabels
  <2>4. Contents' = Contents
    BY <2>1 DEF Contents, ChainTo
  <2>5. \A u \in Threads : Swings(u)' <=> Swings(u)
    BY <2>1, <2>2 DEF Swings
  <2>6. SwingsAlone' /\ TailSwung'
    BY <2>1, <2>5 DEF Ordered, SwingsAlone, TailSwung, Swings
  <2>7. ~Destroyed' => (\E s : InOrder(s))'
    BY <2>1 DEF Ordered, InOrder
  <2> QED BY <2>3, <2>4, <2>6, <2>7 DEF Ordered, Fifo!vars
<1>2. CASE Destroy
  <2>1. /\ main = "deleting" /\ main' = "destroyed" /\ head' = NULL /\ tail' = NULL
        /\ UNCHANGED <<pc, node, ptr>>
    BY <1>2 DEF Destroy, DeleteStructure, hpLocals, locals
  <2>2. \A u \in Threads : /\ pc[u] \in {"idle", "exited"}
                           /\ Call(u) = "none" /\ Call(u)' = "none"
                           /\ Arg(u) = NULL /\ Arg(u)' = NULL
    BY <2>1 DEF IInv, MainAlone, Call, Arg, EnqLabels, DeqLabels
  <2>3. Contents' = <<>>
    BY <2>1 DEF Contents
  <2>4. Fifo!Destroy
    BY <2>2, <2>3 DEF Fifo!Destroy
  <2> QED BY <2>1, <2>4
          DEF Ordered, Destroyed, SwingsAlone, TailSwung, Fifo!Next
<1> QED BY <1>1, <1>2 DEF MainStep

(* Every step is one of FifoQueue or a stutter.                            *)
LEMMA NextFifo ==
  ASSUME IInv, Ordered, [Next]_vars
  PROVE  [Fifo!Next]_(Fifo!vars) /\ Ordered'
<1>1. ASSUME NEW t \in Threads, ThreadStep(t)
      PROVE  [Fifo!Next]_(Fifo!vars) /\ Ordered'
  BY <1>1, ThreadOrders, EnqStepMaps, DeqStepMaps, CallsMap DEF ThreadStep
<1> QED BY <1>1, MainMaps DEF Next, Finished

(* The constructor makes an empty queue.                                   *)
LEMMA InitFifo == Init => Fifo!Init /\ Ordered
<1> SUFFICES ASSUME Init PROVE Fifo!Init /\ Ordered
  OBVIOUS
<1>1. PICK p \in Nodes : HeapWithSentinel(p) /\ head = p /\ tail = p
  BY DEF Init
<1>2. PICK s : s = <<p>>
  OBVIOUS
<1>3. InOrder(s) /\ Tail(s) = <<>>
  BY <1>1, <1>2, HeapAssumption DEF InOrder, IsChain, HeapWithSentinel
<1>4. Contents = <<>>
  BY <1>1, <1>3, InOrderContents, HeapAssumption
<1>5. \A t \in Threads : Call(t) = "none" /\ Arg(t) = NULL /\ pc[t] = "idle"
  BY DEF Init, BenchmarkInit, Call, Arg, EnqLabels, DeqLabels
<1>6. Fifo!Init
  BY <1>4, <1>5 DEF Fifo!Init
<1> QED BY <1>3, <1>5, <1>6, InitDrained DEF Ordered, SwingsAlone, Swings

=============================================================================
