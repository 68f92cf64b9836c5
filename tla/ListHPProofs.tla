---------------------------- MODULE ListHPProofs ----------------------------
(***************************************************************************)
(* What the steps of ListHP do, for any number of threads, addresses, keys *)
(* and slots and any threshold: the invariant IInv is inductive, a slot    *)
(* that was stored before its node was found in the list keeps that node   *)
(* from being freed, every step is a step of SafeReclamation or a stutter, *)
(* and the linked nodes are the list (Placed). ProgramHPProofs draws the   *)
(* conclusions. What holds of the scheme whatever the structure, and of    *)
(* the list whatever the scheme, comes first.                              *)
(***************************************************************************)
EXTENDS ListHP, HeapProofs, SequenceTheorems

-----------------------------------------------------------------------------
(* What HazardPointers does: its types, what protect, clear and retireNode *)
(* leave as it was, and what a scan that has come far enough knows of the  *)
(* slots, for any labels of the structure.                                 *)

(* What erase leaves of a retired list: every entry but one, in the same   *)
(* order.                                                                  *)
LEMMA RemoveAtProperties ==
  ASSUME NEW S, NEW s \in Seq(S), NEW i \in 1..Len(s)
  PROVE  /\ RemoveAt(s, i) \in Seq(S)
         /\ Len(RemoveAt(s, i)) = Len(s) - 1
         /\ \A j \in 1..(Len(s) - 1) :
              RemoveAt(s, i)[j] = IF j < i THEN s[j] ELSE s[j + 1]
<1> DEFINE a == SubSeq(s, 1, i - 1)
           b == SubSeq(s, i + 1, Len(s))
<1>1. /\ Len(s) \in Nat /\ \A j \in 1..Len(s) : s[j] \in S
  BY LenProperties, ElementOfSeq
<1>2. /\ a \in Seq(S) /\ Len(a) = i - 1 /\ \A j \in 1..(i - 1) : a[j] = s[j]
  <2>1. \A j \in 1..(i - 1) : s[j] \in S
    BY <1>1
  <2>2. 1 \in Int /\ i - 1 \in Int /\ i \in Int
    BY <1>1
  <2>3. /\ a \in Seq(S)
        /\ Len(a) = IF 1 <= i - 1 THEN (i - 1) - 1 + 1 ELSE 0
        /\ \A j \in 1..((i - 1) - 1 + 1) : a[j] = s[1 + j - 1]
    BY <2>1, <2>2, SubSeqProperties
  <2> HIDE DEF a
  <2> QED BY <2>2, <2>3, <1>1
<1>3. /\ b \in Seq(S) /\ Len(b) = Len(s) - i
      /\ \A j \in 1..(Len(s) - i) : b[j] = s[i + j]
  <2>1. \A j \in (i + 1)..Len(s) : s[j] \in S
    BY <1>1
  <2>2. i + 1 \in Int /\ Len(s) \in Int /\ i \in Int
    BY <1>1
  <2>3. /\ b \in Seq(S)
        /\ Len(b) = IF i + 1 <= Len(s) THEN Len(s) - (i + 1) + 1 ELSE 0
        /\ \A j \in 1..(Len(s) - (i + 1) + 1) : b[j] = s[(i + 1) + j - 1]
    BY <2>1, <2>2, SubSeqProperties
  <2> HIDE DEF b
  <2>4. /\ Len(b) = Len(s) - i
        /\ \A j \in 1..(Len(s) - i) : b[j] = s[i + j]
    BY <2>2, <2>3, <1>1, SMTT(20)
  <2> QED BY <2>3, <2>4
<1> HIDE DEF a, b
<1>4. /\ a \o b \in Seq(S)
      /\ Len(a \o b) = Len(a) + Len(b)
      /\ \A j \in 1..(Len(a) + Len(b)) :
           (a \o b)[j] = IF j <= Len(a) THEN a[j] ELSE b[j - Len(a)]
  BY <1>2, <1>3, ConcatProperties
<1>5. RemoveAt(s, i) = a \o b
  BY DEF RemoveAt, a, b
<1>6. ASSUME NEW j \in 1..(Len(s) - 1)
      PROVE  (a \o b)[j] = IF j < i THEN s[j] ELSE s[j + 1]
  <2>1. CASE j < i
    BY <1>1, <1>2, <1>3, <1>4, <2>1
  <2>2. CASE i <= j
    <3>1. j - (i - 1) \in 1..(Len(s) - i) /\ ~(j <= Len(a)) /\ ~(j < i)
          /\ j \in 1..(Len(a) + Len(b)) /\ j - Len(a) = j - (i - 1)
      BY <1>1, <1>2, <1>3, <2>2
    <3>2. (a \o b)[j] = b[j - (i - 1)]
      BY <1>4, <3>1
    <3>3. b[j - (i - 1)] = s[i + (j - (i - 1))] /\ i + (j - (i - 1)) = j + 1
      BY <1>1, <1>3, <3>1
    <3> QED BY <3>1, <3>2, <3>3
  <2>3. j < i \/ i <= j
    BY <1>1
  <2> QED BY <2>1, <2>2, <2>3
<1> QED
  BY <1>1, <1>2, <1>3, <1>4, <1>5, <1>6

(* The entries and lengths of the retired lists.                           *)
LEMMA ListEntries ==
  ASSUME ScanTypes, NEW t \in Threads
  PROVE  /\ retiredPointerList[t] \in Seq(Nodes)
         /\ Len(retiredPointerList[t]) \in Nat
         /\ \A i \in 1..Len(retiredPointerList[t]) :
              retiredPointerList[t][i] \in Nodes
BY LenProperties, ElementOfSeq DEF ScanTypes

(* A step that leaves lists and scans alone and lets nobody begin a scan   *)
(* keeps the scheme's invariant.  A slot that goes on holding its node     *)
(* shields it; so does a higher slot that takes it over, and any slot that *)
(* holds a node which is not retired.                                      *)
LEMMA SchemeKept ==
  ASSUME NEW S, Scheme(S),
         UNCHANGED <<threadCount, retiredPointerList, retiredCount, scan>>,
         hazardPointerList' \in [Threads -> [Slots -> NodeOrNull]],
         \A m \in Nodes : status[m] = "retired" => status'[m] = "retired",
         \A u \in Threads : pc'[u] \in S => pc[u] \in S,
         Destroyed => Destroyed'
  PROVE  /\ Scheme(S)'
         /\ \A n : InNoList(n) => InNoList(n)'
         /\ \A n : \A u \in Threads, i, j \in Slots :
              /\ Shields(u, i, n, S) /\ i <= j /\ hazardPointerList'[u][j] = n
              => Shields(u, j, n, S)'
         /\ \A u \in Threads, j \in Slots, n \in Nodes :
              /\ u < threadCount /\ hazardPointerList'[u][j] = n
              /\ status'[n] # "retired"
              => Shields(u, j, n, S)'
<1>1. ScanTypes'
  BY DEF Scheme, ScanTypes
<1>2. RetiredOnce'
  BY ListEntries DEF Scheme, RetiredOnce
<1>3. ScanInRange(S)' /\ CountsRetired'
  BY DEF Scheme, ScanInRange, CountsRetired
<1>4. \A n : InNoList(n) => InNoList(n)'
  BY DEF InNoList
<1>5. ASSUME NEW u \in Threads, NEW i \in Slots, NEW j \in Slots, NEW n,
             Shields(u, i, n, S), i <= j, hazardPointerList'[u][j] = n
      PROVE  Shields(u, j, n, S)'
  <2>1. ASSUME NEW v \in Threads, pc'[v] \in S, scan'[v].deleteNode,
               Candidate(v)' = n
        PROVE  ~Past(scan'[v], u, j)
    <3>1. ~Past(scan[v], u, i)
      BY <1>5, <2>1 DEF Shields, Candidate
    <3>2. scan[v].k \in Nat /\ scan[v].j \in Slots /\ scan'[v] = scan[v]
      BY DEF Scheme, ScanTypes
    <3> QED BY <3>1, <3>2, <1>5 DEF Past, Slots, Threads
  <2> QED BY <1>5, <2>1 DEF Shields
<1>6. ASSUME NEW u \in Threads, NEW j \in Slots, NEW n \in Nodes,
             u < threadCount, hazardPointerList'[u][j] = n,
             status'[n] # "retired"
      PROVE  Shields(u, j, n, S)'
  <2>1. ASSUME NEW v \in Threads, pc'[v] \in S
        PROVE  status'[Candidate(v)'] = "retired"
    BY <1>2, <1>3, <2>1 DEF ScanInRange, RetiredOnce, Candidate
  <2> QED BY <1>6, <2>1 DEF Shields
<1> QED BY <1>1, <1>2, <1>3, <1>4, <1>5, <1>6 DEF Scheme

(* retireNode appends a node that is in no list and begins a scan, which   *)
(* has not looked at any slot.                                             *)
LEMMA PushEffect ==
  ASSUME NEW S, Scheme(S), NEW t \in Threads, NEW n \in Nodes,
         NEW scanning \in S, NEW done, done \notin S, pc[t] \notin S,
         RetirePush(t, n), InNoList(n),
         UNCHANGED threadCount,
         hazardPointerList' \in [Threads -> [Slots -> NodeOrNull]],
         \A m \in Nodes : status[m] = "retired" \/ m = n => status'[m] = "retired",
         \A u \in Threads :
           IF u = t THEN pc'[u] \in {scanning, done} ELSE pc'[u] = pc[u],
         UNCHANGED main
  PROVE  /\ Scheme(S)'
         /\ \A m : m # n /\ InNoList(m) => InNoList(m)'
         /\ \A m : \A u \in Threads, j \in Slots :
              Shields(u, j, m, S) /\ hazardPointerList'[u][j] = m
              => Shields(u, j, m, S)'
<1> DEFINE rl == retiredPointerList[t]
<1>1. /\ rl \in Seq(Nodes) /\ Len(rl) \in Nat
      /\ retiredPointerList'[t] = Append(rl, n)
      /\ \A u \in Threads : u # t => retiredPointerList'[u] = retiredPointerList[u]
  BY ListEntries DEF RetirePush, Scheme, ScanTypes
<1>2. /\ Append(rl, n) \in Seq(Nodes) /\ Len(Append(rl, n)) = Len(rl) + 1
      /\ \A i \in 1..Len(rl) : Append(rl, n)[i] = rl[i]
      /\ Append(rl, n)[Len(rl) + 1] = n
  BY <1>1, AppendProperties
<1>3. \A u \in Threads : \A i \in 1..Len(retiredPointerList'[u]) :
        \/ /\ i \in 1..Len(retiredPointerList[u])
           /\ retiredPointerList'[u][i] = retiredPointerList[u][i]
        \/ /\ u = t /\ i = Len(rl) + 1
           /\ retiredPointerList'[u][i] = n
  <2>1. ASSUME NEW i \in 1..Len(Append(rl, n))
        PROVE  \/ i \in 1..Len(rl) /\ Append(rl, n)[i] = rl[i]
               \/ i = Len(rl) + 1 /\ Append(rl, n)[i] = n
    BY <1>1, <1>2
  <2> HIDE DEF rl
  <2> QED BY <1>1, <2>1 DEF rl
<1>4. /\ scan'[t] = ScanStart
      /\ \A u \in Threads : u # t => scan'[u] = scan[u]
      /\ retiredCount'[t] = retiredCount[t] + 1
      /\ \A u \in Threads : u # t => retiredCount'[u] = retiredCount[u]
  BY DEF RetirePush, Scheme, ScanTypes
<1>5. ScanTypes'
  <2>1. ScanStart \in [i : Nat \ {0}, k : Nat, j : Slots, deleteNode : BOOLEAN]
    BY HPAssumption DEF ScanStart, Slots
  <2>2. retiredPointerList' \in [Threads -> Seq(Nodes)]
    BY <1>1, <1>2 DEF RetirePush, Scheme, ScanTypes
  <2> QED BY <2>1, <2>2 DEF RetirePush, Scheme, ScanTypes
<1>6. RetiredOnce'
  <2>1. \A u \in Threads : \A i \in 1..Len(retiredPointerList[u]) :
          /\ retiredPointerList[u][i] # n /\ retiredPointerList[u][i] \in Nodes
          /\ status[retiredPointerList[u][i]] = "retired"
    BY ListEntries DEF InNoList, Scheme, RetiredOnce
  <2>2. \A u \in Threads : \A i \in 1..Len(retiredPointerList'[u]) :
          status'[retiredPointerList'[u][i]] = "retired"
    BY <1>3, <2>1
  <2>3. ASSUME NEW u \in Threads, NEW i \in 1..Len(retiredPointerList'[u]),
               NEW v \in Threads, NEW j \in 1..Len(retiredPointerList'[v]),
               retiredPointerList'[v][j] = retiredPointerList'[u][i]
        PROVE  v = u /\ j = i
    <3>1. CASE retiredPointerList'[u][i] = n
      <4>1. u = t /\ i = Len(rl) + 1
        BY <1>3, <2>1, <3>1
      <4>2. v = t /\ j = Len(rl) + 1
        <5>1. CASE /\ j \in 1..Len(retiredPointerList[v])
                   /\ retiredPointerList'[v][j] = retiredPointerList[v][j]
          BY <2>1, <2>3, <3>1, <5>1
        <5> QED BY <1>3, <5>1
      <4> QED BY <4>1, <4>2
    <3>2. CASE retiredPointerList'[u][i] # n
      <4>1. /\ i \in 1..Len(retiredPointerList[u])
            /\ j \in 1..Len(retiredPointerList[v])
            /\ retiredPointerList[v][j] = retiredPointerList[u][i]
        BY <1>3, <2>3, <3>2
      <4> QED BY <4>1 DEF Scheme, RetiredOnce
    <3> QED BY <3>1, <3>2
  <2> QED BY <2>2, <2>3 DEF RetiredOnce
<1>7. ScanInRange(S)'
  <2>1. /\ 1 \in 1..Len(retiredPointerList'[t]) /\ 0 \in 0..threadCount'
        /\ ScanStart.i = 1 /\ ScanStart.k = 0
    BY <1>1, <1>2 DEF Scheme, ScanTypes, ScanStart
  <2> QED BY <2>1, <1>1, <1>4 DEF Scheme, ScanInRange
<1>8. CountsRetired'
  BY <1>1, <1>2, <1>4 DEF Scheme, CountsRetired, Destroyed
<1>9. ASSUME NEW m, m # n, InNoList(m) PROVE InNoList(m)'
  BY <1>3, <1>9 DEF InNoList
<1>10. ASSUME NEW u \in Threads, NEW j \in Slots, NEW m, Shields(u, j, m, S),
              hazardPointerList'[u][j] = m
       PROVE  Shields(u, j, m, S)'
  <2>1. ~Past(ScanStart, u, j)
    BY DEF ScanStart, Past, Threads, Slots
  <2>2. ASSUME NEW v \in Threads, v # t, pc'[v] \in S, scan'[v].deleteNode,
               Candidate(v)' = m
        PROVE  ~Past(scan'[v], u, j)
    BY <1>1, <1>4, <1>10, <2>2 DEF Shields, Candidate
  <2> QED BY <2>1, <2>2, <1>4, <1>10 DEF Shields
<1> QED BY <1>5, <1>6, <1>7, <1>8, <1>9, <1>10 DEF Scheme

(* What a load of the scan leaves of its progress: the slots passed are    *)
(* those passed before and the one just loaded.                            *)
LEMMA ScanSlotProgress ==
  ASSUME NEW S, Scheme(S), NEW t \in Threads, NEW scanning \in S,
         ScanSlot(t, scanning)
  PROVE  /\ \A u \in Threads : u # t => scan'[u] = scan[u]
         /\ scan' \in [Threads -> [i : Nat \ {0}, k : Nat, j : Slots,
                                   deleteNode : BOOLEAN]]
         /\ scan'[t].i = scan[t].i /\ scan'[t].k \in 0..threadCount
         /\ scan'[t].deleteNode =>
              /\ scan[t].deleteNode /\ ~Matches(t)
              /\ \A u \in Threads, j \in Slots : Past(scan'[t], u, j) =>
                   Past(scan[t], u, j) \/ (u = scan[t].k /\ j = scan[t].j)
<1> DEFINE s == scan[t]
           R == [i : Nat \ {0}, k : Nat, j : Slots, deleteNode : BOOLEAN]
<1>1. /\ scan \in [Threads -> R] /\ s \in R /\ threadCount \in Nat
      /\ s.k \in 0..(threadCount - 1)
  BY ThreadsAssumption
  DEF Scheme, ScanTypes, ScanInRange, ScanSlot, ScannedAll
<1>2. scan' = [scan EXCEPT ![t] = IF Matches(t) THEN Blocked(s) ELSE NextSlot(s)]
  BY DEF ScanSlot
<1>3. /\ scan'[t] \in R /\ scan'[t].i = s.i /\ scan'[t].k \in 0..threadCount
      /\ scan'[t].deleteNode =>
           /\ s.deleteNode /\ ~Matches(t)
           /\ \A u \in Threads, j \in Slots : Past(scan'[t], u, j) =>
                Past(s, u, j) \/ (u = s.k /\ j = s.j)
  <2>1. CASE Matches(t)
    <3>1. scan'[t] = [i |-> s.i, k |-> s.k + 1, j |-> 0, deleteNode |-> FALSE]
      BY <1>1, <1>2, <2>1 DEF Blocked
    <3> QED BY <3>1, <1>1, HPAssumption DEF Slots
  <2>2. CASE ~Matches(t) /\ s.j + 1 < SlotsPerThread
    <3>1. scan'[t] = [s EXCEPT !.j = s.j + 1]
      BY <1>1, <1>2, <2>2 DEF NextSlot
    <3>2. /\ scan'[t] \in R /\ scan'[t].i = s.i /\ scan'[t].k = s.k
          /\ scan'[t].j = s.j + 1 /\ scan'[t].deleteNode = s.deleteNode
      BY <3>1, <1>1, <2>2, HPAssumption DEF Slots
    <3>3. scan'[t].k \in 0..threadCount
      BY <3>2, <1>1
    <3>4. \A u \in Threads, j \in Slots : Past(scan'[t], u, j) =>
            Past(s, u, j) \/ (u = s.k /\ j = s.j)
      BY <3>2, <1>1, HPAssumption DEF Slots, Past, Threads
    <3> QED BY <3>2, <3>3, <3>4, <2>2
  <2>3. CASE ~Matches(t) /\ ~(s.j + 1 < SlotsPerThread)
    <3>1. scan'[t] = [i |-> s.i, k |-> s.k + 1, j |-> 0,
                      deleteNode |-> s.deleteNode]
      BY <1>1, <1>2, <2>3 DEF NextSlot
    <3>2. scan'[t].k \in 0..threadCount /\ 0 \in Slots
      BY <3>1, <1>1, HPAssumption DEF Slots
    <3>3. \A u \in Threads, j \in Slots : Past(scan'[t], u, j) =>
            Past(s, u, j) \/ (u = s.k /\ j = s.j)
      BY <3>1, <1>1, <2>3, HPAssumption DEF Slots, Past, Threads
    <3> QED BY <3>1, <3>2, <3>3, <1>1, <2>3
  <2> QED BY <2>1, <2>2, <2>3
<1> QED BY <1>1, <1>2, <1>3

(* The effect of a step on the scheme, its lists and the shields.          *)
ScanKeeps(S) ==
  /\ Scheme(S)'
  /\ \A n : InNoList(n) => InNoList(n)'
  /\ \A n : \A u \in Threads, j \in Slots :
       Shields(u, j, n, S) => Shields(u, j, n, S)'

(* A load of the scan.                                                     *)
LEMMA ScanSlotEffect ==
  ASSUME NEW S, Scheme(S), NEW t \in Threads, NEW scanning \in S,
         ScanSlot(t, scanning), UNCHANGED main
  PROVE  ScanKeeps(S)
<1>1. /\ UNCHANGED <<heapVars, hpVars, pc, ptr, last, slot>>
      /\ pc[t] = scanning
  BY DEF ScanSlot
<1>2. ScanTypes' /\ RetiredOnce' /\ CountsRetired'
  <2>1. ScanTypes'
    BY <1>1, ScanSlotProgress DEF Scheme, ScanTypes, hpVars
  <2>2. RetiredOnce'
    BY <1>1 DEF Scheme, RetiredOnce, hpVars, heapVars
  <2>3. CountsRetired'
    BY <1>1 DEF Scheme, CountsRetired, Destroyed, hpVars
  <2> QED BY <2>1, <2>2, <2>3
<1>3. ScanInRange(S)'
  BY <1>1, ScanSlotProgress DEF Scheme, ScanInRange, hpVars
<1>4. \A n : InNoList(n) => InNoList(n)'
  BY <1>1 DEF InNoList, hpVars
<1>5. ASSUME NEW u \in Threads, NEW j \in Slots, NEW n, Shields(u, j, n, S)
      PROVE  Shields(u, j, n, S)'
  <2>1. ASSUME NEW v \in Threads, pc'[v] \in S, scan'[v].deleteNode,
               Candidate(v)' = n
        PROVE  ~Past(scan'[v], u, j)
    <3>1. CASE v = t
      <4>1. scan[t].deleteNode /\ Candidate(t) = n
        BY <1>1, <2>1, <3>1, ScanSlotProgress DEF Candidate, hpVars
      <4>2. ~Past(scan[t], u, j) /\ hazardPointerList[u][j] = n
        BY <1>1, <1>5, <4>1 DEF Shields
      <4>3. ~(u = scan[t].k /\ j = scan[t].j)
        BY <2>1, <3>1, <4>1, <4>2, ScanSlotProgress DEF Matches
      <4> QED BY <2>1, <3>1, <4>2, <4>3, ScanSlotProgress
    <3>2. CASE v # t
      BY <1>1, <1>5, <2>1, <3>2, ScanSlotProgress DEF Shields, Candidate, hpVars
    <3> QED BY <3>1, <3>2
  <2> QED BY <1>1, <1>5, <2>1 DEF Shields, hpVars
<1> QED BY <1>2, <1>3, <1>4, <1>5 DEF Scheme, ScanKeeps

(* Where a scan goes on after a candidate.                                 *)
LEMMA ScanContinues ==
  ASSUME NEW S, Scheme(S), NEW t \in Threads, NEW scanning \in S, NEW done,
         done \notin S, pc = [u \in Threads |-> pc[u]], NEW left \in Nat,
         ScanContinue(t, scanning, done, left)
  PROVE  /\ pc[t] = scanning /\ pc'[t] \in {scanning, done}
         /\ \A u \in Threads : u # t => pc'[u] = pc[u] /\ scan'[u] = scan[u]
         /\ scan' \in [Threads -> [i : Nat \ {0}, k : Nat, j : Slots,
                                   deleteNode : BOOLEAN]]
         /\ pc'[t] = scanning => scan'[t].i \in 1..left
         /\ scan'[t].k = 0 /\ scan'[t].j = 0
<1> DEFINE s == scan[t]
           R == [i : Nat \ {0}, k : Nat, j : Slots, deleteNode : BOOLEAN]
<1>1. scan \in [Threads -> R] /\ s \in R
  BY DEF Scheme, ScanTypes
<1>2. /\ pc[t] = scanning
      /\ pc' = [pc EXCEPT ![t] = IF s.i + 1 > left THEN done ELSE scanning]
      /\ scan' = [scan EXCEPT ![t] = IF s.i + 1 > left THEN ScanStart
                                     ELSE NextCandidate(t)]
  BY DEF ScanContinue, Goto
<1>3. ScanStart \in R /\ ScanStart.k = 0 /\ ScanStart.j = 0
  BY HPAssumption DEF ScanStart, Slots
<1>4. CASE s.i + 1 > left
  BY <1>1, <1>2, <1>3, <1>4
<1>5. CASE ~(s.i + 1 > left)
  <2>1. scan'[t] = [i |-> s.i + 1, k |-> 0, j |-> 0, deleteNode |-> s.deleteNode]
    BY <1>1, <1>2, <1>5 DEF NextCandidate
  <2>2. scan'[t] \in R /\ s.i + 1 \in 1..left
    BY <2>1, <1>1, <1>5, HPAssumption DEF Slots
  <2>3. scan' = [scan EXCEPT ![t] = scan'[t]]
    BY <1>2, <1>5
  <2>4. scan' \in [Threads -> R] /\ \A u \in Threads : u # t => scan'[u] = scan[u]
    BY <2>2, <2>3, <1>1
  <2> QED BY <2>1, <2>2, <2>4, <1>2, <1>5
<1> QED BY <1>4, <1>5

(* A candidate that a slot holds stays in its list.                        *)
LEMMA KeepEffect ==
  ASSUME NEW S, Scheme(S), NEW t \in Threads, NEW scanning \in S, NEW done,
         done \notin S, pc = [u \in Threads |-> pc[u]],
         Keep(t, scanning, done), UNCHANGED main
  PROVE  ScanKeeps(S)
<1>1. /\ UNCHANGED <<heapVars, hpVars>>
      /\ ScanContinue(t, scanning, done, Len(retiredPointerList[t]))
  BY DEF Keep
<1>2. Len(retiredPointerList[t]) \in Nat /\ threadCount \in Nat
  BY ListEntries DEF Scheme, ScanTypes
<1>3. /\ pc[t] = scanning /\ pc'[t] \in {scanning, done}
      /\ \A u \in Threads : u # t => pc'[u] = pc[u] /\ scan'[u] = scan[u]
      /\ scan' \in [Threads -> [i : Nat \ {0}, k : Nat, j : Slots,
                                deleteNode : BOOLEAN]]
      /\ pc'[t] = scanning => scan'[t].i \in 1..Len(retiredPointerList[t])
      /\ scan'[t].k = 0 /\ scan'[t].j = 0
  BY <1>1, <1>2, ScanContinues
<1>4. ScanTypes' /\ RetiredOnce' /\ CountsRetired'
  <2>1. ScanTypes'
    BY <1>1, <1>3 DEF Scheme, ScanTypes, hpVars
  <2>2. RetiredOnce'
    BY <1>1 DEF Scheme, RetiredOnce, hpVars, heapVars
  <2>3. CountsRetired'
    BY <1>1 DEF Scheme, CountsRetired, Destroyed, hpVars
  <2> QED BY <2>1, <2>2, <2>3
<1>5. ScanInRange(S)'
  BY <1>1, <1>2, <1>3 DEF Scheme, ScanInRange, hpVars
<1>6. \A n : InNoList(n) => InNoList(n)'
  BY <1>1 DEF InNoList, hpVars
<1>7. ASSUME NEW u \in Threads, NEW j \in Slots, NEW n, Shields(u, j, n, S)
      PROVE  Shields(u, j, n, S)'
  <2>1. ~Past(scan'[t], u, j)
    BY <1>3 DEF Past, Threads, Slots
  <2>2. ASSUME NEW v \in Threads, v # t, pc'[v] \in S, scan'[v].deleteNode,
               Candidate(v)' = n
        PROVE  ~Past(scan'[v], u, j)
    BY <1>1, <1>3, <1>7, <2>2 DEF Shields, Candidate, hpVars
  <2> QED BY <1>1, <1>7, <2>1, <2>2 DEF Shields, hpVars
<1> QED BY <1>4, <1>5, <1>6, <1>7 DEF Scheme, ScanKeeps

(* A candidate that the whole scan has not found is deleted and erased:    *)
(* it was in one place, and shielded by no slot.                           *)
LEMMA ReclaimEffect ==
  ASSUME NEW S, Scheme(S), NEW t \in Threads, NEW scanning \in S, NEW done,
         done \notin S, pc = [u \in Threads |-> pc[u]], status \in [Nodes -> Statuses],
         Reclaim(t, scanning, done), UNCHANGED main, ~Destroyed
  PROVE  /\ ScanKeeps(S)
         /\ \E c \in Nodes :
              /\ c = Candidate(t) /\ Delete({c})
              /\ status[c] = "retired" /\ ~InNoList(c) /\ InNoList(c)'
              /\ \A u \in Threads, j \in Slots : ~Shields(u, j, c, S)
<1> DEFINE c == Candidate(t)
           rl == retiredPointerList[t]
           R == [i : Nat \ {0}, k : Nat, j : Slots, deleteNode : BOOLEAN]
<1>1. /\ scan[t].deleteNode /\ scan[t].k = threadCount
      /\ ScanContinue(t, scanning, done, Len(rl) - 1)
      /\ Delete({c})
      /\ retiredPointerList' =
           [retiredPointerList EXCEPT ![t] = RemoveAt(rl, scan[t].i)]
      /\ retiredCount' = [retiredCount EXCEPT ![t] = @ - 1]
      /\ UNCHANGED <<threadCount, hazardPointerList>>
  BY DEF Reclaim, ScannedAll
<1>2. pc[t] = scanning
  BY <1>1 DEF ScanContinue, Goto
<1>3. /\ rl \in Seq(Nodes) /\ Len(rl) \in Nat /\ scan[t].i \in 1..Len(rl)
      /\ Len(rl) - 1 \in Nat
  <2>1. rl \in Seq(Nodes) /\ Len(rl) \in Nat /\ scan[t].i \in 1..Len(rl)
    BY <1>2, ListEntries DEF Scheme, ScanInRange
  <2> QED BY <2>1
<1>4. c = rl[scan[t].i] /\ c \in Nodes /\ status[c] = "retired" /\ ~InNoList(c)
  BY <1>3, ListEntries DEF Candidate, Scheme, RetiredOnce, InNoList
<1>5. ASSUME NEW u \in Threads, NEW j \in Slots PROVE ~Shields(u, j, c, S)
  <2>1. ~(u < threadCount) \/ Past(scan[t], u, j)
    BY <1>1, <1>5 DEF Past, Threads, Scheme, ScanTypes
  <2> QED BY <1>1, <1>2, <2>1 DEF Shields
<1>6. /\ pc'[t] \in {scanning, done}
      /\ \A u \in Threads : u # t => pc'[u] = pc[u] /\ scan'[u] = scan[u]
      /\ scan' \in [Threads -> R]
      /\ pc'[t] = scanning => scan'[t].i \in 1..(Len(rl) - 1)
      /\ scan'[t].k = 0 /\ scan'[t].j = 0
  BY <1>1, <1>3, ScanContinues
<1>7. /\ retiredPointerList'[t] \in Seq(Nodes)
      /\ Len(retiredPointerList'[t]) = Len(rl) - 1
      /\ \A i \in 1..(Len(rl) - 1) : retiredPointerList'[t][i] =
            IF i < scan[t].i THEN rl[i] ELSE rl[i + 1]
      /\ \A u \in Threads : u # t => retiredPointerList'[u] = retiredPointerList[u]
      /\ retiredPointerList' \in [Threads -> Seq(Nodes)]
  <2> DEFINE r == RemoveAt(rl, scan[t].i)
  <2>1. /\ r \in Seq(Nodes) /\ Len(r) = Len(rl) - 1
        /\ \A i \in 1..(Len(rl) - 1) :
             r[i] = IF i < scan[t].i THEN rl[i] ELSE rl[i + 1]
    BY <1>3, RemoveAtProperties
  <2>2. retiredPointerList' = [retiredPointerList EXCEPT ![t] = r]
    BY <1>1
  <2>3. retiredPointerList \in [Threads -> Seq(Nodes)]
    BY DEF Scheme, ScanTypes
  <2> HIDE DEF r
  <2>4. retiredPointerList'[t] = r
    BY <2>2, <2>3
  <2> QED BY <2>1, <2>2, <2>3, <2>4
(* Where an entry of the lists after the step was before.                  *)
<1> DEFINE From(u, i) == IF u = t /\ i >= scan[t].i THEN i + 1 ELSE i
<1>8. ASSUME NEW u \in Threads, NEW i \in 1..Len(retiredPointerList'[u])
      PROVE  /\ From(u, i) \in 1..Len(retiredPointerList[u])
             /\ retiredPointerList'[u][i] = retiredPointerList[u][From(u, i)]
             /\ u = t => From(u, i) # scan[t].i
  <2>1. CASE u = t
    <3>1. i \in 1..(Len(rl) - 1)
      BY <2>1, <1>7
    <3>2. From(u, i) \in 1..Len(rl) /\ From(u, i) # scan[t].i
      BY <3>1, <2>1, <1>3
    <3>3. rl[From(u, i)] = IF i < scan[t].i THEN rl[i] ELSE rl[i + 1]
      BY <3>1, <2>1, <1>3
    <3>4. retiredPointerList'[t][i] = IF i < scan[t].i THEN rl[i] ELSE rl[i + 1]
      BY <3>1, <1>7
    <3> QED BY <2>1, <3>2, <3>3, <3>4
  <2>2. CASE u # t
    BY <2>2, <1>7
  <2> QED BY <2>1, <2>2
<1>9. ASSUME NEW u \in Threads, NEW i \in 1..Len(retiredPointerList'[u]),
             NEW v \in Threads, NEW j \in 1..Len(retiredPointerList'[v]),
             retiredPointerList'[v][j] = retiredPointerList'[u][i]
      PROVE  v = u /\ j = i
  <2>1. v = u /\ From(v, j) = From(u, i)
    <3> HIDE DEF From
    <3>1. /\ From(u, i) \in 1..Len(retiredPointerList[u])
          /\ From(v, j) \in 1..Len(retiredPointerList[v])
          /\ retiredPointerList[v][From(v, j)] = retiredPointerList[u][From(u, i)]
      BY <1>8, <1>9
    <3>2. RetiredOnce
      BY DEF Scheme
    <3> QED BY <3>1, <3>2 DEF RetiredOnce
  <2>2. i \in Nat /\ j \in Nat /\ scan[t].i \in Nat
    <3>1. Len(retiredPointerList'[u]) \in Nat /\ Len(retiredPointerList'[v]) \in Nat
      BY <1>7, LenProperties
    <3> QED BY <3>1, <1>3
  <2> QED BY <2>1, <2>2
<1>10. \A u \in Threads : \A i \in 1..Len(retiredPointerList'[u]) :
         retiredPointerList'[u][i] # c
  <2> HIDE DEF From
  <2> QED BY <1>3, <1>4, <1>8 DEF Scheme, RetiredOnce
<1>11. /\ \A m \in Nodes : m # c => status'[m] = status[m]
  BY <1>1, <1>4 DEF Delete
<1>12. RetiredOnce'
  <2> HIDE DEF From
  <2>1. ASSUME NEW u \in Threads, NEW i \in 1..Len(retiredPointerList'[u])
        PROVE  status'[retiredPointerList'[u][i]] = "retired"
    <3>1. retiredPointerList'[u][i] \in Nodes
      BY <1>8, ListEntries DEF Scheme
    <3>2. status[retiredPointerList'[u][i]] = "retired"
      BY <1>8 DEF Scheme, RetiredOnce
    <3> QED BY <3>1, <3>2, <1>10, <1>11
  <2> QED BY <2>1, <1>9 DEF RetiredOnce
<1>13. ScanTypes'
  <2>1. retiredCount[t] - 1 \in Nat /\ retiredCount \in [Threads -> Nat]
    BY <1>3 DEF Scheme, CountsRetired, ScanTypes
  <2>2. retiredCount' \in [Threads -> Nat]
    BY <2>1, <1>1
  <2> QED BY <2>2, <1>1, <1>6, <1>7 DEF Scheme, ScanTypes
<1>14. ScanInRange(S)'
  <2>1. /\ 0 \in 0..threadCount' /\ threadCount' = threadCount
    BY <1>1 DEF Scheme, ScanTypes
  <2> QED BY <2>1, <1>6, <1>7 DEF Scheme, ScanInRange
<1>15. CountsRetired'
  BY <1>1, <1>3, <1>7 DEF Scheme, ScanTypes, CountsRetired, Destroyed
<1>16. \A n : InNoList(n) => InNoList(n)'
  <2> HIDE DEF From
  <2> QED BY <1>8 DEF InNoList
<1>17. ASSUME NEW u \in Threads, NEW j \in Slots, NEW n, Shields(u, j, n, S)
       PROVE  Shields(u, j, n, S)'
  <2>1. ~Past(scan'[t], u, j)
    BY <1>6 DEF Past, Threads, Slots
  <2>2. ASSUME NEW v \in Threads, v # t, pc'[v] \in S, scan'[v].deleteNode,
               Candidate(v)' = n
        PROVE  ~Past(scan'[v], u, j)
    BY <1>6, <1>7, <1>17, <2>2 DEF Shields, Candidate
  <2> QED BY <1>1, <1>17, <2>1, <2>2 DEF Shields
<1>18. \A n : n = c => InNoList(n)'
  BY <1>10 DEF InNoList
<1>19. ScanKeeps(S)
  BY <1>12, <1>13, <1>14, <1>15, <1>16, <1>17 DEF Scheme, ScanKeeps
<1> QED BY <1>1, <1>4, <1>5, <1>18, <1>19

(* The scan as a whole.                                                    *)
LEMMA ScanEffect ==
  ASSUME NEW S, Scheme(S), NEW t \in Threads, NEW scanning \in S, NEW done,
         done \notin S, pc = [u \in Threads |-> pc[u]], status \in [Nodes -> Statuses],
         RetireScan(t, scanning, done), UNCHANGED main, ~Destroyed
  PROVE  /\ ScanKeeps(S)
         /\ UNCHANGED <<threadCount, hazardPointerList, ptr, last, slot>>
         /\ pc[t] = scanning /\ pc'[t] \in {scanning, done}
         /\ pc' = [pc EXCEPT ![t] = pc'[t]]
         /\ \/ UNCHANGED heapVars
            \/ \E c \in Nodes :
                 /\ c = Candidate(t) /\ Delete({c})
                 /\ status[c] = "retired" /\ ~InNoList(c) /\ InNoList(c)'
                 /\ \A u \in Threads, j \in Slots : ~Shields(u, j, c, S)
<1>1. CASE ScanSlot(t, scanning)
  BY <1>1, ScanSlotEffect DEF ScanSlot, hpVars
<1>2. CASE Keep(t, scanning, done)
  <2>1. ScanContinue(t, scanning, done, Len(retiredPointerList[t]))
    BY <1>2 DEF Keep
  <2>2. pc[t] = scanning /\ pc'[t] \in {scanning, done} /\ pc' = [pc EXCEPT ![t] = pc'[t]]
    BY <2>1 DEF ScanContinue, Goto
  <2> QED BY <1>2, <2>2, KeepEffect DEF Keep, hpVars
<1>3. CASE Reclaim(t, scanning, done)
  <2>1. ScanContinue(t, scanning, done, Len(retiredPointerList[t]) - 1)
    BY <1>3 DEF Reclaim
  <2>2. pc[t] = scanning /\ pc'[t] \in {scanning, done} /\ pc' = [pc EXCEPT ![t] = pc'[t]]
    BY <2>1 DEF ScanContinue, Goto
  <2> QED BY <1>3, <2>2, ReclaimEffect DEF Reclaim
<1> QED BY <1>1, <1>2, <1>3 DEF RetireScan

(* A node is in one entry of the retired lists, or in none.                *)
LEMMA OneEntry ==
  ASSUME ScanTypes, RetiredOnce, NEW n
  PROVE  IF InNoList(n) THEN EntriesOf(retiredPointerList, n) = {}
         ELSE /\ status[n] = "retired"
              /\ \E x : EntriesOf(retiredPointerList, n) = {x}
<1>1. DOMAIN retiredPointerList = Threads
  BY DEF ScanTypes
<1>2. CASE InNoList(n)
  BY <1>1, <1>2, EntriesDef DEF InNoList
<1>3. CASE ~InNoList(n)
  <2>0. PICK t \in Threads : \E i \in 1..Len(retiredPointerList[t]) :
          retiredPointerList[t][i] = n
    BY <1>3 DEF InNoList
  <2>1. PICK i \in 1..Len(retiredPointerList[t]) : retiredPointerList[t][i] = n
    BY <2>0
  <2>2. EntriesOf(retiredPointerList, n) = {<<t, i>>}
    BY <1>1, <2>1, EntriesDef DEF RetiredOnce
  <2> QED BY <1>3, <2>1, <2>2 DEF RetiredOnce
<1> QED BY <1>2, <1>3

(* A node with an entry is in the set of nodes that a destructor deletes.  *)
LEMMA EntriesRetired ==
  ASSUME ScanTypes, NEW n, ~InNoList(n)
  PROVE  \E t \in Threads : n \in Retired(t)
<1>1. PICK t \in Threads : \E i \in 1..Len(retiredPointerList[t]) :
          retiredPointerList[t][i] = n
  BY DEF InNoList
<1>2. DOMAIN retiredPointerList[t] = 1..Len(retiredPointerList[t])
  BY ListEntries, LenProperties
<1> QED BY <1>1, <1>2 DEF Retired, ToSet

(* retireNode adds an entry for its node.                                  *)
LEMMA PushEntry ==
  ASSUME ScanTypes, NEW t \in Threads, NEW n \in Nodes, RetirePush(t, n)
  PROVE  \A m : InNoList(m)' <=> InNoList(m) /\ m # n
<1> DEFINE rl == retiredPointerList[t]
<1>1. /\ rl \in Seq(Nodes) /\ Len(rl) \in Nat
      /\ retiredPointerList' = [retiredPointerList EXCEPT ![t] = Append(rl, n)]
  BY ListEntries DEF RetirePush
<1>2. /\ Len(Append(rl, n)) = Len(rl) + 1
      /\ \A i \in 1..Len(rl) : Append(rl, n)[i] = rl[i]
      /\ Append(rl, n)[Len(rl) + 1] = n
  BY <1>1, AppendProperties
<1>3. /\ retiredPointerList'[t] = Append(rl, n)
      /\ \A u \in Threads : u # t => retiredPointerList'[u] = retiredPointerList[u]
  BY <1>1 DEF ScanTypes
<1>4. ASSUME NEW m, InNoList(m), m # n PROVE InNoList(m)'
  BY <1>1, <1>2, <1>3, <1>4 DEF InNoList
<1>5. ASSUME NEW m, InNoList(m)' PROVE InNoList(m) /\ m # n
  <2>1. m # n
    BY <1>1, <1>2, <1>3, <1>5 DEF InNoList
  <2>2. ASSUME NEW u \in Threads, NEW i \in 1..Len(retiredPointerList[u])
        PROVE  retiredPointerList[u][i] # m
    <3>1. CASE u = t
      <4>1. i \in 1..Len(Append(rl, n)) /\ Append(rl, n)[i] = rl[i]
        BY <1>1, <1>2, <2>2, <3>1
      <4> QED BY <1>3, <1>5, <3>1, <4>1 DEF InNoList
    <3>2. CASE u # t
      BY <1>3, <1>5, <2>2, <3>2 DEF InNoList
    <3> QED BY <3>1, <3>2
  <2> QED BY <2>1, <2>2 DEF InNoList
<1> QED BY <1>4, <1>5

(* The scan removes the entry of the node it deletes, and no other.        *)
LEMMA ScanEntries ==
  ASSUME ScanTypes, NEW t \in Threads, NEW scanning, NEW done,
         scan[t].i \in 1..Len(retiredPointerList[t]),
         RetireScan(t, scanning, done)
  PROVE  \/ UNCHANGED <<heapVars, retiredPointerList>>
         \/ /\ Delete({Candidate(t)})
            /\ \A m : m # Candidate(t) /\ InNoList(m)' => InNoList(m)
<1>1. CASE ScanSlot(t, scanning) \/ Keep(t, scanning, done)
  BY <1>1 DEF ScanSlot, Keep, hpVars
<1>2. CASE Reclaim(t, scanning, done)
  <2> DEFINE rl == retiredPointerList[t]
             e == scan[t].i
  <2>1. /\ rl \in Seq(Nodes) /\ Len(rl) \in Nat /\ e \in 1..Len(rl)
        /\ retiredPointerList' = [retiredPointerList EXCEPT ![t] = RemoveAt(rl, e)]
    BY <1>2, ListEntries DEF Reclaim
  <2>2. /\ Len(RemoveAt(rl, e)) = Len(rl) - 1
        /\ \A j \in 1..(Len(rl) - 1) :
             RemoveAt(rl, e)[j] = IF j < e THEN rl[j] ELSE rl[j + 1]
    BY <2>1, RemoveAtProperties
  <2>3. /\ retiredPointerList'[t] = RemoveAt(rl, e)
        /\ \A u \in Threads : u # t => retiredPointerList'[u] = retiredPointerList[u]
    BY <2>1 DEF ScanTypes
  <2> HIDE DEF rl, e
  <2>4. ASSUME NEW m, m # Candidate(t), InNoList(m)',
               NEW u \in Threads, NEW i \in 1..Len(retiredPointerList[u]),
               retiredPointerList[u][i] = m
        PROVE  FALSE
    <3>1. CASE u # t
      BY <2>3, <2>4, <3>1 DEF InNoList
    <3>2. CASE u = t
      <4>1. i \in 1..Len(rl) /\ i # e /\ rl[i] = m
        BY <2>4, <3>2 DEF Candidate, rl, e
      <4>2. CASE i < e
        <5>1. i \in 1..(Len(rl) - 1) /\ RemoveAt(rl, e)[i] = m
          BY <2>1, <2>2, <4>1, <4>2
        <5> QED BY <2>2, <2>3, <2>4, <5>1 DEF InNoList
      <4>3. CASE i > e
        <5>1. /\ i - 1 \in 1..(Len(rl) - 1) /\ ~(i - 1 < e) /\ (i - 1) + 1 = i
          BY <2>1, <4>1, <4>3
        <5>2. RemoveAt(rl, e)[i - 1] = m
          BY <2>2, <4>1, <5>1
        <5> QED BY <2>2, <2>3, <2>4, <5>1, <5>2 DEF InNoList
      <4> QED BY <2>1, <4>1, <4>2, <4>3
    <3> QED BY <3>1, <3>2
  <2> QED BY <1>2, <2>4 DEF Reclaim, InNoList
<1> QED BY <1>1, <1>2 DEF RetireScan

-----------------------------------------------------------------------------
(* What holds of the list whatever the scheme: each step keeps its shape   *)
(* and what a thread knows of the nodes it has in its hands, provided that *)
(* the scheme frees no node a thread still relies on without marking the   *)
(* locals that name it as dangling.                                        *)

(* Thread u goes to a label at which no more is known than before.         *)
Relabels(u) ==
  \/ pc'[u] = pc[u]
  \/ /\ pc'[u] \notin {"add.discard", "add.cas", "remove.cas"}
     /\ curr[u] = NULL => pc'[u] \in NoCurrLabels
     /\ pc'[u] \in PassedLabels => pc[u] \in PassedLabels
     /\ pc'[u] \in HelpingLabels => pc[u] \in HelpingLabels

(* The locals of a thread stay as they are.                                *)
Same(u) ==
  /\ Relabels(u) /\ pred'[u] = pred[u] /\ curr'[u] = curr[u]
  /\ nxt'[u] = nxt[u] /\ node'[u] = node[u] /\ op'[u] = op[u]

(* What a step may do to the nodes u relies on.                            *)
Undisturbed(u) ==
  /\ Same(u) /\ tail' = tail
  /\ \A n \in Nodes :
       /\ status[n] = "linked" => status'[n] \in {"linked", "retired"}
       /\ status[n] = "retired" => status'[n] \in {"retired", "free"}
       /\ status[n] = "retired" /\ status'[n] = "free" =>
            \A r \in Roles : Named(u, r) = n => r \in dangling'[u]
  /\ \A n \in marked : status'[n] = "free" \/ (n \in marked' /\ next'[n] = next[n])
  /\ dangling[u] \subseteq dangling'[u]
  /\ node[u] # NULL =>
       /\ status'[node[u]] = "private" /\ next'[node[u]] = next[node[u]]
       /\ \A v \in Threads : node'[v] = node[u] => node[v] = node[u]

(* What a thread relies on stays true when another one takes such a step.  *)
LEMMA OthersKept ==
  ASSUME ListInv, NEW u \in Threads, Undisturbed(u)
  PROVE  OwnsNode(u)' /\ Traverses(u)'
<1> DEFINE N == getUnmarked(nxt[u])
<1>1. /\ OwnsNode(u) /\ Traverses(u)
      /\ pred[u] \in NodeOrNull /\ curr[u] \in NodeOrNull
      /\ nxt[u] \in NodeOrNull \X BOOLEAN /\ node[u] \in NodeOrNull
      /\ N \in NodeOrNull
  BY DEF ListInv, LoopedTypeOK, ListTypeOK, getUnmarked
<1>2. /\ Same(u) /\ tail' = tail /\ dangling[u] \subseteq dangling'[u]
      /\ getUnmarked(nxt[u])' = N /\ isMarked(nxt[u])' = isMarked(nxt[u])
  BY DEF Undisturbed, Same, getUnmarked, isMarked
<1>3. OwnsNode(u)'
  <2>1. CASE node[u] = NULL
    BY <1>1, <1>2, <2>1 DEF OwnsNode, Same, Relabels
  <2>2. CASE node[u] # NULL
    BY <1>1, <1>2, <2>2 DEF OwnsNode, Same, Relabels, Undisturbed
  <2> QED BY <2>1, <2>2
(* A node u names as one that is not deleted is alive.                     *)
<1>4. /\ pred[u] # NULL /\ "pred" \notin dangling'[u] => Live(pred[u])'
      /\ curr[u] # NULL /\ "curr" \notin dangling'[u] =>
           Live(curr[u]) /\ Live(curr[u])'
      /\ "nxt" \notin dangling'[u] /\ Live(N) => Live(N)'
  <2>1. ASSUME NEW r \in Roles, r \notin dangling'[u], Live(Named(u, r))
        PROVE  Named(u, r) \in Nodes /\ status'[Named(u, r)] \in {"linked", "retired"}
    BY <2>1 DEF Undisturbed, Live
  <2>2. /\ Named(u, "pred") = pred[u] /\ Named(u, "curr") = curr[u]
        /\ Named(u, "nxt") = N
        /\ "pred" \in Roles /\ "curr" \in Roles /\ "nxt" \in Roles
    BY DEF Named, Roles
  <2>3. /\ pred[u] # NULL /\ "pred" \notin dangling'[u] => Live(pred[u])
        /\ curr[u] # NULL /\ "curr" \notin dangling'[u] => Live(curr[u])
    BY <1>1, <1>2 DEF Traverses
  <2> QED BY <1>2, <2>1, <2>2, <2>3 DEF Live, Same
<1>5. curr[u] # NULL /\ "curr" \notin dangling'[u] /\ status'[curr[u]] = "linked"
        => status[curr[u]] = "linked"
  BY <1>4 DEF Live, Undisturbed
<1>6. ASSUME N # NULL, "nxt" \notin dangling'[u],
             \/ pc[u] \in HelpingLabels
             \/ /\ curr[u] # NULL /\ "curr" \notin dangling'[u]
                /\ status'[curr[u]] = "linked"
      PROVE  Live(N)'
  <2>1. /\ "nxt" \notin dangling[u]
        /\ "curr" \notin dangling'[u] => "curr" \notin dangling[u]
    BY <1>2, <1>6
  <2>2. Live(N)
    BY <1>1, <1>5, <1>6, <2>1 DEF Traverses
  <2> QED BY <1>4, <1>6, <2>2
<1>7. ASSUME isMarked(nxt[u]) \/ pc[u] = "remove.cas", N # NULL,
             "curr" \notin dangling'[u]
      PROVE  curr[u] \in marked' /\ next'[curr[u]] = N
  <2>1. curr[u] \in marked /\ next[curr[u]] = N
    BY <1>1, <1>2, <1>7 DEF Traverses
  <2>2. curr[u] \in Nodes /\ status[curr[u]] \in {"linked", "retired"}
    BY <2>1 DEF ListInv, ListShape, Live
  <2>3. curr[u] # NULL
    BY <2>2, HeapAssumption
  <2> QED BY <1>2, <1>4, <1>7, <2>1, <2>3 DEF Live, Undisturbed, Same
<1>8. Traverses(u)'
  BY <1>1, <1>2, <1>4, <1>6, <1>7 DEF Traverses, Same, Relabels
<1> QED BY <1>3, <1>8

(* A step that leaves the nodes alone.                                     *)
LEMMA LocalKept ==
  ASSUME ListInv, NEW t \in Threads, LoopedTypeOK',
         UNCHANGED <<heapVars, head, tail, marked, node>>,
         \A u \in Threads : u # t => Same(u) /\ dangling'[u] = dangling[u],
         op'[t] = "add" => op[t] = "add",
         pc'[t] \notin {"add.discard", "add.cas"} \/ OwnsNode(t)',
         Traverses(t)'
  PROVE  ListInv'
<1>1. ListShape'
  BY DEF ListInv, ListShape, Live, heapVars
<1>2. ASSUME NEW u \in Threads, u # t PROVE OwnsNode(u)' /\ Traverses(u)'
  <2>1. /\ Same(u) /\ tail' = tail /\ dangling'[u] = dangling[u]
        /\ status' = status /\ next' = next /\ marked' = marked /\ node' = node
    BY <1>2 DEF heapVars
  <2>2. node[u] \in NodeOrNull /\ OwnsNode(u)
    BY DEF ListInv, LoopedTypeOK, ListTypeOK
  <2>3. Undisturbed(u)
    BY <2>1, <2>2 DEF Undisturbed, OwnsNode
  <2> QED BY <2>3, OthersKept
<1>3. OwnsNode(t)'
  BY DEF ListInv, OwnsNode, heapVars
<1> QED BY <1>1, <1>2, <1>3 DEF ListInv

(* The locals of find whose nodes a thread that does not stray may use.    *)
LEMMA UsesOf ==
  ASSUME NEW t \in Threads, ~Strays(t)
  PROVE  /\ pc[t] \in {"find.next", "find.misread", "find.item", "find.again",
                       "remove.mark"}
              => "curr" \notin dangling[t]
         /\ pc[t] = "help.next" => "nxt" \notin dangling[t]
         /\ pc[t] = "find.again" /\ Link(curr[t]) = nxt[t]
              => "nxt" \notin dangling[t]
         /\ pc[t] \in {"find.pred", "add.cas", "find.help", "remove.cas"}
              => /\ "pred" \notin dangling[t]
                 /\ PredIsCurr(t) => "curr" \notin dangling[t]
         /\ pc[t] \in {"find.help", "remove.cas"} /\ PredIsCurr(t)
              => "nxt" \notin dangling[t]
<1>1. Uses(t) \cap dangling[t] = {}
  BY DEF Strays
<1>2. /\ pc[t] \in {"find.next", "find.misread", "find.item"} => Uses(t) = {"curr"}
      /\ pc[t] = "help.next" => Uses(t) = {"nxt"}
  BY DEF Uses
<1>3. pc[t] = "find.again" =>
        Uses(t) = {"curr"} \cup (IF Link(curr[t]) = nxt[t] THEN {"nxt"} ELSE {})
  BY DEF Uses
<1>4. pc[t] \in {"find.pred", "add.cas"} =>
        Uses(t) = {"pred"} \cup (IF PredIsCurr(t) THEN {"curr"} ELSE {})
  BY DEF Uses
<1>5. pc[t] \in {"find.help", "remove.cas"} =>
        Uses(t) = {"pred"} \cup (IF PredIsCurr(t) THEN {"curr", "nxt"} ELSE {})
  BY DEF Uses
<1>6. pc[t] = "remove.mark" => "curr" \in Uses(t)
  BY DEF Uses
<1> QED BY <1>1, <1>2, <1>3, <1>4, <1>5, <1>6

(* What *pred = curr tells about a pred that has not been deleted.         *)
LEMMA PredLinked ==
  ASSUME ListInv, NEW t \in Threads, PredIsCurr(t), "pred" \notin dangling[t]
  PROVE  /\ curr[t] \in Nodes /\ status[curr[t]] = "linked"
         /\ pred[t] = NULL => head = curr[t]
         /\ pred[t] # NULL =>
              /\ pred[t] \in Nodes \ marked /\ status[pred[t]] = "linked"
              /\ pred[t] # tail /\ next[pred[t]] = curr[t]
<1>1. CASE pred[t] = NULL
  BY <1>1 DEF PredIsCurr, PredLink, ListInv, ListShape
<1>2. CASE pred[t] # NULL
  <2>1. Live(pred[t]) /\ pred[t] # tail
    BY <1>2 DEF ListInv, Traverses
  <2>2. next[pred[t]] = curr[t] /\ pred[t] \notin marked
    BY <1>2 DEF PredIsCurr, PredLink, Link
  <2> QED BY <1>2, <2>1, <2>2 DEF ListInv, ListShape, Live
<1> QED BY <1>1, <1>2

(* Where curr is followed by a node.                                       *)
LEMMA LinkOfLive ==
  ASSUME ListInv, NEW n, Live(n)
  PROVE  /\ n \in Nodes /\ n # NULL /\ next[n] \in Nodes /\ next[n] # NULL
         /\ status[n] = "linked" => status[next[n]] = "linked"
         /\ status[n] = "retired" => n \in marked
BY HeapAssumption DEF ListInv, ListShape, Live

(* The parts of a link.                                                    *)
LEMMA LinkParts ==
  ASSUME NEW n
  PROVE  /\ getUnmarked(Link(n)) = next[n] /\ isMarked(Link(n)) = (n \in marked)
         /\ next[n] \in NodeOrNull => Link(n) \in NodeOrNull \X BOOLEAN
         /\ getUnmarked(Misread) = NULL /\ Misread \in NodeOrNull \X BOOLEAN
<1>1. (n \in marked) \in BOOLEAN
  OBVIOUS
<1> QED BY <1>1 DEF Link, getUnmarked, isMarked, Misread, NodeOrNull

(* A step to another label.                                                *)
LEMMA LabelKept ==
  ASSUME ListInv, LoopedTypeOK',
         UNCHANGED <<heapVars, head, tail, marked, pred, curr, nxt, node, op,
                     dangling>>,
         \A u \in Threads : Relabels(u)
  PROVE  ListInv'
<1>1. ListShape'
  BY DEF ListInv, ListShape, Live, heapVars
<1>2. ASSUME NEW u \in Threads PROVE Undisturbed(u)
  <2>1. node[u] \in NodeOrNull /\ OwnsNode(u)
    BY DEF ListInv, LoopedTypeOK, ListTypeOK
  <2> QED BY <2>1 DEF Undisturbed, OwnsNode, heapVars, Same
<1> QED BY <1>1, <1>2, OthersKept DEF ListInv

(* A step after which the thread holds no node.                            *)
LEMMA ForgetKept ==
  ASSUME ListInv, NEW t \in Threads, Forget(t),
         UNCHANGED <<heapVars, head, tail, marked, node>>, LoopedTypeOK',
         \A u \in Threads : u # t => pc'[u] = pc[u] /\ op'[u] = op[u],
         \A u \in Threads : u # t => dangling'[u] = dangling[u],
         op'[t] = "add" => op[t] = "add",
         pc'[t] \in NoCurrLabels \ {"add.discard"}
  PROVE  ListInv'
<1>1. /\ pred'[t] = NULL /\ curr'[t] = NULL /\ nxt'[t] = NoLink
      /\ \A u \in Threads : u # t => Same(u)
  BY DEF Forget, ListInv, LoopedTypeOK, ListTypeOK, Same, Relabels
<1>2. pc'[t] \notin PassedLabels \cup {"add.cas", "add.discard", "remove.cas"}
  BY DEF NoCurrLabels, PassedLabels, HelpingLabels
<1>3. Traverses(t)'
  BY <1>1, <1>2 DEF Traverses, NoLink, getUnmarked, isMarked, PassedLabels
<1> QED BY <1>1, <1>2, <1>3, LocalKept

(* A thread that starts over knows nothing of the list any more.           *)
LEMMA TryAgainKept ==
  ASSUME ListInv, NEW t \in Threads, pc = [u \in Threads |-> pc[u]],
         NEW from, NEW again \in NoCurrLabels \ {"add.discard"},
         TryAgain(t, from, again)
  PROVE  ListInv'
<1>1. LoopedTypeOK'
  BY DEF ListInv, LoopedTypeOK, ListTypeOK, TryAgain, Forget, heapVars,
         callVars, NoLink, NodeOrNull, Roles
<1> QED BY <1>1, ForgetKept DEF TryAgain, Goto, callVars, ListInv, LoopedTypeOK

(* Nor does one that returns from its call.                                *)
LEMMA ReturnsKept ==
  ASSUME ListInv, NEW t \in Threads, pc = [u \in Threads |-> pc[u]],
         NEW from, NEW to \in NoCurrLabels \ {"add.discard"},
         Goto(t, from, to), Returns(t)
  PROVE  ListInv'
<1>1. LoopedTypeOK'
  BY DEF ListInv, LoopedTypeOK, ListTypeOK, Returns, Forget, heapVars,
         NoLink, NodeOrNull, Roles
<1>2. op'[t] # "add" /\ \A u \in Threads : u # t => op'[u] = op[u]
  BY DEF Returns, ListInv, LoopedTypeOK, ListTypeOK
<1> QED BY <1>1, <1>2, ForgetKept DEF Returns, Goto, ListInv, LoopedTypeOK

(* find begins.                                                            *)
LEMMA LoadsHeadKept ==
  ASSUME ListInv, NEW t \in Threads, pc = [u \in Threads |-> pc[u]],
         NEW from, NEW to, to \notin (PassedLabels \cup {"add.discard", "add.cas"}),
         Goto(t, from, to), LoadsHead(t)
  PROVE  ListInv'
<1>1. /\ pred' = [pred EXCEPT ![t] = NULL] /\ curr' = [curr EXCEPT ![t] = head]
      /\ nxt' = [nxt EXCEPT ![t] = NoLink]
      /\ dangling' = [dangling EXCEPT ![t] = {}]
      /\ UNCHANGED <<heapVars, head, tail, marked, node, op, key, seen, calls>>
      /\ pc' = [pc EXCEPT ![t] = to]
  BY DEF LoadsHead, Follow, callVars, Goto
<1>2. head \in Nodes /\ head # NULL /\ Live(head)
  BY HeapAssumption DEF ListInv, ListShape, Live
<1>3. LoopedTypeOK'
  BY <1>1, <1>2 DEF ListInv, LoopedTypeOK, ListTypeOK, heapVars, NoLink, NodeOrNull
<1>4. /\ pred'[t] = NULL /\ curr'[t] = head /\ nxt'[t] = NoLink /\ pc'[t] = to
      /\ \A u \in Threads : u # t => Same(u) /\ dangling'[u] = dangling[u]
  BY <1>1 DEF ListInv, LoopedTypeOK, ListTypeOK, Same, Relabels
<1>5. Traverses(t)'
  BY <1>1, <1>2, <1>4
     DEF Traverses, NoLink, getUnmarked, isMarked, Live, heapVars, PassedLabels
<1> QED BY <1>1, <1>3, <1>4, <1>5, LocalKept

(* curr->next is loaded.                                                   *)
LEMMA LoadsNextKept ==
  ASSUME ListInv, NEW t \in Threads, pc = [u \in Threads |-> pc[u]],
         NEW from, from \notin NoCurrLabels,
         NEW to, to \notin (PassedLabels \cup {"add.discard", "add.cas"}),
         Goto(t, from, to), "curr" \notin dangling[t],
         LoadsNext(t, Link(curr[t])) \/ LoadsNext(t, Misread)
  PROVE  ListInv'
<1>1. curr[t] # NULL /\ Live(curr[t])
  BY DEF Goto, ListInv, Traverses
<1>2. /\ curr[t] \in Nodes /\ next[curr[t]] \in Nodes
      /\ status[curr[t]] = "linked" => status[next[curr[t]]] = "linked"
  BY <1>1, LinkOfLive
<1> DEFINE link == nxt'[t]
<1>3. /\ nxt' = [nxt EXCEPT ![t] = link] /\ link \in {Link(curr[t]), Misread}
      /\ dangling' = [dangling EXCEPT ![t] = @ \ {"nxt"}]
      /\ UNCHANGED <<heapVars, head, tail, marked, pred, curr, node, op, key, seen,
                     calls>>
      /\ pc' = [pc EXCEPT ![t] = to]
  BY DEF LoadsNext, callVars, Goto, ListInv, LoopedTypeOK, ListTypeOK
<1>4. link \in NodeOrNull \X BOOLEAN
  BY <1>2, <1>3, LinkParts DEF NodeOrNull
<1>5. LoopedTypeOK'
  BY <1>3, <1>4 DEF ListInv, LoopedTypeOK, ListTypeOK, heapVars
<1>6. /\ pc'[t] = to
      /\ \A u \in Threads : u # t => Same(u) /\ dangling'[u] = dangling[u]
      /\ dangling'[t] = dangling[t] \ {"nxt"}
  BY <1>3 DEF ListInv, LoopedTypeOK, ListTypeOK, Same, Relabels
<1>7. getUnmarked(link) # NULL =>
        getUnmarked(link) = next[curr[t]] /\ isMarked(link) = (curr[t] \in marked)
  BY <1>3, LinkParts
<1>8. /\ pred[t] # NULL =>
           pred[t] # tail /\ ("pred" \notin dangling'[t] => Live(pred[t])')
      /\ curr[t] # NULL /\ Live(curr[t])'
    BY <1>1, <1>3, <1>6 DEF ListInv, Traverses, Live, heapVars
<1>9. to \notin HelpingLabels \cup {"remove.cas"} /\ to \notin PassedLabels
  BY DEF PassedLabels
<1>10. status[curr[t]] = "linked" /\ getUnmarked(link) # NULL
         => getUnmarked(link) \in Nodes /\ status'[getUnmarked(link)] = "linked"
  BY <1>2, <1>3, <1>7 DEF heapVars
<1>11. Traverses(t)'
  <2> HIDE DEF link
  <2>1. nxt'[t] = link
    BY DEF link
  <2>2. getUnmarked(nxt'[t]) # NULL /\ status[curr[t]] = "linked" =>
          Live(getUnmarked(nxt[t]))'
    BY <1>10, <2>1 DEF Live, getUnmarked
  <2>3. /\ curr'[t] = curr[t] /\ pred'[t] = pred[t] /\ status' = status
        /\ next' = next /\ marked' = marked /\ tail' = tail
        /\ pc'[t] \notin PassedLabels \cup HelpingLabels \cup {"remove.cas"}
    BY <1>3, <1>6, <1>9 DEF heapVars
  <2> QED BY <1>1, <1>7, <1>8, <2>1, <2>2, <2>3 DEF Traverses, getUnmarked, isMarked
<1> QED BY <1>3, <1>5, <1>6, <1>9, <1>11, LocalKept

(* find goes on from next, with p as the link it came by.                  *)
LEMMA MovesKept ==
  ASSUME ListInv, NEW t \in Threads, pc = [u \in Threads |-> pc[u]],
         NEW from, NEW to, to \notin (PassedLabels \cup {"add.discard", "add.cas"}),
         NEW p, MovesTo(t, p), Goto(t, from, to),
         p = pred[t] \/ (p = curr[t] /\ p # tail /\ Live(p)),
         getUnmarked(nxt[t]) # NULL,
         "nxt" \notin dangling[t] => Live(getUnmarked(nxt[t]))
  PROVE  ListInv'
<1> DEFINE N == getUnmarked(nxt[t])
           D == (IF p = pred[t] THEN dangling[t] \cap {"pred"} ELSE {})
                  \cup (IF "nxt" \in dangling[t] THEN {"curr"} ELSE {})
<1>1. /\ pred' = [pred EXCEPT ![t] = p] /\ curr' = [curr EXCEPT ![t] = N]
      /\ nxt' = [nxt EXCEPT ![t] = NoLink]
      /\ dangling' = [dangling EXCEPT ![t] = D]
      /\ UNCHANGED <<heapVars, head, tail, marked, node, op, key, seen, calls>>
      /\ pc' = [pc EXCEPT ![t] = to]
  BY DEF MovesTo, Follow, callVars, Goto
<1>2. /\ N \in NodeOrNull /\ p \in NodeOrNull /\ pred[t] \in NodeOrNull
      /\ D \in SUBSET Roles
  BY DEF ListInv, LoopedTypeOK, ListTypeOK, getUnmarked, Live, NodeOrNull, Roles
<1> HIDE DEF N, D
<1>3. LoopedTypeOK'
  BY <1>1, <1>2 DEF ListInv, LoopedTypeOK, ListTypeOK, heapVars, NoLink, NodeOrNull
<1>4. /\ pred'[t] = p /\ curr'[t] = N /\ nxt'[t] = NoLink /\ pc'[t] = to
      /\ dangling'[t] = D
      /\ \A u \in Threads : u # t => Same(u) /\ dangling'[u] = dangling[u]
  BY <1>1 DEF ListInv, LoopedTypeOK, ListTypeOK, Same, Relabels
<1>5. to \notin HelpingLabels \cup {"remove.cas"} /\ to \notin PassedLabels
  BY DEF PassedLabels
<1>6. p # NULL => p # tail
        /\ ("pred" \notin D => p \in Nodes /\ status[p] \in {"linked", "retired"})
  <2>1. "pred" \notin D => p # pred[t] \/ "pred" \notin dangling[t]
    BY DEF D
  <2>2. p = pred[t] /\ p # NULL =>
          p # tail /\ ("pred" \notin dangling[t] => Live(p))
    BY DEF ListInv, Traverses
  <2> QED BY <1>1, <2>1, <2>2 DEF Live, heapVars
<1>7. N # NULL /\ ("curr" \notin D => N \in Nodes /\ status[N] \in {"linked", "retired"})
  BY DEF N, D, Live
<1>8. Traverses(t)'
  <2>1. getUnmarked(nxt'[t]) = NULL /\ status' = status /\ tail' = tail
    BY <1>1, <1>4 DEF NoLink, getUnmarked, heapVars
  <2>2. /\ pred'[t] # NULL =>
             pred'[t] # tail' /\ ("pred" \notin dangling'[t] => Live(pred[t])')
        /\ curr'[t] # NULL /\ ("curr" \notin dangling'[t] => Live(curr[t])')
    BY <1>4, <1>6, <1>7, <2>1 DEF Live
  <2> QED BY <1>4, <1>5, <2>1, <2>2 DEF Traverses, getUnmarked
<1> QED BY <1>1, <1>3, <1>4, <1>5, <1>8, LocalKept

(* What find.again establishes.                                            *)
LEMMA AgainPassed ==
  ASSUME ListInv, NEW t \in Threads, "curr" \notin dangling[t], curr[t] # NULL,
         Link(curr[t]) = nxt[t], getUnmarked(nxt[t]) # tail
  PROVE  /\ Live(curr[t]) /\ curr[t] # tail /\ getUnmarked(nxt[t]) = next[curr[t]]
         /\ getUnmarked(nxt[t]) \in Nodes /\ getUnmarked(nxt[t]) # NULL
<1>1. Live(curr[t])
  BY DEF ListInv, Traverses
<1>2. getUnmarked(nxt[t]) = next[curr[t]] /\ next[curr[t]] \in Nodes
      /\ next[curr[t]] # NULL
  BY <1>1, LinkParts, LinkOfLive
<1> QED BY <1>1, <1>2 DEF ListInv, ListShape

(* The comparison after find has read a link: the link still leads there,  *)
(* so that its target is linked, or the thread starts over.                *)
LEMMA ValidatesKept ==
  ASSUME ListInv, NEW t \in Threads, pc = [u \in Threads |-> pc[u]], ~Strays(t),
         NEW again \in NoCurrLabels \ {"add.discard"}, Validates(t, again)
  PROVE  ListInv'
<1>1. CASE TryAgain(t, "find.again", again)
  BY <1>1, TryAgainKept
<1>2. CASE ~TryAgain(t, "find.again", again)
  <2>1. /\ Link(curr[t]) = nxt[t] /\ getUnmarked(nxt[t]) # tail
        /\ pc[t] = "find.again" /\ pc' = [pc EXCEPT ![t] = "find.pred"]
        /\ UNCHANGED <<heapVars, loopedVars, main>>
    BY <1>2 DEF Validates, Goto
  <2>2. "curr" \notin dangling[t]
    BY <2>1, UsesOf
  <2>3. curr[t] # NULL
    BY <2>1 DEF ListInv, Traverses, NoCurrLabels
  <2>4. curr[t] # tail /\ getUnmarked(nxt[t]) # NULL
    BY <2>1, <2>2, <2>3, AgainPassed
  <2>5. LoopedTypeOK'
    BY <2>1 DEF ListInv, LoopedTypeOK, ListTypeOK, loopedVars, listVars,
       findLocals, callVars, heapVars
  <2>6. /\ UNCHANGED <<heapVars, head, tail, marked, node, op, pred, curr, nxt,
                       dangling>>
        /\ pc'[t] = "find.pred" /\ \A u \in Threads : u # t => pc'[u] = pc[u]
    BY <2>1 DEF loopedVars, listVars, findLocals, callVars
  <2>7. Traverses(t)'
    BY <2>3, <2>4, <2>6 DEF ListInv, Traverses, Live, heapVars, PassedLabels,
       HelpingLabels, NoCurrLabels
  <2>8. \A u \in Threads : u # t => Same(u) /\ dangling'[u] = dangling[u]
    BY <2>6 DEF Same, Relabels
  <2> QED BY <2>5, <2>6, <2>7, <2>8, LocalKept
<1> QED BY <1>1, <1>2

(* What the threads know about next once *pred is curr.                    *)
LEMMA NextOfLinked ==
  ASSUME ListInv, NEW t \in Threads, ~Strays(t), PredIsCurr(t),
         pc[t] \in {"find.pred", "find.help", "remove.cas"}
  PROVE  /\ curr[t] \in Nodes /\ status[curr[t]] = "linked" /\ curr[t] # tail
         /\ {"pred", "curr"} \cap dangling[t] = {}
         /\ getUnmarked(nxt[t]) # NULL
         /\ "nxt" \notin dangling[t] => Live(getUnmarked(nxt[t]))
<1>1. /\ "pred" \notin dangling[t] /\ "curr" \notin dangling[t]
  BY UsesOf
<1>2. curr[t] \in Nodes /\ status[curr[t]] = "linked" /\ curr[t] # NULL
  BY <1>1, PredLinked, HeapAssumption
<1>3. getUnmarked(nxt[t]) # NULL /\ curr[t] # tail
  BY DEF ListInv, Traverses, PassedLabels, HelpingLabels
<1> QED BY <1>1, <1>2, <1>3 DEF ListInv, Traverses

(* The comparison of *pred with curr: the thread starts over, helps, ends  *)
(* its search or goes on to the next node.                                 *)
LEMMA ComparesKept ==
  ASSUME ListInv, NEW t \in Threads, pc = [u \in Threads |-> pc[u]], ~Strays(t),
         NEW again \in NoCurrLabels \ {"add.discard"},
         NEW advance, advance \notin (PassedLabels \cup {"add.discard", "add.cas"}),
         Compares(t, again, advance)
  PROVE  ListInv'
<1>0. pc[t] = "find.pred"
  BY DEF Compares
<1>1. CASE TryAgain(t, "find.pred", again)
  BY <1>1, TryAgainKept
<1>2. CASE /\ PredIsCurr(t) /\ isMarked(nxt[t])
           /\ Goto(t, "find.pred", "find.help")
           /\ UNCHANGED <<heapVars, loopedVars, main>>
  <2>1. LoopedTypeOK'
    BY <1>2 DEF ListInv, LoopedTypeOK, ListTypeOK, loopedVars, listVars,
       findLocals, callVars, heapVars
  <2>2. /\ UNCHANGED <<heapVars, head, tail, marked, node, op, pred, curr, nxt,
                       dangling>>
        /\ pc'[t] = "find.help" /\ \A u \in Threads : u # t => pc'[u] = pc[u]
    BY <1>2 DEF loopedVars, listVars, findLocals, callVars, Goto
  <2>3. /\ curr[t] # NULL /\ curr[t] # tail
        /\ getUnmarked(nxt[t]) # NULL
        /\ "nxt" \notin dangling[t] => Live(getUnmarked(nxt[t]))
    BY <1>0, <1>2, NextOfLinked, HeapAssumption
  <2>4. Traverses(t)'
    BY <1>2, <2>2, <2>3 DEF ListInv, Traverses, Live, heapVars, PassedLabels,
       HelpingLabels, NoCurrLabels
  <2>5. \A u \in Threads : u # t => Same(u) /\ dangling'[u] = dangling[u]
    BY <2>2 DEF Same, Relabels
  <2> QED BY <2>1, <2>2, <2>4, <2>5, LocalKept
<1>3. CASE /\ PredIsCurr(t) /\ Goto(t, "find.pred", advance)
           /\ MovesTo(t, curr[t])
  <2>1. /\ Live(curr[t]) /\ curr[t] # tail /\ getUnmarked(nxt[t]) # NULL
        /\ "nxt" \notin dangling[t] => Live(getUnmarked(nxt[t]))
    BY <1>0, <1>3, NextOfLinked DEF Live
  <2> QED BY <1>3, <2>1, MovesKept
<1> QED BY <1>1, <1>2, <1>3 DEF Compares

(* The shape of the list depends on the nodes that are or were in it.      *)
LEMMA ShapeKept ==
  ASSUME ListInv, UNCHANGED <<head, tail, marked>>,
         \A n \in Nodes : Live(n) \/ status'[n] \in {"linked", "retired"} =>
           status'[n] = status[n] /\ next'[n] = next[n]
  PROVE  ListShape'
BY DEF ListInv, ListShape, Live

(* A step changes private and free nodes only.                             *)
LEMMA FreshKept ==
  ASSUME ListInv, NEW t \in Threads, UNCHANGED <<head, tail, marked>>,
         \A n \in Nodes : Live(n) \/ status'[n] \in {"linked", "retired"} =>
           status'[n] = status[n] /\ next'[n] = next[n],
         \A u \in Threads : u # t => Same(u) /\ dangling'[u] = dangling[u],
         \A u \in Threads : u # t /\ node[u] # NULL =>
           /\ status'[node[u]] = "private" /\ next'[node[u]] = next[node[u]]
           /\ node'[t] # node[u],
         LoopedTypeOK', OwnsNode(t)', Traverses(t)'
  PROVE  ListInv'
<1>1. ASSUME NEW u \in Threads, u # t PROVE Undisturbed(u)
  BY <1>1 DEF Undisturbed, Same, ListInv, ListShape, Live
<1> QED BY <1>1, ShapeKept, OthersKept DEF ListInv

(* find returns to its caller.                                             *)
LEMMA EndsKept ==
  ASSUME ListInv, NEW t \in Threads, pc = [u \in Threads |-> pc[u]],
         NEW found \in BOOLEAN, NEW done \in NoCurrLabels \ {"add.discard"},
         pc[t] \notin NoCurrLabels \cup HelpingLabels \cup {"remove.cas"},
         found => pc[t] \in PassedLabels,
         Ends(t, found, AfterFind(t, found, done))
  PROVE  ListInv'
<1> DEFINE to == AfterFind(t, found, done)
<1>1. /\ pc' = [pc EXCEPT ![t] = to] /\ FindReturns(t, found, nxt[t])
      /\ dangling' = [dangling EXCEPT ![t] = IF DecidedBy(t, found) THEN {} ELSE @]
      /\ UNCHANGED <<status, item, head, tail, marked, node, calls, main>>
  BY DEF Ends
<1>2. to = IF op[t] = "add" THEN IF found THEN "add.discard" ELSE "add.cas"
           ELSE IF op[t] = "remove" /\ found THEN "remove.mark" ELSE done
  BY DEF AfterFind
<1> HIDE DEF to
<1>3. done \notin PassedLabels \cup {"add.cas", "add.discard", "remove.cas"}
  BY DEF NoCurrLabels, PassedLabels, HelpingLabels
<1>4. curr[t] # NULL /\ OwnsNode(t) /\ Traverses(t) /\ curr[t] \in NodeOrNull
  BY DEF ListInv, Traverses, LoopedTypeOK, ListTypeOK
<1>5. pc'[t] = to /\ \A u \in Threads : u # t => pc'[u] = pc[u]
  BY <1>1
<1>6. CASE DecidedBy(t, found)
  <2>1. /\ next' = next /\ Forget(t)
        /\ op' = [op EXCEPT ![t] = IF @ = "contains" /\ found
                                   THEN "true" ELSE "false"]
        /\ key' = [key EXCEPT ![t] = NULL] /\ seen' = [seen EXCEPT ![t] = {}]
        /\ dangling' = [dangling EXCEPT ![t] = {}]
    BY <1>1, <1>6 DEF FindReturns, DecidedBy
  <2>2. LoopedTypeOK'
    BY <1>1, <2>1 DEF ListInv, LoopedTypeOK, ListTypeOK, Forget, NoLink,
       NodeOrNull, Roles, Results
  <2>3. (to = "add.discard" /\ op[t] = "add") \/ to = done
    BY <1>2, <1>6 DEF DecidedBy
  <2>4. /\ pred'[t] = NULL /\ curr'[t] = NULL /\ nxt'[t] = NoLink
        /\ op'[t] \in {"true", "false"} /\ dangling'[t] = {}
        /\ \A u \in Threads : u # t => Same(u) /\ dangling'[u] = dangling[u]
    BY <1>1, <1>5, <2>1
       DEF ListInv, LoopedTypeOK, ListTypeOK, Forget, Same, Relabels
  <2>5. Traverses(t)'
    <3>1. /\ pc'[t] \in NoCurrLabels
          /\ pc'[t] \notin PassedLabels \cup HelpingLabels \cup {"remove.cas"}
      BY <1>3, <1>5, <2>3 DEF NoCurrLabels, PassedLabels, HelpingLabels
    <3> QED BY <2>4, <3>1 DEF Traverses, NoLink, getUnmarked
  <2>6. OwnsNode(t)'
    BY <1>1, <1>3, <1>4, <1>5, <2>3, <2>4 DEF OwnsNode
  <2>7. /\ op'[t] = "add" => op[t] = "add"
        /\ UNCHANGED <<heapVars, head, tail, marked, node>>
    BY <1>1, <2>1, <2>4 DEF heapVars
  <2> QED BY <2>2, <2>4, <2>5, <2>6, <2>7, LocalKept
<1>7. CASE ~DecidedBy(t, found)
  <2>1. /\ nxt' = [nxt EXCEPT ![t] = IF found THEN nxt[t] ELSE NoLink]
        /\ UNCHANGED <<op, key, seen, pred, curr>> /\ dangling' = dangling
        /\ next' = IF op[t] = "add" /\ ~found
                   THEN [next EXCEPT ![node[t]] = curr[t]] ELSE next
    BY <1>1, <1>7 DEF FindReturns, ListInv, LoopedTypeOK
  <2>2. LoopedTypeOK'
    BY <1>1, <1>4, <2>1 DEF ListInv, LoopedTypeOK, ListTypeOK, NoLink, NodeOrNull
  <2>3. /\ nxt'[t] = IF found THEN nxt[t] ELSE NoLink
        /\ \A u \in Threads : u # t => Same(u) /\ dangling'[u] = dangling[u]
    BY <1>1, <1>5, <2>1 DEF ListInv, LoopedTypeOK, ListTypeOK, Same, Relabels
  <2>4. op[t] = "add" => ~found /\ node[t] \in Nodes /\ status[node[t]] = "private"
    BY <1>4, <1>7 DEF DecidedBy, OwnsNode, ListInv, LoopedTypeOK, ListTypeOK,
       NodeOrNull
  <2>5. \A n \in Nodes : n # node[t] \/ op[t] # "add" => next'[n] = next[n]
    BY <2>1 DEF ListInv, LoopedTypeOK, ListTypeOK
  <2>6. OwnsNode(t)'
    <3>1. CASE op[t] = "add"
      <4>1. next'[node[t]] = curr[t]
        BY <2>1, <2>4, <3>1 DEF ListInv, LoopedTypeOK, ListTypeOK
      <4> QED BY <1>1, <1>2, <1>4, <1>5, <2>1, <2>4, <3>1, <4>1 DEF OwnsNode
    <3>2. CASE op[t] # "add"
      BY <1>1, <1>2, <1>3, <1>4, <1>5, <2>1, <3>2 DEF OwnsNode
    <3> QED BY <3>1, <3>2
  <2>7. Traverses(t)'
    <3>1. to = "remove.mark" => found /\ pc[t] \in PassedLabels
      BY <1>2, <1>3 DEF PassedLabels
    <3>2. /\ to \notin HelpingLabels \cup {"remove.cas"}
          /\ to \in PassedLabels => to = "remove.mark"
      BY <1>2, <1>3 DEF PassedLabels, HelpingLabels
    <3>3. pc[t] \notin HelpingLabels \cup {"remove.cas"}
      OBVIOUS
    <3>4. /\ status' = status /\ marked' = marked /\ tail' = tail
          /\ pred'[t] = pred[t] /\ curr'[t] = curr[t] /\ dangling'[t] = dangling[t]
      BY <1>1, <2>1
    <3>5. curr[t] \in marked => next'[curr[t]] = next[curr[t]]
      BY <2>4, <2>5 DEF ListInv, ListShape, Live
    <3>6. CASE found
      BY <1>4, <1>5, <2>3, <3>1, <3>2, <3>3, <3>4, <3>5, <3>6 DEF Traverses, Live
    <3>7. CASE ~found
      BY <1>4, <1>5, <2>3, <3>1, <3>2, <3>4, <3>7
         DEF Traverses, Live, NoLink, getUnmarked
    <3> QED BY <3>6, <3>7
  <2>8. \A n \in Nodes : Live(n) \/ status'[n] \in {"linked", "retired"} =>
          status'[n] = status[n] /\ next'[n] = next[n]
    BY <1>1, <2>4, <2>5 DEF Live
  <2>9. \A u \in Threads : u # t /\ node[u] # NULL =>
          /\ status'[node[u]] = "private" /\ next'[node[u]] = next[node[u]]
          /\ node'[t] # node[u]
    <3>1. \A u \in Threads : node[u] \in NodeOrNull /\ OwnsNode(u)
      BY DEF ListInv, LoopedTypeOK, ListTypeOK
    <3> QED BY <1>1, <2>5, <3>1 DEF OwnsNode, NodeOrNull
  <2> QED BY <1>1, <2>2, <2>3, <2>6, <2>7, <2>8, <2>9, FreshKept
<1> QED BY <1>6, <1>7

(* A call begins.                                                          *)
LEMMA CallAddKept ==
  ASSUME ListInv, NEW t \in Threads, pc = [u \in Threads |-> pc[u]],
         NEW to \in NoCurrLabels \ {"add.discard"}, CallAdd(t, to)
  PROVE  ListInv'
<1>0. \A k : (k \in Present) \in BOOLEAN
  OBVIOUS
<1> PICK n \in Nodes, k \in Elements, member \in BOOLEAN :
      /\ BeginCall(t, "add", k, member) /\ New(n, k)
      /\ node' = [node EXCEPT ![t] = n]
  BY <1>0 DEF CallAdd
<1>1. /\ status[n] = "free" /\ status' = [status EXCEPT ![n] = "private"]
      /\ next' = [next EXCEPT ![n] = NULL] /\ item' = [item EXCEPT ![n] = k]
      /\ op' = [op EXCEPT ![t] = "add"] /\ key' = [key EXCEPT ![t] = k]
      /\ calls' = calls + 1 /\ seen' = [seen EXCEPT ![t] = {member}]
      /\ UNCHANGED <<head, tail, marked, pred, curr, nxt, dangling, main>>
      /\ pc[t] = "idle" /\ pc' = [pc EXCEPT ![t] = to]
  BY DEF CallAdd, New, BeginCall, findLocals, Goto
<1>2. LoopedTypeOK'
  BY <1>1 DEF ListInv, LoopedTypeOK, ListTypeOK, NodeOrNull, Operations, Statuses
<1>3. /\ \A m \in Nodes : m # n => status'[m] = status[m] /\ next'[m] = next[m]
      /\ status'[n] = "private" /\ node'[t] = n /\ op'[t] = "add" /\ pc'[t] = to
      /\ \A u \in Threads : u # t => Same(u) /\ dangling'[u] = dangling[u]
  BY <1>1 DEF ListInv, LoopedTypeOK, ListTypeOK, Same, Relabels
<1>4. \A m \in Nodes : Live(m) \/ status'[m] \in {"linked", "retired"} =>
        status'[m] = status[m] /\ next'[m] = next[m]
  BY <1>1, <1>3 DEF Live
<1>5. \A u \in Threads : u # t /\ node[u] # NULL =>
        /\ status'[node[u]] = "private" /\ next'[node[u]] = next[node[u]]
        /\ node[u] # n /\ node'[u] = node[u]
  <2>1. \A u \in Threads : node[u] \in NodeOrNull /\ OwnsNode(u)
    BY DEF ListInv, LoopedTypeOK, ListTypeOK
  <2> QED BY <1>1, <1>3, <2>1 DEF OwnsNode, NodeOrNull, Same
<1>6. to \notin PassedLabels \cup HelpingLabels \cup {"remove.cas", "add.cas"}
  BY DEF NoCurrLabels, PassedLabels, HelpingLabels
<1>7. OwnsNode(t)'
  <2>1. n # NULL
    BY HeapAssumption
  <2>2. \A u \in Threads : u # t => node'[u] # n
    BY <1>3, <1>5, <2>1 DEF Same
  <2> QED BY <1>3, <1>6, <2>1, <2>2 DEF OwnsNode
<1>8. Traverses(t)'
  <2>1. /\ Traverses(t) /\ curr[t] \in NodeOrNull /\ pred[t] \in NodeOrNull
        /\ nxt[t] \in NodeOrNull \X BOOLEAN
    BY DEF ListInv, LoopedTypeOK, ListTypeOK
  <2>2. \A m : Live(m) => Live(m)' /\ status'[m] = status[m]
    BY <1>4 DEF Live
  <2>3. \A m \in Nodes : m \in marked => next'[m] = next[m]
    BY <1>4 DEF ListInv, ListShape
  <2>4. curr[t] # NULL /\ status'[curr[t]] = "linked" => status[curr[t]] = "linked"
    BY <1>1, <1>3, <2>1 DEF NodeOrNull
  <2>5. curr[t] \in marked => curr[t] \in Nodes
    BY DEF ListInv, ListShape, Live
  <2>6. pc[t] \notin PassedLabels \cup HelpingLabels \cup {"remove.cas"}
    BY <1>1 DEF PassedLabels, HelpingLabels
  <2> QED BY <1>1, <1>3, <1>6, <2>1, <2>2, <2>3, <2>4, <2>5, <2>6 DEF Traverses
<1> QED BY <1>1, <1>2, <1>3, <1>4, <1>5, <1>7, <1>8, FreshKept

(* A remove or a contains begins with nothing in its hands.                *)
LEMMA CallOtherKept ==
  ASSUME ListInv, NEW t \in Threads, pc = [u \in Threads |-> pc[u]],
         NEW to \in NoCurrLabels \ {"add.discard"}, CallOther(t, to)
  PROVE  ListInv'
<1>0. \A k : (k \in Present) \in BOOLEAN
  OBVIOUS
<1> PICK k \in Elements, o \in {"remove", "contains"}, member \in BOOLEAN :
      BeginCall(t, o, k, member)
  BY <1>0 DEF CallOther
<1>1. /\ op' = [op EXCEPT ![t] = o] /\ key' = [key EXCEPT ![t] = k]
      /\ calls' = calls + 1 /\ seen' = [seen EXCEPT ![t] = {member}]
      /\ UNCHANGED <<heapVars, head, tail, marked, pred, curr, nxt, node,
                     dangling, main>>
      /\ pc[t] = "idle" /\ pc' = [pc EXCEPT ![t] = to]
  BY DEF CallOther, BeginCall, findLocals, Goto
<1>2. LoopedTypeOK'
  BY <1>1 DEF ListInv, LoopedTypeOK, ListTypeOK, Operations, heapVars
<1>3. to \notin PassedLabels \cup HelpingLabels \cup {"remove.cas", "add.cas"}
  BY DEF NoCurrLabels, PassedLabels, HelpingLabels
<1>4. /\ pc'[t] = to /\ op'[t] # "add"
      /\ \A u \in Threads : u # t => Same(u) /\ dangling'[u] = dangling[u]
  BY <1>1 DEF ListInv, LoopedTypeOK, ListTypeOK, Same, Relabels
<1>5. Traverses(t)'
  BY <1>1, <1>3, <1>4 DEF ListInv, Traverses, Live, heapVars
<1> QED BY <1>1, <1>2, <1>3, <1>4, <1>5, LocalKept

(* main starts the threads.                                                *)
LEMMA StartsKept == ListInv /\ Starts => ListInv'
<1> SUFFICES ASSUME ListInv, Starts PROVE ListInv'
  OBVIOUS
<1>1. /\ UNCHANGED <<heapVars, head, tail, marked, pred, curr, nxt, node, op,
                     dangling>>
      /\ UNCHANGED <<pc, key, seen>> /\ calls' = 0
  BY DEF Starts, StartThreads, findLocals, callVars
<1>2. LoopedTypeOK' /\ \A u \in Threads : Relabels(u)
  BY <1>1 DEF ListInv, LoopedTypeOK, ListTypeOK, heapVars, Relabels
<1> QED BY <1>1, <1>2, LabelKept

(* The exchange of *pred: what it leads to, and what it does not.          *)
LEMMA StorePredEffect ==
  ASSUME ListInv, NEW t \in Threads, PredIsCurr(t), "pred" \notin dangling[t],
         NEW n \in Nodes, StorePred(t, n)
  PROVE  /\ next' \in [Nodes -> NodeOrNull]
         /\ head' = IF pred[t] = NULL THEN n ELSE head
         /\ \A m \in Nodes : next'[m] = IF m = pred[t] THEN n ELSE next[m]
         /\ \A m \in marked : next'[m] = next[m]
         /\ next'[tail] = next[tail]
<1>1. next \in [Nodes -> NodeOrNull] /\ tail \in Nodes
      /\ \A m \in marked : m \in Nodes
  BY DEF ListInv, LoopedTypeOK, ListTypeOK, ListShape, Live
<1>2. CASE pred[t] = NULL
  BY <1>1, <1>2, HeapAssumption DEF StorePred, NodeOrNull
<1>3. CASE pred[t] # NULL
  <2>1. pred[t] \in Nodes \ marked /\ pred[t] # tail
    BY <1>3, PredLinked
  <2> QED BY <1>1, <1>3, <2>1 DEF StorePred, NodeOrNull
<1> QED BY <1>2, <1>3

(* Taking a marked curr out of the list.                                   *)
LEMMA UnlinkShape ==
  ASSUME ListInv, NEW t \in Threads, PredIsCurr(t), "pred" \notin dangling[t],
         curr[t] \in marked, curr[t] # tail,
         getUnmarked(nxt[t]) = next[curr[t]], Unlinks(t)
  PROVE  /\ ListShape' /\ getUnmarked(nxt[t]) \in Nodes
         /\ status'[getUnmarked(nxt[t])] = "linked"
         /\ \A m \in Nodes :
              status'[m] = IF m = curr[t] THEN "retired" ELSE status[m]
         /\ pred[t] # NULL => status'[pred[t]] = "linked"
<1> DEFINE c == curr[t]
           N == next[c]
<1>1. /\ c \in Nodes /\ status[c] = "linked" /\ c # tail /\ c \in marked
      /\ pred[t] = NULL => head = c
      /\ pred[t] # NULL =>
           /\ pred[t] \in Nodes \ marked /\ status[pred[t]] = "linked"
           /\ pred[t] # tail /\ next[pred[t]] = c
  BY PredLinked
<1>2. N \in Nodes /\ status[N] = "linked" /\ N # head
  BY <1>1 DEF ListInv, ListShape
<1>3. /\ status' = [status EXCEPT ![c] = "retired"] /\ StorePred(t, N)
      /\ UNCHANGED <<tail, marked>>
  BY DEF Unlinks
<1> HIDE DEF c, N
<1>4. /\ head' = IF pred[t] = NULL THEN N ELSE head
      /\ \A m \in Nodes : next'[m] = IF m = pred[t] THEN N ELSE next[m]
      /\ next'[tail] = next[tail]
  BY <1>2, <1>3, StorePredEffect
<1>5. \A m \in Nodes : status'[m] = IF m = c THEN "retired" ELSE status[m]
  BY <1>3 DEF ListInv, LoopedTypeOK, ListTypeOK
<1>6. \A m, n \in Nodes \ {tail} :
        /\ status[m] = "linked" => next[m] # head
        /\ status[m] = "linked" /\ status[n] = "linked" /\ next[m] = next[n] => m = n
  BY DEF ListInv, ListShape
<1>7. N # c
  BY <1>1, <1>6 DEF N
<1>8. tail \in Nodes /\ next[tail] = tail /\ status[tail] = "linked"
      /\ \A m \in Nodes : status[m] = "linked" =>
           next[m] \in Nodes /\ status[next[m]] = "linked"
  BY DEF ListInv, ListShape
(* Nobody leads to c any more.                                             *)
<1>9. ASSUME NEW m \in Nodes, status'[m] = "linked"
      PROVE  /\ next'[m] \in Nodes /\ status'[next'[m]] = "linked"
             /\ m # tail => next'[m] # head'
  <2>1. m # c /\ status[m] = "linked"
    BY <1>5, <1>9
  <2>2. CASE m = pred[t]
    <3>1. pred[t] # NULL
      BY <2>2, <1>9, HeapAssumption
    <3> QED BY <3>1, <2>2, <1>2, <1>4, <1>5, <1>7
  <2>3. CASE m # pred[t]
    <3>1. next'[m] = next[m] /\ next[m] # c
      BY <1>1, <1>4, <1>6, <1>8, <2>1, <2>3
    <3>2. m # tail => next[m] # head'
      BY <1>1, <1>2, <1>4, <1>6, <2>1 DEF N
    <3> QED BY <1>5, <1>8, <2>1, <3>1, <3>2
  <2> QED BY <2>2, <2>3
<1>10. ASSUME NEW m \in Nodes \ {tail}, NEW n \in Nodes \ {tail},
              status'[m] = "linked", status'[n] = "linked", next'[m] = next'[n]
       PROVE  m = n
  <2>1. m # c /\ status[m] = "linked" /\ n # c /\ status[n] = "linked"
    BY <1>5, <1>10
  <2>2. next[m] # N /\ next[n] # N
    BY <1>1, <1>6, <2>1 DEF N
  <2>3. CASE m = pred[t]
    BY <1>4, <1>10, <2>2, <2>3
  <2>4. CASE n = pred[t]
    BY <1>4, <1>10, <2>2, <2>4
  <2>5. CASE m # pred[t] /\ n # pred[t]
    <3>1. next[m] = next[n]
      BY <1>4, <1>10, <2>5
    <3> QED BY <1>6, <2>1, <3>1
  <2> QED BY <2>3, <2>4, <2>5
<1>11. head' \in Nodes /\ status'[head'] = "linked"
  <2>1. head \in Nodes /\ status[head] = "linked"
    BY DEF ListInv, ListShape
  <2>2. pred[t] # NULL => head # c
    BY <1>1, <1>6
  <2> QED BY <1>2, <1>4, <1>5, <1>7, <2>1, <2>2
<1>12. \A m \in Nodes : status'[m] = "retired" => m \in marked /\ next'[m] \in Nodes
  BY <1>1, <1>2, <1>4, <1>5 DEF ListInv, ListShape, N
<1>13. \A m \in marked : m \in Nodes /\ status'[m] \in {"linked", "retired"}
  BY <1>5 DEF ListInv, ListShape, Live
<1>14. ListShape'
  <2>1. tail' = tail /\ marked' = marked /\ tail \notin marked /\ tail # c
    BY <1>1, <1>3 DEF ListInv, ListShape
  <2>2. status'[tail] = "linked" /\ next'[tail] = tail
    BY <1>4, <1>5, <1>8, <2>1
  <2> QED BY <1>8, <1>9, <1>10, <1>11, <1>12, <1>13, <2>1, <2>2 DEF ListShape, Live
<1>15. getUnmarked(nxt[t]) = N
  BY DEF N, c
<1> QED BY <1>1, <1>2, <1>5, <1>7, <1>14, <1>15 DEF c

(* The exchange of find and of remove.                                     *)
LEMMA UnlinksKept ==
  ASSUME ListInv, NEW t \in Threads, pc = [u \in Threads |-> pc[u]], ~Strays(t),
         NEW from \in {"find.help", "remove.cas"},
         NEW to, to \notin {"add.discard", "add.cas", "remove.cas"},
         to \in PassedLabels => from = "find.help" /\ to \in HelpingLabels,
         PredIsCurr(t), Goto(t, from, to), Unlinks(t)
  PROVE  /\ ListInv' /\ curr[t] \in Nodes /\ status[curr[t]] = "linked"
         /\ status' = [status EXCEPT ![curr[t]] = "retired"]
<1> DEFINE c == curr[t]
           N == getUnmarked(nxt[t])
<1>1. /\ c \in Nodes /\ status[c] = "linked" /\ c # tail /\ c # NULL
      /\ "pred" \notin dangling[t] /\ "curr" \notin dangling[t] /\ N # NULL
  BY NextOfLinked, HeapAssumption DEF Goto
<1>2. c \in marked /\ next[c] = N
  <2>1. isMarked(nxt[t]) \/ pc[t] = "remove.cas"
    BY DEF ListInv, Traverses, Goto, HelpingLabels
  <2> QED BY <1>1, <2>1 DEF ListInv, Traverses
<1>3. /\ ListShape' /\ N \in Nodes /\ status'[N] = "linked"
      /\ \A m \in Nodes : status'[m] = IF m = c THEN "retired" ELSE status[m]
      /\ pred[t] # NULL => status'[pred[t]] = "linked"
  BY <1>1, <1>2, UnlinkShape
<1>4. /\ StorePred(t, N) /\ status' = [status EXCEPT ![c] = "retired"]
      /\ UNCHANGED <<item, tail, marked, pred, curr, nxt, node, op, key, seen,
                     calls, dangling, main>>
      /\ pc[t] = from /\ pc' = [pc EXCEPT ![t] = to]
  BY DEF Unlinks, findLocals, callVars, Goto
<1>5. /\ next' \in [Nodes -> NodeOrNull] /\ head' \in NodeOrNull
      /\ \A m \in Nodes : next'[m] = IF m = pred[t] THEN N ELSE next[m]
      /\ \A m \in marked : next'[m] = next[m]
  BY <1>1, <1>3, <1>4, StorePredEffect DEF ListShape, NodeOrNull
<1>6. LoopedTypeOK'
  BY <1>4, <1>5 DEF ListInv, LoopedTypeOK, ListTypeOK, Statuses
<1>7. pc'[t] = to /\ \A u \in Threads : u # t => pc'[u] = pc[u]
  BY <1>4
<1>8. ASSUME NEW u \in Threads PROVE node[u] # NULL =>
        status'[node[u]] = "private" /\ next'[node[u]] = next[node[u]]
  <2>1. node[u] \in NodeOrNull /\ OwnsNode(u)
    BY DEF ListInv, LoopedTypeOK, ListTypeOK
  <2>2. pred[t] # NULL => status[pred[t]] = "linked"
    BY <1>1, PredLinked
  <2> QED BY <1>1, <1>3, <1>5, <2>1, <2>2, HeapAssumption DEF OwnsNode, NodeOrNull
<1>9. ASSUME NEW u \in Threads, u # t PROVE Undisturbed(u)
  <2>1. Same(u) /\ tail' = tail /\ dangling' = dangling /\ node' = node /\ marked' = marked
    BY <1>4, <1>7, <1>9 DEF Same, Relabels
  <2> QED BY <1>1, <1>3, <1>5, <1>8, <2>1 DEF Undisturbed
<1>10. OwnsNode(t)'
  BY <1>4, <1>7, <1>8 DEF ListInv, OwnsNode
<1>11. Traverses(t)'
  <2>1. /\ Traverses(t)
        /\ pred[t] # NULL => Live(pred[t])' /\ pred[t] # tail
    <3>1. pred[t] \in NodeOrNull
      BY DEF ListInv, LoopedTypeOK, ListTypeOK
    <3> QED BY <1>1, <1>3, <1>4, <3>1, PredLinked DEF Live, NodeOrNull, ListInv
  <2>2. Live(c)' /\ Live(N)'
    BY <1>1, <1>3, <1>4 DEF Live, getUnmarked
  <2>3. to \in HelpingLabels => from = "find.help" /\ isMarked(nxt[t])
    <3>1. HelpingLabels \subseteq PassedLabels /\ "find.help" \in HelpingLabels
      BY DEF PassedLabels, HelpingLabels
    <3> QED BY <1>4, <2>1, <3>1 DEF Traverses
  <2>4. next'[c] = N
    BY <1>2, <1>5
  <2>5. /\ pred'[t] = pred[t] /\ curr'[t] = c /\ nxt'[t] = nxt[t] /\ tail' = tail
        /\ marked' = marked /\ dangling'[t] = dangling[t]
    BY <1>4
  <2>6. /\ getUnmarked(nxt[t])' = N /\ isMarked(nxt[t])' = isMarked(nxt[t])
        /\ Live(getUnmarked(nxt[t]))' /\ Live(curr[t])'
        /\ pred'[t] # NULL => pred'[t] # tail' /\ Live(pred[t])'
    BY <2>1, <2>2, <2>5 DEF getUnmarked, isMarked
  <2> HIDE DEF c, N
  <2> QED BY <1>1, <1>2, <1>7, <2>3, <2>4, <2>5, <2>6 DEF Traverses
<1> QED BY <1>1, <1>3, <1>4, <1>6, <1>9, <1>10, <1>11, OthersKept DEF ListInv

(* The exchange of add links its node between pred and curr.               *)
LEMMA AddsKept ==
  ASSUME ListInv, NEW t \in Threads, pc = [u \in Threads |-> pc[u]], ~Strays(t),
         NEW again \in NoCurrLabels \ {"add.discard"},
         NEW done \in NoCurrLabels \ {"add.discard"}, Adds(t, again, done)
  PROVE  /\ ListInv'
         /\ \/ status' = status
            \/ /\ node[t] \in Nodes /\ status[node[t]] = "private"
               /\ status' = [status EXCEPT ![node[t]] = "linked"]
<1>0. pc[t] = "add.cas"
  BY DEF Adds
<1>1. CASE ~PredIsCurr(t)
  <2>1. TryAgain(t, "add.cas", again)
    BY <1>1 DEF Adds
  <2> QED BY <2>1, TryAgainKept DEF TryAgain, heapVars
<1>2. CASE PredIsCurr(t)
  <2> DEFINE c == curr[t]
             n == node[t]
  <2>1. /\ StorePred(t, n) /\ status' = [status EXCEPT ![n] = "linked"]
        /\ node' = [node EXCEPT ![t] = NULL] /\ Decides(t, TRUE) /\ Forget(t)
        /\ dangling' = [dangling EXCEPT ![t] = {}]
        /\ UNCHANGED <<item, tail, marked, calls, main>>
        /\ pc' = [pc EXCEPT ![t] = done]
    BY <1>2 DEF Adds, Goto
  <2>2. "pred" \notin dangling[t]
    BY <1>0, UsesOf
  <2>3. /\ c \in Nodes /\ status[c] = "linked"
        /\ pred[t] = NULL => head = c
        /\ pred[t] # NULL =>
             /\ pred[t] \in Nodes \ marked /\ status[pred[t]] = "linked"
             /\ pred[t] # tail /\ next[pred[t]] = c
    BY <1>2, <2>2, PredLinked
  <2>4. n \in Nodes /\ status[n] = "private" /\ next[n] = c
    BY <1>0 DEF ListInv, OwnsNode, LoopedTypeOK, ListTypeOK, NodeOrNull
  <2>5. /\ next' \in [Nodes -> NodeOrNull]
        /\ head' = IF pred[t] = NULL THEN n ELSE head
        /\ \A m \in Nodes : next'[m] = IF m = pred[t] THEN n ELSE next[m]
        /\ \A m \in marked : next'[m] = next[m]
        /\ next'[tail] = next[tail]
    BY <1>2, <2>1, <2>2, <2>4, StorePredEffect
  <2> HIDE DEF c, n
  <2>6. \A m \in Nodes : status'[m] = IF m = n THEN "linked" ELSE status[m]
    BY <2>1, <2>4 DEF ListInv, LoopedTypeOK, ListTypeOK
  <2>7. /\ \A m, l \in Nodes \ {tail} :
             /\ status[m] = "linked" => next[m] # head
             /\ status[m] = "linked" /\ status[l] = "linked" /\ next[m] = next[l]
                  => m = l
        /\ \A m \in Nodes : status[m] = "linked" =>
             next[m] \in Nodes /\ status[next[m]] = "linked"
        /\ tail \in Nodes /\ next[tail] = tail /\ status[tail] = "linked"
        /\ head \in Nodes /\ status[head] = "linked"
    BY DEF ListInv, ListShape
  <2>8. n # pred[t] /\ n # c /\ n # tail /\ n # head
        /\ next'[n] = c /\ (pred[t] # NULL => next'[pred[t]] = n)
    BY <2>3, <2>4, <2>5, <2>7, HeapAssumption
(* Nobody but pred leads to the new node or led to curr.                   *)
  <2>9. ASSUME NEW m \in Nodes, m # n, m # pred[t], status'[m] = "linked"
        PROVE  /\ status[m] = "linked" /\ next'[m] = next[m] /\ next[m] \in Nodes
               /\ status[next[m]] = "linked" /\ next[m] # n
               /\ m # tail => next[m] # c /\ next[m] # head
    BY <2>3, <2>4, <2>5, <2>6, <2>7, <2>9
  <2>10. ASSUME NEW m \in Nodes, status'[m] = "linked"
         PROVE  /\ next'[m] \in Nodes /\ status'[next'[m]] = "linked"
                /\ m # tail => next'[m] # head'
    <3>1. CASE m = n
      <4>1. c # head'
        BY <2>3, <2>5, <2>7, <2>8
      <4> QED BY <2>3, <2>6, <2>8, <3>1, <4>1
    <3>2. CASE m # n /\ m = pred[t]
      <4>1. pred[t] # NULL
        BY <3>2, HeapAssumption
      <4> QED BY <2>4, <2>5, <2>6, <2>8, <3>2, <4>1
    <3>3. CASE m # n /\ m # pred[t]
      BY <2>5, <2>6, <2>9, <2>10, <3>3
    <3> QED BY <3>1, <3>2, <3>3
  <2>11. ASSUME NEW m \in Nodes \ {tail}, NEW l \in Nodes \ {tail},
                status'[m] = "linked", status'[l] = "linked", next'[m] = next'[l]
         PROVE  m = l
    <3>1. CASE m \in {n, pred[t]} /\ l \in {n, pred[t]}
      BY <2>8, <2>11, <3>1, HeapAssumption
    <3>2. CASE m \notin {n, pred[t]} /\ l \in {n, pred[t]}
      BY <2>8, <2>9, <2>11, <3>2, HeapAssumption
    <3>3. CASE m \in {n, pred[t]} /\ l \notin {n, pred[t]}
      BY <2>8, <2>9, <2>11, <3>3, HeapAssumption
    <3>4. CASE m \notin {n, pred[t]} /\ l \notin {n, pred[t]}
      BY <2>7, <2>9, <2>11, <3>4
    <3> QED BY <3>1, <3>2, <3>3, <3>4
  <2>12. head' \in Nodes /\ status'[head'] = "linked"
    BY <2>4, <2>5, <2>6, <2>7
  <2>13. \A m \in marked : m \in Nodes /\ m # n /\ m # pred[t]
         /\ status'[m] \in {"linked", "retired"}
    BY <2>3, <2>4, <2>6, HeapAssumption DEF ListInv, ListShape, Live
  <2>14. \A m \in Nodes : status'[m] = "retired" => m \in marked /\ next'[m] \in Nodes
    BY <2>5, <2>6 DEF ListInv, ListShape
  <2>15. ListShape'
    <3>1. tail' = tail /\ marked' = marked /\ tail \notin marked
      BY <2>1 DEF ListInv, ListShape
    <3> QED BY <2>5, <2>6, <2>7, <2>8, <2>10, <2>11, <2>12, <2>13, <2>14, <3>1
            DEF ListShape, Live
  <2>16. /\ op' = [op EXCEPT ![t] = "true"] /\ key' = [key EXCEPT ![t] = NULL]
         /\ seen' = [u \in Threads |->
                       IF u = t THEN {}
                       ELSE IF key[u] = key[t] THEN seen[u] \cup {TRUE} ELSE seen[u]]
         /\ pred' = [pred EXCEPT ![t] = NULL] /\ curr' = [curr EXCEPT ![t] = NULL]
         /\ nxt' = [nxt EXCEPT ![t] = NoLink]
    BY <2>1 DEF Decides, Forget
  <2>17. LoopedTypeOK'
    <3>1. seen' \in [Threads -> SUBSET BOOLEAN]
      BY <2>16 DEF ListInv, LoopedTypeOK, ListTypeOK
    <3> QED BY <2>1, <2>5, <2>12, <2>16, <3>1
            DEF ListInv, LoopedTypeOK, ListTypeOK, NodeOrNull, NoLink, Results,
                Statuses, Roles
  <2>18. /\ \A u \in Threads : u # t => Same(u) /\ dangling'[u] = dangling[u]
         /\ node'[t] = NULL /\ op'[t] = "true" /\ pc'[t] = done
         /\ pred'[t] = NULL /\ curr'[t] = NULL /\ nxt'[t] = NoLink
    BY <2>1, <2>16 DEF ListInv, LoopedTypeOK, ListTypeOK, Same, Relabels
  <2>19. ASSUME NEW u \in Threads, u # t PROVE Undisturbed(u)
    <3>1. node[u] # NULL => /\ status[node[u]] = "private" /\ node[u] \in Nodes
                            /\ node[u] # n
      BY <2>19 DEF ListInv, OwnsNode, LoopedTypeOK, ListTypeOK, NodeOrNull, n
    <3>2. \A v \in Threads : node'[v] = node[v] \/ node'[v] = NULL
      BY <2>18 DEF Same
    <3>3. node[u] # NULL => node[u] # pred[t]
      BY <2>3, <3>1
    <3> QED BY <2>1, <2>4, <2>5, <2>6, <2>13, <2>18, <2>19, <3>1, <3>2, <3>3
            DEF Undisturbed
  <2>20. OwnsNode(t)' /\ Traverses(t)'
    <3>1. done \notin PassedLabels \cup HelpingLabels
                        \cup {"remove.cas", "add.cas", "add.discard"}
      BY DEF NoCurrLabels, PassedLabels, HelpingLabels
    <3> QED BY <2>18, <3>1 DEF OwnsNode, Traverses, NoLink, getUnmarked
  <2> QED BY <2>1, <2>4, <2>15, <2>17, <2>19, <2>20, OthersKept DEF ListInv, n
<1> QED BY <1>1, <1>2

(* The mark of remove.                                                     *)
LEMMA MarksKept ==
  ASSUME ListInv, NEW t \in Threads, pc = [u \in Threads |-> pc[u]], ~Strays(t),
         NEW again \in NoCurrLabels \ {"add.discard"}, Marks(t, again)
  PROVE  ListInv'
<1>0. pc[t] = "remove.mark"
  BY DEF Marks
<1>1. CASE TryAgain(t, "remove.mark", again)
  BY <1>1, TryAgainKept
<1>2. CASE ~TryAgain(t, "remove.mark", again)
  <2> DEFINE c == curr[t]
             N == getUnmarked(nxt[t])
  <2>1. /\ Link(c) = <<N, FALSE>> /\ marked' = marked \cup {c} /\ Decides(t, FALSE)
        /\ pc' = [pc EXCEPT ![t] = "remove.cas"]
        /\ UNCHANGED <<heapVars, head, tail, pred, curr, nxt, node, calls, dangling,
                       main>>
    BY <1>2 DEF Marks, Goto, findLocals
  <2>2. /\ c # NULL /\ c # tail /\ N # NULL /\ Live(c) /\ c \in Nodes
    BY <1>0, UsesOf DEF ListInv, Traverses, PassedLabels, NoCurrLabels, Live
  <2>3. next[c] = N
    BY <2>1 DEF Link
  <2>4. /\ op' = [op EXCEPT ![t] = "true"] /\ key' = [key EXCEPT ![t] = NULL]
        /\ seen' = [u \in Threads |->
                      IF u = t THEN {}
                      ELSE IF key[u] = key[t] THEN seen[u] \cup {FALSE} ELSE seen[u]]
    BY <2>1 DEF Decides
  <2>5. LoopedTypeOK'
    <3>1. seen' \in [Threads -> SUBSET BOOLEAN]
      BY <2>4 DEF ListInv, LoopedTypeOK, ListTypeOK
    <3> QED BY <2>1, <2>2, <2>4, <3>1
            DEF ListInv, LoopedTypeOK, ListTypeOK, Results, heapVars
  <2>6. ListShape'
    BY <2>1, <2>2 DEF ListInv, ListShape, Live, heapVars
  <2>7. /\ \A u \in Threads : u # t => Same(u)
        /\ op'[t] = "true" /\ pc'[t] = "remove.cas"
    BY <2>1, <2>4 DEF ListInv, LoopedTypeOK, ListTypeOK, Same, Relabels
  <2>8. ASSUME NEW u \in Threads, u # t PROVE Undisturbed(u)
    <3>1. node[u] # NULL => status[node[u]] = "private"
      BY DEF ListInv, OwnsNode
    <3>2. status' = status /\ next' = next /\ node' = node /\ dangling' = dangling
          /\ tail' = tail /\ marked \subseteq marked'
      BY <2>1 DEF heapVars
    <3> QED BY <2>7, <2>8, <3>1, <3>2 DEF Undisturbed
  <2>9. OwnsNode(t)'
    BY <2>1, <2>7 DEF ListInv, OwnsNode, heapVars
  <2>10. Traverses(t)'
    <3>1. Traverses(t) /\ "remove.cas" \notin HelpingLabels /\ pc[t] \notin HelpingLabels
      BY <1>0 DEF ListInv, HelpingLabels
    <3>2. /\ status' = status /\ next' = next /\ tail' = tail /\ dangling' = dangling
          /\ pred' = pred /\ curr' = curr /\ nxt' = nxt
          /\ c \in marked' /\ next'[c] = N
      BY <2>1, <2>3 DEF heapVars
    <3> QED BY <2>2, <2>7, <3>1, <3>2 DEF Traverses, Live
  <2> QED BY <2>5, <2>6, <2>8, <2>9, <2>10, OthersKept DEF ListInv
<1> QED BY <1>1, <1>2

(* remove unlinks the node it has marked, or leaves it to others.          *)
LEMMA RemovesKept ==
  ASSUME ListInv, NEW t \in Threads, pc = [u \in Threads |-> pc[u]], ~Strays(t),
         NEW retire, retire \notin (PassedLabels \cup {"add.discard", "add.cas"}),
         NEW done \in NoCurrLabels \ {"add.discard"}, Removes(t, retire, done)
  PROVE  /\ ListInv'
         /\ \/ status' = status /\ pc'[t] = done
            \/ /\ curr[t] \in Nodes /\ status[curr[t]] = "linked"
               /\ status' = [status EXCEPT ![curr[t]] = "retired"]
               /\ pc'[t] = retire
<1>1. CASE PredIsCurr(t)
  <2>1. Goto(t, "remove.cas", retire) /\ Unlinks(t)
    BY <1>1 DEF Removes
  <2>2. retire \notin {"add.discard", "add.cas", "remove.cas"}
        /\ retire \notin PassedLabels
    BY DEF PassedLabels
  <2>3. pc'[t] = retire
    BY <2>1 DEF Goto
  <2> QED BY <1>1, <2>1, <2>2, <2>3, UnlinksKept
<1>2. CASE ~PredIsCurr(t)
  <2>1. Goto(t, "remove.cas", done) /\ UNCHANGED <<heapVars, loopedVars>>
    BY <1>2 DEF Removes
  <2>2. /\ UNCHANGED <<heapVars, head, tail, marked, pred, curr, nxt, node, op,
                       dangling>>
        /\ pc'[t] = done /\ \A u \in Threads : u # t => pc'[u] = pc[u]
    BY <2>1 DEF loopedVars, listVars, findLocals, callVars, Goto
  <2>3. LoopedTypeOK'
    BY <2>1 DEF ListInv, LoopedTypeOK, ListTypeOK, loopedVars, listVars,
       findLocals, callVars, heapVars
  <2>4. \A u \in Threads : Relabels(u)
    BY <2>2 DEF Relabels, NoCurrLabels, PassedLabels, HelpingLabels
  <2> QED BY <2>2, <2>3, <2>4, LabelKept DEF heapVars
<1> QED BY <1>1, <1>2

(* add deletes the node it did not need.                                   *)
LEMMA DiscardsKept ==
  ASSUME ListInv, NEW t \in Threads, pc = [u \in Threads |-> pc[u]],
         NEW done \in NoCurrLabels \ {"add.discard"}, Discards(t, done)
  PROVE  /\ ListInv' /\ node[t] \in Nodes /\ status[node[t]] = "private"
         /\ status' = [status EXCEPT ![node[t]] = "free"]
<1> DEFINE n == node[t]
<1>1. /\ pc[t] = "add.discard" /\ pc' = [pc EXCEPT ![t] = done] /\ Delete({n})
      /\ node' = [node EXCEPT ![t] = NULL]
      /\ UNCHANGED <<head, tail, marked, pred, curr, nxt, op, key, seen, calls,
                     dangling, main>>
  BY DEF Discards, Goto, findLocals
<1>2. n \in Nodes /\ status[n] = "private"
  BY <1>1 DEF ListInv, OwnsNode, LoopedTypeOK, ListTypeOK, NodeOrNull
<1>3. /\ status' = [m \in Nodes |-> IF m = n THEN "free" ELSE status[m]]
      /\ next' = [m \in Nodes |-> IF m = n THEN NULL ELSE next[m]]
      /\ item' = [m \in Nodes |-> IF m = n THEN NULL ELSE item[m]]
  BY <1>1, Zenon DEF Delete
<1>4. LoopedTypeOK'
  BY <1>1, <1>3 DEF ListInv, LoopedTypeOK, ListTypeOK, NodeOrNull, Statuses
<1> HIDE DEF n
<1>5. \A m \in Nodes : m # n => status'[m] = status[m] /\ next'[m] = next[m]
  BY <1>3
<1>6. \A m \in Nodes : Live(m) \/ status'[m] \in {"linked", "retired"} =>
        status'[m] = status[m] /\ next'[m] = next[m]
  BY <1>2, <1>3 DEF Live
<1>7. /\ \A u \in Threads : u # t => Same(u) /\ dangling'[u] = dangling[u]
      /\ node'[t] = NULL /\ pc'[t] = done
  BY <1>1 DEF ListInv, LoopedTypeOK, ListTypeOK, Same, Relabels
<1>8. \A u \in Threads : u # t /\ node[u] # NULL =>
        /\ status'[node[u]] = "private" /\ next'[node[u]] = next[node[u]]
        /\ node'[t] # node[u]
  <2>1. \A u \in Threads : node[u] \in NodeOrNull /\ OwnsNode(u)
    BY DEF ListInv, LoopedTypeOK, ListTypeOK
  <2> QED BY <1>5, <1>7, <2>1 DEF OwnsNode, NodeOrNull, n
<1>9. done \notin PassedLabels \cup HelpingLabels
                    \cup {"remove.cas", "add.cas", "add.discard"}
  BY DEF NoCurrLabels, PassedLabels, HelpingLabels
<1>10. op'[t] # "add" /\ op'[t] = op[t]
  BY <1>1 DEF ListInv, OwnsNode
<1>11. OwnsNode(t)'
  BY <1>7, <1>9, <1>10 DEF OwnsNode
<1>12. Traverses(t)'
  <2>1. /\ Traverses(t) /\ curr[t] \in NodeOrNull /\ pred[t] \in NodeOrNull
        /\ nxt[t] \in NodeOrNull \X BOOLEAN
    BY DEF ListInv, LoopedTypeOK, ListTypeOK
  <2>2. \A m : Live(m) => Live(m)' /\ status'[m] = status[m]
    BY <1>6 DEF Live
  <2>3. \A m \in Nodes : m \in marked => next'[m] = next[m]
    BY <1>6 DEF ListInv, ListShape
  <2>4. curr[t] # NULL /\ status'[curr[t]] = "linked" => status[curr[t]] = "linked"
    BY <1>3, <2>1 DEF NodeOrNull
  <2>5. curr[t] \in marked => curr[t] \in Nodes
    BY DEF ListInv, ListShape, Live
  <2>6. pc[t] \notin PassedLabels \cup HelpingLabels \cup {"remove.cas"}
    BY <1>1 DEF PassedLabels, HelpingLabels
  <2> QED BY <1>1, <1>7, <1>9, <2>1, <2>2, <2>3, <2>4, <2>5, <2>6 DEF Traverses
<1>13. status' = [status EXCEPT ![n] = "free"]
  BY <1>2, <1>3 DEF ListInv, LoopedTypeOK, ListTypeOK
<1> QED BY <1>1, <1>2, <1>4, <1>6, <1>7, <1>8, <1>11, <1>12, <1>13, FreshKept DEF n

(* Retired nodes are deleted, while no thread goes to a label at which it  *)
(* knows more than before.                                                 *)
LEMMA DeletesKept ==
  ASSUME ListInv, NEW S \in SUBSET Nodes, \A n \in S : status[n] = "retired",
         Delete(S), AfterDeletion,
         UNCHANGED <<head, tail, findLocals, callVars, calls>>,
         \A u \in Threads : Relabels(u)
  PROVE  /\ ListInv'
         /\ \A u \in Threads : dangling'[u] =
              dangling[u] \cup {r \in Roles : Named(u, r) \in S}
<1>1. /\ status' = [m \in Nodes |-> IF m \in S THEN "free" ELSE status[m]]
      /\ next' = [m \in Nodes |-> IF m \in S THEN NULL ELSE next[m]]
      /\ item' = [m \in Nodes |-> IF m \in S THEN NULL ELSE item[m]]
  BY Zenon DEF Delete
<1>2. Freed = S
  BY <1>1 DEF Freed
<1>3. /\ dangling' = [u \in Threads |->
                        dangling[u] \cup {r \in Roles : Named(u, r) \in S}]
      /\ marked' = marked \ S
      /\ UNCHANGED <<head, tail, pred, curr, nxt, node, op, key, seen, calls>>
  BY <1>2 DEF AfterDeletion, Dangles, findLocals, callVars
<1>4. LoopedTypeOK'
  BY <1>1, <1>3 DEF ListInv, LoopedTypeOK, ListTypeOK, NodeOrNull, Statuses
<1>5. \A m \in Nodes : /\ m \in S => status[m] = "retired" /\ status'[m] = "free"
                       /\ m \notin S => status'[m] = status[m] /\ next'[m] = next[m]
  BY <1>1
<1>6. ListShape'
  BY <1>3, <1>5 DEF ListInv, ListShape, Live
<1>7. ASSUME NEW u \in Threads PROVE Undisturbed(u)
  <2>1. node[u] # NULL => node[u] \in Nodes /\ status[node[u]] = "private"
    BY DEF ListInv, OwnsNode, LoopedTypeOK, ListTypeOK, NodeOrNull
  <2>2. Same(u) /\ tail' = tail /\ dangling[u] \subseteq dangling'[u]
    BY <1>3, <1>7 DEF Same
  <2>3. \A m \in Nodes :
          /\ status[m] = "linked" => status'[m] \in {"linked", "retired"}
          /\ status[m] = "retired" => status'[m] \in {"retired", "free"}
          /\ status[m] = "retired" /\ status'[m] = "free" =>
               \A r \in Roles : Named(u, r) = m => r \in dangling'[u]
    BY <1>3, <1>5
  <2>4. \A m \in marked : status'[m] = "free" \/ (m \in marked' /\ next'[m] = next[m])
    BY <1>3, <1>5 DEF ListInv, ListShape, Live
  <2> QED BY <1>3, <1>5, <2>1, <2>2, <2>3, <2>4 DEF Undisturbed
<1> QED BY <1>3, <1>4, <1>6, <1>7, OthersKept DEF ListInv

(* The constructor's list.                                                 *)
LEMMA LoopedInitKept == LoopedInit => ListInv
<1> SUFFICES ASSUME LoopedInit PROVE ListInv
  OBVIOUS
<1> PICK s \in Nodes :
      /\ head = s /\ tail = s
      /\ status = [n \in Nodes |-> IF n = s THEN "linked" ELSE "free"]
      /\ next = [n \in Nodes |-> IF n = s THEN s ELSE NULL]
      /\ item = [n \in Nodes |-> NULL]
  BY DEF LoopedInit
<1>1. ListInit /\ dangling = [t \in Threads |-> {}]
  BY DEF LoopedInit
<1>2. LoopedTypeOK
  BY <1>1 DEF LoopedTypeOK, ListTypeOK, ListInit, NodeOrNull, Statuses, NoLink, Roles
<1>3. ListShape
  BY <1>1 DEF ListShape, ListInit, Live
<1>4. ASSUME NEW t \in Threads PROVE OwnsNode(t) /\ Traverses(t)
  <2>1. /\ pc[t] = "idle" /\ node[t] = NULL /\ op[t] = "none" /\ pred[t] = NULL
        /\ curr[t] = NULL /\ nxt[t] = NoLink
    BY <1>1 DEF ListInit
  <2> QED BY <2>1 DEF OwnsNode, Traverses, NoCurrLabels, PassedLabels,
          HelpingLabels, NoLink, getUnmarked
<1> QED BY <1>2, <1>3, <1>4 DEF ListInv

(* What the shape of the list says of the linked nodes as a set.           *)
LEMMA ListWithin ==
  ASSUME ListInv
  PROVE  /\ Linked \in SUBSET Nodes /\ Within(next, Linked)
         /\ head # NULL /\ head \in Linked
BY HeapAssumption DEF ListInv, ListShape, Within, Linked

(* Thread u does not come to a label at which it must have no node.        *)
Busy(u) ==
  \/ pc'[u] = pc[u] \/ pc[u] \in QuietLabels
  \/ pc'[u] \notin QuietLabels /\ pc[u] # "add.discard"

(* Links of nodes that are not linked may change, and their status.        *)
LEMMA PlacedBeside ==
  ASSUME ListInv, ListPlaced, head' = head,
         \A n \in Nodes : /\ status'[n] = "linked" <=> status[n] = "linked"
                          /\ status[n] = "linked" => next'[n] = next[n],
         \A n \in Nodes : status'[n] = "private" => \E t \in Threads : node'[t] = n,
         \A t \in Threads :
           \/ node'[t] = NULL
           \/ node'[t] = node[t] /\ op'[t] = op[t] /\ Busy(t)
           \/ op'[t] = "add" /\ pc'[t] \notin QuietLabels
           \/ pc'[t] = "add.discard"
  PROVE  ListPlaced'
<1>1. Linked' = Linked /\ \A n \in Linked : next'[n] = next[n]
  BY DEF Linked
<1>2. Reaches(head, next', Linked)
  BY <1>1, ReachesWithin, ListWithin DEF ListPlaced
<1>3. "add.discard" \notin QuietLabels
  BY DEF QuietLabels
<1> QED BY <1>1, <1>2, <1>3 DEF ListPlaced, Reaches, Closed, Busy

(* A step that changes no link in the list and no status.                  *)
LEMMA PlacedKept ==
  ASSUME ListInv, ListPlaced, UNCHANGED <<status, next, head, node, op>>,
         \A u \in Threads : Busy(u)
  PROVE  ListPlaced'
BY PlacedBeside DEF ListPlaced

(* find returns to its caller: add links its node to curr, not yet to the  *)
(* list.                                                                   *)
LEMMA EndsPlaced ==
  ASSUME ListInv, ListPlaced, NEW t \in Threads, pc = [u \in Threads |-> pc[u]],
         NEW found \in BOOLEAN, NEW done,
         pc[t] \notin QuietLabels \cup {"add.discard"},
         Ends(t, found, AfterFind(t, found, done))
  PROVE  ListPlaced'
<1>1. /\ UNCHANGED <<status, head, node>>
      /\ next' = IF op[t] = "add" /\ ~found
                 THEN [next EXCEPT ![node[t]] = curr[t]] ELSE next
      /\ pc' = [pc EXCEPT ![t] = AfterFind(t, found, done)]
      /\ op[t] = "add" /\ ~found => op' = op
      /\ \A u \in Threads : u # t => op'[u] = op[u]
  BY DEF Ends, FindReturns, DecidedBy, ListInv, LoopedTypeOK, ListTypeOK
<1>2. op[t] = "add" => status[node[t]] = "private"
  BY DEF ListInv, OwnsNode
<1>3. \A n \in Nodes : status[n] = "linked" => next'[n] = next[n]
  BY <1>1, <1>2 DEF ListInv, LoopedTypeOK, ListTypeOK
<1>4. \A u \in Threads : u # t => op'[u] = op[u] /\ Busy(u)
  BY <1>1 DEF Busy
<1>5. \/ node[t] = NULL
      \/ op'[t] = "add" /\ pc'[t] \notin QuietLabels
      \/ pc'[t] = "add.discard"
  <2>1. node[t] # NULL => op[t] = "add"
    BY DEF ListPlaced
  <2> QED BY <1>1, <2>1 DEF AfterFind, QuietLabels
<1> QED BY <1>1, <1>3, <1>4, <1>5, PlacedBeside DEF ListPlaced

(* A new node is in the hands of its add.                                  *)
LEMMA CallAddPlaced ==
  ASSUME ListInv, ListPlaced, NEW t \in Threads, pc = [u \in Threads |-> pc[u]],
         NEW to, to \notin QuietLabels, CallAdd(t, to)
  PROVE  ListPlaced'
<1>0. \A k : (k \in Present) \in BOOLEAN
  OBVIOUS
<1> PICK n \in Nodes, k \in Elements, member \in BOOLEAN :
      /\ BeginCall(t, "add", k, member) /\ New(n, k)
      /\ node' = [node EXCEPT ![t] = n]
  BY <1>0 DEF CallAdd
<1>1. /\ head' = head /\ pc[t] = "idle" /\ pc' = [pc EXCEPT ![t] = to]
      /\ op' = [op EXCEPT ![t] = "add"]
  BY DEF CallAdd, Goto, BeginCall
<1>2. node[t] = NULL
  BY <1>1 DEF ListPlaced, QuietLabels
<1>3. \A m \in Nodes : /\ status'[m] = IF m = n THEN "private" ELSE status[m]
                       /\ m # n => next'[m] = next[m]
      /\ status[n] = "free"
  BY DEF New, ListInv, LoopedTypeOK, ListTypeOK
<1>4. /\ node'[t] = n /\ op'[t] = "add" /\ pc'[t] = to
      /\ \A u \in Threads : u # t =>
           node'[u] = node[u] /\ op'[u] = op[u] /\ pc'[u] = pc[u]
  BY <1>1 DEF ListInv, LoopedTypeOK, ListTypeOK
<1>5. ASSUME NEW m \in Nodes, status'[m] = "private"
      PROVE  \E u \in Threads : node'[u] = m
  <2>1. CASE m = n
    BY <1>4, <2>1
  <2>2. CASE m # n
    <3>1. PICK u \in Threads : node[u] = m
      BY <1>3, <1>5, <2>2 DEF ListPlaced
    <3> QED BY <1>2, <1>4, <3>1, HeapAssumption
  <2> QED BY <2>1, <2>2
<1> QED BY <1>1, <1>3, <1>4, <1>5, PlacedBeside DEF Busy

(* A call without a node begins.                                           *)
LEMMA CallOtherPlaced ==
  ASSUME ListInv, ListPlaced, NEW t \in Threads, pc = [u \in Threads |-> pc[u]],
         NEW to, CallOther(t, to)
  PROVE  ListPlaced'
<1>0. \A k : (k \in Present) \in BOOLEAN
  OBVIOUS
<1>1. PICK k \in Elements, o \in {"remove", "contains"}, member \in BOOLEAN :
        BeginCall(t, o, k, member)
  BY <1>0 DEF CallOther
<1>2. /\ UNCHANGED <<status, next, head, node>> /\ pc[t] = "idle"
      /\ \A u \in Threads : u # t => op'[u] = op[u] /\ pc'[u] = pc[u]
  BY <1>1 DEF CallOther, BeginCall, Goto, heapVars, ListInv, LoopedTypeOK, ListTypeOK
<1>3. node[t] = NULL
  BY <1>2 DEF ListPlaced, QuietLabels
<1> QED BY <1>2, <1>3, PlacedBeside DEF ListPlaced, Busy

(* An operation returns.                                                   *)
LEMMA ReturnsPlaced ==
  ASSUME ListInv, ListPlaced, NEW t \in Threads, pc[t] \in QuietLabels,
         \A u \in Threads : u # t => pc'[u] = pc[u], Returns(t)
  PROVE  ListPlaced'
<1>1. /\ UNCHANGED <<status, next, head, node>>
      /\ \A u \in Threads : u # t => op'[u] = op[u]
  BY DEF Returns, heapVars, ListInv, LoopedTypeOK, ListTypeOK
<1>2. node[t] = NULL
  BY DEF ListPlaced
<1> QED BY <1>1, <1>2, PlacedBeside DEF ListPlaced, Busy

(* add deletes the node it did not need.                                   *)
LEMMA DiscardsPlaced ==
  ASSUME ListInv, ListPlaced, NEW t \in Threads, pc = [u \in Threads |-> pc[u]],
         NEW done, Discards(t, done)
  PROVE  ListPlaced'
<1> DEFINE n == node[t]
<1>1. /\ pc[t] = "add.discard" /\ pc' = [pc EXCEPT ![t] = done] /\ Delete({n})
      /\ node' = [node EXCEPT ![t] = NULL] /\ UNCHANGED <<head, op>>
  BY DEF Discards, Goto
<1>2. n \in Nodes /\ status[n] = "private"
  BY <1>1 DEF ListInv, OwnsNode, LoopedTypeOK, ListTypeOK, NodeOrNull
<1>3. \A m \in Nodes : /\ status'[m] = IF m = n THEN "free" ELSE status[m]
                       /\ m # n => next'[m] = next[m]
  BY <1>1 DEF Delete
<1>4. /\ node'[t] = NULL
      /\ \A u \in Threads : u # t => node'[u] = node[u] /\ pc'[u] = pc[u]
  BY <1>1 DEF ListInv, LoopedTypeOK, ListTypeOK
<1> HIDE DEF n
<1>5. ASSUME NEW m \in Nodes, status'[m] = "private"
      PROVE  \E u \in Threads : node'[u] = m
  <2>1. m # n /\ status[m] = "private"
    BY <1>3, <1>5
  <2> QED BY <1>4, <2>1 DEF ListPlaced, n
<1> QED BY <1>1, <1>2, <1>3, <1>4, <1>5, PlacedBeside DEF Busy

(* Retired nodes are deleted.                                              *)
LEMMA DeletesPlaced ==
  ASSUME ListInv, ListPlaced, NEW S, \A n \in S : status[n] = "retired", Delete(S),
         UNCHANGED <<head, node, op>>, \A u \in Threads : Busy(u)
  PROVE  ListPlaced'
<1>1. \A m \in Nodes : /\ status'[m] = IF m \in S THEN "free" ELSE status[m]
                       /\ m \notin S => next'[m] = next[m]
  BY DEF Delete
<1>2. \A n \in Nodes : status'[n] = "private" => \E t \in Threads : node'[t] = n
  BY <1>1 DEF ListPlaced
<1>3. \A n \in Nodes : /\ status'[n] = "linked" <=> status[n] = "linked"
                       /\ status[n] = "linked" => next'[n] = next[n]
  BY <1>1
<1> QED BY <1>2, <1>3, PlacedBeside

(* A marked curr is taken out of the list.                                 *)
LEMMA UnlinksPlaced ==
  ASSUME ListInv, ListPlaced, NEW t \in Threads, ~Strays(t),
         pc[t] \in {"find.help", "remove.cas"}, PredIsCurr(t), Unlinks(t),
         \A u \in Threads : Busy(u)
  PROVE  ListPlaced'
<1> DEFINE c == curr[t]
           N == getUnmarked(nxt[t])
           p == pred[t]
<1>1. /\ c \in Nodes /\ status[c] = "linked" /\ c # tail
      /\ "pred" \notin dangling[t] /\ "curr" \notin dangling[t] /\ N # NULL
  BY NextOfLinked
<1>2. c \in marked /\ next[c] = N
  <2>1. isMarked(nxt[t]) \/ pc[t] = "remove.cas"
    BY DEF ListInv, Traverses, HelpingLabels
  <2> QED BY <1>1, <2>1 DEF ListInv, Traverses
<1>3. /\ p = NULL => head = c
      /\ p # NULL => /\ p \in Nodes \ marked /\ status[p] = "linked"
                     /\ p # tail /\ next[p] = c
  BY <1>1, PredLinked
<1>4. N \in Nodes
  BY <1>1, <1>2 DEF ListInv, ListShape
<1>5. /\ StorePred(t, N) /\ status' = [status EXCEPT ![c] = "retired"]
      /\ UNCHANGED <<node, op>>
  BY DEF Unlinks, callVars
<1>6. /\ head' = IF p = NULL THEN N ELSE head
      /\ \A m \in Nodes : next'[m] = IF m = p THEN N ELSE next[m]
  BY <1>1, <1>4, <1>5, StorePredEffect
<1> HIDE DEF c, N, p
<1>7. /\ Linked' = Linked \ {c} /\ c \in Linked
      /\ \A m \in Nodes : status'[m] = "private" => status[m] = "private"
  BY <1>1, <1>5 DEF Linked, ListInv, LoopedTypeOK, ListTypeOK
<1>8. Reaches(head', next', Linked \ {c})
  <2>1. Reaches(head, next, Linked)
    BY DEF ListPlaced
  <2>2. CASE p = NULL
    <3>1. head = c /\ head' = next[c] /\ \A m \in Linked : next'[m] = next[m]
      BY <1>2, <1>3, <1>6, <2>2, HeapAssumption DEF Linked
    <3> QED BY <1>7, <2>1, <3>1, ReachesPopped, ListWithin
  <2>3. CASE p # NULL
    <3>1. /\ p \in Linked /\ p # c /\ head # c /\ next[p] = c /\ head' = head
          /\ next'[p] = next[c] /\ \A m \in Linked : m # p => next'[m] = next[m]
      BY <1>2, <1>3, <1>6, <2>3 DEF Linked, ListInv, ListShape
    <3> QED BY <1>7, <2>1, <3>1, ReachesUnlinked, ListWithin
  <2> QED BY <2>2, <2>3
<1> QED BY <1>5, <1>7, <1>8 DEF ListPlaced, Reaches, Closed, Busy

(* The exchange of remove, whether or not it unlinks curr.                 *)
LEMMA RemovesPlaced ==
  ASSUME ListInv, ListPlaced, NEW t \in Threads, pc = [u \in Threads |-> pc[u]],
         ~Strays(t), NEW retire, NEW done, Removes(t, retire, done)
  PROVE  ListPlaced'
<1>1. pc[t] = "remove.cas" /\ \A u \in Threads : Busy(u)
  BY DEF Removes, Goto, Busy, QuietLabels
<1>2. CASE PredIsCurr(t)
  BY <1>1, <1>2, UnlinksPlaced DEF Removes
<1>3. CASE ~PredIsCurr(t)
  BY <1>1, <1>3, PlacedKept DEF Removes, heapVars, loopedVars, listVars, callVars
<1> QED BY <1>2, <1>3

(* remove marks curr.                                                      *)
LEMMA MarksPlaced ==
  ASSUME ListInv, ListPlaced, NEW t \in Threads, pc = [u \in Threads |-> pc[u]],
         NEW again, Marks(t, again)
  PROVE  ListPlaced'
<1>1. /\ UNCHANGED <<status, next, head, node>> /\ pc[t] = "remove.mark"
      /\ \A u \in Threads : u # t => op'[u] = op[u] /\ pc'[u] = pc[u]
  BY DEF Marks, Goto, TryAgain, Decides, heapVars, callVars, ListInv, LoopedTypeOK,
     ListTypeOK
<1>2. node[t] = NULL
  BY <1>1 DEF ListPlaced, QuietLabels
<1> QED BY <1>1, <1>2, PlacedBeside DEF ListPlaced, Busy

(* add links its node between pred and curr, or goes back.                 *)
LEMMA AddsPlaced ==
  ASSUME ListInv, ListPlaced, NEW t \in Threads, pc = [u \in Threads |-> pc[u]],
         ~Strays(t), NEW again, again \notin QuietLabels, NEW done,
         Adds(t, again, done)
  PROVE  ListPlaced'
<1>0. pc[t] = "add.cas"
  BY DEF Adds
<1>1. CASE ~PredIsCurr(t)
  <2>1. /\ UNCHANGED <<status, next, head, node, op>>
        /\ pc' = [pc EXCEPT ![t] = again]
    BY <1>1 DEF Adds, TryAgain, Goto, heapVars, callVars
  <2>2. \A u \in Threads : Busy(u)
    BY <1>0, <2>1 DEF Busy
  <2> QED BY <2>1, <2>2, PlacedKept
<1>2. CASE PredIsCurr(t)
  <2> DEFINE c == curr[t]
             n == node[t]
             p == pred[t]
  <2>1. /\ StorePred(t, n) /\ status' = [status EXCEPT ![n] = "linked"]
        /\ node' = [node EXCEPT ![t] = NULL] /\ Decides(t, TRUE)
        /\ pc' = [pc EXCEPT ![t] = done]
    BY <1>2 DEF Adds, Goto
  <2>2. "pred" \notin dangling[t]
    BY <1>0, UsesOf
  <2>3. /\ c \in Nodes /\ status[c] = "linked"
        /\ p = NULL => head = c
        /\ p # NULL => /\ p \in Nodes \ marked /\ status[p] = "linked"
                       /\ p # tail /\ next[p] = c
    BY <1>2, <2>2, PredLinked
  <2>4. n \in Nodes /\ status[n] = "private" /\ next[n] = c
    BY <1>0 DEF ListInv, OwnsNode, LoopedTypeOK, ListTypeOK, NodeOrNull
  <2>5. /\ head' = IF p = NULL THEN n ELSE head
        /\ \A m \in Nodes : next'[m] = IF m = p THEN n ELSE next[m]
    BY <1>2, <2>1, <2>2, <2>4, StorePredEffect
  <2>6. /\ node'[t] = NULL
        /\ \A u \in Threads : u # t =>
             node'[u] = node[u] /\ op'[u] = op[u] /\ pc'[u] = pc[u]
    BY <2>1 DEF Decides, ListInv, LoopedTypeOK, ListTypeOK
  <2> HIDE DEF c, n, p
  <2>7. /\ Linked' = Linked \cup {n} /\ n \notin Linked
        /\ \A m \in Nodes : status'[m] = "private" => m # n /\ status[m] = "private"
    BY <2>1, <2>4 DEF Linked, ListInv, LoopedTypeOK, ListTypeOK
  <2>8. Reaches(head', next', Linked \cup {n})
    <3>1. Reaches(head, next, Linked)
      BY DEF ListPlaced
    <3>2. CASE p = NULL
      <4>1. /\ head' = n /\ next'[n] = head
            /\ \A m \in Linked : next'[m] = next[m]
        BY <2>3, <2>4, <2>5, <3>2, HeapAssumption DEF Linked
      <4> QED BY <2>4, <3>1, <4>1, ReachesPushed, ListWithin
    <3>3. CASE p # NULL
      <4>1. /\ p \in Linked /\ next'[p] = n /\ next'[n] = next[p] /\ head' = head
            /\ \A m \in Linked : m # p => next'[m] = next[m]
        BY <2>3, <2>4, <2>5, <3>3 DEF Linked
      <4> QED BY <2>4, <2>7, <3>1, <4>1, ReachesInserted, ListWithin
    <3> QED BY <3>2, <3>3
  <2>9. ASSUME NEW m \in Nodes, status'[m] = "private"
        PROVE  \E u \in Threads : node'[u] = m
    BY <2>6, <2>7, <2>9 DEF ListPlaced, n
  <2>10. ASSUME NEW u \in Threads, node'[u] # NULL
         PROVE  /\ op'[u] = "add" \/ pc'[u] = "add.discard"
                /\ pc'[u] \notin QuietLabels
    BY <2>6, <2>10 DEF ListPlaced
  <2> QED BY <2>7, <2>8, <2>9, <2>10 DEF ListPlaced, Reaches, Closed
<1> QED BY <1>1, <1>2

(* The constructor's list.                                                 *)
LEMMA LoopedInitPlaced == LoopedInit => ListPlaced
<1> SUFFICES ASSUME LoopedInit PROVE ListPlaced
  OBVIOUS
<1> PICK s \in Nodes :
      /\ head = s
      /\ status = [n \in Nodes |-> IF n = s THEN "linked" ELSE "free"]
  BY DEF LoopedInit
<1>1. Linked = {s} /\ \A n \in Nodes : status[n] # "private"
  BY DEF Linked
<1>2. \A t \in Threads : node[t] = NULL
  BY DEF LoopedInit, ListInit
<1> QED BY <1>1, <1>2, HeapAssumption DEF ListPlaced, Reaches, Closed

(* The list that starts at head is that of the linked nodes.               *)
LEMMA PlacedChain == ListInv /\ ListPlaced => ChainSet(head) = Linked
BY ChainIsLinked, ListWithin DEF ListPlaced

-----------------------------------------------------------------------------
(* The steps of the list of ListHP.                                        *)

(* What u has found in the list, and what keeps it, is as before.          *)
Steady(u) ==
  /\ \/ pc'[u] = pc[u]
     \/ pc[u] \in {"find.help", "help.scan"} /\ pc'[u] \in {"help.scan", "help.curr"}
     \/ pc[u] = "remove.mark" /\ pc'[u] = "remove.cas"
  /\ pred'[u] = pred[u] /\ curr'[u] = curr[u] /\ nxt'[u] = nxt[u]
  /\ hazardPointerList'[u] = hazardPointerList[u] /\ threadCount' = threadCount
  /\ dangling[u] \subseteq dangling'[u]
  /\ \A r \in dangling'[u] \ dangling[u] :
       /\ r \in Roles /\ Named(u, r) \in Nodes
       /\ \A j \in Slots : ~Shields(u, j, Named(u, r), Scanning)
  /\ \A j \in Slots, n \in Nodes :
       Shields(u, j, n, Scanning) => Shields(u, j, n, Scanning)'

(* No retired node gets back into the list.                                *)
NoneLinkedAgain ==
  \A m \in Nodes : status[m] = "retired" => status'[m] # "linked"

(* The locals of u, as they are typed.                                     *)
LEMMA LocalTypes ==
  ASSUME ListInv, NEW u \in Threads
  PROVE  /\ pred[u] \in NodeOrNull /\ curr[u] \in NodeOrNull
         /\ nxt[u] \in NodeOrNull \X BOOLEAN /\ getUnmarked(nxt[u]) \in NodeOrNull
         /\ node[u] \in NodeOrNull /\ dangling[u] \subseteq Roles
         /\ Named(u, "pred") = pred[u] /\ Named(u, "curr") = curr[u]
         /\ Named(u, "nxt") = getUnmarked(nxt[u])
BY DEF ListInv, LoopedTypeOK, ListTypeOK, getUnmarked, Named

(* The slots that find uses.                                               *)
LEMMA SlotsInRange == EnoughSlots => {0, 1, 2} \subseteq Slots
BY HPAssumption DEF Slots, EnoughSlots

(* What find has found has a slot that shields it.                         *)
LEMMA FoundNamed ==
  ASSUME EnoughSlots, NEW u \in Threads, NEW r \in Protected(u),
         Named(u, r) # NULL, Published(u)
  PROVE  \E s \in Slots : Found(u, s, Named(u, r))
<1>1. r \in Roles
  BY DEF Protected, Roles
<1>2. 0 \in Slots /\ 1 \in Slots /\ 2 \in Slots
  BY SlotsInRange
<1>3. CASE r = "pred"
  BY <1>2, <1>3 DEF Found, Named
<1>4. CASE r = "curr"
  BY <1>2, <1>4 DEF Found, Named
<1>5. CASE r = "nxt"
  <2>1. pc[u] # "find.slot2"
    BY <1>5 DEF Published, Named
  <2> QED BY <1>2, <1>5, <2>1 DEF Found, Named
<1> QED BY <1>1, <1>3, <1>4, <1>5 DEF Roles

(* A thread that goes on with what it has found keeps its invariant.       *)
LEMMA SteadyKept ==
  ASSUME EnoughSlots, ListInv, NEW u \in Threads, Published(u), FoundShielded(u),
         Steady(u), NoneLinkedAgain
  PROVE  Published(u)' /\ FoundShielded(u)'
<1>1. /\ pred'[u] = pred[u] /\ curr'[u] = curr[u] /\ nxt'[u] = nxt[u]
      /\ hazardPointerList'[u] = hazardPointerList[u]
      /\ dangling[u] \subseteq dangling'[u] /\ threadCount' = threadCount
      /\ getUnmarked(nxt[u])' = getUnmarked(nxt[u])
  BY DEF Steady, getUnmarked
<1>2. Published(u)'
  BY <1>1 DEF Steady, Published
<1>3. Protected(u)' = Protected(u)
  <2>1. CASE pc'[u] = pc[u]
    BY <1>1, <2>1 DEF Protected
  <2>2. CASE pc'[u] # pc[u]
    <3>1. /\ pc[u] \in {"find.help", "help.scan", "remove.mark"}
          /\ pc'[u] \in {"help.scan", "help.curr", "remove.cas"}
      BY <2>2 DEF Steady
    <3> QED BY <3>1 DEF Protected
  <2> QED BY <2>1, <2>2
<1>4. NextFound(u)' => NextFound(u)
  <2>1. SUFFICES ASSUME NextFound(u)' PROVE NextFound(u)
    OBVIOUS
  <2>2. pc[u] = "find.pred" /\ "curr" \notin dangling[u]
    BY <1>1, <2>1 DEF NextFound, Steady
  <2>3. curr[u] # NULL /\ Live(curr[u])
    BY <2>2 DEF ListInv, Traverses, NoCurrLabels
  <2> QED BY <1>1, <2>1, <2>2, <2>3 DEF NextFound, Live, NoneLinkedAgain
<1>5. ASSUME NEW s \in Slots, NEW n \in Nodes, Found(u, s, n)' PROVE Found(u, s, n)
  <2>1. CASE pc'[u] = pc[u]
    BY <1>1, <1>3, <1>4, <1>5, <2>1 DEF Found
  <2>2. CASE pc'[u] # pc[u]
    <3>1. /\ pc[u] \in {"find.help", "help.scan", "remove.mark"}
          /\ pc'[u] \in {"help.scan", "help.curr", "remove.cas"}
      BY <2>2 DEF Steady
    <3> QED BY <1>1, <1>3, <1>4, <1>5, <3>1 DEF Found
  <2> QED BY <2>1, <2>2
<1>6. ASSUME u < threadCount PROVE FoundShielded(u)'
  <2>1. \A s \in Slots, n \in Nodes : Found(u, s, n) => Shields(u, s, n, Scanning)
    BY <1>6 DEF FoundShielded
  <2>2. ASSUME NEW r \in Protected(u) PROVE r \notin dangling'[u]
    <3>1. r \notin dangling[u]
      BY <1>6, <2>2 DEF FoundShielded
    <3>2. Named(u, r) \in Nodes =>
            \E s \in Slots : Shields(u, s, Named(u, r), Scanning)
      BY <2>1, <2>2, FoundNamed, HeapAssumption
    <3> QED BY <3>1, <3>2 DEF Steady
  <2>3. NextFound(u) => "nxt" \notin dangling'[u]
    <3>1. NextFound(u) => "nxt" \notin dangling[u]
      BY <1>6 DEF FoundShielded
    <3>2. NextFound(u) /\ Named(u, "nxt") \in Nodes =>
            Shields(u, 0, Named(u, "nxt"), Scanning)
      BY <2>1, LocalTypes, SlotsInRange DEF Found
    <3> QED BY <3>1, <3>2, SlotsInRange DEF Steady
  <2>4. \A s \in Slots, n \in Nodes : Found(u, s, n)' => Shields(u, s, n, Scanning)'
    BY <1>5, <2>1 DEF Steady
  <2> QED BY <1>3, <1>4, <2>2, <2>3, <2>4 DEF FoundShielded
<1>7. FoundShielded(u)'
  BY <1>1, <1>6 DEF FoundShielded
<1> QED BY <1>2, <1>7

(* A step of t takes no removed node out of the hands of its thread.       *)
Step(t) ==
  /\ \A u \in Threads : u # t => Steady(u) /\ pc'[u] = pc[u]
  /\ NoneLinkedAgain
  /\ \A m \in Nodes :
       /\ status[m] = "retired" /\ InNoList(m)
       /\ ~(pc[t] = "remove.clear" /\ m = curr[t])
       => status'[m] = "retired" /\ InNoList(m)'
  /\ pc'[t] = "remove.clear" =>
       \/ pc[t] = "remove.clear" /\ curr'[t] = curr[t]
       \/ curr'[t] \in Nodes /\ status[curr'[t]] = "linked"

(* The other threads' invariant is kept by a step of t.                    *)
LEMMA ThreadsKept ==
  ASSUME EnoughSlots, IInv, NEW t \in Threads, Step(t),
         NEW u \in Threads, u # t
  PROVE  ThreadInv(u)'
<1>1. /\ Published(u)' /\ FoundShielded(u)'
  BY SteadyKept DEF IInv, ThreadInv, Step
<1>2. RemovedByOne(u)'
  <2>1. SUFFICES ASSUME pc[u] = "remove.clear"
                 PROVE  /\ curr[u] \in Nodes /\ status'[curr[u]] = "retired"
                        /\ InNoList(curr[u])'
                        /\ ~(pc'[t] = "remove.clear" /\ curr'[t] = curr[u])
                        /\ \A v \in Threads \ {t} :
                             pc'[v] = "remove.clear" /\ curr'[v] = curr[u] => v = u
    <3>1. pc'[u] = pc[u] /\ curr'[u] = curr[u]
      BY DEF Step, Steady
    <3> QED BY <2>1, <3>1 DEF RemovedByOne
  <2>2. /\ curr[u] \in Nodes /\ status[curr[u]] = "retired" /\ InNoList(curr[u])
        /\ \A v \in Threads : pc[v] = "remove.clear" /\ curr[v] = curr[u] => v = u
    BY <2>1 DEF IInv, ThreadInv, RemovedByOne
  <2>3. ~(pc[t] = "remove.clear" /\ curr[u] = curr[t])
    BY <2>2
  <2>4. status'[curr[u]] = "retired" /\ InNoList(curr[u])'
    BY <2>2, <2>3 DEF Step, Steady, InNoList
  <2>5. ~(pc'[t] = "remove.clear" /\ curr'[t] = curr[u])
    BY <2>2, <2>3 DEF Step
  <2>6. \A v \in Threads \ {t} :
          pc'[v] = "remove.clear" /\ curr'[v] = curr[u] => v = u
    BY <2>2 DEF Step, Steady
  <2> QED BY <2>2, <2>4, <2>5, <2>6
<1> QED BY <1>1, <1>2 DEF ThreadInv

(* The parts of the invariant after a step of t.                           *)
LEMMA StepInv ==
  ASSUME EnoughSlots, IInv, NEW t \in Threads, Step(t), ListInv', Scheme(Scanning)',
         ThreadInv(t)', MainAlone', pc' \in [Threads -> Labels],
         main' \in MainStates, threadCount' = threadCount,
         slot' \in [Threads -> Slots]
  PROVE  IInv'
<1>1. TypeOK'
  BY DEF IInv, TypeOK, ListInv, Scheme, ScanTypes
<1> QED BY <1>1, ThreadsKept DEF IInv

(* Where find holds nothing that it has found.                             *)
HoldingLabels == {"find.help", "help.scan", "help.curr", "find.slot2", "find.curr",
                  "remove.mark", "remove.cas", "find.next", "find.slot0",
                  "find.again", "find.pred", "find.misread"}

(* A thread that has found nothing needs no slot.                          *)
LEMMA FoundNothing ==
  ASSUME NEW t \in Threads,
         pc'[t] \notin HoldingLabels \cup {"remove.clear"}
  PROVE  ThreadInv(t)'
BY DEF HoldingLabels, ThreadInv, Published, FoundShielded, RemovedByOne, Found,
       Protected, NextFound

(* Nothing but locals and slots of t and nodes that are not retired        *)
(* changes, and t begins no scan.                                          *)
Local(t) ==
  /\ UNCHANGED <<threadCount, retiredPointerList, retiredCount, scan>>
  /\ Destroyed => Destroyed'
  /\ hazardPointerList' \in [Threads -> [Slots -> NodeOrNull]]
  /\ \A u \in Threads : u # t =>
       /\ pc'[u] = pc[u] /\ hazardPointerList'[u] = hazardPointerList[u]
       /\ pred'[u] = pred[u] /\ curr'[u] = curr[u] /\ nxt'[u] = nxt[u]
       /\ dangling'[u] = dangling[u]
  /\ \A m \in Nodes : status[m] = "retired" => status'[m] = "retired"
  /\ pc'[t] \in Scanning => pc[t] \in Scanning
  /\ pc'[t] = "remove.clear" =>
       \/ pc[t] = "remove.clear" /\ curr'[t] = curr[t]
       \/ curr'[t] \in Nodes /\ status[curr'[t]] = "linked"

(* What such a step keeps, and the ways a slot shields a node after it.    *)
LEMMA LocalEffect ==
  ASSUME IInv, NEW t \in Threads, Local(t)
  PROVE  /\ Scheme(Scanning)' /\ Step(t)
         /\ \A m : InNoList(m) => InNoList(m)'
         /\ \A i, j \in Slots, n \in Nodes :
              /\ Shields(t, i, n, Scanning) /\ i <= j
              /\ hazardPointerList'[t][j] = n
              => Shields(t, j, n, Scanning)'
         /\ \A j \in Slots, n \in Nodes :
              /\ t < threadCount /\ hazardPointerList'[t][j] = n
              /\ status'[n] # "retired"
              => Shields(t, j, n, Scanning)'
<1>1. \A u \in Threads : pc'[u] \in Scanning => pc[u] \in Scanning
  BY DEF Local
<1>2. /\ Scheme(Scanning)'
      /\ \A m : InNoList(m) => InNoList(m)'
      /\ \A n : \A u \in Threads, i, j \in Slots :
           /\ Shields(u, i, n, Scanning) /\ i <= j /\ hazardPointerList'[u][j] = n
           => Shields(u, j, n, Scanning)'
      /\ \A u \in Threads, j \in Slots, n \in Nodes :
           /\ u < threadCount /\ hazardPointerList'[u][j] = n
           /\ status'[n] # "retired"
           => Shields(u, j, n, Scanning)'
  BY <1>1, SchemeKept DEF IInv, Local
<1>3. ASSUME NEW u \in Threads, u # t PROVE Steady(u) /\ pc'[u] = pc[u]
  <2>1. ASSUME NEW j \in Slots, NEW n \in Nodes, Shields(u, j, n, Scanning)
        PROVE  Shields(u, j, n, Scanning)'
    <3>1. hazardPointerList'[u][j] = n /\ j <= j
      BY <1>3, <2>1 DEF Shields, Local, Slots
    <3> QED BY <1>2, <2>1, <3>1
  <2> QED BY <1>3, <2>1 DEF Local, Steady
<1>4. Step(t)
  BY <1>2, <1>3 DEF Step, Local, NoneLinkedAgain
<1> QED BY <1>2, <1>4

(* A step of t that changes nothing but its locals and slots.              *)
LEMMA LocalInv ==
  ASSUME EnoughSlots, IInv, NEW t \in Threads, Local(t), ListInv', ThreadInv(t)',
         MainAlone', pc' \in [Threads -> Labels], main' \in MainStates,
         slot' \in [Threads -> Slots]
  PROVE  IInv'
<1>1. Scheme(Scanning)' /\ Step(t)
  BY LocalEffect
<1> QED BY <1>1, StepInv DEF Local

(* Threads that are not idle keep the main thread waiting.                 *)
LEMMA AloneKept ==
  ASSUME IInv, NEW t \in Threads, pc[t] # "exited", UNCHANGED main
  PROVE  MainAlone' /\ ~Destroyed /\ main \notin {"deleting", "destroyed"}
BY DEF IInv, MainAlone, Destroyed

(* pc is a function.                                                       *)
LEMMA PcFunction == IInv => pc = [u \in Threads |-> pc[u]]
BY DEF IInv, TypeOK

(* A step of t from one label to another, with the locals of find.         *)
Own(t, to) ==
  /\ pc' = [pc EXCEPT ![t] = to] /\ to \in Labels \ {"undefined"}
  /\ pc[t] \notin {"exited", "undefined"}
  /\ \A u \in Threads : u # t =>
       /\ pred'[u] = pred[u] /\ curr'[u] = curr[u] /\ nxt'[u] = nxt[u]
       /\ dangling'[u] = dangling[u]
  /\ \A m \in Nodes : status[m] = "retired" => status'[m] = "retired"
  /\ UNCHANGED <<threadCount, retiredPointerList, retiredCount, scan, main>>

(* Such a step is a local one, be the slots the same or one of them new.   *)
LEMMA OwnLocal ==
  ASSUME IInv, NEW t \in Threads, NEW to \in Labels \ (Scanning \cup {"remove.clear"}),
         Own(t, to),
         \/ UNCHANGED hazardPointerList
         \/ \E j \in Slots, n \in NodeOrNull :
              hazardPointerList' = [hazardPointerList EXCEPT ![t][j] = n]
  PROVE  Local(t)
<1>1. /\ hazardPointerList' \in [Threads -> [Slots -> NodeOrNull]]
      /\ \A u \in Threads : u # t => hazardPointerList'[u] = hazardPointerList[u]
  <2>1. hazardPointerList \in [Threads -> [Slots -> NodeOrNull]]
    BY DEF IInv, TypeOK
  <2>2. CASE UNCHANGED hazardPointerList
    BY <2>1, <2>2
  <2>3. ASSUME NEW j \in Slots, NEW n \in NodeOrNull,
               hazardPointerList' = [hazardPointerList EXCEPT ![t][j] = n]
        PROVE  /\ hazardPointerList' \in [Threads -> [Slots -> NodeOrNull]]
               /\ \A u \in Threads :
                    u # t => hazardPointerList'[u] = hazardPointerList[u]
    BY <2>1, <2>3
  <2> QED BY <2>2, <2>3
<1>2. pc'[t] = to /\ \A u \in Threads : u # t => pc'[u] = pc[u]
  BY DEF IInv, TypeOK, Own
<1> QED BY <1>1, <1>2 DEF Local, Own, Destroyed

(* The invariant after such a step.                                        *)
LEMMA OwnInv ==
  ASSUME EnoughSlots, IInv, NEW t \in Threads, NEW to, Own(t, to), Local(t), ListInv',
         ThreadInv(t)', slot' \in [Threads -> Slots]
  PROVE  IInv'
<1>1. pc' \in [Threads -> Labels] /\ main' \in MainStates
  BY DEF Own, IInv, TypeOK
<1>2. MainAlone'
  BY AloneKept DEF Own
<1> QED BY <1>1, <1>2, LocalInv

(* A step after which t has found nothing.                                 *)
LEMMA OwnNothing ==
  ASSUME EnoughSlots, IInv, NEW t \in Threads,
         NEW to \in Labels \ (HoldingLabels \cup Scanning \cup {"remove.clear"}),
         Own(t, to), ListInv', slot' \in [Threads -> Slots],
         \/ UNCHANGED hazardPointerList
         \/ \E j \in Slots, n \in NodeOrNull :
              hazardPointerList' = [hazardPointerList EXCEPT ![t][j] = n]
  PROVE  IInv'
<1>1. pc'[t] = to
  BY DEF Own, IInv, TypeOK
<1>2. ThreadInv(t)'
  BY <1>1, FoundNothing
<1> QED BY <1>2, OwnLocal, OwnInv

(* A call.                                                                 *)
LEMMA CallInv ==
  ASSUME EnoughSlots, IInv, NEW t \in Threads, Call(t)
  PROVE  IInv'
<1>1. "find.head" \in NoCurrLabels \ {"add.discard"}
  BY DEF NoCurrLabels
<1>2. ListInv'
  BY <1>1, CallAddKept, CallOtherKept, PcFunction DEF Call, IInv
<1>3. /\ pc[t] = "idle" /\ pc' = [pc EXCEPT ![t] = "find.head"]
      /\ UNCHANGED <<findLocals, dangling, main, hpVars, hpLocals>>
  BY DEF Call, CallAdd, CallOther, Goto
<1>4. \A m \in Nodes : status[m] = "retired" => status'[m] = "retired"
  BY DEF Call, CallAdd, CallOther, New, heapVars, IInv, ListInv, LoopedTypeOK,
     ListTypeOK
<1>5. /\ "find.head" \in Labels \ {"undefined"}
      /\ "find.head" \notin HoldingLabels \cup Scanning \cup {"remove.clear"}
  BY DEF Labels, FindLabels, HoldingLabels, Scanning
<1>6. Own(t, "find.head") /\ slot' \in [Threads -> Slots] /\ UNCHANGED hazardPointerList
  BY <1>3, <1>4, <1>5 DEF Own, findLocals, hpVars, hpLocals, IInv, TypeOK
<1> QED BY <1>2, <1>5, <1>6, OwnNothing

(* find loads head.                                                        *)
LEMMA FindHeadInv ==
  ASSUME EnoughSlots, IInv, NEW t \in Threads, FindHead(t)
  PROVE  IInv'
<1>1. ListInv'
  <2>1. "find.curr" \notin PassedLabels \cup {"add.discard", "add.cas"}
    BY DEF PassedLabels, HelpingLabels
  <2> QED BY <2>1, LoadsHeadKept, PcFunction DEF FindHead, IInv
<1>2. /\ pc[t] = "find.head" /\ pc' = [pc EXCEPT ![t] = "find.curr"]
      /\ pred' = [pred EXCEPT ![t] = NULL] /\ curr' = [curr EXCEPT ![t] = head]
      /\ nxt' = [nxt EXCEPT ![t] = NoLink]
      /\ dangling' = [dangling EXCEPT ![t] = {}]
      /\ UNCHANGED <<heapVars, main, hpVars, hpLocals>>
  BY DEF FindHead, LoadsHead, Follow, Goto
<1>3. /\ "find.curr" \in Labels \ {"undefined"}
      /\ "find.curr" \notin Scanning \cup {"remove.clear"}
  BY DEF Labels, FindLabels, Scanning
<1>4. /\ Own(t, "find.curr") /\ slot' \in [Threads -> Slots]
      /\ UNCHANGED hazardPointerList
  BY <1>2, <1>3 DEF Own, heapVars, hpVars, hpLocals, IInv, TypeOK, ListInv,
     LoopedTypeOK, ListTypeOK
<1>5. Local(t)
  BY <1>3, <1>4, OwnLocal
<1>6. ThreadInv(t)'
  <2>1. pc'[t] = "find.curr" /\ pred'[t] = NULL
    BY <1>2 DEF IInv, TypeOK, ListInv, LoopedTypeOK, ListTypeOK
  <2> QED BY <2>1 DEF ThreadInv, Published, FoundShielded, RemovedByOne, Found,
             Protected, NextFound
<1> QED BY <1>1, <1>4, <1>5, <1>6, OwnInv

(* find publishes curr: slot 0 hands it over to slot 1.                    *)
LEMMA FindCurrInv ==
  ASSUME EnoughSlots, IInv, NEW t \in Threads, FindCurr(t)
  PROVE  IInv'
<1>1. /\ pc[t] = "find.curr" /\ pc' = [pc EXCEPT ![t] = "find.next"]
      /\ hazardPointerList' = [hazardPointerList EXCEPT ![t][1] = curr[t]]
      /\ UNCHANGED <<heapVars, loopedVars, main, threadCount, retiredPointerList,
                     retiredCount, hpLocals>>
  BY DEF FindCurr, StoreLocal, Goto
<1>2. ListInv'
  <2>1. Relabels(t) /\ \A u \in Threads : u # t => Relabels(u)
    BY <1>1 DEF Relabels, PassedLabels, HelpingLabels, NoCurrLabels, IInv, TypeOK,
       ListInv, Traverses
  <2> QED BY <1>1, <2>1, LabelKept DEF IInv, ListInv, LoopedTypeOK, ListTypeOK,
             loopedVars, listVars, findLocals, callVars, heapVars
<1>3. /\ "find.next" \in Labels \ {"undefined"}
      /\ "find.next" \notin Scanning \cup {"remove.clear"}
  BY DEF Labels, FindLabels, Scanning
<1>4. Own(t, "find.next") /\ slot' \in [Threads -> Slots]
  BY <1>1, <1>3 DEF Own, heapVars, hpLocals, IInv, TypeOK, loopedVars, listVars,
     findLocals
<1>5. 0 \in Slots /\ 1 \in Slots /\ 2 \in Slots /\ curr[t] \in NodeOrNull
  BY SlotsInRange, LocalTypes DEF IInv
<1>6. Local(t)
  BY <1>1, <1>3, <1>4, <1>5, OwnLocal
<1>7. ThreadInv(t)'
  <2>1. /\ pc'[t] = "find.next" /\ pred'[t] = pred[t] /\ curr'[t] = curr[t]
        /\ dangling'[t] = dangling[t] /\ threadCount' = threadCount
        /\ hazardPointerList'[t][1] = curr[t]
        /\ hazardPointerList'[t][2] = hazardPointerList[t][2]
    BY <1>1, <1>5 DEF IInv, TypeOK, loopedVars, listVars, findLocals
  <2>2. Published(t)' /\ RemovedByOne(t)'
    BY <2>1 DEF Published, RemovedByOne
  <2>3. ASSUME t < threadCount, pred[t] # NULL
        PROVE  /\ {"pred", "curr"} \cap dangling[t] = {}
               /\ \A n \in Nodes : n = pred[t] => Shields(t, 2, n, Scanning)
               /\ \A n \in Nodes : n = curr[t] => Shields(t, 0, n, Scanning)
    <3>1. FoundShielded(t)
      BY DEF IInv, ThreadInv
    <3> QED BY <1>1, <1>5, <2>3, <3>1 DEF FoundShielded, Found, Protected
  <2>4. ASSUME t < threadCount, pred[t] # NULL
        PROVE  /\ \A n \in Nodes : n = pred[t] => Shields(t, 2, n, Scanning)'
               /\ \A n \in Nodes : n = curr[t] => Shields(t, 1, n, Scanning)'
    <3>1. /\ \A n \in Nodes : n = pred[t] => hazardPointerList[t][2] = n
          /\ 0 <= 1 /\ 2 <= 2
      BY <2>3, <2>4 DEF Shields
    <3> QED BY <1>5, <1>6, <2>1, <2>3, <2>4, <3>1, LocalEffect
  <2>5. Protected(t)' = IF pred[t] # NULL THEN {"pred", "curr"} ELSE {}
    BY <2>1 DEF Protected
  <2>6. FoundShielded(t)'
    BY <2>1, <2>3, <2>4, <2>5 DEF FoundShielded, Found, NextFound
  <2> QED BY <2>2, <2>6 DEF ThreadInv
<1> QED BY <1>2, <1>4, <1>6, <1>7, OwnInv

(* find goes on with the same pred and curr, in slots 2 and 1.             *)
LEMMA WalksOn ==
  ASSUME EnoughSlots, IInv, NEW t \in Threads, Local(t),
         pc[t] \in {"find.next", "find.misread", "find.slot0", "find.again"},
         pc'[t] \in {"find.slot0", "find.again", "find.pred"},
         pred'[t] = pred[t], curr'[t] = curr[t], dangling'[t] \subseteq dangling[t],
         hazardPointerList'[t][1] = hazardPointerList[t][1],
         hazardPointerList'[t][2] = hazardPointerList[t][2],
         pc'[t] # "find.slot0" => hazardPointerList'[t][0] = getUnmarked(nxt'[t]),
         NextFound(t)' =>
           /\ "nxt" \notin dangling'[t]
           /\ status'[getUnmarked(nxt'[t])] # "retired"
  PROVE  ThreadInv(t)'
<1>1. threadCount' = threadCount /\ 0 \in Slots /\ 1 \in Slots /\ 2 \in Slots
  BY SlotsInRange DEF Local
<1>2. Published(t)' /\ RemovedByOne(t)'
  <2>1. Published(t)
    BY DEF IInv, ThreadInv
  <2> QED BY <2>1 DEF Published, RemovedByOne, getUnmarked
<1>3. Protected(t)' = Protected(t)
  BY DEF Protected
<1>4. ASSUME t < threadCount PROVE FoundShielded(t)'
  <2>1. FoundShielded(t)
    BY DEF IInv, ThreadInv
  <2>2. ASSUME "pred" \in Protected(t)
        PROVE  /\ \A n \in Nodes : n = pred[t] => Shields(t, 2, n, Scanning)
               /\ \A n \in Nodes : n = curr[t] => Shields(t, 1, n, Scanning)
    <3>1. "curr" \in Protected(t)
      BY <2>2 DEF Protected
    <3> QED BY <1>1, <1>4, <2>1, <2>2, <3>1 DEF FoundShielded, Found
  <2>3. ASSUME "pred" \in Protected(t)
        PROVE  /\ \A n \in Nodes : n = pred[t] => Shields(t, 2, n, Scanning)'
               /\ \A n \in Nodes : n = curr[t] => Shields(t, 1, n, Scanning)'
    <3>1. /\ \A n \in Nodes : n = pred[t] => hazardPointerList'[t][2] = n
          /\ \A n \in Nodes : n = curr[t] => hazardPointerList'[t][1] = n
          /\ 1 <= 1 /\ 2 <= 2
      BY <2>2, <2>3 DEF Shields
    <3> QED BY <1>1, <2>2, <2>3, <3>1, LocalEffect
  <2>4. ASSUME NextFound(t)', NEW n \in Nodes, n = getUnmarked(nxt[t])'
        PROVE  Shields(t, 0, n, Scanning)'
    <3>1. hazardPointerList'[t][0] = n /\ status'[n] # "retired"
      BY <2>4 DEF NextFound, getUnmarked
    <3> QED BY <1>1, <1>4, <3>1, LocalEffect
  <2>5. "curr" \in Protected(t) <=> "pred" \in Protected(t)
    BY DEF Protected, Roles
  <2>6. "nxt" \notin Protected(t)
    BY DEF Protected
  <2>7. \A j \in Slots, n \in Nodes : Found(t, j, n)' => Shields(t, j, n, Scanning)'
    BY <1>3, <2>3, <2>4, <2>5, <2>6 DEF Found
  <2>8. Protected(t)' \cap dangling'[t] = {}
    BY <1>3, <1>4, <2>1 DEF FoundShielded
  <2> QED BY <2>7, <2>8 DEF FoundShielded
<1>5. FoundShielded(t)'
  BY <1>1, <1>4 DEF FoundShielded
<1> QED BY <1>2, <1>5 DEF ThreadInv

(* next is loaded from curr.                                               *)
LEMMA LoadsInv ==
  ASSUME EnoughSlots, IInv, NEW t \in Threads, ~Strays(t),
         FindNext(t) \/ FindMisread(t)
  PROVE  IInv'
<1>1. PICK from \in {"find.next", "find.misread"} : Goto(t, from, "find.slot0")
  BY DEF FindNext, FindMisread
<1>2. /\ LoadsNext(t, Link(curr[t])) \/ LoadsNext(t, Misread)
      /\ pc[t] = from /\ pc' = [pc EXCEPT ![t] = "find.slot0"]
      /\ UNCHANGED <<hpVars, hpLocals>>
  BY <1>1 DEF FindNext, FindMisread, Goto
<1>3. ListInv'
  <2>1. /\ "find.slot0" \notin PassedLabels \cup {"add.discard", "add.cas"}
        /\ from \notin NoCurrLabels
    BY DEF PassedLabels, HelpingLabels, NoCurrLabels
  <2>2. "curr" \notin dangling[t]
    BY <1>2, UsesOf
  <2> QED BY <1>1, <1>2, <2>1, <2>2, LoadsNextKept, PcFunction DEF IInv
<1>4. /\ \E l : nxt' = [nxt EXCEPT ![t] = l]
      /\ dangling' = [dangling EXCEPT ![t] = @ \ {"nxt"}]
      /\ UNCHANGED <<heapVars, main, pred, curr>>
  BY <1>2 DEF LoadsNext
<1>5. /\ "find.slot0" \in Labels \ {"undefined"}
      /\ "find.slot0" \notin Scanning \cup {"remove.clear"}
  BY DEF Labels, FindLabels, Scanning
<1>6. /\ Own(t, "find.slot0") /\ slot' \in [Threads -> Slots]
      /\ UNCHANGED hazardPointerList
  BY <1>2, <1>4, <1>5 DEF Own, heapVars, hpVars, hpLocals, IInv, TypeOK, ListInv,
     LoopedTypeOK, ListTypeOK
<1>7. Local(t)
  BY <1>5, <1>6, OwnLocal
<1>8. ThreadInv(t)'
  <2>1. /\ pc'[t] = "find.slot0" /\ pred' = pred /\ curr' = curr
        /\ dangling'[t] \subseteq dangling[t]
    BY <1>2, <1>4 DEF IInv, TypeOK, ListInv, LoopedTypeOK
  <2> QED BY <1>2, <1>6, <1>7, <2>1, WalksOn DEF NextFound
<1> QED BY <1>3, <1>6, <1>7, <1>8, OwnInv

(* next is published.                                                      *)
LEMMA FindSlot0Inv ==
  ASSUME EnoughSlots, IInv, NEW t \in Threads, FindSlot0(t)
  PROVE  IInv'
<1> DEFINE N == getUnmarked(nxt[t])
<1>1. /\ pc[t] = "find.slot0" /\ pc' = [pc EXCEPT ![t] = "find.again"]
      /\ hazardPointerList' = [hazardPointerList EXCEPT ![t][0] = N]
      /\ UNCHANGED <<heapVars, loopedVars, main, threadCount, retiredPointerList,
                     retiredCount, hpLocals>>
  BY DEF FindSlot0, StoreLocal, Goto
<1>2. ListInv'
  <2>1. Relabels(t) /\ \A u \in Threads : u # t => Relabels(u)
    BY <1>1 DEF Relabels, PassedLabels, HelpingLabels, NoCurrLabels, IInv, TypeOK,
       ListInv, Traverses
  <2> QED BY <1>1, <2>1, LabelKept DEF IInv, ListInv, LoopedTypeOK, ListTypeOK,
             loopedVars, listVars, findLocals, callVars, heapVars
<1>3. /\ "find.again" \in Labels \ {"undefined"}
      /\ "find.again" \notin Scanning \cup {"remove.clear"}
  BY DEF Labels, FindLabels, Scanning
<1>4. Own(t, "find.again") /\ slot' \in [Threads -> Slots]
  BY <1>1, <1>3 DEF Own, heapVars, hpLocals, IInv, TypeOK, loopedVars, listVars,
     findLocals
<1>5. 0 \in Slots /\ 1 \in Slots /\ 2 \in Slots /\ N \in NodeOrNull
  BY SlotsInRange, LocalTypes DEF IInv
<1>6. Local(t)
  BY <1>1, <1>3, <1>4, <1>5, OwnLocal
<1>7. ThreadInv(t)'
  <2>1. /\ pc'[t] = "find.again" /\ pred' = pred /\ curr' = curr /\ nxt' = nxt
        /\ dangling' = dangling
        /\ hazardPointerList'[t][0] = getUnmarked(nxt'[t])
        /\ hazardPointerList'[t][1] = hazardPointerList[t][1]
        /\ hazardPointerList'[t][2] = hazardPointerList[t][2]
    BY <1>1, <1>5 DEF IInv, TypeOK, loopedVars, listVars, findLocals
  <2> QED BY <1>1, <1>6, <2>1, WalksOn DEF NextFound
<1> QED BY <1>2, <1>4, <1>6, <1>7, OwnInv

(* The node of pred is published: slot 1 hands it over to slot 2.          *)
LEMMA FindSlot2Inv ==
  ASSUME EnoughSlots, IInv, NEW t \in Threads, FindSlot2(t)
  PROVE  IInv'
<1>1. /\ pc[t] = "find.slot2" /\ pc' = [pc EXCEPT ![t] = "find.curr"]
      /\ hazardPointerList' = [hazardPointerList EXCEPT ![t][2] = pred[t]]
      /\ UNCHANGED <<heapVars, loopedVars, main, threadCount, retiredPointerList,
                     retiredCount, hpLocals>>
  BY DEF FindSlot2, StoreLocal, Goto
<1>2. ListInv'
  <2>1. Relabels(t) /\ \A u \in Threads : u # t => Relabels(u)
    BY <1>1 DEF Relabels, PassedLabels, HelpingLabels, NoCurrLabels, IInv, TypeOK,
       ListInv, Traverses
  <2> QED BY <1>1, <2>1, LabelKept DEF IInv, ListInv, LoopedTypeOK, ListTypeOK,
             loopedVars, listVars, findLocals, callVars, heapVars
<1>3. /\ "find.curr" \in Labels \ {"undefined"}
      /\ "find.curr" \notin Scanning \cup {"remove.clear"}
  BY DEF Labels, FindLabels, Scanning
<1>4. Own(t, "find.curr") /\ slot' \in [Threads -> Slots]
  BY <1>1, <1>3 DEF Own, heapVars, hpLocals, IInv, TypeOK, loopedVars, listVars,
     findLocals
<1>5. 0 \in Slots /\ 1 \in Slots /\ 2 \in Slots /\ pred[t] \in NodeOrNull
  BY SlotsInRange, LocalTypes DEF IInv
<1>6. Local(t)
  BY <1>1, <1>3, <1>4, <1>5, OwnLocal
<1>7. ThreadInv(t)'
  <2>1. /\ pc'[t] = "find.curr" /\ pred'[t] = pred[t] /\ curr'[t] = curr[t]
        /\ dangling'[t] = dangling[t] /\ threadCount' = threadCount
        /\ hazardPointerList'[t][2] = pred[t]
        /\ hazardPointerList'[t][0] = hazardPointerList[t][0]
    BY <1>1, <1>5 DEF IInv, TypeOK, loopedVars, listVars, findLocals
  <2>2. Published(t)' /\ RemovedByOne(t)'
    BY <2>1 DEF Published, RemovedByOne
  <2>3. ASSUME t < threadCount
        PROVE  /\ Roles \cap dangling[t] = {}
               /\ \A n \in Nodes : n = pred[t] => Shields(t, 1, n, Scanning)
               /\ \A n \in Nodes : n = curr[t] => Shields(t, 0, n, Scanning)
    <3>1. FoundShielded(t)
      BY DEF IInv, ThreadInv
    <3> QED BY <1>1, <1>5, <2>3, <3>1 DEF FoundShielded, Found, Protected, Roles
  <2>4. ASSUME t < threadCount
        PROVE  /\ \A n \in Nodes : n = pred[t] => Shields(t, 2, n, Scanning)'
               /\ \A n \in Nodes : n = curr[t] => Shields(t, 0, n, Scanning)'
    <3>1. /\ \A n \in Nodes : n = curr[t] => hazardPointerList[t][0] = n
          /\ 0 <= 0 /\ 1 <= 2
      BY <2>3, <2>4 DEF Shields
    <3> QED BY <1>5, <1>6, <2>1, <2>3, <2>4, <3>1, LocalEffect
  <2>5. Protected(t)' \subseteq {"pred", "curr"}
    BY <2>1 DEF Protected
  <2>6. FoundShielded(t)'
    BY <2>1, <2>3, <2>4, <2>5 DEF FoundShielded, Found, NextFound, Roles
  <2> QED BY <2>2, <2>6 DEF ThreadInv
<1> QED BY <1>2, <1>4, <1>6, <1>7, OwnInv

(* find goes on from next: slot 0 hands it over to slot 1.                 *)
LEMMA HelpCurrInv ==
  ASSUME EnoughSlots, IInv, NEW t \in Threads, HelpCurr(t)
  PROVE  IInv'
<1> DEFINE N == getUnmarked(nxt[t])
<1>1. /\ pc[t] = "help.curr" /\ pc' = [pc EXCEPT ![t] = "find.misread"]
      /\ hazardPointerList' = [hazardPointerList EXCEPT ![t][1] = N]
      /\ pred' = [pred EXCEPT ![t] = pred[t]] /\ curr' = [curr EXCEPT ![t] = N]
      /\ nxt' = [nxt EXCEPT ![t] = NoLink]
      /\ dangling' = [dangling EXCEPT ![t] =
                        (@ \cap {"pred"}) \cup (IF "nxt" \in @ THEN {"curr"} ELSE {})]
      /\ UNCHANGED <<heapVars, main, threadCount, retiredPointerList, retiredCount,
                     hpLocals>>
  BY DEF HelpCurr, StoreLocal, Goto, MovesTo, Follow
<1>2. ListInv'
  <2>1. "find.misread" \notin PassedLabels \cup {"add.discard", "add.cas"}
    BY DEF PassedLabels, HelpingLabels
  <2>2. N # NULL /\ ("nxt" \notin dangling[t] => Live(N))
    <3>1. Traverses(t) /\ pc[t] \in HelpingLabels /\ pc[t] \in PassedLabels
      BY <1>1 DEF IInv, ListInv, HelpingLabels, PassedLabels
    <3>2. N # NULL /\ isMarked(nxt[t])
      BY <3>1 DEF Traverses
    <3>3. "nxt" \notin dangling[t] => Live(N)
      BY <3>1, <3>2 DEF Traverses
    <3> QED BY <3>2, <3>3
  <2>3. /\ MovesTo(t, pred[t]) /\ Goto(t, "help.curr", "find.misread")
        /\ pc = [u \in Threads |-> pc[u]]
    BY PcFunction DEF HelpCurr, StoreLocal
  <2> QED BY <2>1, <2>2, <2>3, MovesKept DEF IInv
<1>3. /\ "find.misread" \in Labels \ {"undefined"}
      /\ "find.misread" \notin Scanning \cup {"remove.clear"}
  BY DEF Labels, HelpLabels, Scanning
<1>4. Own(t, "find.misread") /\ slot' \in [Threads -> Slots]
  BY <1>1, <1>3 DEF Own, heapVars, hpLocals, IInv, TypeOK, ListInv, LoopedTypeOK,
     ListTypeOK
<1>5. 0 \in Slots /\ 1 \in Slots /\ 2 \in Slots /\ N \in NodeOrNull
  BY SlotsInRange, LocalTypes DEF IInv
<1>6. Local(t)
  BY <1>1, <1>3, <1>4, <1>5, OwnLocal
<1>7. ThreadInv(t)'
  <2>1. /\ pc'[t] = "find.misread" /\ pred'[t] = pred[t] /\ curr'[t] = N
        /\ dangling'[t] \subseteq
             (dangling[t] \cap {"pred"}) \cup (IF "nxt" \in dangling[t] THEN {"curr"} ELSE {})
        /\ threadCount' = threadCount
        /\ hazardPointerList'[t][1] = N
        /\ hazardPointerList'[t][2] = hazardPointerList[t][2]
    BY <1>1, <1>5 DEF IInv, TypeOK, ListInv, LoopedTypeOK, ListTypeOK
  <2>2. Published(t)' /\ RemovedByOne(t)'
    BY <2>1 DEF Published, RemovedByOne
  <2>3. ASSUME t < threadCount
        PROVE  /\ Roles \cap dangling[t] = {}
               /\ \A n \in Nodes : n = pred[t] => Shields(t, 2, n, Scanning)
               /\ \A n \in Nodes : n = N => Shields(t, 0, n, Scanning)
    <3>1. FoundShielded(t)
      BY DEF IInv, ThreadInv
    <3> QED BY <1>1, <1>5, <2>3, <3>1 DEF FoundShielded, Found, Protected, Roles
  <2>4. ASSUME t < threadCount
        PROVE  /\ \A n \in Nodes : n = pred[t] => Shields(t, 2, n, Scanning)'
               /\ \A n \in Nodes : n = N => Shields(t, 1, n, Scanning)'
    <3>1. /\ \A n \in Nodes : n = pred[t] => hazardPointerList[t][2] = n
          /\ 0 <= 1 /\ 2 <= 2
      BY <2>3, <2>4 DEF Shields
    <3> QED BY <1>5, <1>6, <2>1, <2>3, <2>4, <3>1, LocalEffect
  <2>5. Protected(t)' \subseteq {"pred", "curr"}
    BY <2>1 DEF Protected
  <2>6. t < threadCount => dangling'[t] = {}
    BY <2>1, <2>3 DEF Roles
  <2>7. FoundShielded(t)'
    BY <2>1, <2>4, <2>5, <2>6 DEF FoundShielded, Found, NextFound
  <2> QED BY <2>2, <2>7 DEF ThreadInv
<1> QED BY <1>2, <1>4, <1>6, <1>7, OwnInv

(* find starts again.                                                      *)
LEMMA TryAgainInv ==
  ASSUME EnoughSlots, IInv, NEW t \in Threads,
         NEW from \in Labels \ {"exited", "undefined"},
         TryAgain(t, from, "find.head"), UNCHANGED <<hpVars, hpLocals>>
  PROVE  IInv'
<1>1. "find.head" \in NoCurrLabels \ {"add.discard"}
  BY DEF NoCurrLabels
<1>2. ListInv'
  BY <1>1, TryAgainKept, PcFunction DEF IInv
<1>3. /\ pc[t] = from /\ pc' = [pc EXCEPT ![t] = "find.head"] /\ Forget(t)
      /\ dangling' = [dangling EXCEPT ![t] = {}]
      /\ UNCHANGED <<heapVars, main>>
  BY DEF TryAgain, Goto
<1>4. /\ "find.head" \in Labels \ {"undefined"}
      /\ "find.head" \notin HoldingLabels \cup Scanning \cup {"remove.clear"}
  BY DEF Labels, FindLabels, HoldingLabels, Scanning
<1>5. Own(t, "find.head") /\ slot' \in [Threads -> Slots] /\ UNCHANGED hazardPointerList
  BY <1>3, <1>4 DEF Own, Forget, heapVars, hpVars, hpLocals, IInv, TypeOK, ListInv,
     LoopedTypeOK, ListTypeOK
<1> QED BY <1>2, <1>4, <1>5, OwnNothing

(* curr->next is found to be next again.                                   *)
LEMMA ValidatesInv ==
  ASSUME EnoughSlots, IInv, NEW t \in Threads, ~Strays(t),
         Validates(t, "find.head"), UNCHANGED <<hpVars, hpLocals>>
  PROVE  IInv'
<1>1. CASE TryAgain(t, "find.again", "find.head")
  <2>1. "find.again" \in Labels \ {"exited", "undefined"}
    BY DEF Labels, FindLabels
  <2> QED BY <1>1, <2>1, TryAgainInv
<1>2. CASE ~TryAgain(t, "find.again", "find.head")
  <2>1. /\ pc[t] = "find.again" /\ pc' = [pc EXCEPT ![t] = "find.pred"]
        /\ Link(curr[t]) = nxt[t] /\ getUnmarked(nxt[t]) # tail
        /\ UNCHANGED <<heapVars, loopedVars, main>>
    BY <1>2 DEF Validates, Goto
  <2>2. ListInv'
    <3>1. "find.head" \in NoCurrLabels \ {"add.discard"}
      BY DEF NoCurrLabels
    <3> QED BY <3>1, ValidatesKept, PcFunction DEF IInv
  <2>3. /\ "find.pred" \in Labels \ {"undefined"}
        /\ "find.pred" \notin Scanning \cup {"remove.clear"}
    BY DEF Labels, FindLabels, Scanning
  <2>4. /\ Own(t, "find.pred") /\ slot' \in [Threads -> Slots]
        /\ UNCHANGED hazardPointerList
    BY <2>1, <2>3 DEF Own, heapVars, hpVars, hpLocals, IInv, TypeOK, loopedVars,
       listVars, findLocals
  <2>5. Local(t)
    BY <2>3, <2>4, OwnLocal
  <2>6. ThreadInv(t)'
    <3>1. /\ pc'[t] = "find.pred" /\ pred' = pred /\ curr' = curr /\ nxt' = nxt
          /\ dangling' = dangling /\ status' = status
      BY <2>1 DEF IInv, TypeOK, loopedVars, listVars, findLocals, heapVars
    <3>2. hazardPointerList'[t][0] = getUnmarked(nxt'[t])
      BY <2>1, <2>4, <3>1 DEF IInv, ThreadInv, Published
    <3>3. "curr" \notin dangling[t] /\ "nxt" \notin dangling[t]
      BY <2>1, UsesOf
    <3>4. curr[t] # NULL /\ Live(curr[t]) /\ getUnmarked(nxt[t]) = next[curr[t]]
      <4>1. curr[t] # NULL
        BY <2>1 DEF IInv, ListInv, Traverses, NoCurrLabels
      <4> QED BY <2>1, <3>3, <4>1, AgainPassed DEF IInv
    <3>5. status[curr[t]] = "linked" => status[getUnmarked(nxt[t])] = "linked"
      BY <3>4, LinkOfLive DEF IInv
    <3> QED BY <2>1, <2>4, <2>5, <3>1, <3>2, <3>3, <3>5, WalksOn DEF NextFound
  <2> QED BY <2>2, <2>4, <2>5, <2>6, OwnInv
<1> QED BY <1>1, <1>2

(* What find has when it finds *pred = curr: slot 1 shields curr, which is *)
(* in the list, and slot 0 what followed it when it was published.         *)
LEMMA FoundAtPred ==
  ASSUME EnoughSlots, IInv, NEW t \in Threads, ~Strays(t), pc[t] = "find.pred",
         PredIsCurr(t)
  PROVE  /\ curr[t] \in Nodes /\ status[curr[t]] = "linked" /\ curr[t] # tail
         /\ getUnmarked(nxt[t]) # NULL
         /\ "nxt" \notin dangling[t] => Live(getUnmarked(nxt[t]))
         /\ t < threadCount => dangling[t] = {}
         /\ t < threadCount =>
              \A n \in Nodes :
                /\ n = pred[t] => Shields(t, 2, n, Scanning)
                /\ n = curr[t] =>
                     hazardPointerList[t][1] = n /\ status[n] # "retired"
                /\ n = getUnmarked(nxt[t]) => Shields(t, 0, n, Scanning)
<1>1. /\ curr[t] \in Nodes /\ status[curr[t]] = "linked" /\ curr[t] # tail
      /\ {"pred", "curr"} \cap dangling[t] = {} /\ getUnmarked(nxt[t]) # NULL
      /\ "nxt" \notin dangling[t] => Live(getUnmarked(nxt[t]))
  BY NextOfLinked DEF IInv
<1>2. NextFound(t)
  BY <1>1 DEF NextFound
<1>3. FoundShielded(t) /\ Published(t) /\ dangling[t] \subseteq Roles
  BY LocalTypes DEF IInv, ThreadInv
<1>4. 0 \in Slots /\ 1 \in Slots /\ 2 \in Slots
  BY SlotsInRange
<1>5. t < threadCount => dangling[t] = {}
  BY <1>1, <1>2, <1>3 DEF FoundShielded, Roles
<1>6. ASSUME t < threadCount, NEW n \in Nodes
      PROVE  /\ n = pred[t] => Shields(t, 2, n, Scanning)
             /\ n = curr[t] => hazardPointerList[t][1] = n /\ status[n] # "retired"
             /\ n = getUnmarked(nxt[t]) => Shields(t, 0, n, Scanning)
  <2>1. n = pred[t] => Found(t, 2, n)
    BY HeapAssumption DEF Found, Protected
  <2>2. n = getUnmarked(nxt[t]) => Found(t, 0, n)
    BY <1>2 DEF Found
  <2> QED BY <1>1, <1>3, <1>4, <1>6, <2>1, <2>2 DEF FoundShielded, Published
<1> QED BY <1>1, <1>5, <1>6

(* What it has found stays with it when it stays at curr.                  *)
LEMMA StaysAtCurr ==
  ASSUME EnoughSlots, IInv, NEW t \in Threads, ~Strays(t), pc[t] = "find.pred",
         PredIsCurr(t), Local(t), pc'[t] \in {"find.help", "remove.mark"},
         UNCHANGED <<hazardPointerList, status>>,
         pred'[t] = pred[t], curr'[t] = curr[t], nxt'[t] = nxt[t],
         dangling'[t] = dangling[t]
  PROVE  ThreadInv(t)'
<1>1. /\ threadCount' = threadCount /\ 0 \in Slots /\ 1 \in Slots /\ 2 \in Slots
      /\ getUnmarked(nxt[t])' = getUnmarked(nxt[t])
  BY SlotsInRange DEF Local, getUnmarked
<1>2. Published(t)' /\ RemovedByOne(t)'
  BY DEF Published, RemovedByOne
<1>3. ASSUME t < threadCount, NEW n \in Nodes
      PROVE  /\ n = pred[t] => Shields(t, 2, n, Scanning)'
             /\ n = curr[t] => Shields(t, 1, n, Scanning)'
             /\ n = getUnmarked(nxt[t]) => Shields(t, 0, n, Scanning)'
  <2>1. /\ n = pred[t] => Shields(t, 2, n, Scanning) /\ hazardPointerList'[t][2] = n
        /\ n = curr[t] => hazardPointerList'[t][1] = n /\ status'[n] # "retired"
        /\ n = getUnmarked(nxt[t]) =>
             Shields(t, 0, n, Scanning) /\ hazardPointerList'[t][0] = n
        /\ 0 <= 0 /\ 2 <= 2
    BY <1>3, FoundAtPred DEF Shields
  <2> QED BY <1>1, <1>3, <2>1, LocalEffect
<1>4. FoundShielded(t)'
  <2>1. t < threadCount => dangling'[t] = {}
    BY FoundAtPred
  <2>2. ASSUME t < threadCount, NEW j \in Slots, NEW n \in Nodes, Found(t, j, n)'
        PROVE  Shields(t, j, n, Scanning)'
    <3>1. \/ j = 2 /\ n = pred[t]
          \/ j = 1 /\ n = curr[t]
          \/ j = 0 /\ n = getUnmarked(nxt[t])
      BY <1>1, <2>2 DEF Found
    <3> QED BY <1>3, <2>2, <3>1
  <2> QED BY <1>1, <2>1, <2>2 DEF FoundShielded
<1> QED BY <1>2, <1>4 DEF ThreadInv

(* *pred is compared with curr, and curr is passed or is to be unlinked.   *)
LEMMA ComparesInv ==
  ASSUME EnoughSlots, IInv, NEW t \in Threads, ~Strays(t),
         Compares(t, "find.head", "find.slot2"), UNCHANGED <<hpVars, hpLocals>>
  PROVE  IInv'
<1>1. CASE TryAgain(t, "find.pred", "find.head")
  <2>1. "find.pred" \in Labels \ {"exited", "undefined"}
    BY DEF Labels, FindLabels
  <2> QED BY <1>1, <2>1, TryAgainInv
<1>2. ListInv' /\ pc[t] = "find.pred"
  <2>1. "find.head" \in NoCurrLabels \ {"add.discard"}
    BY DEF NoCurrLabels
  <2>2. "find.slot2" \notin PassedLabels \cup {"add.discard", "add.cas"}
    BY DEF PassedLabels, HelpingLabels
  <2> QED BY <2>1, <2>2, ComparesKept, PcFunction DEF IInv, Compares
<1>3. CASE /\ PredIsCurr(t)
           /\ Goto(t, "find.pred", "find.help")
           /\ UNCHANGED <<heapVars, loopedVars, main>>
  <2>1. /\ "find.help" \in Labels \ {"undefined"}
        /\ "find.help" \notin Scanning \cup {"remove.clear"}
    BY DEF Labels, FindLabels, Scanning
  <2>2. /\ Own(t, "find.help") /\ slot' \in [Threads -> Slots]
        /\ UNCHANGED hazardPointerList
    BY <1>3, <2>1 DEF Own, Goto, heapVars, hpVars, hpLocals, IInv, TypeOK, loopedVars,
       listVars, findLocals
  <2>3. Local(t)
    BY <2>1, <2>2, OwnLocal
  <2>4. ThreadInv(t)'
    <3>1. /\ pc'[t] = "find.help" /\ pred' = pred /\ curr' = curr /\ nxt' = nxt
          /\ dangling' = dangling /\ status' = status
      BY <1>3 DEF Goto, IInv, TypeOK, loopedVars, listVars, findLocals, heapVars
    <3> QED BY <1>2, <1>3, <2>2, <2>3, <3>1, StaysAtCurr
  <2> QED BY <1>2, <2>2, <2>3, <2>4, OwnInv
<1>4. CASE /\ PredIsCurr(t)
           /\ Goto(t, "find.pred", "find.slot2")
           /\ MovesTo(t, curr[t])
  <2> DEFINE N == getUnmarked(nxt[t])
             D == (IF curr[t] = pred[t] THEN dangling[t] \cap {"pred"} ELSE {})
                    \cup (IF "nxt" \in dangling[t] THEN {"curr"} ELSE {})
  <2>1. /\ pc' = [pc EXCEPT ![t] = "find.slot2"]
        /\ pred' = [pred EXCEPT ![t] = curr[t]] /\ curr' = [curr EXCEPT ![t] = N]
        /\ nxt' = [nxt EXCEPT ![t] = NoLink]
        /\ dangling' = [dangling EXCEPT ![t] = D]
        /\ UNCHANGED <<heapVars, main>>
    BY <1>4 DEF MovesTo, Follow, Goto
  <2>2. /\ "find.slot2" \in Labels \ {"undefined"}
        /\ "find.slot2" \notin Scanning \cup {"remove.clear"}
    BY DEF Labels, FindLabels, Scanning
  <2>3. /\ Own(t, "find.slot2") /\ slot' \in [Threads -> Slots]
        /\ UNCHANGED hazardPointerList
    BY <1>2, <2>1, <2>2 DEF Own, heapVars, hpVars, hpLocals, IInv, TypeOK, ListInv,
       LoopedTypeOK, ListTypeOK
  <2>4. Local(t)
    BY <2>2, <2>3, OwnLocal
  <2>5. /\ pc'[t] = "find.slot2" /\ pred'[t] = curr[t] /\ curr'[t] = N
        /\ nxt'[t] = NoLink /\ dangling'[t] = D /\ threadCount' = threadCount
        /\ status' = status /\ hazardPointerList' = hazardPointerList
    BY <2>1, <2>3, <2>4 DEF Local, IInv, TypeOK, ListInv, LoopedTypeOK, ListTypeOK,
       heapVars
  <2>6. Published(t)' /\ RemovedByOne(t)'
    BY <2>5 DEF Published, RemovedByOne, getUnmarked, NoLink
  <2>7. ASSUME t < threadCount, NEW n \in Nodes
        PROVE  /\ n = curr[t] => Shields(t, 1, n, Scanning)'
               /\ n = N => Shields(t, 0, n, Scanning)'
    <3>1. /\ n = curr[t] => hazardPointerList'[t][1] = n /\ status'[n] # "retired"
          /\ n = N => Shields(t, 0, n, Scanning) /\ hazardPointerList'[t][0] = n
          /\ 0 <= 0 /\ 0 \in Slots /\ 1 \in Slots
      BY <1>2, <1>4, <2>5, <2>7, FoundAtPred, SlotsInRange DEF Shields
    <3> QED BY <2>4, <2>7, <3>1, LocalEffect
  <2>8. FoundShielded(t)'
    <3>1. t < threadCount => D = {}
      BY <1>2, <1>4, FoundAtPred
    <3>2. ASSUME t < threadCount, NEW j \in Slots, NEW n \in Nodes, Found(t, j, n)'
          PROVE  Shields(t, j, n, Scanning)'
      <4>1. (j = 1 /\ n = curr[t]) \/ (j = 0 /\ n = N)
        BY <2>5, <3>2 DEF Found, NextFound
      <4> QED BY <2>7, <3>2, <4>1
    <3> QED BY <2>5, <3>1, <3>2 DEF FoundShielded
  <2> QED BY <1>2, <2>3, <2>4, <2>6, <2>8, OwnInv DEF ThreadInv
<1> QED BY <1>1, <1>3, <1>4 DEF Compares

(* find returns.                                                           *)
LEMMA EndsInv ==
  ASSUME EnoughSlots, IInv, NEW t \in Threads, ~Strays(t), NEW found \in BOOLEAN,
         pc[t] \in {"find.again", "find.pred"},
         found => pc[t] = "find.pred" /\ PredIsCurr(t),
         Ends(t, found, AfterFind(t, found, Done(t))), UNCHANGED <<hpVars, hpLocals>>
  PROVE  IInv'
<1> DEFINE to == AfterFind(t, found, Done(t))
<1>1. ListInv'
  <2>1. Done(t) \in NoCurrLabels \ {"add.discard"}
    BY DEF Done, NoCurrLabels
  <2>2. /\ pc[t] \notin NoCurrLabels \cup HelpingLabels \cup {"remove.cas"}
        /\ found => pc[t] \in PassedLabels
    BY DEF NoCurrLabels, HelpingLabels, PassedLabels
  <2> QED BY <2>1, <2>2, EndsKept, PcFunction DEF IInv
<1>2. /\ pc' = [pc EXCEPT ![t] = to] /\ FindReturns(t, found, nxt[t])
      /\ dangling' = [dangling EXCEPT ![t] = IF DecidedBy(t, found) THEN {} ELSE @]
      /\ UNCHANGED <<status, main>>
  BY DEF Ends
<1>3. \/ to \in {"add.discard", "add.cas", "return", "clear"}
      \/ to = "remove.mark" /\ op[t] = "remove" /\ found
  BY DEF AfterFind, Done
<1>4. to \in Labels \ {"undefined"} /\ to \notin Scanning \cup {"remove.clear"}
  BY <1>3 DEF Labels, FindLabels, HelpLabels, AddLabels, RemoveLabels, Scanning
<1> HIDE DEF to
<1>5. \A u \in Threads : u # t =>
        /\ pred'[u] = pred[u] /\ curr'[u] = curr[u] /\ nxt'[u] = nxt[u]
        /\ dangling'[u] = dangling[u]
  BY <1>2 DEF FindReturns, Forget, IInv, ListInv, LoopedTypeOK, ListTypeOK
<1>6. Own(t, to) /\ slot' \in [Threads -> Slots] /\ UNCHANGED hazardPointerList
  BY <1>2, <1>4, <1>5 DEF Own, hpVars, hpLocals, IInv, TypeOK
<1>7. CASE to # "remove.mark"
  <2>1. to \notin HoldingLabels
    BY <1>3, <1>7 DEF HoldingLabels
  <2> QED BY <1>1, <1>4, <1>6, <2>1, OwnNothing
<1>8. CASE to = "remove.mark"
  <2>1. ~DecidedBy(t, found) /\ found
    BY <1>3, <1>8 DEF DecidedBy
  <2>2. /\ pc'[t] = "remove.mark" /\ pred'[t] = pred[t] /\ curr'[t] = curr[t]
        /\ nxt'[t] = nxt[t] /\ dangling'[t] = dangling[t]
    BY <1>2, <1>8, <2>1 DEF FindReturns, IInv, TypeOK, ListInv, LoopedTypeOK,
       ListTypeOK
  <2>3. Local(t)
    BY <1>4, <1>6, OwnLocal
  <2>4. ThreadInv(t)'
    BY <1>2, <1>6, <2>1, <2>2, <2>3, StaysAtCurr
  <2> QED BY <1>1, <1>6, <2>3, <2>4, OwnInv
<1> QED BY <1>7, <1>8

(* find compares what it has loaded.                                       *)
LEMMA FindCompareInv ==
  ASSUME EnoughSlots, IInv, NEW t \in Threads, ~Strays(t), FindCompare(t)
  PROVE  IInv'
<1>1. UNCHANGED <<hpVars, hpLocals>>
  BY DEF FindCompare
<1>2. CASE Validates(t, "find.head") \/ Compares(t, "find.head", "find.slot2")
  BY <1>1, <1>2, ValidatesInv, ComparesInv
<1>3. CASE AtTail(t) /\ Ends(t, FALSE, AfterFind(t, FALSE, Done(t)))
  BY <1>1, <1>3, EndsInv DEF AtTail
<1>4. CASE AtKey(t) /\ Ends(t, FoundAtCurr(t), AfterFind(t, FoundAtCurr(t), Done(t)))
  <2>1. FoundAtCurr(t) \in BOOLEAN /\ pc[t] = "find.pred" /\ PredIsCurr(t)
    BY <1>4 DEF FoundAtCurr, AtKey
  <2> QED BY <1>1, <1>4, <2>1, EndsInv
<1> QED BY <1>2, <1>3, <1>4 DEF FindCompare

(* A linked node is in no retired list.                                    *)
LEMMA LinkedInNoList ==
  ASSUME IInv, NEW n, status[n] = "linked"
  PROVE  InNoList(n)
BY DEF IInv, Scheme, RetiredOnce, InNoList

(* find unlinks curr and retires it.                                       *)
LEMMA FindHelpInv ==
  ASSUME EnoughSlots, IInv, NEW t \in Threads, ~Strays(t), FindHelp(t)
  PROVE  IInv'
<1>1. pc[t] = "find.help" /\ UNCHANGED <<threadCount, hazardPointerList, ptr, last, slot>>
  BY DEF FindHelp
<1>2. CASE ~PredIsCurr(t)
  <2>1. /\ TryAgain(t, "find.help", "find.head") /\ UNCHANGED <<hpVars, hpLocals>>
        /\ "find.help" \in Labels \ {"exited", "undefined"}
    BY <1>1, <1>2 DEF FindHelp, hpVars, hpLocals, Labels, FindLabels
  <2> QED BY <2>1, TryAgainInv
<1>3. CASE PredIsCurr(t)
  <2> DEFINE to == AfterRetirePush(t, "help.scan", "help.curr")
             c == curr[t]
  <2>1. /\ Goto(t, "find.help", to) /\ Unlinks(t) /\ RetirePush(t, c)
        /\ to \in {"help.scan", "help.curr"}
    BY <1>3 DEF FindHelp, AfterRetirePush
  <2> HIDE DEF to
  <2>2. /\ ListInv' /\ c \in Nodes /\ status[c] = "linked"
        /\ status' = [status EXCEPT ![c] = "retired"]
    <3>1. /\ to \notin {"add.discard", "add.cas", "remove.cas"}
          /\ to \in HelpingLabels /\ "find.help" \in {"find.help", "remove.cas"}
      BY <2>1 DEF HelpingLabels
    <3> QED BY <1>3, <2>1, <3>1, UnlinksKept, PcFunction DEF IInv
  <2>3. /\ pc' = [pc EXCEPT ![t] = to]
        /\ UNCHANGED <<pred, curr, nxt, dangling, main>>
    BY <2>1 DEF Goto, Unlinks, findLocals
  <2>4. /\ \A m \in Nodes :
             /\ status[m] = "retired" \/ m = c => status'[m] = "retired"
             /\ status[m] = "retired" => m # c
        /\ InNoList(c)
    BY <2>2, LinkedInNoList DEF IInv, ListInv, LoopedTypeOK, ListTypeOK
  <2>5. /\ Scheme(Scanning)'
        /\ \A m : m # c /\ InNoList(m) => InNoList(m)'
        /\ \A m : \A u \in Threads, j \in Slots :
             Shields(u, j, m, Scanning) /\ hazardPointerList'[u][j] = m
             => Shields(u, j, m, Scanning)'
    <3>1. /\ "help.scan" \in Scanning /\ "help.curr" \notin Scanning
          /\ pc[t] \notin Scanning
      BY <1>1 DEF Scanning
    <3>2. /\ hazardPointerList' \in [Threads -> [Slots -> NodeOrNull]]
          /\ \A u \in Threads :
               IF u = t THEN pc'[u] \in {"help.scan", "help.curr"} ELSE pc'[u] = pc[u]
      BY <1>1, <2>1, <2>3 DEF IInv, TypeOK
    <3> QED BY <1>1, <2>1, <2>2, <2>3, <2>4, <3>1, <3>2, PushEffect DEF IInv
  <2>6. ASSUME NEW u \in Threads
        PROVE  Steady(u) /\ (u # t => pc'[u] = pc[u])
    <3>1. \A j \in Slots, n \in Nodes :
            Shields(u, j, n, Scanning) => Shields(u, j, n, Scanning)'
      BY <1>1, <2>5 DEF Shields
    <3>2. IF u = t THEN pc[u] = "find.help" /\ pc'[u] \in {"help.scan", "help.curr"}
          ELSE pc'[u] = pc[u]
      BY <1>1, <2>1, <2>3 DEF IInv, TypeOK
    <3> QED BY <1>1, <2>3, <3>1, <3>2 DEF Steady
  <2>7. NoneLinkedAgain
    BY <2>4 DEF NoneLinkedAgain
  <2>8. pc'[t] \in {"help.scan", "help.curr"}
    BY <2>1, <2>3 DEF IInv, TypeOK
  <2>9. Step(t)
    BY <2>4, <2>5, <2>6, <2>7, <2>8 DEF Step
  <2>10. ThreadInv(t)'
    <3>1. Published(t)' /\ FoundShielded(t)'
      BY <2>6, <2>7, SteadyKept DEF IInv, ThreadInv
    <3> QED BY <2>8, <3>1 DEF ThreadInv, RemovedByOne
  <2>11. /\ pc' \in [Threads -> Labels] /\ main' \in MainStates
         /\ slot' \in [Threads -> Slots]
    BY <1>1, <2>1, <2>3 DEF IInv, TypeOK, Labels, HelpLabels
  <2>12. MainAlone'
    BY <1>1, <2>3, AloneKept
  <2> QED BY <1>1, <2>2, <2>5, <2>9, <2>10, <2>11, <2>12, StepInv
<1> QED BY <1>2, <1>3

(* A step of a scan: the node it deletes is shielded by no slot.           *)
LEMMA RetiresInv ==
  ASSUME EnoughSlots, IInv, NEW t \in Threads, Retires(t)
  PROVE  IInv'
<1>1. /\ AfterDeletion
      /\ UNCHANGED <<head, tail, findLocals, callVars, calls, main>>
  BY DEF Retires
<1>2. PICK scanning \in Scanning, done \in {"help.curr", "return"} :
        /\ RetireScan(t, scanning, done)
        /\ scanning = "help.scan" <=> done = "help.curr"
  BY DEF Retires, Scanning
<1>3. ~Destroyed
  <2>1. pc[t] = scanning
    BY <1>2 DEF RetireScan, ScanSlot, Reclaim, Keep, ScanContinue, Goto
  <2> QED BY <2>1, AloneKept, <1>1 DEF Scanning
<1>4. /\ ScanKeeps(Scanning)
      /\ UNCHANGED <<threadCount, hazardPointerList, ptr, last, slot>>
      /\ pc[t] = scanning /\ pc'[t] \in {scanning, done}
      /\ pc' = [pc EXCEPT ![t] = pc'[t]]
      /\ \/ UNCHANGED heapVars
         \/ \E c \in Nodes :
              /\ Delete({c}) /\ status[c] = "retired" /\ ~InNoList(c)
              /\ \A u \in Threads, j \in Slots : ~Shields(u, j, c, Scanning)
  <2>1. done \notin Scanning /\ status \in [Nodes -> Statuses]
    BY DEF Scanning, IInv, ListInv, LoopedTypeOK, ListTypeOK
  <2> QED BY <1>1, <1>2, <1>3, <2>1, PcFunction, ScanEffect DEF IInv
<1>5. PICK S \in SUBSET Nodes :
        /\ Delete(S)
        /\ \A n \in S :
             /\ status[n] = "retired" /\ ~InNoList(n)
             /\ \A u \in Threads, j \in Slots : ~Shields(u, j, n, Scanning)
  <2>1. CASE UNCHANGED heapVars
    <3>1. Delete({})
      BY <2>1 DEF Delete, heapVars, IInv, ListInv, LoopedTypeOK, ListTypeOK
    <3> QED BY <3>1
  <2>2. CASE \E c \in Nodes :
               /\ Delete({c}) /\ status[c] = "retired" /\ ~InNoList(c)
               /\ \A u \in Threads, j \in Slots : ~Shields(u, j, c, Scanning)
    BY <2>2
  <2> QED BY <1>4, <2>1, <2>2
<1>6. \A u \in Threads : IF u = t THEN pc'[u] \in {scanning, done} ELSE pc'[u] = pc[u]
  BY <1>4 DEF IInv, TypeOK
<1>7. /\ ListInv'
      /\ \A u \in Threads :
           dangling'[u] = dangling[u] \cup {r \in Roles : Named(u, r) \in S}
  <2>1. \A u \in Threads : Relabels(u)
    <3>1. scanning = "help.scan" => pc[t] \in HelpingLabels /\ pc[t] \in PassedLabels
      BY <1>4 DEF HelpingLabels, PassedLabels
    <3>2. /\ done = "return" => done \in NoCurrLabels /\ done \notin PassedLabels
                                /\ done \notin HelpingLabels
          /\ done \notin {"add.discard", "add.cas", "remove.cas"}
      BY DEF NoCurrLabels, HelpingLabels, PassedLabels
    <3>3. pc[t] = "help.scan" => curr[t] # NULL
      BY DEF IInv, ListInv, Traverses, NoCurrLabels
    <3> QED BY <1>2, <1>4, <1>6, <3>1, <3>2, <3>3 DEF Relabels, Scanning
  <2> QED BY <1>1, <1>5, <2>1, DeletesKept DEF IInv
<1>8. \A m \in Nodes : status'[m] = IF m \in S THEN "free" ELSE status[m]
  BY <1>5 DEF Delete
<1>9. ASSUME NEW u \in Threads, u # t \/ scanning = "help.scan"
      PROVE  Steady(u)
  <2>1. /\ pred'[u] = pred[u] /\ curr'[u] = curr[u] /\ nxt'[u] = nxt[u]
    BY <1>1 DEF findLocals
  <2>2. \A j \in Slots, n \in Nodes :
          Shields(u, j, n, Scanning) => Shields(u, j, n, Scanning)'
    BY <1>4 DEF ScanKeeps
  <2>3. \/ pc'[u] = pc[u]
        \/ pc[u] = "help.scan" /\ pc'[u] \in {"help.scan", "help.curr"}
    BY <1>2, <1>4, <1>6, <1>9
  <2>4. \A r \in dangling'[u] \ dangling[u] : r \in Roles /\ Named(u, r) \in S
    BY <1>7
  <2> QED BY <1>4, <1>5, <1>7, <2>1, <2>2, <2>3, <2>4 DEF Steady
<1>10. NoneLinkedAgain
  BY <1>8 DEF NoneLinkedAgain
<1>11. Step(t)
  <2>1. \A m \in Nodes : status[m] = "retired" /\ InNoList(m) =>
          status'[m] = "retired" /\ InNoList(m)'
    BY <1>4, <1>5, <1>8 DEF ScanKeeps
  <2>2. pc'[t] # "remove.clear"
    BY <1>6 DEF Scanning
  <2> QED BY <1>6, <1>9, <1>10, <2>1, <2>2 DEF Step
<1>12. ThreadInv(t)'
  <2>1. CASE scanning = "help.scan"
    <3>1. Published(t)' /\ FoundShielded(t)'
      BY <1>9, <1>10, <2>1, SteadyKept DEF IInv, ThreadInv
    <3>2. pc'[t] # "remove.clear"
      BY <1>6, <2>1
    <3> QED BY <3>1, <3>2 DEF ThreadInv, RemovedByOne
  <2>2. CASE scanning = "scan"
    <3>1. pc'[t] \notin HoldingLabels \cup {"remove.clear"}
      BY <1>2, <1>6, <2>2 DEF HoldingLabels
    <3> QED BY <3>1, FoundNothing
  <2> QED BY <2>1, <2>2 DEF Scanning
<1>13. /\ pc' \in [Threads -> Labels] /\ main' \in MainStates
       /\ slot' \in [Threads -> Slots]
  BY <1>1, <1>4, <1>6 DEF IInv, TypeOK, Labels, HelpLabels, RemoveLabels, Scanning
<1>14. MainAlone'
  BY <1>1, <1>4, AloneKept DEF Scanning
<1> QED BY <1>4, <1>7, <1>11, <1>12, <1>13, <1>14, StepInv DEF ScanKeeps

(* add deletes the node it does not need.                                  *)
LEMMA AddDiscardInv ==
  ASSUME EnoughSlots, IInv, NEW t \in Threads, AddDiscard(t)
  PROVE  IInv'
<1>1. /\ Discards(t, "clear") /\ UNCHANGED <<hpVars, hpLocals>>
      /\ pc[t] = "add.discard" /\ pc' = [pc EXCEPT ![t] = "clear"]
      /\ UNCHANGED <<findLocals, dangling, main>>
  BY DEF AddDiscard, Discards, Goto
<1>2. /\ ListInv' /\ node[t] \in Nodes /\ status[node[t]] = "private"
      /\ status' = [status EXCEPT ![node[t]] = "free"]
  <2>1. "clear" \in NoCurrLabels \ {"add.discard"}
    BY DEF NoCurrLabels
  <2> QED BY <1>1, <2>1, DiscardsKept, PcFunction DEF IInv
<1>3. /\ "clear" \in Labels \ {"undefined"}
      /\ "clear" \notin HoldingLabels \cup Scanning \cup {"remove.clear"}
  BY DEF Labels, HoldingLabels, Scanning
<1>4. \A m \in Nodes : status[m] = "retired" => status'[m] = "retired"
  BY <1>2 DEF IInv, ListInv, LoopedTypeOK, ListTypeOK
<1>5. Own(t, "clear") /\ slot' \in [Threads -> Slots] /\ UNCHANGED hazardPointerList
  BY <1>1, <1>3, <1>4 DEF Own, findLocals, hpVars, hpLocals, IInv, TypeOK
<1> QED BY <1>2, <1>3, <1>5, OwnNothing

(* add links its node.                                                     *)
LEMMA AddCasInv ==
  ASSUME EnoughSlots, IInv, NEW t \in Threads, ~Strays(t), AddCas(t)
  PROVE  IInv'
<1>1. Adds(t, "find.head", "clear") /\ UNCHANGED <<hpVars, hpLocals>>
  BY DEF AddCas
<1>2. CASE TryAgain(t, "add.cas", "find.head")
  <2>1. "add.cas" \in Labels \ {"exited", "undefined"}
    BY DEF Labels, AddLabels
  <2> QED BY <1>1, <1>2, <2>1, TryAgainInv
<1>3. CASE ~TryAgain(t, "add.cas", "find.head")
  <2>1. /\ pc[t] = "add.cas" /\ pc' = [pc EXCEPT ![t] = "clear"] /\ Forget(t)
        /\ dangling' = [dangling EXCEPT ![t] = {}] /\ main' = main
    BY <1>1, <1>3 DEF Adds, Goto
  <2>2. /\ ListInv'
        /\ \/ status' = status
           \/ /\ node[t] \in Nodes /\ status[node[t]] = "private"
              /\ status' = [status EXCEPT ![node[t]] = "linked"]
    <3>1. /\ "clear" \in NoCurrLabels \ {"add.discard"}
          /\ "find.head" \in NoCurrLabels \ {"add.discard"}
      BY DEF NoCurrLabels
    <3> QED BY <1>1, <3>1, AddsKept, PcFunction DEF IInv
  <2>3. /\ "clear" \in Labels \ {"undefined"}
        /\ "clear" \notin HoldingLabels \cup Scanning \cup {"remove.clear"}
    BY DEF Labels, HoldingLabels, Scanning
  <2>4. \A m \in Nodes : status[m] = "retired" => status'[m] = "retired"
    BY <2>2 DEF IInv, ListInv, LoopedTypeOK, ListTypeOK
  <2>5. Own(t, "clear") /\ slot' \in [Threads -> Slots] /\ UNCHANGED hazardPointerList
    BY <1>1, <2>1, <2>3, <2>4 DEF Own, Forget, hpVars, hpLocals, IInv, TypeOK, ListInv,
       LoopedTypeOK, ListTypeOK
  <2> QED BY <2>2, <2>3, <2>5, OwnNothing
<1> QED BY <1>2, <1>3

(* remove marks curr.                                                      *)
LEMMA RemoveMarkInv ==
  ASSUME EnoughSlots, IInv, NEW t \in Threads, ~Strays(t), RemoveMark(t)
  PROVE  IInv'
<1>1. Marks(t, "find.head") /\ UNCHANGED <<hpVars, hpLocals>>
  BY DEF RemoveMark
<1>2. CASE TryAgain(t, "remove.mark", "find.head")
  <2>1. "remove.mark" \in Labels \ {"exited", "undefined"}
    BY DEF Labels, RemoveLabels
  <2> QED BY <1>1, <1>2, <2>1, TryAgainInv
<1>3. CASE ~TryAgain(t, "remove.mark", "find.head")
  <2>1. /\ pc[t] = "remove.mark" /\ pc' = [pc EXCEPT ![t] = "remove.cas"]
        /\ UNCHANGED <<heapVars, findLocals, dangling, main>>
    BY <1>1, <1>3 DEF Marks, Goto
  <2>2. ListInv'
    <3>1. "find.head" \in NoCurrLabels \ {"add.discard"}
      BY DEF NoCurrLabels
    <3> QED BY <1>1, <3>1, MarksKept, PcFunction DEF IInv
  <2>3. /\ "remove.cas" \in Labels \ {"undefined"}
        /\ "remove.cas" \notin Scanning \cup {"remove.clear"}
    BY DEF Labels, RemoveLabels, Scanning
  <2>4. /\ Own(t, "remove.cas") /\ slot' \in [Threads -> Slots]
        /\ UNCHANGED hazardPointerList
    BY <1>1, <2>1, <2>3 DEF Own, findLocals, heapVars, hpVars, hpLocals, IInv, TypeOK
  <2>5. Local(t)
    BY <2>3, <2>4, OwnLocal
  <2>6. ThreadInv(t)'
    <3>1. \A j \in Slots, n \in Nodes :
            Shields(t, j, n, Scanning) => Shields(t, j, n, Scanning)'
      <4>1. ASSUME NEW j \in Slots, NEW n \in Nodes, Shields(t, j, n, Scanning)
            PROVE  Shields(t, j, n, Scanning)'
        <5>1. hazardPointerList'[t][j] = n /\ j <= j
          BY <2>4, <4>1 DEF Shields, Slots
        <5> QED BY <2>5, <4>1, <5>1, LocalEffect
      <4> QED BY <4>1
    <3>2. pc'[t] = "remove.cas"
      BY <2>1 DEF IInv, TypeOK
    <3>3. Steady(t) /\ NoneLinkedAgain
      BY <2>1, <2>4, <2>5, <3>1, <3>2 DEF Steady, NoneLinkedAgain, findLocals,
         heapVars, Own
    <3> QED BY <3>2, <3>3, SteadyKept DEF IInv, ThreadInv, RemovedByOne
  <2> QED BY <2>2, <2>4, <2>5, <2>6, OwnInv
<1> QED BY <1>2, <1>3

(* remove unlinks curr, which then is its own to retire.                   *)
LEMMA RemoveCasInv ==
  ASSUME EnoughSlots, IInv, NEW t \in Threads, ~Strays(t), RemoveCas(t)
  PROVE  IInv'
<1>1. /\ Removes(t, "remove.clear", "clear") /\ UNCHANGED <<hpVars, hpLocals>>
      /\ pc[t] = "remove.cas" /\ UNCHANGED <<findLocals, dangling, main>>
      /\ \E to \in {"remove.clear", "clear"} : pc' = [pc EXCEPT ![t] = to]
  BY DEF RemoveCas, Removes, Unlinks, Goto, loopedVars, listVars
<1>2. /\ ListInv'
      /\ \/ status' = status /\ pc'[t] = "clear"
         \/ /\ curr[t] \in Nodes /\ status[curr[t]] = "linked"
            /\ status' = [status EXCEPT ![curr[t]] = "retired"]
            /\ pc'[t] = "remove.clear"
  <2>1. /\ "remove.clear" \notin PassedLabels \cup {"add.discard", "add.cas"}
        /\ "clear" \in NoCurrLabels \ {"add.discard"}
    BY DEF PassedLabels, HelpingLabels, NoCurrLabels
  <2> QED BY <1>1, <2>1, RemovesKept, PcFunction DEF IInv
<1>3. PICK to \in {"remove.clear", "clear"} :
        pc' = [pc EXCEPT ![t] = to] /\ pc'[t] = to
  BY <1>1 DEF IInv, TypeOK
<1>4. \A m \in Nodes : status[m] = "retired" => status'[m] = "retired"
  BY <1>2 DEF IInv, ListInv, LoopedTypeOK, ListTypeOK
<1>5. to \in Labels \ {"undefined"} /\ to \notin Scanning \cup HoldingLabels
  BY DEF Labels, RemoveLabels, Scanning, HoldingLabels
<1>6. Own(t, to) /\ slot' \in [Threads -> Slots] /\ UNCHANGED hazardPointerList
  BY <1>1, <1>3, <1>4, <1>5 DEF Own, findLocals, hpVars, hpLocals, IInv, TypeOK
<1>7. CASE to = "clear"
  <2>1. to \notin HoldingLabels \cup Scanning \cup {"remove.clear"}
    BY <1>5, <1>7
  <2> QED BY <1>2, <1>5, <1>6, <2>1, OwnNothing
<1>8. CASE to = "remove.clear"
  <2>1. /\ curr' = curr /\ curr[t] \in Nodes /\ status[curr[t]] = "linked"
        /\ status'[curr[t]] = "retired"
    BY <1>1, <1>2, <1>3, <1>8 DEF findLocals, IInv, ListInv, LoopedTypeOK, ListTypeOK
  <2>2. Local(t)
    BY <1>3, <1>5, <1>6, <1>8, <2>1 DEF Local, Own, IInv, TypeOK, Destroyed
  <2>3. ThreadInv(t)'
    <3>1. InNoList(curr[t])'
      <4>1. InNoList(curr[t])
        BY <2>1, LinkedInNoList
      <4> QED BY <1>1, <2>1, <4>1 DEF InNoList, hpVars
    <3>2. \A u \in Threads : pc'[u] = "remove.clear" /\ curr[u] = curr[t] => u = t
      <4>1. \A u \in Threads : pc[u] = "remove.clear" => status[curr[u]] = "retired"
        BY DEF IInv, ThreadInv, RemovedByOne
      <4> QED BY <1>3, <2>1, <4>1 DEF IInv, TypeOK
    <3>3. RemovedByOne(t)'
      BY <2>1, <3>1, <3>2 DEF RemovedByOne
    <3>4. Published(t)' /\ FoundShielded(t)'
      BY <1>3, <1>8 DEF Published, FoundShielded, Found, Protected, NextFound
    <3> QED BY <3>3, <3>4 DEF ThreadInv
  <2> QED BY <1>2, <1>6, <2>2, <2>3, OwnInv
<1> QED BY <1>7, <1>8

(* clear empties one slot after the other.                                 *)
LEMMA ClearsSlot ==
  ASSUME IInv, NEW t \in Threads, NEW from, NEW done, ClearSlot(t, from, done)
  PROVE  /\ pc[t] = from /\ pc' = [pc EXCEPT ![t] = pc'[t]]
         /\ pc'[t] = IF slot[t] + 1 = SlotsPerThread THEN done ELSE from
         /\ \E j \in Slots :
              hazardPointerList' = [hazardPointerList EXCEPT ![t][j] = NULL]
         /\ slot' \in [Threads -> Slots]
<1>1. slot \in [Threads -> Slots] /\ slot[t] \in Slots
  BY DEF IInv, TypeOK
<1>2. (slot[t] + 1) % SlotsPerThread \in Slots
  BY <1>1, HPAssumption DEF Slots
<1> QED BY <1>1, <1>2 DEF ClearSlot, Goto, IInv, TypeOK

(* remove clears its slots and retires the node it has unlinked.           *)
LEMMA RemoveClearInv ==
  ASSUME EnoughSlots, IInv, NEW t \in Threads, RemoveClear(t)
  PROVE  IInv'
<1> DEFINE to == AfterRetirePush(t, "scan", "return")
           c == curr[t]
<1>1. /\ pc[t] = "remove.clear" /\ pc' = [pc EXCEPT ![t] = pc'[t]]
      /\ pc'[t] = IF slot[t] + 1 = SlotsPerThread THEN to ELSE "remove.clear"
      /\ \E j \in Slots :
           hazardPointerList' = [hazardPointerList EXCEPT ![t][j] = NULL]
      /\ slot' \in [Threads -> Slots]
      /\ to \in {"scan", "return"}
  BY ClearsSlot DEF RemoveClear, AfterRetirePush
<1> HIDE DEF to
<1>2. /\ UNCHANGED <<heapVars, threadCount, ptr, last, loopedVars, main>>
      /\ IF slot[t] + 1 = SlotsPerThread
         THEN RetirePush(t, c)
         ELSE UNCHANGED <<retiredPointerList, retiredCount, scan>>
  BY DEF RemoveClear
<1>3. /\ UNCHANGED <<pred, curr, nxt, dangling, status>>
      /\ c \in Nodes /\ status[c] = "retired" /\ InNoList(c) /\ RemovedByOne(t)
  BY <1>1, <1>2 DEF loopedVars, listVars, findLocals, heapVars, IInv, ThreadInv,
     RemovedByOne
<1>4. ListInv'
  <2>1. c # NULL
    BY <1>3, HeapAssumption
  <2>2. \A u \in Threads : Relabels(u)
    <3>1. \A u \in Threads : u # t => pc'[u] = pc[u]
      BY <1>1 DEF IInv, TypeOK
    <3>2. /\ pc'[t] \in {"scan", "return", "remove.clear"}
          /\ pc'[t] \notin PassedLabels \cup HelpingLabels
      BY <1>1 DEF PassedLabels, HelpingLabels
    <3> QED BY <2>1, <3>1, <3>2 DEF Relabels
  <2> QED BY <1>2, <2>2, LabelKept DEF IInv, ListInv, LoopedTypeOK, ListTypeOK,
             loopedVars, listVars, findLocals, callVars, heapVars
<1>5. /\ hazardPointerList' \in [Threads -> [Slots -> NodeOrNull]]
      /\ \A u \in Threads : u # t =>
           hazardPointerList'[u] = hazardPointerList[u] /\ pc'[u] = pc[u]
  <2>1. /\ hazardPointerList \in [Threads -> [Slots -> NodeOrNull]]
        /\ pc \in [Threads -> Labels] /\ NULL \in NodeOrNull
    BY DEF IInv, TypeOK, NodeOrNull
  <2> QED BY <1>1, <2>1
<1>6. CASE slot[t] + 1 # SlotsPerThread
  <2>1. pc'[t] = "remove.clear"
    BY <1>1, <1>6
  <2>2. Own(t, "remove.clear")
    BY <1>1, <1>2, <1>3, <1>6, <2>1 DEF Own, Labels, RemoveLabels
  <2>3. Local(t)
    BY <1>1, <1>2, <1>3, <1>5, <1>6, <2>1 DEF Local, Destroyed, Scanning
  <2>4. ThreadInv(t)'
    <3>1. Published(t)' /\ FoundShielded(t)'
      BY <2>1 DEF Published, FoundShielded, Found, Protected, NextFound
    <3>2. RemovedByOne(t)'
      BY <1>1, <1>2, <1>3, <1>5, <1>6 DEF RemovedByOne, InNoList
    <3> QED BY <3>1, <3>2 DEF ThreadInv
  <2> QED BY <1>1, <1>4, <2>2, <2>3, <2>4, OwnInv
<1>7. CASE slot[t] + 1 = SlotsPerThread
  <2>1. RetirePush(t, c) /\ pc'[t] \in {"scan", "return"}
    BY <1>1, <1>2, <1>7
  <2>2. /\ Scheme(Scanning)'
        /\ \A m : m # c /\ InNoList(m) => InNoList(m)'
        /\ \A m : \A u \in Threads, j \in Slots :
             Shields(u, j, m, Scanning) /\ hazardPointerList'[u][j] = m
             => Shields(u, j, m, Scanning)'
    <3>1. "scan" \in Scanning /\ "return" \notin Scanning /\ pc[t] \notin Scanning
      BY <1>1 DEF Scanning
    <3>2. /\ \A u \in Threads :
               IF u = t THEN pc'[u] \in {"scan", "return"} ELSE pc'[u] = pc[u]
          /\ \A m \in Nodes : status[m] = "retired" \/ m = c => status'[m] = "retired"
      BY <1>3, <1>5, <2>1
    <3>3. UNCHANGED <<threadCount, main>>
      BY <1>2
    <3> QED BY <1>3, <1>5, <2>1, <3>1, <3>2, <3>3, PushEffect DEF IInv
  <2>3. ASSUME NEW u \in Threads, u # t PROVE Steady(u) /\ pc'[u] = pc[u]
    <3>1. ASSUME NEW j \in Slots, NEW n \in Nodes, Shields(u, j, n, Scanning)
          PROVE  Shields(u, j, n, Scanning)'
      <4>1. hazardPointerList'[u][j] = n
        BY <1>5, <2>3, <3>1 DEF Shields
      <4> QED BY <2>2, <3>1, <4>1
    <3> QED BY <1>2, <1>3, <1>5, <2>3, <3>1 DEF Steady
  <2>4. Step(t)
    BY <1>1, <1>3, <2>1, <2>2, <2>3 DEF Step, NoneLinkedAgain
  <2>5. ThreadInv(t)'
    <3>1. pc'[t] \notin HoldingLabels \cup {"remove.clear"}
      BY <2>1 DEF HoldingLabels
    <3> QED BY <3>1, FoundNothing
  <2>6. pc' \in [Threads -> Labels] /\ main' \in MainStates /\ threadCount' = threadCount
    BY <1>1, <1>2, <2>1 DEF IInv, TypeOK, Labels, RemoveLabels
  <2>7. MainAlone'
    BY <1>1, <1>2, AloneKept
  <2> QED BY <1>1, <1>4, <2>2, <2>4, <2>5, <2>6, <2>7, StepInv
<1> QED BY <1>6, <1>7

(* An operation returns.                                                   *)
LEMMA ReturnInv ==
  ASSUME EnoughSlots, IInv, NEW t \in Threads, Clear(t) \/ Return(t)
  PROVE  IInv'
<1>1. PICK from \in {"clear", "return"}, to \in {"clear", "idle"} :
        /\ pc[t] = from /\ pc' = [pc EXCEPT ![t] = to]
        /\ slot' \in [Threads -> Slots]
        /\ \/ UNCHANGED hazardPointerList
           \/ \E j \in Slots, n \in NodeOrNull :
                hazardPointerList' = [hazardPointerList EXCEPT ![t][j] = n]
  <2>1. CASE Clear(t)
    <3>1. ClearSlot(t, "clear", "idle") /\ NULL \in NodeOrNull
      BY <2>1 DEF Clear, NodeOrNull
    <3> QED BY <3>1, ClearsSlot
  <2>2. CASE Return(t)
    BY <2>2 DEF Return, Goto, hpVars, hpLocals, IInv, TypeOK
  <2> QED BY <2>1, <2>2
<1>2. /\ UNCHANGED <<threadCount, retiredPointerList, retiredCount, scan, status, main>>
      /\ \A u \in Threads : u # t =>
           /\ pred'[u] = pred[u] /\ curr'[u] = curr[u] /\ nxt'[u] = nxt[u]
           /\ dangling'[u] = dangling[u]
  <2>1. Returns(t) \/ UNCHANGED <<heapVars, loopedVars, main>>
    BY DEF Clear, Return
  <2>2. /\ UNCHANGED <<status, main>>
        /\ \A u \in Threads : u # t =>
             /\ pred'[u] = pred[u] /\ curr'[u] = curr[u] /\ nxt'[u] = nxt[u]
             /\ dangling'[u] = dangling[u]
    BY <2>1 DEF Returns, Forget, loopedVars, listVars, findLocals, heapVars, IInv,
       ListInv, LoopedTypeOK, ListTypeOK
  <2> QED BY <2>2 DEF Clear, Return, hpVars, hpLocals
<1>3. ListInv'
  <2>1. "idle" \in NoCurrLabels \ {"add.discard"}
    BY DEF NoCurrLabels
  <2>2. CASE Returns(t) /\ (Goto(t, "clear", "idle") \/ Goto(t, "return", "idle"))
    BY <2>1, <2>2, ReturnsKept, PcFunction DEF IInv
  <2>3. CASE UNCHANGED <<heapVars, loopedVars, main>>
    <3>1. \A u \in Threads : Relabels(u)
      BY <1>1 DEF Relabels, NoCurrLabels, PassedLabels, HelpingLabels, IInv, TypeOK
    <3> QED BY <2>3, <3>1, LabelKept DEF IInv, ListInv, LoopedTypeOK, ListTypeOK,
               loopedVars, listVars, findLocals, callVars, heapVars
  <2> QED BY <2>2, <2>3 DEF Clear, Return, ClearSlot
<1>4. to \in Labels \ (HoldingLabels \cup Scanning \cup {"remove.clear"})
  BY DEF Labels, HoldingLabels, Scanning
<1>5. Own(t, to)
  BY <1>1, <1>2, <1>4 DEF Own, Labels
<1> QED BY <1>1, <1>3, <1>4, <1>5, OwnNothing

(* A thread ends, or goes where nothing is defined.                        *)
LEMMA EndInv ==
  ASSUME EnoughSlots, IInv, NEW t \in Threads, NEW to \in {"exited", "undefined"},
         pc' = [pc EXCEPT ![t] = to], UNCHANGED <<heapVars, hpVars, hpLocals, loopedVars,
         main>>, to = "undefined" => main \notin {"deleting", "destroyed"}
  PROVE  IInv'
<1>1. /\ pc'[t] = to /\ \A u \in Threads : u # t => pc'[u] = pc[u]
      /\ pc' \in [Threads -> Labels]
  BY DEF IInv, TypeOK, Labels
<1>2. ListInv'
  <2>1. \A u \in Threads : Relabels(u)
    BY <1>1 DEF Relabels, NoCurrLabels, PassedLabels, HelpingLabels
  <2> QED BY <2>1, LabelKept DEF IInv, ListInv, LoopedTypeOK, ListTypeOK,
             loopedVars, listVars, findLocals, callVars, heapVars
<1>3. Local(t)
  BY <1>1 DEF Local, IInv, TypeOK, hpVars, hpLocals, heapVars, loopedVars, listVars,
     findLocals, Destroyed, Scanning
<1>4. ThreadInv(t)'
  BY <1>1, FoundNothing DEF HoldingLabels
<1>5. MainAlone'
  BY <1>1 DEF IInv, MainAlone
<1>6. main' \in MainStates /\ slot' \in [Threads -> Slots]
  BY DEF IInv, TypeOK, hpLocals
<1> QED BY <1>1, <1>2, <1>3, <1>4, <1>5, <1>6, LocalInv

(* A step of a thread.                                                     *)
LEMMA ThreadStepInv ==
  ASSUME EnoughSlots, IInv, NEW t \in Threads, ThreadStep(t)
  PROVE  IInv'
<1>1. CASE ~Strays(t) /\ FindStep(t)
  BY <1>1, FindHeadInv, FindCurrInv, LoadsInv, FindSlot0Inv, FindCompareInv,
     FindSlot2Inv, FindHelpInv, HelpCurrInv DEF FindStep
<1>2. CASE ~Strays(t) /\ CallStep(t)
  BY <1>2, CallInv, AddDiscardInv, AddCasInv, RemoveMarkInv, RemoveCasInv,
     RemoveClearInv, RetiresInv, ReturnInv DEF CallStep
<1>3. CASE /\ Strays(t) /\ Stray(t)
           /\ UNCHANGED <<heapVars, hpVars, hpLocals, loopedVars, main>>
  <2>1. main \notin {"deleting", "destroyed"}
    <3>1. pc[t] # "exited"
      BY <1>3 DEF Strays, Uses
    <3> QED BY <3>1 DEF IInv, MainAlone
  <2> QED BY <1>3, <2>1, EndInv DEF Stray
<1>4. CASE Exits(t) /\ UNCHANGED <<hpVars, hpLocals>>
  <2>1. /\ pc[t] = "idle" /\ pc' = [pc EXCEPT ![t] = "exited"]
        /\ UNCHANGED <<heapVars, loopedVars, main>>
    BY <1>4 DEF Exits, LeaveLoop, Goto
  <2> QED BY <1>4, <2>1, EndInv
<1> QED BY <1>1, <1>2, <1>3, <1>4 DEF ThreadStep

(* The main thread goes on; the threads and their slots stay as they are.  *)
LEMMA MainMoves ==
  ASSUME IInv, ListInv', MainAlone', main' \in MainStates, ~Destroyed, ~Destroyed',
         UNCHANGED <<heapVars, hpVars, hpLocals, pc, pred, curr, nxt, dangling>>
  PROVE  IInv'
<1>1. /\ UNCHANGED <<status, next, item, threadCount, hazardPointerList,
                     retiredPointerList, retiredCount, scan, slot, pc, pred, curr,
                     nxt, dangling>>
  BY DEF heapVars, hpVars, hpLocals
<1>2. Scheme(Scanning)'
  BY <1>1 DEF IInv, Scheme, ScanTypes, RetiredOnce, ScanInRange, CountsRetired,
     Candidate
<1>3. TypeOK'
  BY <1>1 DEF IInv, TypeOK, ListInv
<1>4. ASSUME NEW t \in Threads PROVE ThreadInv(t)'
  <2>1. ThreadInv(t)
    BY DEF IInv
  <2> QED BY <1>1, <2>1 DEF ThreadInv, Published, FoundShielded, RemovedByOne,
             NextFound, Found, Protected, Shields, Candidate, Past, InNoList
<1> QED BY <1>2, <1>3, <1>4 DEF IInv

(* The list is deleted, and with it all retired nodes.                     *)
LEMMA DestroyInv == ASSUME EnoughSlots, IInv, Destroy PROVE IInv'
<1>1. /\ main = "deleting" /\ main' = "destroyed" /\ pc' = pc
      /\ \A t \in Threads : pc[t] = "exited"
  BY DEF Destroy, DeleteStructure, IInv, MainAlone
<1> DEFINE S == UNION {Retired(t) : t \in Threads}
<1>2. S \in SUBSET Nodes /\ \A n \in S : status[n] = "retired"
  <2> SUFFICES ASSUME NEW n \in S PROVE n \in Nodes /\ status[n] = "retired"
    OBVIOUS
  <2>1. PICK t \in Threads : n \in Retired(t)
    OBVIOUS
  <2>2. PICK i \in 1..Len(retiredPointerList[t]) : n = retiredPointerList[t][i]
    <3>1. retiredPointerList[t] \in Seq(Nodes)
      BY DEF IInv, Scheme, ScanTypes
    <3> QED BY <2>1, <3>1 DEF Retired, ToSet
  <2>3. retiredPointerList[t][i] \in Nodes
    <3>1. retiredPointerList[t] \in Seq(Nodes)
      BY DEF IInv, Scheme, ScanTypes
    <3> QED BY <3>1, <2>2
  <2> QED BY <2>2, <2>3 DEF IInv, Scheme, RetiredOnce
<1>3. ListInv'
  <2>1. /\ Delete(S) /\ AfterDeletion
        /\ UNCHANGED <<head, tail, findLocals, callVars, calls>>
    BY DEF Destroy
  <2>2. \A u \in Threads : Relabels(u)
    BY <1>1 DEF Relabels
  <2> QED BY <1>2, <2>1, <2>2, DeletesKept DEF IInv
<1>4. Scheme(Scanning)'
  <2>1. /\ retiredPointerList' = [t \in Threads |-> <<>>]
        /\ UNCHANGED <<threadCount, hazardPointerList, retiredCount, scan>>
    BY DEF Destroy, hpLocals
  <2>2. ScanTypes' /\ RetiredOnce'
    BY <2>1 DEF IInv, Scheme, ScanTypes, RetiredOnce
  <2>3. ScanInRange(Scanning)' /\ CountsRetired'
    BY <1>1 DEF ScanInRange, CountsRetired, Scanning, Destroyed
  <2> QED BY <2>2, <2>3 DEF Scheme
<1>5. ASSUME NEW t \in Threads PROVE ThreadInv(t)'
  BY <1>1, FoundNothing DEF HoldingLabels
<1>6. TypeOK'
  <2>1. /\ retiredPointerList' = [t \in Threads |-> <<>>]
        /\ UNCHANGED <<threadCount, hazardPointerList, retiredCount, slot>>
    BY DEF Destroy, hpLocals
  <2> QED BY <1>1, <1>3, <2>1 DEF IInv, TypeOK, ListInv, MainStates
<1> QED BY <1>1, <1>3, <1>4, <1>5, <1>6 DEF IInv, MainAlone

(* The constructors and an empty list.                                     *)
LEMMA InitInv == EnoughSlots /\ ThreadCounts \subseteq 0..NumThreads /\ Init => IInv
<1> SUFFICES ASSUME EnoughSlots, ThreadCounts \subseteq 0..NumThreads, Init
             PROVE  IInv
  OBVIOUS
<1>1. ListInv
  BY LoopedInitKept DEF Init
<1>2. /\ pc = [t \in Threads |-> "idle"] /\ main = "filling"
      /\ curr = [t \in Threads |-> NULL]
  BY DEF Init, LoopedInit, ListInit
<1>3. 0 \in Slots
  BY SlotsInRange
<1>4. /\ threadCount \in ThreadCounts
      /\ hazardPointerList = [t \in Threads |-> [s \in Slots |-> NULL]]
      /\ retiredPointerList = [t \in Threads |-> <<>>]
      /\ retiredCount = [t \in Threads |-> 0]
      /\ slot = [t \in Threads |-> 0] /\ scan = [t \in Threads |-> ScanStart]
  BY DEF Init, HPInit
<1>5. TypeOK
  <2>1. \A t \in Threads : <<>> \in Seq(Nodes) /\ pc[t] \in Labels
    BY <1>2 DEF Labels
  <2> QED BY <1>1, <1>2, <1>3, <1>4, <2>1 DEF TypeOK, ListInv, MainStates, NodeOrNull
<1>6. ScanTypes
  <2>1. ScanStart \in [i : Nat \ {0}, k : Nat, j : Slots, deleteNode : BOOLEAN]
    BY <1>3 DEF ScanStart
  <2>2. threadCount \in 0..NumThreads
    BY <1>4
  <2> QED BY <1>3, <1>4, <2>1, <2>2 DEF ScanTypes, NodeOrNull
<1>7. Scheme(Scanning)
  <2>1. RetiredOnce /\ CountsRetired /\ ScanInRange(Scanning)
    BY <1>2, <1>4 DEF RetiredOnce, CountsRetired, ScanInRange, Scanning
  <2> QED BY <1>6, <2>1 DEF Scheme
<1>8. ASSUME NEW t \in Threads PROVE ThreadInv(t)
  BY <1>2 DEF ThreadInv, Published, FoundShielded, RemovedByOne, NextFound, Found,
     Protected
<1> QED BY <1>1, <1>2, <1>5, <1>7, <1>8 DEF IInv, MainAlone

(* Every step keeps the invariant.                                         *)
LEMMA NextInv == ASSUME EnoughSlots, IInv, [Next]_vars PROVE IInv'
<1>1. ASSUME NEW t \in Threads, ThreadStep(t) PROVE IInv'
  BY <1>1, ThreadStepInv
<1>2. CASE (Starts \/ Quits \/ Joins) /\ UNCHANGED <<hpVars, hpLocals>>
  <2>1. /\ UNCHANGED <<heapVars, hpVars, hpLocals, pc, pred, curr, nxt, dangling>>
        /\ ~Destroyed /\ ~Destroyed' /\ main' \in MainStates
    BY <1>2 DEF Starts, Quits, Joins, StartThreads, QuitSignal, JoinUndrained,
       Filling, Destroyed, MainStates, findLocals, loopedVars, listVars
  <2>2. MainAlone'
    BY <1>2 DEF Starts, Quits, Joins, StartThreads, QuitSignal, JoinUndrained,
       MainAlone
  <2>3. ListInv'
    <3>1. CASE Starts
      BY <3>1, StartsKept DEF IInv
    <3>2. CASE Quits \/ Joins
      <4>1. \A u \in Threads : Relabels(u)
        BY <2>1 DEF Relabels
      <4>2. UNCHANGED <<heapVars, loopedVars>>
        BY <3>2 DEF Quits, Joins
      <4> QED BY <2>1, <4>1, <4>2, LabelKept DEF IInv, ListInv, LoopedTypeOK,
                 ListTypeOK, loopedVars, listVars, findLocals, callVars, heapVars
    <3> QED BY <1>2, <3>1, <3>2
  <2> QED BY <2>1, <2>2, <2>3, MainMoves
<1>3. CASE Destroy
  BY <1>3, DestroyInv
<1>4. CASE UNCHANGED vars
  <2>1. CASE Destroyed
    <3>1. \A t \in Threads : pc[t] = "exited" /\ pc'[t] = "exited"
      BY <1>4, <2>1 DEF IInv, MainAlone, Destroyed, vars
    <3>2. ListInv'
      <4>1. \A u \in Threads : Relabels(u)
        BY <1>4 DEF Relabels, vars
      <4> QED BY <1>4, <4>1, LabelKept DEF IInv, ListInv, LoopedTypeOK, ListTypeOK,
                 vars, loopedVars, listVars, findLocals, callVars, heapVars
    <3>3. TypeOK' /\ MainAlone'
      BY <1>4, <3>2 DEF IInv, vars, hpVars, hpLocals, TypeOK, MainAlone, ListInv
    <3>4. Scheme(Scanning)'
      <4>1. UNCHANGED <<status, threadCount, hazardPointerList, retiredPointerList,
                        retiredCount, scan, pc, main>>
        BY <1>4 DEF vars, heapVars, hpVars, hpLocals
      <4>2. ScanTypes' /\ CountsRetired'
        BY <4>1 DEF IInv, Scheme, ScanTypes, CountsRetired, Destroyed
      <4>3. RetiredOnce' /\ ScanInRange(Scanning)'
        BY <4>1 DEF IInv, Scheme, RetiredOnce, ScanInRange, Destroyed, Candidate
      <4> QED BY <4>2, <4>3 DEF Scheme
    <3>5. \A t \in Threads : ThreadInv(t)'
      BY <3>1, FoundNothing DEF HoldingLabels
    <3> QED BY <3>2, <3>3, <3>4, <3>5 DEF IInv
  <2>2. CASE ~Destroyed
    <3>1. /\ UNCHANGED <<heapVars, hpVars, hpLocals, pc, pred, curr, nxt, dangling>>
          /\ ~Destroyed' /\ main' \in MainStates /\ MainAlone'
      BY <1>4, <2>2 DEF vars, loopedVars, listVars, findLocals, Destroyed, IInv,
         TypeOK, MainAlone
    <3>2. ListInv'
      <4>1. \A u \in Threads : Relabels(u)
        BY <3>1 DEF Relabels
      <4> QED BY <1>4, <4>1, LabelKept DEF IInv, ListInv, LoopedTypeOK, ListTypeOK,
                 vars, loopedVars, listVars, findLocals, callVars, heapVars
    <3> QED BY <2>2, <3>1, <3>2, MainMoves
  <2> QED BY <2>1, <2>2
<1> QED BY <1>1, <1>2, <1>3, <1>4 DEF Next, MainStep, Finished

(* What the invariant is for.                                              *)
LEMMA InvSafe == IInv => TypeOK /\ ProtectedSafe
BY DEF IInv, ThreadInv, FoundShielded, ProtectedSafe

-----------------------------------------------------------------------------
(* Where every node is.                                                    *)

(* A step that retires no node and takes none out of the hands of a        *)
(* remove.                                                                 *)
LEMMA StaysPlaced ==
  ASSUME Placed, ListPlaced',
         \A n \in Nodes : status'[n] = "retired" => status[n] = "retired",
         \A n : InNoList(n)' => InNoList(n),
         \A u \in Threads : pc[u] = "remove.clear" => pc'[u] = pc[u] /\ curr'[u] = curr[u]
  PROVE  Placed'
BY DEF Placed

(* The labels at which threads may have nodes.                             *)
LEMMA BusyLabels ==
  /\ FindLabels \cap QuietLabels = {} /\ HelpLabels \cap QuietLabels = {}
  /\ "undefined" \notin QuietLabels
  /\ {"remove.mark", "remove.cas", "remove.clear", "scan", "clear", "return", "idle",
      "exited"} \subseteq QuietLabels
BY DEF FindLabels, HelpLabels, QuietLabels

(* A step of t that changes locals of find, and no label but its own.      *)
LEMMA LocalPlaces ==
  ASSUME IInv, Placed, NEW t \in Threads, NEW to, pc' = [pc EXCEPT ![t] = to],
         pc[t] \in QuietLabels \/ (to \notin QuietLabels /\ pc[t] # "add.discard"),
         pc[t] # "remove.clear" \/ to = "remove.clear",
         UNCHANGED <<status, next, head, node, op, retiredPointerList>>,
         \A u \in Threads : pc[u] = "remove.clear" => curr'[u] = curr[u]
  PROVE  Placed'
<1>1. pc'[t] = to /\ \A u \in Threads : u # t => pc'[u] = pc[u]
  BY DEF IInv, TypeOK
<1>2. \A u \in Threads : Busy(u)
  BY <1>1 DEF Busy
<1>3. ListPlaced'
  BY <1>2, PlacedKept DEF IInv, Placed
<1> QED BY <1>1, <1>3, StaysPlaced DEF InNoList

(* The steps of find that only look.                                       *)
LEMMA FindPlaces ==
  ASSUME IInv, Placed, NEW t \in Threads,
         \/ FindHead(t) \/ FindCurr(t) \/ FindNext(t) \/ FindMisread(t)
         \/ FindSlot0(t) \/ FindSlot2(t) \/ HelpCurr(t)
  PROVE  Placed'
<1>1. PICK from \in FindLabels \cup HelpLabels, to \in FindLabels \cup HelpLabels :
        pc[t] = from /\ pc' = [pc EXCEPT ![t] = to]
  BY DEF FindHead, FindCurr, FindNext, FindMisread, FindSlot0, FindSlot2, HelpCurr,
     StoreLocal, Goto, FindLabels, HelpLabels
<1>2. /\ UNCHANGED <<status, next, head, node, op, retiredPointerList>>
      /\ \A u \in Threads : u # t => curr'[u] = curr[u]
  BY DEF FindHead, FindCurr, FindNext, FindMisread, FindSlot0, FindSlot2, HelpCurr,
     StoreLocal, LoadsHead, LoadsNext, MovesTo, Follow, heapVars, hpVars, loopedVars,
     listVars, findLocals, callVars, IInv, ListInv, LoopedTypeOK, ListTypeOK
<1>3. from \notin {"remove.clear", "add.discard"}
  BY DEF FindLabels, HelpLabels
<1> QED BY <1>1, <1>2, <1>3, BusyLabels, LocalPlaces

(* find compares, goes on, or returns to its caller.                       *)
LEMMA FindComparePlaces ==
  ASSUME IInv, Placed, NEW t \in Threads, FindCompare(t)
  PROVE  Placed'
<1>1. UNCHANGED retiredPointerList
  BY DEF FindCompare, hpVars
<1>2. CASE Validates(t, "find.head") \/ Compares(t, "find.head", "find.slot2")
  <2>1. PICK to \in FindLabels :
          pc[t] \in {"find.again", "find.pred"} /\ pc' = [pc EXCEPT ![t] = to]
    BY <1>2 DEF Validates, Compares, TryAgain, Goto, FindLabels
  <2>2. /\ UNCHANGED <<status, next, head, node, op>>
        /\ \A u \in Threads : u # t => curr'[u] = curr[u]
    BY <1>2 DEF Validates, Compares, TryAgain, MovesTo, Follow, Forget, heapVars,
       loopedVars, listVars, findLocals, callVars, IInv, ListInv, LoopedTypeOK,
       ListTypeOK
  <2> QED BY <1>1, <2>1, <2>2, BusyLabels, LocalPlaces
<1>3. ASSUME NEW found \in BOOLEAN, pc[t] \in {"find.again", "find.pred"},
             Ends(t, found, AfterFind(t, found, Done(t)))
      PROVE  Placed'
  <2>1. ListPlaced'
    <3>1. pc[t] \notin QuietLabels \cup {"add.discard"}
      BY <1>3, BusyLabels DEF FindLabels
    <3> QED BY <1>3, <3>1, EndsPlaced, PcFunction DEF IInv, Placed
  <2>2. /\ UNCHANGED status
        /\ \A u \in Threads : u # t => pc'[u] = pc[u] /\ curr'[u] = curr[u]
    BY <1>3 DEF Ends, FindReturns, Forget, IInv, TypeOK, ListInv, LoopedTypeOK,
       ListTypeOK
  <2> QED BY <1>1, <1>3, <2>1, <2>2, StaysPlaced DEF InNoList
<1> QED BY <1>2, <1>3 DEF FindCompare, AtTail, AtKey, FoundAtCurr

(* find takes a marked node out and gives it an entry.                     *)
LEMMA FindHelpPlaces ==
  ASSUME IInv, Placed, NEW t \in Threads, ~Strays(t), FindHelp(t)
  PROVE  Placed'
<1>1. pc[t] = "find.help"
  BY DEF FindHelp
<1>2. CASE ~PredIsCurr(t)
  <2>1. /\ pc' = [pc EXCEPT ![t] = "find.head"]
        /\ UNCHANGED <<status, next, head, node, op, retiredPointerList>>
        /\ \A u \in Threads : u # t => curr'[u] = curr[u]
    BY <1>2 DEF FindHelp, TryAgain, Goto, Forget, heapVars, callVars, IInv, ListInv,
       LoopedTypeOK, ListTypeOK
  <2> QED BY <1>1, <2>1, BusyLabels, LocalPlaces DEF FindLabels
<1>3. CASE PredIsCurr(t)
  <2> DEFINE to == AfterRetirePush(t, "help.scan", "help.curr")
             c == curr[t]
  <2>1. /\ pc' = [pc EXCEPT ![t] = to] /\ to \in HelpLabels
        /\ Unlinks(t) /\ RetirePush(t, c)
    BY <1>3 DEF FindHelp, Goto, AfterRetirePush, HelpLabels
  <2> HIDE DEF to
  <2>2. pc'[t] = to /\ \A u \in Threads : u # t => pc'[u] = pc[u]
    BY <2>1 DEF IInv, TypeOK
  <2>3. \A u \in Threads : Busy(u)
    BY <1>1, <2>1, <2>2, BusyLabels DEF Busy
  <2>4. ListPlaced'
    BY <1>1, <1>3, <2>1, <2>3, UnlinksPlaced DEF IInv, Placed
  <2>5. c \in Nodes /\ UNCHANGED curr /\ status' = [status EXCEPT ![c] = "retired"]
    BY <1>1, <1>3, <2>1, NextOfLinked DEF Unlinks, findLocals, IInv
  <2>6. \A m : InNoList(m)' <=> InNoList(m) /\ m # c
    BY <2>1, <2>5, PushEntry DEF IInv, Scheme
  <2>7. \A m \in Nodes : status'[m] = "retired" /\ m # c => status[m] = "retired"
    BY <2>5 DEF IInv, ListInv, LoopedTypeOK, ListTypeOK
  <2> HIDE DEF c
  <2>8. ASSUME NEW m \in Nodes, status'[m] = "retired"
        PROVE  ~InNoList(m)' \/ \E u \in Threads : pc'[u] = "remove.clear" /\ curr'[u] = m
    <3>1. CASE m = c
      BY <2>6, <3>1
    <3>2. CASE m # c
      <4>1. ~InNoList(m) \/ \E u \in Threads : pc[u] = "remove.clear" /\ curr[u] = m
        BY <2>7, <2>8, <3>2 DEF Placed
      <4> QED BY <1>1, <2>2, <2>5, <2>6, <4>1
    <3> QED BY <3>1, <3>2
  <2> QED BY <2>4, <2>8 DEF Placed
<1> QED BY <1>2, <1>3

(* A scan removes the entry of the node it deletes.                        *)
LEMMA RetiresPlaces ==
  ASSUME IInv, Placed, NEW t \in Threads, Retires(t)
  PROVE  Placed'
<1>1. UNCHANGED <<head, curr, node, op>>
  BY DEF Retires, findLocals, callVars
<1>2. PICK scanning \in Scanning, done \in {"help.curr", "return"} :
        /\ RetireScan(t, scanning, done)
        /\ scanning = "help.scan" <=> done = "help.curr"
  BY DEF Retires, Scanning
<1>3. /\ pc[t] = scanning
      /\ pc' = pc \/ pc' = [pc EXCEPT ![t] = scanning] \/ pc' = [pc EXCEPT ![t] = done]
  BY <1>2 DEF RetireScan, ScanSlot, Reclaim, Keep, ScanContinue, Goto
<1>4. \A u \in Threads : u # t => pc'[u] = pc[u]
  BY <1>3 DEF IInv, TypeOK
<1>5. \A u \in Threads : Busy(u)
  <2>1. pc'[t] \in {scanning, done}
    BY <1>3 DEF IInv, TypeOK
  <2>2. scanning = "scan" \/ (scanning = "help.scan" /\ done = "help.curr")
    BY <1>2 DEF Scanning
  <2> QED BY <1>3, <1>4, <2>1, <2>2, BusyLabels DEF Busy, HelpLabels
<1>6. scan[t].i \in 1..Len(retiredPointerList[t])
  BY <1>3 DEF IInv, Scheme, ScanInRange
<1>7. pc[t] # "remove.clear"
  BY <1>3 DEF Scanning
<1>8. CASE UNCHANGED <<heapVars, retiredPointerList>>
  <2>1. ListPlaced'
    BY <1>1, <1>5, <1>8, PlacedKept DEF IInv, Placed, heapVars
  <2> QED BY <1>1, <1>4, <1>7, <1>8, <2>1, StaysPlaced DEF InNoList, heapVars
<1>9. CASE /\ Delete({Candidate(t)})
           /\ \A m : m # Candidate(t) /\ InNoList(m)' => InNoList(m)
  <2> DEFINE c == Candidate(t)
  <2>1. status[c] = "retired"
    BY <1>6 DEF Candidate, IInv, Scheme, RetiredOnce
  <2>2. \A m \in Nodes : status'[m] = IF m = c THEN "free" ELSE status[m]
    BY <1>9 DEF Delete
  <2>3. ListPlaced'
    BY <1>1, <1>5, <1>9, <2>1, DeletesPlaced DEF IInv, Placed
  <2> HIDE DEF c
  <2>4. ASSUME NEW m \in Nodes, status'[m] = "retired"
        PROVE  ~InNoList(m)' \/ \E u \in Threads : pc'[u] = "remove.clear" /\ curr'[u] = m
    <3>1. m # c /\ status[m] = "retired"
      BY <2>2, <2>4
    <3>2. ~InNoList(m) \/ \E u \in Threads : pc[u] = "remove.clear" /\ curr[u] = m
      BY <3>1 DEF Placed
    <3> QED BY <1>1, <1>4, <1>7, <1>9, <3>1, <3>2 DEF c
  <2> QED BY <2>3, <2>4 DEF Placed
<1> QED BY <1>2, <1>6, <1>8, <1>9, ScanEntries DEF IInv, Scheme

(* The steps of add and the mark of remove.                                *)
LEMMA AddsPlaces ==
  ASSUME IInv, Placed, NEW t \in Threads, ~Strays(t),
         Call(t) \/ AddDiscard(t) \/ AddCas(t) \/ RemoveMark(t)
  PROVE  Placed'
<1>1. ListPlaced'
  <2>1. "find.head" \notin QuietLabels
    BY DEF QuietLabels
  <2>2. IInv /\ ListPlaced /\ pc = [u \in Threads |-> pc[u]]
    BY PcFunction DEF Placed
  <2>3. CASE Call(t)
    BY <2>1, <2>2, <2>3, CallAddPlaced, CallOtherPlaced DEF Call, IInv
  <2>4. CASE AddDiscard(t)
    BY <2>2, <2>4, DiscardsPlaced DEF AddDiscard, IInv
  <2>5. CASE AddCas(t)
    BY <2>1, <2>2, <2>5, AddsPlaced DEF AddCas, IInv
  <2>6. CASE RemoveMark(t)
    BY <2>2, <2>6, MarksPlaced DEF RemoveMark, IInv
  <2> QED BY <2>3, <2>4, <2>5, <2>6
<1>2. /\ UNCHANGED retiredPointerList
      /\ pc[t] \in {"idle", "add.discard", "add.cas", "remove.mark"}
      /\ \A u \in Threads : u # t => pc'[u] = pc[u] /\ curr'[u] = curr[u]
  <2>1. /\ UNCHANGED retiredPointerList
        /\ \E from \in {"idle", "add.discard", "add.cas", "remove.mark"},
              to \in Labels : Goto(t, from, to)
        /\ UNCHANGED findLocals \/ Forget(t)
    BY DEF Call, CallAdd, CallOther, AddDiscard, Discards, AddCas, Adds, RemoveMark,
       Marks, TryAgain, hpVars, Labels, FindLabels, RemoveLabels
  <2> QED BY <2>1 DEF Goto, Forget, findLocals, IInv, TypeOK, ListInv, LoopedTypeOK,
             ListTypeOK
<1>3. \A n \in Nodes : status'[n] = "retired" => status[n] = "retired"
  <2>1. status \in [Nodes -> Statuses]
    BY DEF IInv, ListInv, LoopedTypeOK, ListTypeOK
  <2>2. CASE Call(t)
    BY <2>1, <2>2 DEF Call, CallAdd, CallOther, New, heapVars
  <2>3. CASE AddDiscard(t)
    BY <2>1, <2>3 DEF AddDiscard, Discards, Delete
  <2>4. CASE AddCas(t)
    BY <2>1, <2>4 DEF AddCas, Adds, TryAgain, heapVars
  <2>5. CASE RemoveMark(t)
    BY <2>1, <2>5 DEF RemoveMark, Marks, TryAgain, heapVars
  <2> QED BY <2>2, <2>3, <2>4, <2>5
<1> QED BY <1>1, <1>2, <1>3, StaysPlaced DEF InNoList

(* remove takes its node out, or leaves that to some find.                 *)
LEMMA RemoveCasPlaces ==
  ASSUME IInv, Placed, NEW t \in Threads, ~Strays(t), RemoveCas(t)
  PROVE  Placed'
<1>1. ListPlaced'
  BY RemovesPlaced, PcFunction DEF RemoveCas, IInv, Placed
<1>2. /\ pc[t] = "remove.cas" /\ UNCHANGED <<curr, retiredPointerList>>
      /\ \A u \in Threads : u # t => pc'[u] = pc[u]
  BY DEF RemoveCas, Removes, Unlinks, Goto, hpVars, loopedVars, listVars, findLocals,
     IInv, TypeOK
<1>3. \A n \in Nodes : status'[n] = "retired" =>
        status[n] = "retired" \/ (n = curr[t] /\ pc'[t] = "remove.clear")
  BY DEF RemoveCas, Removes, Unlinks, Goto, heapVars, IInv, TypeOK, ListInv,
     LoopedTypeOK, ListTypeOK
<1> QED BY <1>1, <1>2, <1>3 DEF Placed, InNoList

(* remove clears its slots and gives its node an entry.                    *)
LEMMA RemoveClearPlaces ==
  ASSUME IInv, Placed, NEW t \in Threads, RemoveClear(t)
  PROVE  Placed'
<1> DEFINE c == curr[t]
           to == IF slot[t] + 1 = SlotsPerThread
                 THEN AfterRetirePush(t, "scan", "return") ELSE "remove.clear"
<1>1. /\ pc[t] = "remove.clear" /\ pc' = [pc EXCEPT ![t] = to]
      /\ UNCHANGED <<status, next, head, node, op, curr>>
  BY DEF RemoveClear, ClearSlot, Goto, heapVars, loopedVars, listVars, findLocals,
     callVars
<1>2. pc'[t] = to /\ \A u \in Threads : u # t => pc'[u] = pc[u]
  BY <1>1 DEF IInv, TypeOK
<1>3. ListPlaced'
  <2>1. \A u \in Threads : Busy(u)
    BY <1>1, <1>2, BusyLabels DEF Busy
  <2> QED BY <1>1, <2>1, PlacedKept DEF IInv, Placed
<1>4. CASE slot[t] + 1 # SlotsPerThread
  BY <1>1, <1>2, <1>3, <1>4, StaysPlaced DEF RemoveClear, InNoList
<1>5. CASE slot[t] + 1 = SlotsPerThread
  <2>1. c \in Nodes
    BY <1>1 DEF IInv, ThreadInv, RemovedByOne
  <2>2. RetirePush(t, c)
    BY <1>5 DEF RemoveClear
  <2>3. \A m : InNoList(m)' <=> InNoList(m) /\ m # c
    BY <2>1, <2>2, PushEntry DEF IInv, Scheme
  <2> HIDE DEF to
  <2> QED BY <1>1, <1>2, <1>3, <2>3 DEF Placed
<1> QED BY <1>4, <1>5

(* An operation returns.                                                   *)
LEMMA ReturnPlaces ==
  ASSUME IInv, Placed, NEW t \in Threads, Clear(t) \/ Return(t)
  PROVE  Placed'
<1>1. PICK to \in {"clear", "idle"} :
        pc[t] \in {"clear", "return"} /\ pc' = [pc EXCEPT ![t] = to]
  BY DEF Clear, ClearSlot, Return, Goto
<1>2. pc[t] \in QuietLabels /\ \A u \in Threads : u # t => pc'[u] = pc[u]
  BY <1>1, BusyLabels DEF IInv, TypeOK
<1>3. UNCHANGED retiredPointerList
  BY DEF Clear, Return, hpVars
<1>4. CASE Returns(t)
  <2>1. ListPlaced'
    BY <1>2, <1>4, ReturnsPlaced DEF IInv, Placed
  <2>2. UNCHANGED status /\ \A u \in Threads : u # t => curr'[u] = curr[u]
    BY <1>4 DEF Returns, Forget, heapVars, IInv, ListInv, LoopedTypeOK, ListTypeOK
  <2> QED BY <1>1, <1>2, <1>3, <2>1, <2>2, StaysPlaced DEF InNoList
<1>5. CASE UNCHANGED <<heapVars, loopedVars, main>>
  <2>1. UNCHANGED <<status, next, head, node, op, curr>>
    BY <1>5 DEF heapVars, loopedVars, listVars, findLocals, callVars
  <2> QED BY <1>1, <1>2, <1>3, <2>1, LocalPlaces
<1> QED BY <1>4, <1>5 DEF Clear, Return

(* No node but the list's is left when the retired lists are deleted.      *)
LEMMA DestroyPlaces == ASSUME IInv, Placed, Destroy PROVE Placed'
<1> DEFINE S == UNION {Retired(t) : t \in Threads}
<1>1. /\ \A t \in Threads : pc[t] = "exited" /\ pc'[t] = pc[t]
      /\ Delete(S) /\ UNCHANGED <<head, node, op>>
  BY DEF Destroy, DeleteStructure, callVars, IInv, MainAlone
<1>2. \A m \in Nodes : status'[m] = IF m \in S THEN "free" ELSE status[m]
  BY <1>1 DEF Delete
<1>3. \A n \in S : status[n] = "retired"
  <2>1. ASSUME NEW t \in Threads, NEW n \in Retired(t) PROVE status[n] = "retired"
    <3>1. retiredPointerList[t] \in Seq(Nodes)
      BY DEF IInv, Scheme, ScanTypes
    <3>2. \E i \in 1..Len(retiredPointerList[t]) : n = retiredPointerList[t][i]
      BY <2>1, <3>1 DEF Retired, ToSet
    <3> QED BY <3>2 DEF IInv, Scheme, RetiredOnce
  <2> QED BY <2>1
<1>4. \A m \in Nodes : status[m] = "retired" => m \in S
  BY <1>1, EntriesRetired DEF Placed, IInv, Scheme
<1>5. \A u \in Threads : Busy(u)
  BY <1>1 DEF Busy
<1> HIDE DEF S
<1>6. ListPlaced'
  BY <1>1, <1>3, <1>5, DeletesPlaced DEF IInv, Placed
<1> QED BY <1>2, <1>4, <1>6 DEF Placed

(* Every step keeps the places.                                            *)
LEMMA NextPlaces == ASSUME IInv, Placed, [Next]_vars PROVE Placed'
<1>1. ASSUME NEW t \in Threads, ThreadStep(t) PROVE Placed'
  <2>1. CASE ~Strays(t) /\ FindStep(t)
    BY <2>1, FindPlaces, FindComparePlaces, FindHelpPlaces DEF FindStep
  <2>2. CASE ~Strays(t) /\ CallStep(t)
    BY <2>2, AddsPlaces, RemoveCasPlaces, RemoveClearPlaces, RetiresPlaces,
       ReturnPlaces DEF CallStep
  <2>3. ASSUME NEW to \in {"exited", "undefined"}, pc' = [pc EXCEPT ![t] = to],
               pc[t] \in QuietLabels \/ (to = "undefined" /\ pc[t] # "add.discard"),
               pc[t] # "remove.clear", UNCHANGED <<heapVars, hpVars, loopedVars>>
        PROVE  Placed'
    <3>1. UNCHANGED <<status, next, head, node, op, curr, retiredPointerList>>
      BY <2>3 DEF heapVars, hpVars, loopedVars, listVars, findLocals, callVars
    <3> QED BY <2>3, <3>1, BusyLabels, LocalPlaces
  <2>4. CASE /\ Strays(t) /\ Stray(t)
             /\ UNCHANGED <<heapVars, hpVars, hpLocals, loopedVars, main>>
    <3>1. pc[t] \notin {"remove.clear", "add.discard"}
      BY <2>4 DEF Strays, Uses
    <3> QED BY <2>3, <2>4, <3>1 DEF Stray
  <2>5. CASE Exits(t) /\ UNCHANGED <<hpVars, hpLocals>>
    BY <2>3, <2>5, BusyLabels DEF Exits, LeaveLoop, Goto
  <2> QED BY <1>1, <2>1, <2>2, <2>4, <2>5 DEF ThreadStep
<1>2. CASE Destroy
  BY <1>2, DestroyPlaces
<1>3. CASE ((Starts \/ Quits \/ Joins) /\ UNCHANGED <<hpVars, hpLocals>>) \/ UNCHANGED vars
  <2>1. UNCHANGED <<status, next, head, node, op, curr, pc, retiredPointerList>>
    BY <1>3 DEF Starts, Quits, Joins, QuitSignal, JoinUndrained, vars, heapVars, hpVars,
       loopedVars, listVars, findLocals, callVars
  <2>2. ListPlaced'
    BY <2>1, PlacedKept DEF IInv, Placed, Busy
  <2> QED BY <2>1, <2>2, StaysPlaced DEF InNoList
<1> QED BY <1>1, <1>2, <1>3 DEF Next, MainStep, Finished

(* The constructor's list is in its place.                                 *)
LEMMA InitPlaced == Init => Placed
BY LoopedInitPlaced DEF Init, LoopedInit, Placed

(* What the places are for.                                                *)
LEMMA PlacedOwned == ASSUME IInv, Placed PROVE OneOwner
<1>1. ChainSet(head) = Linked
  BY PlacedChain DEF IInv, Placed
<1>2. \A t \in Threads : ~Destroyed => retiredCount[t] = Len(retiredPointerList[t])
  BY DEF IInv, Scheme, CountsRetired
<1>3. ASSUME NEW n \in Nodes
      PROVE  InOnePlace(n, Linked, EntriesOf(retiredPointerList, n),
                        {t \in Threads : Holds(t, n)})
  <2> DEFINE entries == EntriesOf(retiredPointerList, n)
             holders == {t \in Threads : Holds(t, n)}
  <2>1. status[n] \in Statuses /\ (n \in Linked <=> status[n] = "linked") /\ n # NULL
    BY HeapAssumption DEF IInv, ListInv, LoopedTypeOK, ListTypeOK, Linked
  <2>2. IF InNoList(n) THEN entries = {}
        ELSE status[n] = "retired" /\ \E x : entries = {x}
    BY OneEntry DEF IInv, Scheme
  <2>3. \A t \in Threads : node[t] = n =>
          status[n] = "private" /\ \A u \in Threads : node[u] = n => u = t
    BY <2>1 DEF IInv, ListInv, OwnsNode
  <2>4. \A t \in Threads : pc[t] = "remove.clear" /\ curr[t] = n =>
          /\ status[n] = "retired" /\ InNoList(n)
          /\ \A u \in Threads : pc[u] = "remove.clear" /\ curr[u] = n => u = t
    BY DEF IInv, ThreadInv, RemovedByOne
  <2>5. ASSUME NEW t \in Threads, Holds(t, n) PROVE holders = {t}
    BY <2>3, <2>4, <2>5 DEF Holds
  <2>6. status[n] \in {"linked", "free"} => entries = {} /\ holders = {}
    BY <2>2, <2>3, <2>4 DEF Holds
  <2>7. status[n] = "private" => entries = {} /\ \E x : holders = {x}
    BY <2>2, <2>5 DEF Placed, ListPlaced, Holds
  <2>8. status[n] = "retired" =>
          \/ entries = {} /\ \E x : holders = {x}
          \/ holders = {} /\ \E x : entries = {x}
    <3>1. CASE InNoList(n)
      BY <2>2, <2>5, <3>1 DEF Placed, Holds
    <3>2. CASE ~InNoList(n)
      BY <2>2, <2>3, <2>4, <3>2 DEF Holds
    <3> QED BY <3>1, <3>2
  <2> HIDE DEF entries, holders
  <2>9. InOnePlace(n, Linked, entries, holders)
    BY <2>1, <2>6, <2>7, <2>8, PlacedOnce
  <2> QED BY <2>9 DEF entries, holders
<1> QED BY <1>1, <1>2, <1>3 DEF OneOwner

-----------------------------------------------------------------------------
(* The list as a safe memory reclamation scheme; nothing is guarded for    *)
(* the whole of an operation.                                              *)
SMR == INSTANCE SafeReclamation WITH guards <- [t \in Threads |-> {}]

(* The transitions of one node's life cycle.                               *)
Transitions == {<<"free", "private">>, <<"private", "linked">>,
                <<"linked", "retired">>, <<"private", "free">>,
                <<"retired", "free">>}

(* A step that changes at most one life cycle, by one transition.          *)
LEMMA MoveMaps ==
  ASSUME IInv,
         \/ UNCHANGED status
         \/ \E n \in Nodes : \E p \in Transitions :
              status[n] = p[1] /\ status' = [status EXCEPT ![n] = p[2]]
  PROVE  [SMR!Next]_(SMR!vars)
<1>1. CASE UNCHANGED status
  BY <1>1 DEF SMR!vars
<1>2. ASSUME NEW n \in Nodes, NEW p \in Transitions, status[n] = p[1],
             status' = [status EXCEPT ![n] = p[2]]
      PROVE  SMR!Next
  <2>1. status'[n] # status[n]
    BY <1>2 DEF Transitions, IInv, ListInv, LoopedTypeOK, ListTypeOK
  <2>2. SMR!Move({n}, p[1], p[2])
    BY <1>2 DEF SMR!Move, IInv, ListInv, LoopedTypeOK, ListTypeOK
  <2>3. SMR!Change(n)
    BY <2>2 DEF Transitions, SMR!Change, SMR!Allocate, SMR!Link, SMR!Unlink,
       SMR!Discard, SMR!Reclaim, SMR!Unguarded
  <2> QED BY <2>1, <2>3 DEF SMR!Next
<1> QED BY <1>1, <1>2

(* The steps that make, link, unlink and discard nodes.                    *)
LEMMA ChangesMap ==
  ASSUME IInv, NEW t \in Threads, ~Strays(t),
         Call(t) \/ FindHelp(t) \/ AddCas(t) \/ AddDiscard(t) \/ RemoveCas(t)
  PROVE  [SMR!Next]_(SMR!vars)
<1>1. CASE Call(t)
  BY <1>1, MoveMaps DEF Call, CallAdd, CallOther, New, heapVars, Transitions
<1>2. CASE FindHelp(t)
  <2>1. CASE PredIsCurr(t)
    <3> DEFINE to == AfterRetirePush(t, "help.scan", "help.curr")
    <3>1. /\ Goto(t, "find.help", to) /\ Unlinks(t) /\ to \in {"help.scan", "help.curr"}
      BY <1>2, <2>1 DEF FindHelp, AfterRetirePush
    <3>2. /\ to \notin {"add.discard", "add.cas", "remove.cas"}
          /\ to \in HelpingLabels /\ "find.help" \in {"find.help", "remove.cas"}
      BY <3>1 DEF HelpingLabels
    <3> HIDE DEF to
    <3>3. /\ curr[t] \in Nodes /\ status[curr[t]] = "linked"
          /\ status' = [status EXCEPT ![curr[t]] = "retired"]
      BY <2>1, <3>1, <3>2, UnlinksKept, PcFunction DEF IInv
    <3>4. <<"linked", "retired">> \in Transitions
      BY DEF Transitions
    <3> QED BY <3>3, <3>4, MoveMaps
  <2>2. CASE ~PredIsCurr(t)
    BY <1>2, <2>2, MoveMaps DEF FindHelp, TryAgain, heapVars
  <2> QED BY <2>1, <2>2
<1>3. CASE AddCas(t)
  <2>1. \/ status' = status
        \/ /\ node[t] \in Nodes /\ status[node[t]] = "private"
           /\ status' = [status EXCEPT ![node[t]] = "linked"]
    <3>1. "find.head" \in NoCurrLabels \ {"add.discard"}
          /\ "clear" \in NoCurrLabels \ {"add.discard"}
      BY DEF NoCurrLabels
    <3> QED BY <1>3, <3>1, AddsKept, PcFunction DEF AddCas, IInv
  <2>2. <<"private", "linked">> \in Transitions
    BY DEF Transitions
  <2> QED BY <2>1, <2>2, MoveMaps
<1>4. CASE AddDiscard(t)
  <2>1. /\ node[t] \in Nodes /\ status[node[t]] = "private"
        /\ status' = [status EXCEPT ![node[t]] = "free"]
    <3>1. "clear" \in NoCurrLabels \ {"add.discard"}
      BY DEF NoCurrLabels
    <3> QED BY <1>4, <3>1, DiscardsKept, PcFunction DEF AddDiscard, IInv
  <2>2. <<"private", "free">> \in Transitions
    BY DEF Transitions
  <2> QED BY <2>1, <2>2, MoveMaps
<1>5. CASE RemoveCas(t)
  <2>1. \/ status' = status
        \/ /\ curr[t] \in Nodes /\ status[curr[t]] = "linked"
           /\ status' = [status EXCEPT ![curr[t]] = "retired"]
    <3>1. /\ "remove.clear" \notin (PassedLabels \cup {"add.discard", "add.cas"})
          /\ "clear" \in NoCurrLabels \ {"add.discard"}
      BY DEF NoCurrLabels, PassedLabels, HelpingLabels
    <3> QED BY <1>5, <3>1, RemovesKept, PcFunction DEF RemoveCas, IInv
  <2>2. <<"linked", "retired">> \in Transitions
    BY DEF Transitions
  <2> QED BY <2>1, <2>2, MoveMaps
<1> QED BY <1>1, <1>2, <1>3, <1>4, <1>5

(* A deletion of retireNode.                                               *)
LEMMA RetiresMap ==
  ASSUME IInv, NEW t \in Threads, Retires(t)
  PROVE  [SMR!Next]_(SMR!vars)
<1>1. PICK scanning \in Scanning, done \in {"help.curr", "return"} :
        RetireScan(t, scanning, done)
  BY DEF Retires, Scanning
<1>2. UNCHANGED main /\ ~Destroyed
  <2>1. pc[t] = scanning
    BY <1>1 DEF RetireScan, ScanSlot, Reclaim, Keep, ScanContinue, Goto
  <2>2. main' = main
    BY DEF Retires
  <2> QED BY <2>1, <2>2, AloneKept DEF Scanning
<1>3. \/ UNCHANGED heapVars
      \/ \E c \in Nodes : Delete({c}) /\ status[c] = "retired"
  <2>1. done \notin Scanning /\ status \in [Nodes -> Statuses]
    BY DEF Scanning, IInv, ListInv, LoopedTypeOK, ListTypeOK
  <2>2. Scheme(Scanning) /\ pc = [u \in Threads |-> pc[u]]
    BY PcFunction DEF IInv
  <2>3. \/ UNCHANGED heapVars
        \/ \E c \in Nodes :
             /\ c = Candidate(t) /\ Delete({c})
             /\ status[c] = "retired" /\ ~InNoList(c) /\ InNoList(c)'
             /\ \A u \in Threads, j \in Slots : ~Shields(u, j, c, Scanning)
    BY <1>1, <1>2, <2>1, <2>2, ScanEffect
  <2> QED BY <2>3
<1>4. ASSUME NEW c \in Nodes, Delete({c}), status[c] = "retired"
      PROVE  [SMR!Next]_(SMR!vars)
  <2>1. status' = [status EXCEPT ![c] = "free"]
    BY <1>4 DEF Delete, IInv, ListInv, LoopedTypeOK, ListTypeOK
  <2>2. <<"retired", "free">> \in Transitions
    BY DEF Transitions
  <2> QED BY <1>4, <2>1, <2>2, MoveMaps
<1> QED BY <1>3, <1>4, MoveMaps DEF heapVars

(* Every step of the list is a step of SafeReclamation or a stutter.       *)
LEMMA StepMaps ==
  ASSUME EnoughSlots, IInv, [Next]_vars
  PROVE  [SMR!Next]_(SMR!vars)
<1>1. ASSUME NEW t \in Threads, ThreadStep(t) PROVE [SMR!Next]_(SMR!vars)
  <2>1. CASE ~Strays(t) /\ (Call(t) \/ FindHelp(t) \/ AddCas(t) \/ AddDiscard(t)
                            \/ RemoveCas(t))
    BY <2>1, ChangesMap
  <2>2. CASE Retires(t)
    BY <2>2, RetiresMap
  <2>3. CASE \/ FindHead(t) \/ FindCurr(t) \/ FindNext(t) \/ FindMisread(t)
             \/ FindSlot0(t) \/ FindCompare(t) \/ FindSlot2(t) \/ HelpCurr(t)
             \/ RemoveMark(t) \/ RemoveClear(t) \/ Clear(t) \/ Return(t)
    <3>1. UNCHANGED status
      BY <2>3 DEF FindHead, FindCurr, FindNext, FindMisread, FindSlot0,
         FindCompare, FindSlot2, HelpCurr, RemoveMark, RemoveClear, Clear, Return,
         LoadsHead, LoadsNext, Validates, Compares, Ends, TryAgain, MovesTo, Marks,
         Returns, heapVars
    <3> QED BY <3>1, MoveMaps
  <2>4. CASE Strays(t) /\ Stray(t)
               /\ UNCHANGED <<heapVars, hpVars, hpLocals, loopedVars, main>>
    BY <2>4, MoveMaps DEF heapVars
  <2>5. CASE Exits(t)
    BY <2>5, MoveMaps DEF Exits, heapVars
  <2> QED BY <1>1, <2>1, <2>2, <2>3, <2>4, <2>5 DEF ThreadStep, FindStep, CallStep
<1>2. CASE Starts \/ Quits \/ Joins
  BY <1>2, MoveMaps DEF Starts, Quits, Joins, heapVars
<1>3. CASE Destroy
  <2> DEFINE S == UNION {Retired(t) : t \in Threads}
  <2>1. status' = [n \in Nodes |-> IF n \in S THEN "free" ELSE status[n]]
    BY <1>3 DEF Destroy, Delete
  <2> HIDE DEF S
  <2>2. SMR!Destroy
    BY <2>1 DEF SMR!Destroy
  <2> QED BY <2>2 DEF SMR!Next
<1>4. CASE UNCHANGED vars
  BY <1>4, MoveMaps DEF vars, heapVars
<1> QED BY <1>1, <1>2, <1>3, <1>4 DEF Next, MainStep, Finished

(* Initially one node is linked.                                           *)
LEMMA InitMaps == Init => SMR!Init
BY DEF Init, LoopedInit, SMR!Init

=============================================================================
