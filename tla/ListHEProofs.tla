---------------------------- MODULE ListHEProofs ----------------------------
(***************************************************************************)
(* What the steps of ListHE do, for any number of threads, addresses, keys *)
(* and at least three slots: the invariant IInv is inductive, the eras a   *)
(* thread publishes cover the lives of the nodes it relies on, and the     *)
(* linked nodes are the list (Placed). ProgramHEProofs draws the           *)
(* conclusions, and takes from here what HazardEras does for the stack and *)
(* the queue too.                                                          *)
(***************************************************************************)
EXTENDS ListHE, HeapProofs, SequenceTheorems

-----------------------------------------------------------------------------
(* What HazardEras does: its types, what the publication of an era, clear  *)
(* and retireNode leave as it was, and which nodes a scan can free, for any *)
(* labels of the structure.                                                *)

(* The entries of a list at some indices, in their order: each is there    *)
(* once.                                                                   *)
LEMMA InOrderProperties ==
  ASSUME NEW X, NEW list \in Seq(X), NEW kept \in SUBSET (1..Len(list))
  PROVE  /\ Cardinality(kept) \in Nat
         /\ InOrder(list, kept) \in Seq(X)
         /\ Len(InOrder(list, kept)) = Cardinality(kept)
         /\ \E at \in Bijection(1..Cardinality(kept), kept) :
              \A j \in 1..Cardinality(kept) :
                InOrder(list, kept)[j] = list[at[j]]
<1> DEFINE C == Cardinality(kept)
           Upto(i) == {k \in kept : k <= i}
           rank == [i \in kept |-> Cardinality(Upto(i))]
           at == [j \in 1..C |-> CHOOSE i \in kept : Cardinality(Upto(i)) = j]
<1>1. /\ Len(list) \in Nat /\ \A i \in 1..Len(list) : list[i] \in X
  BY LenProperties, ElementOfSeq
<1>2. IsFiniteSet(kept) /\ C \in Nat
  <2>1. IsFiniteSet(1..Len(list))
    BY <1>1, FS_Interval
  <2> QED BY <2>1, FS_Subset, FS_CardinalityType
<1>3. \A i \in kept : /\ i \in Int /\ IsFiniteSet(Upto(i)) /\ i \in Upto(i)
                      /\ Cardinality(Upto(i)) \in 1..C
  <2> TAKE i \in kept
  <2>1. i \in Int /\ Upto(i) \in SUBSET kept /\ i \in Upto(i)
    BY <1>1
  <2>2. /\ IsFiniteSet(Upto(i)) /\ Cardinality(Upto(i)) <= C
        /\ Cardinality(Upto(i)) \in Nat
    BY <1>2, <2>1, FS_Subset, FS_CardinalityType
  <2>3. Cardinality(Upto(i)) # 0
    BY <2>1, <2>2, FS_EmptySet
  <2> QED BY <1>2, <2>1, <2>2, <2>3
<1>4. \A i, j \in kept : i < j => Cardinality(Upto(i)) # Cardinality(Upto(j))
  <2> SUFFICES ASSUME NEW i \in kept, NEW j \in kept, i < j,
                      Cardinality(Upto(i)) = Cardinality(Upto(j))
               PROVE  FALSE
    OBVIOUS
  <2>0. i \in Int /\ j \in Int /\ \A k \in kept : k \in Int
    BY <1>3
  <2>1. Upto(i) \in SUBSET Upto(j)
    <3>1. \A k \in kept : k <= i => k <= j
      BY <2>0
    <3> QED BY <3>1
  <2>2. j \in Upto(j) /\ j \notin Upto(i)
    BY <2>0
  <2>3. Upto(j) = Upto(i)
    BY <1>3, <2>1, FS_Subset
  <2> QED BY <2>2, <2>3
<1>5. rank \in Injection(kept, 1..C)
  <2>1. \A i, j \in kept : rank[i] = rank[j] => i = j
    <3> TAKE i, j \in kept
    <3>1. i \in Int /\ j \in Int
      BY <1>3
    <3> QED BY <1>4, <3>1
  <2> QED BY <1>3, <2>1 DEF Injection, IsInjective
<1>6. rank \in Surjection(kept, 1..C)
  BY <1>2, <1>5, FS_Interval, FS_Injection
<1>7. \A j \in 1..C : at[j] \in kept /\ rank[at[j]] = j
  <2> TAKE j \in 1..C
  <2>1. \E i \in kept : Cardinality(Upto(i)) = j
    BY <1>6 DEF Surjection
  <2> QED BY <2>1
<1>8. at \in Bijection(1..C, kept)
  <2>1. at \in [1..C -> kept]
    BY <1>7
  <2>2. \A i, j \in 1..C : at[i] = at[j] => i = j
    BY <1>7
  <2>3. \A i \in kept : \E j \in 1..C : at[j] = i
    <3> TAKE i \in kept
    <3>1. rank[i] \in 1..C
      BY <1>3
    <3>2. at[rank[i]] \in kept /\ rank[at[rank[i]]] = rank[i]
      BY <1>7, <3>1
    <3>3. at[rank[i]] = i
      BY <1>5, <3>2 DEF Injection, IsInjective
    <3> QED BY <3>1, <3>3
  <2> QED BY <2>1, <2>2, <2>3 DEF Bijection, Injection, IsInjective, Surjection
<1>9. /\ InOrder(list, kept) = [j \in 1..C |-> list[at[j]]]
  BY DEF InOrder
<1> HIDE DEF at, rank
<1>10. InOrder(list, kept) \in [1..C -> X]
  <2>1. \A j \in 1..C : list[at[j]] \in X
    BY <1>1, <1>7
  <2> QED BY <1>9, <2>1
<1>11. InOrder(list, kept) \in Seq(X) /\ Len(InOrder(list, kept)) = C
  BY <1>2, <1>10, SeqDef, LenProperties
<1> QED BY <1>2, <1>8, <1>9, <1>11

(* The entries and lengths of the retired lists.                           *)
LEMMA ListEntries ==
  ASSUME retiredPtrList \in [Threads -> Seq(Nodes)], NEW t \in Threads
  PROVE  /\ retiredPtrList[t] \in Seq(Nodes)
         /\ Len(retiredPtrList[t]) \in Nat
         /\ \A i \in 1..Len(retiredPtrList[t]) : retiredPtrList[t][i] \in Nodes
         /\ Retired(t) \subseteq Nodes
BY LenProperties, ElementOfSeq DEF Retired, Members

(* What a sweep leaves of a retired list: entries of the list, each once,  *)
(* and as many fewer as nodes are removed.                                 *)
LEMMA KeptProperties ==
  ASSUME retiredPtrList \in [Threads -> Seq(Nodes)], RetiredOnce,
         NEW t \in Threads
  PROVE  /\ Kept(t) \in Seq(Nodes) /\ Len(Kept(t)) \in Nat
         /\ Removed(t) \subseteq Retired(t)
         /\ Members(Kept(t)) = Retired(t) \ Removed(t)
         /\ \A j, k \in 1..Len(Kept(t)) : Kept(t)[j] = Kept(t)[k] => j = k
         /\ Cardinality(Removed(t)) \in Nat
         /\ Len(Kept(t)) = Len(retiredPtrList[t]) - Cardinality(Removed(t))
<1> DEFINE list == retiredPtrList[t]
           n == Len(list)
<1>1. /\ list \in Seq(Nodes) /\ n \in Nat
      /\ \A i \in 1..n : list[i] \in Nodes
  BY ListEntries
<1>2. \A i, j \in 1..n : list[i] = list[j] => i = j
  BY DEF RetiredOnce
<1>3. PICK kept \in SUBSET (1..n) : Kept(t) = InOrder(list, kept)
  BY DEF Kept, Survivors
<1> HIDE DEF list
<1>4. /\ Cardinality(kept) \in Nat
      /\ Kept(t) \in Seq(Nodes) /\ Len(Kept(t)) = Cardinality(kept)
  BY <1>1, <1>3, InOrderProperties
<1>5. PICK at \in Bijection(1..Cardinality(kept), kept) :
        \A j \in 1..Cardinality(kept) : Kept(t)[j] = list[at[j]]
  BY <1>1, <1>3, InOrderProperties
<1>6. /\ \A j \in 1..Cardinality(kept) : at[j] \in kept
      /\ \A i, j \in 1..Cardinality(kept) : at[i] = at[j] => i = j
      /\ \A i \in kept : \E j \in 1..Cardinality(kept) : at[j] = i
  BY DEF Bijection, Injection, IsInjective, Surjection
<1>7. Members(Kept(t)) = {list[i] : i \in kept}
  <2>1. ASSUME NEW j \in 1..Len(Kept(t))
        PROVE  Kept(t)[j] \in {list[i] : i \in kept}
    <3>1. j \in 1..Cardinality(kept)
      BY <1>4
    <3>2. at[j] \in kept /\ Kept(t)[j] = list[at[j]]
      BY <1>5, <1>6, <3>1
    <3> QED BY <3>2
  <2>2. \A i \in kept : \E j \in 1..Len(Kept(t)) : Kept(t)[j] = list[i]
    BY <1>4, <1>5, <1>6
  <2> QED BY <2>1, <2>2 DEF Members
<1>8. Retired(t) = {list[i] : i \in 1..n}
  BY Zenon DEF Retired, Members, list
<1>9. Members(Kept(t)) = Retired(t) \ Removed(t)
  <2>1. Members(Kept(t)) \subseteq Retired(t)
    BY <1>7, <1>8
  <2> QED BY <2>1 DEF Removed
<1>10. \A j, k \in 1..Len(Kept(t)) : Kept(t)[j] = Kept(t)[k] => j = k
  <2> SUFFICES ASSUME NEW j \in 1..Cardinality(kept),
                      NEW k \in 1..Cardinality(kept), Kept(t)[j] = Kept(t)[k]
               PROVE  j = k
    BY <1>4
  <2>1. list[at[j]] = list[at[k]] /\ at[j] \in 1..n /\ at[k] \in 1..n
    BY <1>5, <1>6
  <2> QED BY <1>2, <1>6, <2>1
<1>11. /\ Cardinality(Removed(t)) \in Nat
       /\ Cardinality(Removed(t)) = n - Cardinality(kept)
  <2> DEFINE gone == (1..n) \ kept
             f == [i \in gone |-> list[i]]
  <2>1. IsFiniteSet(1..n) /\ Cardinality(1..n) = n
    <3>1. n \in Int /\ 1 \in Int /\ n \in Nat
      BY <1>1
    <3> HIDE DEF n
    <3>2. IsFiniteSet(1..n) /\ Cardinality(1..n) = IF 1 > n THEN 0 ELSE n - 1 + 1
      BY <3>1, FS_Interval
    <3> QED BY <3>1, <3>2
  <2>2. (1..n) \cap kept = kept
    OBVIOUS
  <2>3. /\ IsFiniteSet(gone)
        /\ Cardinality(gone) = Cardinality(1..n) - Cardinality((1..n) \cap kept)
    BY <2>1, FS_Difference
  <2>4. Removed(t) = {list[i] : i \in gone}
    <3>1. \A i \in gone : list[i] \notin {list[k] : k \in kept}
      BY <1>2
    <3> HIDE DEF n
    <3> QED BY <3>1, <1>7, <1>8 DEF Removed
  <2>5. f \in Bijection(gone, Removed(t))
    <3>1. f \in [gone -> Removed(t)]
      BY <2>4
    <3>2. \A i, j \in gone : f[i] = f[j] => i = j
      BY <1>2
    <3>3. \A m \in Removed(t) : \E i \in gone : f[i] = m
      BY <2>4
    <3> QED BY <3>1, <3>2, <3>3
            DEF Bijection, Injection, IsInjective, Surjection
  <2>6. ExistsBijection(gone, Removed(t))
    BY <2>5 DEF ExistsBijection
  <2>7. IsFiniteSet(Removed(t)) /\ Cardinality(Removed(t)) = Cardinality(gone)
    BY <2>3, <2>6, FS_Bijection
  <2> QED BY <2>1, <2>2, <2>3, <2>7, FS_CardinalityType
<1>12. Removed(t) \subseteq Retired(t)
  BY DEF Removed
<1> QED BY <1>1, <1>4, <1>9, <1>10, <1>11, <1>12 DEF list

(* The scheme begins with empty lists in the first era.                    *)
LEMMA InitEffect ==
  ASSUME NEW S, HEInit
  PROVE  Scheme(S) /\ HETypeOK
<1> USE ErasAssumption DEF HEInit
<1>1. <<>> \in Seq(Nodes) /\ Len(<<>>) = 0
  BY EmptySeq
<1>2. HETypeOK
  BY <1>1 DEF HETypeOK, Slots, emptyEra, NodeOrNull
<1>3. RetiredOnce /\ CountsRetired
  BY <1>1 DEF RetiredOnce, CountsRetired
<1>4. RetiredBefore(S)
  BY <1>1 DEF RetiredBefore, Retired, Members
<1>5. ErasReached
  BY DEF ErasReached, emptyEra
<1> QED BY <1>2, <1>3, <1>4, <1>5 DEF Scheme

(* A step that leaves the lists and the clock alone, keeps the retired     *)
(* nodes with their eras, stores no later era than the clock's and lets    *)
(* nobody begin to check.                                                  *)
LEMMA SchemeKept ==
  ASSUME NEW S, Scheme(S), retiredPtrList \in [Threads -> Seq(Nodes)],
         UNCHANGED <<globalEraClock, retiredPtrList, retiredNodesCount>>,
         \A n \in Nodes : status[n] = "retired" =>
           status'[n] = "retired" /\ delEra'[n] = delEra[n],
         \A n \in Nodes : newEra'[n] <= globalEraClock /\ delEra'[n] <= globalEraClock,
         \A u \in Threads : /\ currEra'[u] <= globalEraClock
                            /\ \A s \in Slots : hazardErasList'[u][s] <= globalEraClock,
         \A u \in Threads : pc'[u] \in S => pc[u] \in S /\ currEra'[u] = currEra[u],
         Destroyed => Destroyed'
  PROVE  /\ Scheme(S)'
         /\ \A n : Listed(n)' <=> Listed(n)
<1>1. \A u \in Threads : Retired(u)' = Retired(u)
  BY DEF Retired, Members
<1>2. \A n : Listed(n)' <=> Listed(n)
  BY <1>1 DEF Listed
<1>3. \A u \in Threads : \A i \in 1..Len(retiredPtrList[u]) :
        retiredPtrList[u][i] \in Nodes
  BY ListEntries
<1>4. \A u \in Threads : \A n \in Retired(u) : n \in Nodes /\ status[n] = "retired"
  BY <1>3 DEF Retired, Members, Scheme, RetiredOnce
<1>5. RetiredOnce'
  BY <1>3 DEF Scheme, RetiredOnce
<1>6. CountsRetired'
  BY DEF Scheme, CountsRetired
<1>7. ErasReached'
  BY DEF ErasReached
<1>8. RetiredBefore(S)'
  BY <1>1, <1>4 DEF Scheme, RetiredBefore
<1> QED BY <1>2, <1>5, <1>6, <1>7, <1>8 DEF Scheme

(* A node that is in no list is appended to that of t, in the era of the   *)
(* clock: no era that has been published is later than its life.           *)
LEMMA PushEffect ==
  ASSUME NEW S, Scheme(S), HETypeOK,
         NEW t \in Threads, NEW n \in Nodes, NEW from, NEW to,
         RetirePush(t, n, from, to), NEW L, pc \in [Threads -> L],
         status[n] = "retired", ~Listed(n), UNCHANGED main
  PROVE  /\ Scheme(S)' /\ HETypeOK'
         /\ \A m : Listed(m)' <=> Listed(m) \/ m = n
         /\ \A m, e : e <= globalEraClock /\ WithinLife(m, e) => WithinLife(m, e)'
<1> DEFINE list == retiredPtrList[t]
<1>1. /\ list \in Seq(Nodes) /\ Len(list) \in Nat
      /\ \A i \in 1..Len(list) : list[i] \in Nodes
      /\ retiredPtrList'[t] = Append(list, n)
      /\ \A u \in Threads : u # t => retiredPtrList'[u] = retiredPtrList[u]
  BY ListEntries DEF RetirePush, HETypeOK
<1>2. /\ Append(list, n) \in Seq(Nodes) /\ Len(Append(list, n)) = Len(list) + 1
      /\ \A i \in 1..Len(list) : Append(list, n)[i] = list[i]
      /\ Append(list, n)[Len(list) + 1] = n
  BY <1>1, AppendProperties
<1> HIDE DEF list
<1>3. \A i \in 1..Len(Append(list, n)) :
        \/ i \in 1..Len(list) /\ Append(list, n)[i] = list[i]
        \/ i = Len(list) + 1 /\ Append(list, n)[i] = n
  BY <1>1, <1>2
<1>4. \A i \in 1..Len(list) :
        i \in 1..Len(Append(list, n)) /\ Append(list, n)[i] = list[i]
  BY <1>1, <1>2
<1>5. /\ Retired(t)' = Retired(t) \cup {n}
      /\ \A u \in Threads : u # t => Retired(u)' = Retired(u)
  <2>1. Members(Append(list, n)) = Members(list) \cup {n}
    <3>1. \A i \in 1..Len(Append(list, n)) :
            Append(list, n)[i] \in Members(list) \cup {n}
      BY <1>3 DEF Members
    <3>2. Members(Append(list, n)) \subseteq Members(list) \cup {n}
      BY <3>1 DEF Members
    <3>3. Members(list) \subseteq Members(Append(list, n))
      BY <1>4 DEF Members
    <3>4. n \in Members(Append(list, n))
      <4>1. Len(list) + 1 \in 1..Len(Append(list, n))
        BY <1>1, <1>2
      <4> QED BY <1>2, <4>1 DEF Members
    <3> QED BY <3>2, <3>3, <3>4
  <2>2. Retired(t)' = Members(Append(list, n)) /\ Retired(t) = Members(list)
    BY <1>1 DEF Retired, Members, list
  <2>3. \A u \in Threads : u # t => Retired(u)' = Retired(u)
    BY <1>1 DEF Retired, Members
  <2> QED BY <2>1, <2>2, <2>3
<1>6. \A m : Listed(m)' <=> Listed(m) \/ m = n
  BY <1>5 DEF Listed
<1>7. /\ UNCHANGED <<status, globalEraClock, hazardErasList, newEra>>
      /\ currEra' \in [Threads -> Nat] /\ currEra'[t] = globalEraClock
      /\ \A u \in Threads : u # t => currEra'[u] = currEra[u] /\ pc'[u] = pc[u]
      /\ delEra' \in [Nodes -> Nat] /\ delEra'[n] = globalEraClock
      /\ \A m \in Nodes : m # n => delEra'[m] = delEra[m]
      /\ retiredNodesCount' \in [Threads -> Nat]
      /\ retiredNodesCount'[t] = retiredNodesCount[t] + 1
      /\ \A u \in Threads : u # t => retiredNodesCount'[u] = retiredNodesCount[u]
  BY DEF RetirePush, HETypeOK, Goto, heapVars
<1>8. HETypeOK'
  <2>1. retiredPtrList' \in [Threads -> Seq(Nodes)]
    BY <1>1, <1>2 DEF RetirePush, HETypeOK
  <2> QED BY <1>7, <2>1 DEF RetirePush, HETypeOK
<1>9. ErasReached'
  <2>1. globalEraClock \in Nat
    BY DEF HETypeOK
  <2>2. \A u \in Threads : /\ currEra'[u] <= globalEraClock'
                           /\ \A s \in Slots : hazardErasList'[u][s] <= globalEraClock'
    BY <1>7, <2>1 DEF Scheme, ErasReached
  <2>3. \A m \in Nodes : newEra'[m] <= globalEraClock' /\ delEra'[m] <= globalEraClock'
    BY <1>7, <2>1 DEF Scheme, ErasReached
  <2> QED BY <2>2, <2>3 DEF ErasReached
<1>10. CountsRetired'
  <2>1. Len(retiredPtrList'[t]) = Len(retiredPtrList[t]) + 1
    BY <1>1, <1>2 DEF list
  <2> QED BY <1>1, <1>7, <2>1 DEF Scheme, CountsRetired, Destroyed
<1>11. RetiredBefore(S)'
  <2>1. \A u \in Threads : \A m \in Retired(u) : m \in Nodes
    BY ListEntries DEF HETypeOK
  <2>2. \A m \in Retired(t)' : delEra'[m] <= currEra'[t]
    BY <1>5, <1>7, <2>1 DEF Scheme, ErasReached, HETypeOK
  <2>3. ASSUME NEW u \in Threads, u # t, pc'[u] \in S, NEW m \in Retired(u)'
        PROVE  delEra'[m] <= currEra'[u]
    <3>1. m \in Retired(u) /\ m # n
      BY <1>5, <2>3 DEF Listed
    <3> QED BY <1>7, <2>1, <2>3, <3>1 DEF Scheme, RetiredBefore
  <2> QED BY <2>2, <2>3 DEF RetiredBefore
<1>12. RetiredOnce'
  <2>1. \A u \in Threads : \A i \in 1..Len(retiredPtrList[u]) :
          /\ retiredPtrList[u][i] # n
          /\ status[retiredPtrList[u][i]] = "retired"
    BY DEF Listed, Retired, Members, Scheme, RetiredOnce
  <2>2. \A u \in Threads : \A i \in 1..Len(retiredPtrList'[u]) :
          \/ /\ i \in 1..Len(retiredPtrList[u])
             /\ retiredPtrList'[u][i] = retiredPtrList[u][i]
          \/ /\ u = t /\ i = Len(list) + 1
             /\ retiredPtrList'[u][i] = n
    BY <1>1, <1>3 DEF list
  <2>3. \A u \in Threads : \A i \in 1..Len(retiredPtrList'[u]) :
          status'[retiredPtrList'[u][i]] = "retired"
    <3>1. status' = status
      BY <1>7
    <3> QED BY <2>1, <2>2, <3>1
  <2>4. ASSUME NEW u \in Threads, NEW i \in 1..Len(retiredPtrList'[u]),
               NEW v \in Threads, NEW j \in 1..Len(retiredPtrList'[v]),
               retiredPtrList'[v][j] = retiredPtrList'[u][i]
        PROVE  v = u /\ j = i
    <3>1. CASE retiredPtrList'[u][i] = n
      <4>1. u = t /\ i = Len(list) + 1
        BY <2>1, <2>2, <3>1
      <4>2. v = t /\ j = Len(list) + 1
        BY <2>1, <2>2, <2>4, <3>1
      <4> QED BY <4>1, <4>2
    <3>2. CASE retiredPtrList'[u][i] # n
      <4>1. /\ i \in 1..Len(retiredPtrList[u])
            /\ j \in 1..Len(retiredPtrList[v])
            /\ retiredPtrList[v][j] = retiredPtrList[u][i]
        BY <2>2, <2>4, <3>2
      <4> QED BY <4>1 DEF Scheme, RetiredOnce
    <3> QED BY <3>1, <3>2
  <2> QED BY <2>3, <2>4 DEF RetiredOnce
<1>13. ASSUME NEW m, NEW e, e <= globalEraClock, WithinLife(m, e)
       PROVE  WithinLife(m, e)'
  <2>1. Listed(m) => m \in Nodes
    BY ListEntries DEF Listed, HETypeOK
  <2> QED BY <1>6, <1>7, <1>13, <2>1 DEF WithinLife
<1> QED BY <1>6, <1>8, <1>9, <1>10, <1>11, <1>12, <1>13 DEF Scheme

(* A sweep of t takes the nodes it deletes out of the list of t, and       *)
(* leaves all others as they are.                                          *)
LEMMA SweepEffect ==
  ASSUME NEW S, Scheme(S), HETypeOK, NEW t \in Threads, Sweep(t),
         UNCHANGED <<hazardErasList, ptr, slot, main>>, ~Destroyed,
         globalEraClock' \in {globalEraClock, globalEraClock + 1},
         \A u \in Threads : pc'[u] \in S => u # t /\ pc[u] \in S
  PROVE  /\ Scheme(S)' /\ HETypeOK'
         /\ \A n \in Removed(t) : n \in Nodes /\ Listed(n) /\ status[n] = "retired"
         /\ \A n : Listed(n)' <=> Listed(n) /\ n \notin Removed(t)
         /\ \A n \in Nodes :
              IF n \in Removed(t) THEN status'[n] = "free"
              ELSE /\ status'[n] = status[n] /\ next'[n] = next[n]
                   /\ item'[n] = item[n]
                   /\ newEra'[n] = newEra[n] /\ delEra'[n] = delEra[n]
<1> DEFINE list == retiredPtrList[t]
           gone == Removed(t)
           kept == Kept(t)
<1>1. /\ kept \in Seq(Nodes) /\ Len(kept) \in Nat
      /\ gone \subseteq Retired(t)
      /\ Members(kept) = Retired(t) \ gone
      /\ \A j, k \in 1..Len(kept) : kept[j] = kept[k] => j = k
      /\ Cardinality(gone) \in Nat
      /\ Len(kept) = Len(list) - Cardinality(gone)
  BY KeptProperties DEF Scheme, HETypeOK
<1>2. /\ retiredPtrList' \in [Threads -> Seq(Nodes)]
      /\ retiredPtrList'[t] = kept
      /\ \A u \in Threads : u # t => retiredPtrList'[u] = retiredPtrList[u]
  BY <1>1 DEF Sweep, HETypeOK
<1>3. /\ \A n \in Nodes :
           IF n \in gone THEN status'[n] = "free" /\ newEra'[n] = 0 /\ delEra'[n] = 0
           ELSE /\ status'[n] = status[n] /\ next'[n] = next[n]
                /\ item'[n] = item[n]
                /\ newEra'[n] = newEra[n] /\ delEra'[n] = delEra[n]
      /\ newEra' \in [Nodes -> Nat] /\ delEra' \in [Nodes -> Nat]
  BY DEF Sweep, DeleteInEra, Delete, ForgetEras, HETypeOK
<1>4. /\ currEra' \in [Threads -> Nat] /\ currEra'[t] = 0
      /\ \A u \in Threads : u # t => currEra'[u] = currEra[u]
  BY DEF Sweep, HETypeOK
<1> HIDE DEF kept, gone
<1>5. /\ Retired(t)' = Retired(t) \ gone
      /\ \A u \in Threads : u # t => Retired(u)' = Retired(u)
  <2>1. Retired(t)' = Members(kept)
    BY <1>2 DEF Retired, Members
  <2>2. \A u \in Threads : u # t => Retired(u)' = Retired(u)
    BY <1>2 DEF Retired, Members
  <2> QED BY <1>1, <2>1, <2>2
<1>6. \A u \in Threads : \A n \in Retired(u) :
        /\ n \in Nodes /\ status[n] = "retired"
        /\ n \in gone => u = t
  <2>1. \A u \in Threads : \A i \in 1..Len(retiredPtrList[u]) :
          /\ retiredPtrList[u][i] \in Nodes
          /\ status[retiredPtrList[u][i]] = "retired"
          /\ \A v \in Threads : \A j \in 1..Len(retiredPtrList[v]) :
               retiredPtrList[v][j] = retiredPtrList[u][i] => v = u
    BY ListEntries DEF HETypeOK, Scheme, RetiredOnce
  <2>2. \A u \in Threads : \A n \in Retired(u) :
          /\ n \in Nodes /\ status[n] = "retired"
          /\ \A v \in Threads : n \in Retired(v) => v = u
    BY <2>1 DEF Retired, Members
  <2> QED BY <1>1, <2>2
<1>7. \A n : Listed(n)' <=> Listed(n) /\ n \notin gone
  BY <1>5, <1>6 DEF Listed
<1>8. \A n \in gone : n \in Nodes /\ Listed(n) /\ status[n] = "retired"
  BY <1>1, <1>6 DEF Listed
<1>9. /\ retiredNodesCount' \in [Threads -> Nat]
      /\ \A u \in Threads : retiredNodesCount'[u] = Len(retiredPtrList'[u])
  <2>1. /\ retiredNodesCount \in [Threads -> Nat]
        /\ \A u \in Threads : retiredNodesCount[u] = Len(retiredPtrList[u])
    BY DEF Scheme, CountsRetired, HETypeOK
  <2>2. retiredNodesCount' =
          [retiredNodesCount EXCEPT ![t] = retiredNodesCount[t] - Cardinality(gone)]
    BY DEF Sweep, gone
  <2>3. retiredNodesCount[t] - Cardinality(gone) = Len(kept)
    BY <1>1, <2>1
  <2> QED BY <1>1, <1>2, <2>1, <2>2, <2>3
<1>10. HETypeOK'
  BY <1>2, <1>3, <1>4, <1>9 DEF HETypeOK
<1>11. ErasReached'
  <2>1. globalEraClock \in Nat /\ globalEraClock <= globalEraClock'
    BY DEF HETypeOK
  <2>2. /\ hazardErasList \in [Threads -> [Slots -> Nat]]
        /\ currEra \in [Threads -> Nat] /\ globalEraClock' \in Nat
    BY <2>1 DEF HETypeOK
  <2>3. \A u \in Threads : /\ currEra'[u] <= globalEraClock'
                           /\ \A s \in Slots : hazardErasList'[u][s] <= globalEraClock'
    BY <1>4, <2>1, <2>2 DEF Scheme, ErasReached
  <2>4. newEra \in [Nodes -> Nat] /\ delEra \in [Nodes -> Nat]
    BY DEF HETypeOK
  <2>5. \A m \in Nodes : newEra'[m] <= globalEraClock' /\ delEra'[m] <= globalEraClock'
    BY <1>3, <2>1, <2>2, <2>4 DEF Scheme, ErasReached
  <2> QED BY <2>3, <2>5 DEF ErasReached
<1>12. RetiredBefore(S)'
  BY <1>3, <1>4, <1>5, <1>6 DEF Scheme, RetiredBefore
<1>13. CountsRetired'
  BY <1>9 DEF CountsRetired
<1>14. RetiredOnce'
  <2>1. \A u \in Threads : \A i \in 1..Len(retiredPtrList'[u]) :
          retiredPtrList'[u][i] \in Retired(u) /\ retiredPtrList'[u][i] \notin gone
    <3>1. \A i \in 1..Len(kept) : kept[i] \in Retired(t) /\ kept[i] \notin gone
      BY <1>1 DEF Members
    <3>2. \A u \in Threads : \A i \in 1..Len(retiredPtrList[u]) :
            retiredPtrList[u][i] \in Retired(u)
      BY DEF Retired, Members
    <3>3. \A u \in Threads : u # t => \A n \in Retired(u) : n \notin gone
      BY <1>6
    <3> QED BY <1>2, <3>1, <3>2, <3>3
  <2>2. \A u, v \in Threads : \A n : n \in Retired(u) /\ n \in Retired(v) => u = v
    BY DEF Retired, Members, Scheme, RetiredOnce
  <2>3. \A u \in Threads : \A i \in 1..Len(retiredPtrList'[u]) :
          status'[retiredPtrList'[u][i]] = "retired"
    BY <1>3, <1>6, <2>1
  <2>4. ASSUME NEW u \in Threads, NEW i \in 1..Len(retiredPtrList'[u]),
               NEW v \in Threads, NEW j \in 1..Len(retiredPtrList'[v]),
               retiredPtrList'[v][j] = retiredPtrList'[u][i]
        PROVE  v = u /\ j = i
    <3>1. v = u
      BY <2>1, <2>2, <2>4
    <3>2. CASE u = t
      BY <1>1, <1>2, <2>4, <3>1, <3>2
    <3>3. CASE u # t
      BY <1>2, <2>4, <3>1, <3>3 DEF Scheme, RetiredOnce
    <3> QED BY <3>1, <3>2, <3>3
  <2> QED BY <2>3, <2>4 DEF RetiredOnce
<1> QED
  BY <1>3, <1>7, <1>8, <1>10, <1>11, <1>12, <1>13, <1>14 DEF Scheme, gone

(* When a sweep comes, the clock has moved since the nodes it can delete   *)
(* were retired: a clock that still shows the published era vouches for    *)
(* a node that stays.                                                      *)
LEMMA SweepSpares ==
  ASSUME NEW S, Scheme(S), HETypeOK, NEW t \in Threads,
         NEW u \in Threads, NEW s \in Slots, NEW n,
         \/ /\ globalEraClock' = globalEraClock + 1
         \/ /\ pc[t] \in S /\ globalEraClock # currEra[t]
            /\ UNCHANGED globalEraClock,
         globalEraClock' = hazardErasList[u][s], EraFits(u, s, n)
  PROVE  n \notin Removed(t)
<1>1. /\ globalEraClock \in Nat /\ hazardErasList[u][s] \in Nat
      /\ currEra[t] \in Nat /\ delEra \in [Nodes -> Nat]
  BY DEF HETypeOK
<1>2. hazardErasList[u][s] <= globalEraClock /\ currEra[t] <= globalEraClock
  BY DEF Scheme, ErasReached
<1>3. /\ globalEraClock' = globalEraClock /\ pc[t] \in S
      /\ globalEraClock # currEra[t]
  BY <1>1, <1>2
<1> SUFFICES ASSUME n \in Removed(t) PROVE FALSE
  OBVIOUS
<1>4. n \in Retired(t)
  BY DEF Removed
<1>5. globalEraClock <= delEra[n] /\ n \in Nodes
  BY <1>3, <1>4, ListEntries DEF EraFits, WithinLife, Listed, HETypeOK
<1>6. delEra[n] <= currEra[t]
  BY <1>3, <1>4 DEF Scheme, RetiredBefore
<1> QED BY <1>1, <1>2, <1>3, <1>5, <1>6

LEMMA FirstSlot == 0 \in Slots
BY ErasAssumption DEF Slots

(* A step of get_protected: what is loaded goes to the locals of t, and no *)
(* era later than the clock's is published.                                *)
Protects(t, atom, s) ==
  \/ \E from, clock : ProtectLoad(t, from, clock, atom)
  \/ \E from, publish, done : ProtectClock(t, from, publish, done, s)
  \/ \E from, load : ProtectPublish(t, from, load, s)

LEMMA ProtectEffect ==
  ASSUME NEW S, Scheme(S), HETypeOK, NEW t \in Threads, NEW s \in Slots,
         NEW atom \in NodeOrNull, Protects(t, atom, s)
  PROVE  /\ HETypeOK'
         /\ UNCHANGED <<heapVars, globalEraClock, retiredPtrList,
                        retiredNodesCount, eraFields>>
         /\ currEra'[t] <= globalEraClock
         /\ \A i \in Slots : hazardErasList'[t][i] <= globalEraClock
         /\ \A u \in Threads : u # t =>
              /\ ptr'[u] = ptr[u] /\ hazardErasList'[u] = hazardErasList[u]
              /\ currEra'[u] = currEra[u]
<1>1. /\ globalEraClock \in Nat /\ 0 <= globalEraClock
      /\ hazardErasList \in [Threads -> [Slots -> Nat]]
      /\ currEra \in [Threads -> Nat] /\ ptr \in [Threads -> NodeOrNull]
      /\ currEra[t] <= globalEraClock
      /\ \A i \in Slots : hazardErasList[t][i] <= globalEraClock
  BY DEF HETypeOK, Scheme, ErasReached
<1>2. ASSUME NEW from, NEW clock, ProtectLoad(t, from, clock, atom)
      PROVE  /\ ptr' = [ptr EXCEPT ![t] = atom]
             /\ UNCHANGED <<heapVars, heVars, eraFields, currEra, slot>>
  BY <1>2 DEF ProtectLoad
<1>3. ASSUME NEW from, NEW publish, NEW done,
             ProtectClock(t, from, publish, done, s)
      PROVE  /\ \/ currEra' = [currEra EXCEPT ![t] = 0]
                \/ currEra' = [currEra EXCEPT ![t] = globalEraClock]
             /\ UNCHANGED <<heapVars, heVars, eraFields, ptr, slot>>
  BY <1>3 DEF ProtectClock
<1>4. ASSUME NEW from, NEW load, ProtectPublish(t, from, load, s)
      PROVE  /\ hazardErasList' = [hazardErasList EXCEPT ![t][s] = currEra[t]]
             /\ currEra' = [currEra EXCEPT ![t] = 0]
             /\ UNCHANGED <<heapVars, globalEraClock, retiredPtrList,
                            retiredNodesCount, eraFields, ptr, slot>>
  BY <1>4 DEF ProtectPublish
<1>5. CASE \E from, clock : ProtectLoad(t, from, clock, atom)
  BY <1>1, <1>2, <1>5 DEF heVars, eraFields, HETypeOK
<1>6. CASE \E from, publish, done : ProtectClock(t, from, publish, done, s)
  <2>1. /\ UNCHANGED <<heapVars, heVars, eraFields, ptr, slot>>
        /\ \E e \in {0, globalEraClock} : currEra' = [currEra EXCEPT ![t] = e]
    BY <1>3, <1>6
  <2>2. /\ currEra' \in [Threads -> Nat] /\ currEra'[t] \in {0, globalEraClock}
        /\ \A u \in Threads : u # t => currEra'[u] = currEra[u]
    BY <1>1, <2>1
  <2>3. UNCHANGED <<globalEraClock, hazardErasList, retiredPtrList,
                    retiredNodesCount, newEra, delEra>>
    BY <2>1 DEF heVars, eraFields
  <2>4. HETypeOK'
    BY <2>1, <2>2, <2>3 DEF HETypeOK
  <2> QED BY <1>1, <2>1, <2>2, <2>3, <2>4 DEF eraFields
<1>7. CASE \E from, load : ProtectPublish(t, from, load, s)
  <2>1. /\ UNCHANGED <<heapVars, globalEraClock, retiredPtrList,
                       retiredNodesCount, eraFields, ptr, slot>>
        /\ hazardErasList' = [hazardErasList EXCEPT ![t][s] = currEra[t]]
        /\ currEra' = [currEra EXCEPT ![t] = 0]
    BY <1>4, <1>7
  <2>2. /\ currEra' \in [Threads -> Nat] /\ currEra'[t] = 0
        /\ \A u \in Threads : u # t => currEra'[u] = currEra[u]
    BY <1>1, <2>1
  <2>3. /\ hazardErasList' \in [Threads -> [Slots -> Nat]]
        /\ \A u \in Threads : u # t => hazardErasList'[u] = hazardErasList[u]
        /\ \A i \in Slots :
             hazardErasList'[t][i] = IF i = s THEN currEra[t] ELSE hazardErasList[t][i]
    BY <1>1, <2>1
  <2>4. HETypeOK'
    BY <2>1, <2>2, <2>3 DEF HETypeOK, eraFields
  <2> QED BY <1>1, <2>1, <2>2, <2>3, <2>4
<1> QED BY <1>5, <1>6, <1>7 DEF Protects

(* clear stores the empty era in a slot of t.                              *)
LEMMA ClearEffect ==
  ASSUME NEW S, Scheme(S), HETypeOK, NEW t \in Threads, NEW from, NEW done,
         ClearSlot(t, from, done), ptr' \in [Threads -> NodeOrNull],
         UNCHANGED <<globalEraClock, retiredPtrList, retiredNodesCount,
                     eraFields, currEra>>
  PROVE  /\ HETypeOK'
         /\ currEra'[t] <= globalEraClock
         /\ \A i \in Slots : hazardErasList'[t][i] <= globalEraClock
         /\ \A u \in Threads : u # t => hazardErasList'[u] = hazardErasList[u]
<1>1. /\ globalEraClock \in Nat
      /\ hazardErasList \in [Threads -> [Slots -> Nat]]
      /\ currEra[t] <= globalEraClock
      /\ \A i \in Slots : hazardErasList[t][i] <= globalEraClock
      /\ slot \in [Threads -> Slots] /\ slot[t] \in Slots
  BY DEF HETypeOK, Scheme, ErasReached
<1>2. /\ hazardErasList' = [hazardErasList EXCEPT ![t][slot[t]] = 0]
      /\ slot' = [slot EXCEPT ![t] = (slot[t] + 1) % SlotsPerThread]
  BY DEF ClearSlot, emptyEra
<1>3. (slot[t] + 1) % SlotsPerThread \in Slots
  <2>1. slot[t] + 1 \in Nat /\ SlotsPerThread \in Nat /\ SlotsPerThread > 0
    BY <1>1, ErasAssumption DEF Slots
  <2> QED BY <2>1 DEF Slots
<1>4. slot' \in [Threads -> Slots]
  BY <1>1, <1>2, <1>3
<1>5. /\ hazardErasList' \in [Threads -> [Slots -> Nat]]
      /\ \A u \in Threads : u # t => hazardErasList'[u] = hazardErasList[u]
      /\ \A i \in Slots :
           hazardErasList'[t][i] = IF i = slot[t] THEN 0 ELSE hazardErasList[t][i]
  BY <1>1, <1>2
<1>6. HETypeOK'
  BY <1>4, <1>5 DEF HETypeOK, eraFields
<1> QED BY <1>1, <1>5, <1>6

(* A listed node has one entry, one that is not listed has none.           *)
LEMMA OneEntry ==
  ASSUME retiredPtrList \in [Threads -> Seq(Nodes)], RetiredOnce, NEW n
  PROVE  IF Listed(n)
         THEN /\ n \in Nodes /\ status[n] = "retired"
              /\ \E x : EntriesOf(retiredPtrList, n) = {x}
         ELSE EntriesOf(retiredPtrList, n) = {}
<1>1. DOMAIN retiredPtrList = Threads
  OBVIOUS
<1>2. CASE ~Listed(n)
  BY <1>1, <1>2, EntriesDef DEF Listed, Retired, Members
<1>3. CASE Listed(n)
  <2>1. PICK t \in Threads : \E i \in 1..Len(retiredPtrList[t]) :
          retiredPtrList[t][i] = n
    BY <1>3 DEF Listed, Retired, Members
  <2>2. PICK i \in 1..Len(retiredPtrList[t]) : retiredPtrList[t][i] = n
    BY <2>1
  <2>3. EntriesOf(retiredPtrList, n) = {<<t, i>>}
    BY <1>1, <2>2, EntriesDef DEF RetiredOnce
  <2>4. n \in Nodes
    BY <2>2, ListEntries
  <2> QED BY <1>3, <2>2, <2>3, <2>4 DEF RetiredOnce
<1> QED BY <1>2, <1>3

-----------------------------------------------------------------------------
(* What holds of the list whatever the scheme: each step keeps its shape   *)
(* and what a thread knows of the nodes it has in its hands, provided that *)
(* the scheme frees no node a thread still relies on without marking the   *)
(* locals that name it as dangling.                                        *)

(* Thread u goes to a label at which no more is known than before.         *)
Relabels(u) ==
  \/ pc'[u] = pc[u]
  \/ /\ pc'[u] \notin {"add.discard", "add.cas", "remove.cas"}
     /\ curr[u] = NULL => pc'[u] \in NoCurrLabels
     /\ pc'[u] \in PassedLabels => pc[u] \in PassedLabels
     /\ pc'[u] \in HelpingLabels => pc[u] \in HelpingLabels

(* The locals of a thread stay as they are.                                *)
Same(u) ==
  /\ Relabels(u) /\ pred'[u] = pred[u] /\ curr'[u] = curr[u]
  /\ nxt'[u] = nxt[u] /\ node'[u] = node[u] /\ op'[u] = op[u]

(* What a step may do to the nodes u relies on.                            *)
Undisturbed(u) ==
  /\ Same(u) /\ tail' = tail
  /\ \A n \in Nodes :
       /\ status[n] = "linked" => status'[n] \in {"linked", "retired"}
       /\ status[n] = "retired" => status'[n] \in {"retired", "free"}
       /\ status[n] = "retired" /\ status'[n] = "free" =>
            \A r \in Roles : Named(u, r) = n => r \in dangling'[u]
  /\ \A n \in marked : status'[n] = "free" \/ (n \in marked' /\ next'[n] = next[n])
  /\ dangling[u] \subseteq dangling'[u]
  /\ node[u] # NULL =>
       /\ status'[node[u]] = "private" /\ next'[node[u]] = next[node[u]]
       /\ \A v \in Threads : node'[v] = node[u] => node[v] = node[u]

(* What a thread relies on stays true when another one takes such a step.  *)
LEMMA OthersKept ==
  ASSUME ListInv, NEW u \in Threads, Undisturbed(u)
  PROVE  OwnsNode(u)' /\ Traverses(u)'
<1> DEFINE N == getUnmarked(nxt[u])
<1>1. /\ OwnsNode(u) /\ Traverses(u)
      /\ pred[u] \in NodeOrNull /\ curr[u] \in NodeOrNull
      /\ nxt[u] \in NodeOrNull \X BOOLEAN /\ node[u] \in NodeOrNull
      /\ N \in NodeOrNull
  BY DEF ListInv, LoopedTypeOK, ListTypeOK, getUnmarked
<1>2. /\ Same(u) /\ tail' = tail /\ dangling[u] \subseteq dangling'[u]
      /\ getUnmarked(nxt[u])' = N /\ isMarked(nxt[u])' = isMarked(nxt[u])
  BY DEF Undisturbed, Same, getUnmarked, isMarked
<1>3. OwnsNode(u)'
  <2>1. CASE node[u] = NULL
    BY <1>1, <1>2, <2>1 DEF OwnsNode, Same, Relabels
  <2>2. CASE node[u] # NULL
    BY <1>1, <1>2, <2>2 DEF OwnsNode, Same, Relabels, Undisturbed
  <2> QED BY <2>1, <2>2
(* A node u names as one that is not deleted is alive.                     *)
<1>4. /\ pred[u] # NULL /\ "pred" \notin dangling'[u] => Live(pred[u])'
      /\ curr[u] # NULL /\ "curr" \notin dangling'[u] =>
           Live(curr[u]) /\ Live(curr[u])'
      /\ "nxt" \notin dangling'[u] /\ Live(N) => Live(N)'
  <2>1. ASSUME NEW r \in Roles, r \notin dangling'[u], Live(Named(u, r))
        PROVE  Named(u, r) \in Nodes /\ status'[Named(u, r)] \in {"linked", "retired"}
    BY <2>1 DEF Undisturbed, Live
  <2>2. /\ Named(u, "pred") = pred[u] /\ Named(u, "curr") = curr[u]
        /\ Named(u, "nxt") = N
        /\ "pred" \in Roles /\ "curr" \in Roles /\ "nxt" \in Roles
    BY DEF Named, Roles
  <2>3. /\ pred[u] # NULL /\ "pred" \notin dangling'[u] => Live(pred[u])
        /\ curr[u] # NULL /\ "curr" \notin dangling'[u] => Live(curr[u])
    BY <1>1, <1>2 DEF Traverses
  <2> QED BY <1>2, <2>1, <2>2, <2>3 DEF Live, Same
<1>5. curr[u] # NULL /\ "curr" \notin dangling'[u] /\ status'[curr[u]] = "linked"
        => status[curr[u]] = "linked"
  BY <1>4 DEF Live, Undisturbed
<1>6. ASSUME N # NULL, "nxt" \notin dangling'[u],
             \/ pc[u] \in HelpingLabels
             \/ /\ curr[u] # NULL /\ "curr" \notin dangling'[u]
                /\ status'[curr[u]] = "linked"
      PROVE  Live(N)'
  <2>1. /\ "nxt" \notin dangling[u]
        /\ "curr" \notin dangling'[u] => "curr" \notin dangling[u]
    BY <1>2, <1>6
  <2>2. Live(N)
    BY <1>1, <1>5, <1>6, <2>1 DEF Traverses
  <2> QED BY <1>4, <1>6, <2>2
<1>7. ASSUME isMarked(nxt[u]) \/ pc[u] = "remove.cas", N # NULL,
             "curr" \notin dangling'[u]
      PROVE  curr[u] \in marked' /\ next'[curr[u]] = N
  <2>1. curr[u] \in marked /\ next[curr[u]] = N
    BY <1>1, <1>2, <1>7 DEF Traverses
  <2>2. curr[u] \in Nodes /\ status[curr[u]] \in {"linked", "retired"}
    BY <2>1 DEF ListInv, ListShape, Live
  <2>3. curr[u] # NULL
    BY <2>2, HeapAssumption
  <2> QED BY <1>2, <1>4, <1>7, <2>1, <2>3 DEF Live, Undisturbed, Same
<1>8. Traverses(u)'
  BY <1>1, <1>2, <1>4, <1>6, <1>7 DEF Traverses, Same, Relabels
<1> QED BY <1>3, <1>8

(* A step that leaves the nodes alone.                                     *)
LEMMA LocalKept ==
  ASSUME ListInv, NEW t \in Threads, LoopedTypeOK',
         UNCHANGED <<heapVars, head, tail, marked, node>>,
         \A u \in Threads : u # t => Same(u) /\ dangling'[u] = dangling[u],
         op'[t] = "add" => op[t] = "add",
         pc'[t] \notin {"add.discard", "add.cas"} \/ OwnsNode(t)',
         Traverses(t)'
  PROVE  ListInv'
<1>1. ListShape'
  BY DEF ListInv, ListShape, Live, heapVars
<1>2. ASSUME NEW u \in Threads, u # t PROVE OwnsNode(u)' /\ Traverses(u)'
  <2>1. /\ Same(u) /\ tail' = tail /\ dangling'[u] = dangling[u]
        /\ status' = status /\ next' = next /\ marked' = marked /\ node' = node
    BY <1>2 DEF heapVars
  <2>2. node[u] \in NodeOrNull /\ OwnsNode(u)
    BY DEF ListInv, LoopedTypeOK, ListTypeOK
  <2>3. Undisturbed(u)
    BY <2>1, <2>2 DEF Undisturbed, OwnsNode
  <2> QED BY <2>3, OthersKept
<1>3. OwnsNode(t)'
  BY DEF ListInv, OwnsNode, heapVars
<1> QED BY <1>1, <1>2, <1>3 DEF ListInv

(* The locals of find whose nodes a thread that does not stray may use.    *)
LEMMA UsesOf ==
  ASSUME NEW t \in Threads, ~Strays(t)
  PROVE  /\ pc[t] \in {"find.next", "find.misread", "find.item", "find.again",
                       "remove.mark"}
              => "curr" \notin dangling[t]
         /\ pc[t] = "help.next" => "nxt" \notin dangling[t]
         /\ pc[t] = "find.again" /\ Link(curr[t]) = nxt[t]
              => "nxt" \notin dangling[t]
         /\ pc[t] \in {"find.pred", "add.cas", "find.help", "remove.cas"}
              => /\ "pred" \notin dangling[t]
                 /\ PredIsCurr(t) => "curr" \notin dangling[t]
         /\ pc[t] \in {"find.help", "remove.cas"} /\ PredIsCurr(t)
              => "nxt" \notin dangling[t]
<1>1. Uses(t) \cap dangling[t] = {}
  BY DEF Strays
<1>2. /\ pc[t] \in {"find.next", "find.misread", "find.item"} => Uses(t) = {"curr"}
      /\ pc[t] = "help.next" => Uses(t) = {"nxt"}
  BY DEF Uses
<1>3. pc[t] = "find.again" =>
        Uses(t) = {"curr"} \cup (IF Link(curr[t]) = nxt[t] THEN {"nxt"} ELSE {})
  BY DEF Uses
<1>4. pc[t] \in {"find.pred", "add.cas"} =>
        Uses(t) = {"pred"} \cup (IF PredIsCurr(t) THEN {"curr"} ELSE {})
  BY DEF Uses
<1>5. pc[t] \in {"find.help", "remove.cas"} =>
        Uses(t) = {"pred"} \cup (IF PredIsCurr(t) THEN {"curr", "nxt"} ELSE {})
  BY DEF Uses
<1>6. pc[t] = "remove.mark" => "curr" \in Uses(t)
  BY DEF Uses
<1> QED BY <1>1, <1>2, <1>3, <1>4, <1>5, <1>6

(* What *pred = curr tells about a pred that has not been deleted.         *)
LEMMA PredLinked ==
  ASSUME ListInv, NEW t \in Threads, PredIsCurr(t), "pred" \notin dangling[t]
  PROVE  /\ curr[t] \in Nodes /\ status[curr[t]] = "linked"
         /\ pred[t] = NULL => head = curr[t]
         /\ pred[t] # NULL =>
              /\ pred[t] \in Nodes \ marked /\ status[pred[t]] = "linked"
              /\ pred[t] # tail /\ next[pred[t]] = curr[t]
<1>1. CASE pred[t] = NULL
  BY <1>1 DEF PredIsCurr, PredLink, ListInv, ListShape
<1>2. CASE pred[t] # NULL
  <2>1. Live(pred[t]) /\ pred[t] # tail
    BY <1>2 DEF ListInv, Traverses
  <2>2. next[pred[t]] = curr[t] /\ pred[t] \notin marked
    BY <1>2 DEF PredIsCurr, PredLink, Link
  <2> QED BY <1>2, <2>1, <2>2 DEF ListInv, ListShape, Live
<1> QED BY <1>1, <1>2

(* Where curr is followed by a node.                                       *)
LEMMA LinkOfLive ==
  ASSUME ListInv, NEW n, Live(n)
  PROVE  /\ n \in Nodes /\ n # NULL /\ next[n] \in Nodes /\ next[n] # NULL
         /\ status[n] = "linked" => status[next[n]] = "linked"
         /\ status[n] = "retired" => n \in marked
BY HeapAssumption DEF ListInv, ListShape, Live

(* The parts of a link.                                                    *)
LEMMA LinkParts ==
  ASSUME NEW n
  PROVE  /\ getUnmarked(Link(n)) = next[n] /\ isMarked(Link(n)) = (n \in marked)
         /\ next[n] \in NodeOrNull => Link(n) \in NodeOrNull \X BOOLEAN
         /\ getUnmarked(Misread) = NULL /\ Misread \in NodeOrNull \X BOOLEAN
<1>1. (n \in marked) \in BOOLEAN
  OBVIOUS
<1> QED BY <1>1 DEF Link, getUnmarked, isMarked, Misread, NodeOrNull

(* A step to another label.                                                *)
LEMMA LabelKept ==
  ASSUME ListInv, LoopedTypeOK',
         UNCHANGED <<heapVars, head, tail, marked, pred, curr, nxt, node, op,
                     dangling>>,
         \A u \in Threads : Relabels(u)
  PROVE  ListInv'
<1>1. ListShape'
  BY DEF ListInv, ListShape, Live, heapVars
<1>2. ASSUME NEW u \in Threads PROVE Undisturbed(u)
  <2>1. node[u] \in NodeOrNull /\ OwnsNode(u)
    BY DEF ListInv, LoopedTypeOK, ListTypeOK
  <2> QED BY <2>1 DEF Undisturbed, OwnsNode, heapVars, Same
<1> QED BY <1>1, <1>2, OthersKept DEF ListInv

(* A step after which the thread holds no node.                            *)
LEMMA ForgetKept ==
  ASSUME ListInv, NEW t \in Threads, Forget(t),
         UNCHANGED <<heapVars, head, tail, marked, node>>, LoopedTypeOK',
         \A u \in Threads : u # t => pc'[u] = pc[u] /\ op'[u] = op[u],
         \A u \in Threads : u # t => dangling'[u] = dangling[u],
         op'[t] = "add" => op[t] = "add",
         pc'[t] \in NoCurrLabels \ {"add.discard"}
  PROVE  ListInv'
<1>1. /\ pred'[t] = NULL /\ curr'[t] = NULL /\ nxt'[t] = NoLink
      /\ \A u \in Threads : u # t => Same(u)
  BY DEF Forget, ListInv, LoopedTypeOK, ListTypeOK, Same, Relabels
<1>2. pc'[t] \notin PassedLabels \cup {"add.cas", "add.discard", "remove.cas"}
  BY DEF NoCurrLabels, PassedLabels, HelpingLabels
<1>3. Traverses(t)'
  BY <1>1, <1>2 DEF Traverses, NoLink, getUnmarked, isMarked, PassedLabels
<1> QED BY <1>1, <1>2, <1>3, LocalKept

(* A thread that starts over knows nothing of the list any more.           *)
LEMMA TryAgainKept ==
  ASSUME ListInv, NEW t \in Threads, pc = [u \in Threads |-> pc[u]],
         NEW from, NEW again \in NoCurrLabels \ {"add.discard"},
         TryAgain(t, from, again)
  PROVE  ListInv'
<1>1. LoopedTypeOK'
  BY DEF ListInv, LoopedTypeOK, ListTypeOK, TryAgain, Forget, heapVars,
         callVars, NoLink, NodeOrNull, Roles
<1> QED BY <1>1, ForgetKept DEF TryAgain, Goto, callVars, ListInv, LoopedTypeOK

(* Nor does one that returns from its call.                                *)
LEMMA ReturnsKept ==
  ASSUME ListInv, NEW t \in Threads, pc = [u \in Threads |-> pc[u]],
         NEW from, NEW to \in NoCurrLabels \ {"add.discard"},
         Goto(t, from, to), Returns(t)
  PROVE  ListInv'
<1>1. LoopedTypeOK'
  BY DEF ListInv, LoopedTypeOK, ListTypeOK, Returns, Forget, heapVars,
         NoLink, NodeOrNull, Roles
<1>2. op'[t] # "add" /\ \A u \in Threads : u # t => op'[u] = op[u]
  BY DEF Returns, ListInv, LoopedTypeOK, ListTypeOK
<1> QED BY <1>1, <1>2, ForgetKept DEF Returns, Goto, ListInv, LoopedTypeOK

(* find begins.                                                            *)
LEMMA LoadsHeadKept ==
  ASSUME ListInv, NEW t \in Threads, pc = [u \in Threads |-> pc[u]],
         NEW from, NEW to, to \notin (PassedLabels \cup {"add.discard", "add.cas"}),
         Goto(t, from, to), LoadsHead(t)
  PROVE  ListInv'
<1>1. /\ pred' = [pred EXCEPT ![t] = NULL] /\ curr' = [curr EXCEPT ![t] = head]
      /\ nxt' = [nxt EXCEPT ![t] = NoLink]
      /\ dangling' = [dangling EXCEPT ![t] = {}]
      /\ UNCHANGED <<heapVars, head, tail, marked, node, op, key, seen, calls>>
      /\ pc' = [pc EXCEPT ![t] = to]
  BY DEF LoadsHead, Follow, callVars, Goto
<1>2. head \in Nodes /\ head # NULL /\ Live(head)
  BY HeapAssumption DEF ListInv, ListShape, Live
<1>3. LoopedTypeOK'
  BY <1>1, <1>2 DEF ListInv, LoopedTypeOK, ListTypeOK, heapVars, NoLink, NodeOrNull
<1>4. /\ pred'[t] = NULL /\ curr'[t] = head /\ nxt'[t] = NoLink /\ pc'[t] = to
      /\ \A u \in Threads : u # t => Same(u) /\ dangling'[u] = dangling[u]
  BY <1>1 DEF ListInv, LoopedTypeOK, ListTypeOK, Same, Relabels
<1>5. Traverses(t)'
  BY <1>1, <1>2, <1>4
     DEF Traverses, NoLink, getUnmarked, isMarked, Live, heapVars, PassedLabels
<1> QED BY <1>1, <1>3, <1>4, <1>5, LocalKept

(* curr->next is loaded.                                                   *)
LEMMA LoadsNextKept ==
  ASSUME ListInv, NEW t \in Threads, pc = [u \in Threads |-> pc[u]],
         NEW from, from \notin NoCurrLabels,
         NEW to, to \notin (PassedLabels \cup {"add.discard", "add.cas"}),
         Goto(t, from, to), "curr" \notin dangling[t],
         LoadsNext(t, Link(curr[t])) \/ LoadsNext(t, Misread)
  PROVE  ListInv'
<1>1. curr[t] # NULL /\ Live(curr[t])
  BY DEF Goto, ListInv, Traverses
<1>2. /\ curr[t] \in Nodes /\ next[curr[t]] \in Nodes
      /\ status[curr[t]] = "linked" => status[next[curr[t]]] = "linked"
  BY <1>1, LinkOfLive
<1> DEFINE link == nxt'[t]
<1>3. /\ nxt' = [nxt EXCEPT ![t] = link] /\ link \in {Link(curr[t]), Misread}
      /\ dangling' = [dangling EXCEPT ![t] = @ \ {"nxt"}]
      /\ UNCHANGED <<heapVars, head, tail, marked, pred, curr, node, op, key, seen,
                     calls>>
      /\ pc' = [pc EXCEPT ![t] = to]
  BY DEF LoadsNext, callVars, Goto, ListInv, LoopedTypeOK, ListTypeOK
<1>4. link \in NodeOrNull \X BOOLEAN
  BY <1>2, <1>3, LinkParts DEF NodeOrNull
<1>5. LoopedTypeOK'
  BY <1>3, <1>4 DEF ListInv, LoopedTypeOK, ListTypeOK, heapVars
<1>6. /\ pc'[t] = to
      /\ \A u \in Threads : u # t => Same(u) /\ dangling'[u] = dangling[u]
      /\ dangling'[t] = dangling[t] \ {"nxt"}
  BY <1>3 DEF ListInv, LoopedTypeOK, ListTypeOK, Same, Relabels
<1>7. getUnmarked(link) # NULL =>
        getUnmarked(link) = next[curr[t]] /\ isMarked(link) = (curr[t] \in marked)
  BY <1>3, LinkParts
<1>8. /\ pred[t] # NULL =>
           pred[t] # tail /\ ("pred" \notin dangling'[t] => Live(pred[t])')
      /\ curr[t] # NULL /\ Live(curr[t])'
    BY <1>1, <1>3, <1>6 DEF ListInv, Traverses, Live, heapVars
<1>9. to \notin HelpingLabels \cup {"remove.cas"} /\ to \notin PassedLabels
  BY DEF PassedLabels
<1>10. status[curr[t]] = "linked" /\ getUnmarked(link) # NULL
         => getUnmarked(link) \in Nodes /\ status'[getUnmarked(link)] = "linked"
  BY <1>2, <1>3, <1>7 DEF heapVars
<1>11. Traverses(t)'
  <2> HIDE DEF link
  <2>1. nxt'[t] = link
    BY DEF link
  <2>2. getUnmarked(nxt'[t]) # NULL /\ status[curr[t]] = "linked" =>
          Live(getUnmarked(nxt[t]))'
    BY <1>10, <2>1 DEF Live, getUnmarked
  <2>3. /\ curr'[t] = curr[t] /\ pred'[t] = pred[t] /\ status' = status
        /\ next' = next /\ marked' = marked /\ tail' = tail
        /\ pc'[t] \notin PassedLabels \cup HelpingLabels \cup {"remove.cas"}
    BY <1>3, <1>6, <1>9 DEF heapVars
  <2> QED BY <1>1, <1>7, <1>8, <2>1, <2>2, <2>3 DEF Traverses, getUnmarked, isMarked
<1> QED BY <1>3, <1>5, <1>6, <1>9, <1>11, LocalKept

(* find goes on from next, with p as the link it came by.                  *)
LEMMA MovesKept ==
  ASSUME ListInv, NEW t \in Threads, pc = [u \in Threads |-> pc[u]],
         NEW from, NEW to, to \notin (PassedLabels \cup {"add.discard", "add.cas"}),
         NEW p, MovesTo(t, p), Goto(t, from, to),
         p = pred[t] \/ (p = curr[t] /\ p # tail /\ Live(p)),
         getUnmarked(nxt[t]) # NULL,
         "nxt" \notin dangling[t] => Live(getUnmarked(nxt[t]))
  PROVE  ListInv'
<1> DEFINE N == getUnmarked(nxt[t])
           D == (IF p = pred[t] THEN dangling[t] \cap {"pred"} ELSE {})
                  \cup (IF "nxt" \in dangling[t] THEN {"curr"} ELSE {})
<1>1. /\ pred' = [pred EXCEPT ![t] = p] /\ curr' = [curr EXCEPT ![t] = N]
      /\ nxt' = [nxt EXCEPT ![t] = NoLink]
      /\ dangling' = [dangling EXCEPT ![t] = D]
      /\ UNCHANGED <<heapVars, head, tail, marked, node, op, key, seen, calls>>
      /\ pc' = [pc EXCEPT ![t] = to]
  BY DEF MovesTo, Follow, callVars, Goto
<1>2. /\ N \in NodeOrNull /\ p \in NodeOrNull /\ pred[t] \in NodeOrNull
      /\ D \in SUBSET Roles
  BY DEF ListInv, LoopedTypeOK, ListTypeOK, getUnmarked, Live, NodeOrNull, Roles
<1> HIDE DEF N, D
<1>3. LoopedTypeOK'
  BY <1>1, <1>2 DEF ListInv, LoopedTypeOK, ListTypeOK, heapVars, NoLink, NodeOrNull
<1>4. /\ pred'[t] = p /\ curr'[t] = N /\ nxt'[t] = NoLink /\ pc'[t] = to
      /\ dangling'[t] = D
      /\ \A u \in Threads : u # t => Same(u) /\ dangling'[u] = dangling[u]
  BY <1>1 DEF ListInv, LoopedTypeOK, ListTypeOK, Same, Relabels
<1>5. to \notin HelpingLabels \cup {"remove.cas"} /\ to \notin PassedLabels
  BY DEF PassedLabels
<1>6. p # NULL => p # tail
        /\ ("pred" \notin D => p \in Nodes /\ status[p] \in {"linked", "retired"})
  <2>1. "pred" \notin D => p # pred[t] \/ "pred" \notin dangling[t]
    BY DEF D
  <2>2. p = pred[t] /\ p # NULL =>
          p # tail /\ ("pred" \notin dangling[t] => Live(p))
    BY DEF ListInv, Traverses
  <2> QED BY <1>1, <2>1, <2>2 DEF Live, heapVars
<1>7. N # NULL /\ ("curr" \notin D => N \in Nodes /\ status[N] \in {"linked", "retired"})
  BY DEF N, D, Live
<1>8. Traverses(t)'
  <2>1. getUnmarked(nxt'[t]) = NULL /\ status' = status /\ tail' = tail
    BY <1>1, <1>4 DEF NoLink, getUnmarked, heapVars
  <2>2. /\ pred'[t] # NULL =>
             pred'[t] # tail' /\ ("pred" \notin dangling'[t] => Live(pred[t])')
        /\ curr'[t] # NULL /\ ("curr" \notin dangling'[t] => Live(curr[t])')
    BY <1>4, <1>6, <1>7, <2>1 DEF Live
  <2> QED BY <1>4, <1>5, <2>1, <2>2 DEF Traverses, getUnmarked
<1> QED BY <1>1, <1>3, <1>4, <1>5, <1>8, LocalKept

(* What find.again establishes.                                            *)
LEMMA AgainPassed ==
  ASSUME ListInv, NEW t \in Threads, "curr" \notin dangling[t], curr[t] # NULL,
         Link(curr[t]) = nxt[t], getUnmarked(nxt[t]) # tail
  PROVE  /\ Live(curr[t]) /\ curr[t] # tail /\ getUnmarked(nxt[t]) = next[curr[t]]
         /\ getUnmarked(nxt[t]) \in Nodes /\ getUnmarked(nxt[t]) # NULL
<1>1. Live(curr[t])
  BY DEF ListInv, Traverses
<1>2. getUnmarked(nxt[t]) = next[curr[t]] /\ next[curr[t]] \in Nodes
      /\ next[curr[t]] # NULL
  BY <1>1, LinkParts, LinkOfLive
<1> QED BY <1>1, <1>2 DEF ListInv, ListShape

(* The comparison after find has read a link: the link still leads there,  *)
(* so that its target is linked, or the thread starts over.                *)
LEMMA ValidatesKept ==
  ASSUME ListInv, NEW t \in Threads, pc = [u \in Threads |-> pc[u]], ~Strays(t),
         NEW again \in NoCurrLabels \ {"add.discard"}, Validates(t, again)
  PROVE  ListInv'
<1>1. CASE TryAgain(t, "find.again", again)
  BY <1>1, TryAgainKept
<1>2. CASE ~TryAgain(t, "find.again", again)
  <2>1. /\ Link(curr[t]) = nxt[t] /\ getUnmarked(nxt[t]) # tail
        /\ pc[t] = "find.again" /\ pc' = [pc EXCEPT ![t] = "find.pred"]
        /\ UNCHANGED <<heapVars, loopedVars, main>>
    BY <1>2 DEF Validates, Goto
  <2>2. "curr" \notin dangling[t]
    BY <2>1, UsesOf
  <2>3. curr[t] # NULL
    BY <2>1 DEF ListInv, Traverses, NoCurrLabels
  <2>4. curr[t] # tail /\ getUnmarked(nxt[t]) # NULL
    BY <2>1, <2>2, <2>3, AgainPassed
  <2>5. LoopedTypeOK'
    BY <2>1 DEF ListInv, LoopedTypeOK, ListTypeOK, loopedVars, listVars,
       findLocals, callVars, heapVars
  <2>6. /\ UNCHANGED <<heapVars, head, tail, marked, node, op, pred, curr, nxt,
                       dangling>>
        /\ pc'[t] = "find.pred" /\ \A u \in Threads : u # t => pc'[u] = pc[u]
    BY <2>1 DEF loopedVars, listVars, findLocals, callVars
  <2>7. Traverses(t)'
    BY <2>3, <2>4, <2>6 DEF ListInv, Traverses, Live, heapVars, PassedLabels,
       HelpingLabels, NoCurrLabels
  <2>8. \A u \in Threads : u # t => Same(u) /\ dangling'[u] = dangling[u]
    BY <2>6 DEF Same, Relabels
  <2> QED BY <2>5, <2>6, <2>7, <2>8, LocalKept
<1> QED BY <1>1, <1>2

(* What the threads know about next once *pred is curr.                    *)
LEMMA NextOfLinked ==
  ASSUME ListInv, NEW t \in Threads, ~Strays(t), PredIsCurr(t),
         pc[t] \in {"find.pred", "find.help", "remove.cas"}
  PROVE  /\ curr[t] \in Nodes /\ status[curr[t]] = "linked" /\ curr[t] # tail
         /\ {"pred", "curr"} \cap dangling[t] = {}
         /\ getUnmarked(nxt[t]) # NULL
         /\ "nxt" \notin dangling[t] => Live(getUnmarked(nxt[t]))
<1>1. /\ "pred" \notin dangling[t] /\ "curr" \notin dangling[t]
  BY UsesOf
<1>2. curr[t] \in Nodes /\ status[curr[t]] = "linked" /\ curr[t] # NULL
  BY <1>1, PredLinked, HeapAssumption
<1>3. getUnmarked(nxt[t]) # NULL /\ curr[t] # tail
  BY DEF ListInv, Traverses, PassedLabels, HelpingLabels
<1> QED BY <1>1, <1>2, <1>3 DEF ListInv, Traverses

(* The comparison of *pred with curr: the thread starts over, helps, ends  *)
(* its search or goes on to the next node.                                 *)
LEMMA ComparesKept ==
  ASSUME ListInv, NEW t \in Threads, pc = [u \in Threads |-> pc[u]], ~Strays(t),
         NEW again \in NoCurrLabels \ {"add.discard"},
         NEW advance, advance \notin (PassedLabels \cup {"add.discard", "add.cas"}),
         Compares(t, again, advance)
  PROVE  ListInv'
<1>0. pc[t] = "find.pred"
  BY DEF Compares
<1>1. CASE TryAgain(t, "find.pred", again)
  BY <1>1, TryAgainKept
<1>2. CASE /\ PredIsCurr(t) /\ isMarked(nxt[t])
           /\ Goto(t, "find.pred", "find.help")
           /\ UNCHANGED <<heapVars, loopedVars, main>>
  <2>1. LoopedTypeOK'
    BY <1>2 DEF ListInv, LoopedTypeOK, ListTypeOK, loopedVars, listVars,
       findLocals, callVars, heapVars
  <2>2. /\ UNCHANGED <<heapVars, head, tail, marked, node, op, pred, curr, nxt,
                       dangling>>
        /\ pc'[t] = "find.help" /\ \A u \in Threads : u # t => pc'[u] = pc[u]
    BY <1>2 DEF loopedVars, listVars, findLocals, callVars, Goto
  <2>3. /\ curr[t] # NULL /\ curr[t] # tail
        /\ getUnmarked(nxt[t]) # NULL
        /\ "nxt" \notin dangling[t] => Live(getUnmarked(nxt[t]))
    BY <1>0, <1>2, NextOfLinked, HeapAssumption
  <2>4. Traverses(t)'
    BY <1>2, <2>2, <2>3 DEF ListInv, Traverses, Live, heapVars, PassedLabels,
       HelpingLabels, NoCurrLabels
  <2>5. \A u \in Threads : u # t => Same(u) /\ dangling'[u] = dangling[u]
    BY <2>2 DEF Same, Relabels
  <2> QED BY <2>1, <2>2, <2>4, <2>5, LocalKept
<1>3. CASE /\ PredIsCurr(t) /\ Goto(t, "find.pred", advance)
           /\ MovesTo(t, curr[t])
  <2>1. /\ Live(curr[t]) /\ curr[t] # tail /\ getUnmarked(nxt[t]) # NULL
        /\ "nxt" \notin dangling[t] => Live(getUnmarked(nxt[t]))
    BY <1>0, <1>3, NextOfLinked DEF Live
  <2> QED BY <1>3, <2>1, MovesKept
<1> QED BY <1>1, <1>2, <1>3 DEF Compares

(* The shape of the list depends on the nodes that are or were in it.      *)
LEMMA ShapeKept ==
  ASSUME ListInv, UNCHANGED <<head, tail, marked>>,
         \A n \in Nodes : Live(n) \/ status'[n] \in {"linked", "retired"} =>
           status'[n] = status[n] /\ next'[n] = next[n]
  PROVE  ListShape'
BY DEF ListInv, ListShape, Live

(* A step changes private and free nodes only.                             *)
LEMMA FreshKept ==
  ASSUME ListInv, NEW t \in Threads, UNCHANGED <<head, tail, marked>>,
         \A n \in Nodes : Live(n) \/ status'[n] \in {"linked", "retired"} =>
           status'[n] = status[n] /\ next'[n] = next[n],
         \A u \in Threads : u # t => Same(u) /\ dangling'[u] = dangling[u],
         \A u \in Threads : u # t /\ node[u] # NULL =>
           /\ status'[node[u]] = "private" /\ next'[node[u]] = next[node[u]]
           /\ node'[t] # node[u],
         LoopedTypeOK', OwnsNode(t)', Traverses(t)'
  PROVE  ListInv'
<1>1. ASSUME NEW u \in Threads, u # t PROVE Undisturbed(u)
  BY <1>1 DEF Undisturbed, Same, ListInv, ListShape, Live
<1> QED BY <1>1, ShapeKept, OthersKept DEF ListInv

(* find returns to its caller.                                             *)
LEMMA EndsKept ==
  ASSUME ListInv, NEW t \in Threads, pc = [u \in Threads |-> pc[u]],
         NEW found \in BOOLEAN, NEW done \in NoCurrLabels \ {"add.discard"},
         pc[t] \notin NoCurrLabels \cup HelpingLabels \cup {"remove.cas"},
         found => pc[t] \in PassedLabels,
         Ends(t, found, AfterFind(t, found, done))
  PROVE  ListInv'
<1> DEFINE to == AfterFind(t, found, done)
<1>1. /\ pc' = [pc EXCEPT ![t] = to] /\ FindReturns(t, found, nxt[t])
      /\ dangling' = [dangling EXCEPT ![t] = IF DecidedBy(t, found) THEN {} ELSE @]
      /\ UNCHANGED <<status, item, head, tail, marked, node, calls, main>>
  BY DEF Ends
<1>2. to = IF op[t] = "add" THEN IF found THEN "add.discard" ELSE "add.cas"
           ELSE IF op[t] = "remove" /\ found THEN "remove.mark" ELSE done
  BY DEF AfterFind
<1> HIDE DEF to
<1>3. done \notin PassedLabels \cup {"add.cas", "add.discard", "remove.cas"}
  BY DEF NoCurrLabels, PassedLabels, HelpingLabels
<1>4. curr[t] # NULL /\ OwnsNode(t) /\ Traverses(t) /\ curr[t] \in NodeOrNull
  BY DEF ListInv, Traverses, LoopedTypeOK, ListTypeOK
<1>5. pc'[t] = to /\ \A u \in Threads : u # t => pc'[u] = pc[u]
  BY <1>1
<1>6. CASE DecidedBy(t, found)
  <2>1. /\ next' = next /\ Forget(t)
        /\ op' = [op EXCEPT ![t] = IF @ = "contains" /\ found
                                   THEN "true" ELSE "false"]
        /\ key' = [key EXCEPT ![t] = NULL] /\ seen' = [seen EXCEPT ![t] = {}]
        /\ dangling' = [dangling EXCEPT ![t] = {}]
    BY <1>1, <1>6 DEF FindReturns, DecidedBy
  <2>2. LoopedTypeOK'
    BY <1>1, <2>1 DEF ListInv, LoopedTypeOK, ListTypeOK, Forget, NoLink,
       NodeOrNull, Roles, Results
  <2>3. (to = "add.discard" /\ op[t] = "add") \/ to = done
    BY <1>2, <1>6 DEF DecidedBy
  <2>4. /\ pred'[t] = NULL /\ curr'[t] = NULL /\ nxt'[t] = NoLink
        /\ op'[t] \in {"true", "false"} /\ dangling'[t] = {}
        /\ \A u \in Threads : u # t => Same(u) /\ dangling'[u] = dangling[u]
    BY <1>1, <1>5, <2>1
       DEF ListInv, LoopedTypeOK, ListTypeOK, Forget, Same, Relabels
  <2>5. Traverses(t)'
    <3>1. /\ pc'[t] \in NoCurrLabels
          /\ pc'[t] \notin PassedLabels \cup HelpingLabels \cup {"remove.cas"}
      BY <1>3, <1>5, <2>3 DEF NoCurrLabels, PassedLabels, HelpingLabels
    <3> QED BY <2>4, <3>1 DEF Traverses, NoLink, getUnmarked
  <2>6. OwnsNode(t)'
    BY <1>1, <1>3, <1>4, <1>5, <2>3, <2>4 DEF OwnsNode
  <2>7. /\ op'[t] = "add" => op[t] = "add"
        /\ UNCHANGED <<heapVars, head, tail, marked, node>>
    BY <1>1, <2>1, <2>4 DEF heapVars
  <2> QED BY <2>2, <2>4, <2>5, <2>6, <2>7, LocalKept
<1>7. CASE ~DecidedBy(t, found)
  <2>1. /\ nxt' = [nxt EXCEPT ![t] = IF found THEN nxt[t] ELSE NoLink]
        /\ UNCHANGED <<op, key, seen, pred, curr>> /\ dangling' = dangling
        /\ next' = IF op[t] = "add" /\ ~found
                   THEN [next EXCEPT ![node[t]] = curr[t]] ELSE next
    BY <1>1, <1>7 DEF FindReturns, ListInv, LoopedTypeOK
  <2>2. LoopedTypeOK'
    BY <1>1, <1>4, <2>1 DEF ListInv, LoopedTypeOK, ListTypeOK, NoLink, NodeOrNull
  <2>3. /\ nxt'[t] = IF found THEN nxt[t] ELSE NoLink
        /\ \A u \in Threads : u # t => Same(u) /\ dangling'[u] = dangling[u]
    BY <1>1, <1>5, <2>1 DEF ListInv, LoopedTypeOK, ListTypeOK, Same, Relabels
  <2>4. op[t] = "add" => ~found /\ node[t] \in Nodes /\ status[node[t]] = "private"
    BY <1>4, <1>7 DEF DecidedBy, OwnsNode, ListInv, LoopedTypeOK, ListTypeOK,
       NodeOrNull
  <2>5. \A n \in Nodes : n # node[t] \/ op[t] # "add" => next'[n] = next[n]
    BY <2>1 DEF ListInv, LoopedTypeOK, ListTypeOK
  <2>6. OwnsNode(t)'
    <3>1. CASE op[t] = "add"
      <4>1. next'[node[t]] = curr[t]
        BY <2>1, <2>4, <3>1 DEF ListInv, LoopedTypeOK, ListTypeOK
      <4> QED BY <1>1, <1>2, <1>4, <1>5, <2>1, <2>4, <3>1, <4>1 DEF OwnsNode
    <3>2. CASE op[t] # "add"
      BY <1>1, <1>2, <1>3, <1>4, <1>5, <2>1, <3>2 DEF OwnsNode
    <3> QED BY <3>1, <3>2
  <2>7. Traverses(t)'
    <3>1. to = "remove.mark" => found /\ pc[t] \in PassedLabels
      BY <1>2, <1>3 DEF PassedLabels
    <3>2. /\ to \notin HelpingLabels \cup {"remove.cas"}
          /\ to \in PassedLabels => to = "remove.mark"
      BY <1>2, <1>3 DEF PassedLabels, HelpingLabels
    <3>3. pc[t] \notin HelpingLabels \cup {"remove.cas"}
      OBVIOUS
    <3>4. /\ status' = status /\ marked' = marked /\ tail' = tail
          /\ pred'[t] = pred[t] /\ curr'[t] = curr[t] /\ dangling'[t] = dangling[t]
      BY <1>1, <2>1
    <3>5. curr[t] \in marked => next'[curr[t]] = next[curr[t]]
      BY <2>4, <2>5 DEF ListInv, ListShape, Live
    <3>6. CASE found
      BY <1>4, <1>5, <2>3, <3>1, <3>2, <3>3, <3>4, <3>5, <3>6 DEF Traverses, Live
    <3>7. CASE ~found
      BY <1>4, <1>5, <2>3, <3>1, <3>2, <3>4, <3>7
         DEF Traverses, Live, NoLink, getUnmarked
    <3> QED BY <3>6, <3>7
  <2>8. \A n \in Nodes : Live(n) \/ status'[n] \in {"linked", "retired"} =>
          status'[n] = status[n] /\ next'[n] = next[n]
    BY <1>1, <2>4, <2>5 DEF Live
  <2>9. \A u \in Threads : u # t /\ node[u] # NULL =>
          /\ status'[node[u]] = "private" /\ next'[node[u]] = next[node[u]]
          /\ node'[t] # node[u]
    <3>1. \A u \in Threads : node[u] \in NodeOrNull /\ OwnsNode(u)
      BY DEF ListInv, LoopedTypeOK, ListTypeOK
    <3> QED BY <1>1, <2>5, <3>1 DEF OwnsNode, NodeOrNull
  <2> QED BY <1>1, <2>2, <2>3, <2>6, <2>7, <2>8, <2>9, FreshKept
<1> QED BY <1>6, <1>7

(* A call begins.                                                          *)
LEMMA CallAddKept ==
  ASSUME ListInv, NEW t \in Threads, pc = [u \in Threads |-> pc[u]],
         NEW to \in NoCurrLabels \ {"add.discard"}, CallAdd(t, to)
  PROVE  ListInv'
<1>0. \A k : (k \in Present) \in BOOLEAN
  OBVIOUS
<1> PICK n \in Nodes, k \in Elements, member \in BOOLEAN :
      /\ BeginCall(t, "add", k, member) /\ New(n, k)
      /\ node' = [node EXCEPT ![t] = n]
  BY <1>0 DEF CallAdd
<1>1. /\ status[n] = "free" /\ status' = [status EXCEPT ![n] = "private"]
      /\ next' = [next EXCEPT ![n] = NULL] /\ item' = [item EXCEPT ![n] = k]
      /\ op' = [op EXCEPT ![t] = "add"] /\ key' = [key EXCEPT ![t] = k]
      /\ calls' = calls + 1 /\ seen' = [seen EXCEPT ![t] = {member}]
      /\ UNCHANGED <<head, tail, marked, pred, curr, nxt, dangling, main>>
      /\ pc[t] = "idle" /\ pc' = [pc EXCEPT ![t] = to]
  BY DEF CallAdd, New, BeginCall, findLocals, Goto
<1>2. LoopedTypeOK'
  BY <1>1 DEF ListInv, LoopedTypeOK, ListTypeOK, NodeOrNull, Operations, Statuses
<1>3. /\ \A m \in Nodes : m # n => status'[m] = status[m] /\ next'[m] = next[m]
      /\ status'[n] = "private" /\ node'[t] = n /\ op'[t] = "add" /\ pc'[t] = to
      /\ \A u \in Threads : u # t => Same(u) /\ dangling'[u] = dangling[u]
  BY <1>1 DEF ListInv, LoopedTypeOK, ListTypeOK, Same, Relabels
<1>4. \A m \in Nodes : Live(m) \/ status'[m] \in {"linked", "retired"} =>
        status'[m] = status[m] /\ next'[m] = next[m]
  BY <1>1, <1>3 DEF Live
<1>5. \A u \in Threads : u # t /\ node[u] # NULL =>
        /\ status'[node[u]] = "private" /\ next'[node[u]] = next[node[u]]
        /\ node[u] # n /\ node'[u] = node[u]
  <2>1. \A u \in Threads : node[u] \in NodeOrNull /\ OwnsNode(u)
    BY DEF ListInv, LoopedTypeOK, ListTypeOK
  <2> QED BY <1>1, <1>3, <2>1 DEF OwnsNode, NodeOrNull, Same
<1>6. to \notin PassedLabels \cup HelpingLabels \cup {"remove.cas", "add.cas"}
  BY DEF NoCurrLabels, PassedLabels, HelpingLabels
<1>7. OwnsNode(t)'
  <2>1. n # NULL
    BY HeapAssumption
  <2>2. \A u \in Threads : u # t => node'[u] # n
    BY <1>3, <1>5, <2>1 DEF Same
  <2> QED BY <1>3, <1>6, <2>1, <2>2 DEF OwnsNode
<1>8. Traverses(t)'
  <2>1. /\ Traverses(t) /\ curr[t] \in NodeOrNull /\ pred[t] \in NodeOrNull
        /\ nxt[t] \in NodeOrNull \X BOOLEAN
    BY DEF ListInv, LoopedTypeOK, ListTypeOK
  <2>2. \A m : Live(m) => Live(m)' /\ status'[m] = status[m]
    BY <1>4 DEF Live
  <2>3. \A m \in Nodes : m \in marked => next'[m] = next[m]
    BY <1>4 DEF ListInv, ListShape
  <2>4. curr[t] # NULL /\ status'[curr[t]] = "linked" => status[curr[t]] = "linked"
    BY <1>1, <1>3, <2>1 DEF NodeOrNull
  <2>5. curr[t] \in marked => curr[t] \in Nodes
    BY DEF ListInv, ListShape, Live
  <2>6. pc[t] \notin PassedLabels \cup HelpingLabels \cup {"remove.cas"}
    BY <1>1 DEF PassedLabels, HelpingLabels
  <2> QED BY <1>1, <1>3, <1>6, <2>1, <2>2, <2>3, <2>4, <2>5, <2>6 DEF Traverses
<1> QED BY <1>1, <1>2, <1>3, <1>4, <1>5, <1>7, <1>8, FreshKept

(* A remove or a contains begins with nothing in its hands.                *)
LEMMA CallOtherKept ==
  ASSUME ListInv, NEW t \in Threads, pc = [u \in Threads |-> pc[u]],
         NEW to \in NoCurrLabels \ {"add.discard"}, CallOther(t, to)
  PROVE  ListInv'
<1>0. \A k : (k \in Present) \in BOOLEAN
  OBVIOUS
<1> PICK k \in Elements, o \in {"remove", "contains"}, member \in BOOLEAN :
      BeginCall(t, o, k, member)
  BY <1>0 DEF CallOther
<1>1. /\ op' = [op EXCEPT ![t] = o] /\ key' = [key EXCEPT ![t] = k]
      /\ calls' = calls + 1 /\ seen' = [seen EXCEPT ![t] = {member}]
      /\ UNCHANGED <<heapVars, head, tail, marked, pred, curr, nxt, node,
                     dangling, main>>
      /\ pc[t] = "idle" /\ pc' = [pc EXCEPT ![t] = to]
  BY DEF CallOther, BeginCall, findLocals, Goto
<1>2. LoopedTypeOK'
  BY <1>1 DEF ListInv, LoopedTypeOK, ListTypeOK, Operations, heapVars
<1>3. to \notin PassedLabels \cup HelpingLabels \cup {"remove.cas", "add.cas"}
  BY DEF NoCurrLabels, PassedLabels, HelpingLabels
<1>4. /\ pc'[t] = to /\ op'[t] # "add"
      /\ \A u \in Threads : u # t => Same(u) /\ dangling'[u] = dangling[u]
  BY <1>1 DEF ListInv, LoopedTypeOK, ListTypeOK, Same, Relabels
<1>5. Traverses(t)'
  BY <1>1, <1>3, <1>4 DEF ListInv, Traverses, Live, heapVars
<1> QED BY <1>1, <1>2, <1>3, <1>4, <1>5, LocalKept

(* main starts the threads.                                                *)
LEMMA StartsKept == ListInv /\ Starts => ListInv'
<1> SUFFICES ASSUME ListInv, Starts PROVE ListInv'
  OBVIOUS
<1>1. /\ UNCHANGED <<heapVars, head, tail, marked, pred, curr, nxt, node, op,
                     dangling>>
      /\ UNCHANGED <<pc, key, seen>> /\ calls' = 0
  BY DEF Starts, StartThreads, findLocals, callVars
<1>2. LoopedTypeOK' /\ \A u \in Threads : Relabels(u)
  BY <1>1 DEF ListInv, LoopedTypeOK, ListTypeOK, heapVars, Relabels
<1> QED BY <1>1, <1>2, LabelKept

(* The exchange of *pred: what it leads to, and what it does not.          *)
LEMMA StorePredEffect ==
  ASSUME ListInv, NEW t \in Threads, PredIsCurr(t), "pred" \notin dangling[t],
         NEW n \in Nodes, StorePred(t, n)
  PROVE  /\ next' \in [Nodes -> NodeOrNull]
         /\ head' = IF pred[t] = NULL THEN n ELSE head
         /\ \A m \in Nodes : next'[m] = IF m = pred[t] THEN n ELSE next[m]
         /\ \A m \in marked : next'[m] = next[m]
         /\ next'[tail] = next[tail]
<1>1. next \in [Nodes -> NodeOrNull] /\ tail \in Nodes
      /\ \A m \in marked : m \in Nodes
  BY DEF ListInv, LoopedTypeOK, ListTypeOK, ListShape, Live
<1>2. CASE pred[t] = NULL
  BY <1>1, <1>2, HeapAssumption DEF StorePred, NodeOrNull
<1>3. CASE pred[t] # NULL
  <2>1. pred[t] \in Nodes \ marked /\ pred[t] # tail
    BY <1>3, PredLinked
  <2> QED BY <1>1, <1>3, <2>1 DEF StorePred, NodeOrNull
<1> QED BY <1>2, <1>3

(* Taking a marked curr out of the list.                                   *)
LEMMA UnlinkShape ==
  ASSUME ListInv, NEW t \in Threads, PredIsCurr(t), "pred" \notin dangling[t],
         curr[t] \in marked, curr[t] # tail,
         getUnmarked(nxt[t]) = next[curr[t]], Unlinks(t)
  PROVE  /\ ListShape' /\ getUnmarked(nxt[t]) \in Nodes
         /\ status'[getUnmarked(nxt[t])] = "linked"
         /\ \A m \in Nodes :
              status'[m] = IF m = curr[t] THEN "retired" ELSE status[m]
         /\ pred[t] # NULL => status'[pred[t]] = "linked"
<1> DEFINE c == curr[t]
           N == next[c]
<1>1. /\ c \in Nodes /\ status[c] = "linked" /\ c # tail /\ c \in marked
      /\ pred[t] = NULL => head = c
      /\ pred[t] # NULL =>
           /\ pred[t] \in Nodes \ marked /\ status[pred[t]] = "linked"
           /\ pred[t] # tail /\ next[pred[t]] = c
  BY PredLinked
<1>2. N \in Nodes /\ status[N] = "linked" /\ N # head
  BY <1>1 DEF ListInv, ListShape
<1>3. /\ status' = [status EXCEPT ![c] = "retired"] /\ StorePred(t, N)
      /\ UNCHANGED <<tail, marked>>
  BY DEF Unlinks
<1> HIDE DEF c, N
<1>4. /\ head' = IF pred[t] = NULL THEN N ELSE head
      /\ \A m \in Nodes : next'[m] = IF m = pred[t] THEN N ELSE next[m]
      /\ next'[tail] = next[tail]
  BY <1>2, <1>3, StorePredEffect
<1>5. \A m \in Nodes : status'[m] = IF m = c THEN "retired" ELSE status[m]
  BY <1>3 DEF ListInv, LoopedTypeOK, ListTypeOK
<1>6. \A m, n \in Nodes \ {tail} :
        /\ status[m] = "linked" => next[m] # head
        /\ status[m] = "linked" /\ status[n] = "linked" /\ next[m] = next[n] => m = n
  BY DEF ListInv, ListShape
<1>7. N # c
  BY <1>1, <1>6 DEF N
<1>8. tail \in Nodes /\ next[tail] = tail /\ status[tail] = "linked"
      /\ \A m \in Nodes : status[m] = "linked" =>
           next[m] \in Nodes /\ status[next[m]] = "linked"
  BY DEF ListInv, ListShape
(* Nobody leads to c any more.                                             *)
<1>9. ASSUME NEW m \in Nodes, status'[m] = "linked"
      PROVE  /\ next'[m] \in Nodes /\ status'[next'[m]] = "linked"
             /\ m # tail => next'[m] # head'
  <2>1. m # c /\ status[m] = "linked"
    BY <1>5, <1>9
  <2>2. CASE m = pred[t]
    <3>1. pred[t] # NULL
      BY <2>2, <1>9, HeapAssumption
    <3> QED BY <3>1, <2>2, <1>2, <1>4, <1>5, <1>7
  <2>3. CASE m # pred[t]
    <3>1. next'[m] = next[m] /\ next[m] # c
      BY <1>1, <1>4, <1>6, <1>8, <2>1, <2>3
    <3>2. m # tail => next[m] # head'
      BY <1>1, <1>2, <1>4, <1>6, <2>1 DEF N
    <3> QED BY <1>5, <1>8, <2>1, <3>1, <3>2
  <2> QED BY <2>2, <2>3
<1>10. ASSUME NEW m \in Nodes \ {tail}, NEW n \in Nodes \ {tail},
              status'[m] = "linked", status'[n] = "linked", next'[m] = next'[n]
       PROVE  m = n
  <2>1. m # c /\ status[m] = "linked" /\ n # c /\ status[n] = "linked"
    BY <1>5, <1>10
  <2>2. next[m] # N /\ next[n] # N
    BY <1>1, <1>6, <2>1 DEF N
  <2>3. CASE m = pred[t]
    BY <1>4, <1>10, <2>2, <2>3
  <2>4. CASE n = pred[t]
    BY <1>4, <1>10, <2>2, <2>4
  <2>5. CASE m # pred[t] /\ n # pred[t]
    <3>1. next[m] = next[n]
      BY <1>4, <1>10, <2>5
    <3> QED BY <1>6, <2>1, <3>1
  <2> QED BY <2>3, <2>4, <2>5
<1>11. head' \in Nodes /\ status'[head'] = "linked"
  <2>1. head \in Nodes /\ status[head] = "linked"
    BY DEF ListInv, ListShape
  <2>2. pred[t] # NULL => head # c
    BY <1>1, <1>6
  <2> QED BY <1>2, <1>4, <1>5, <1>7, <2>1, <2>2
<1>12. \A m \in Nodes : status'[m] = "retired" => m \in marked /\ next'[m] \in Nodes
  BY <1>1, <1>2, <1>4, <1>5 DEF ListInv, ListShape, N
<1>13. \A m \in marked : m \in Nodes /\ status'[m] \in {"linked", "retired"}
  BY <1>5 DEF ListInv, ListShape, Live
<1>14. ListShape'
  <2>1. tail' = tail /\ marked' = marked /\ tail \notin marked /\ tail # c
    BY <1>1, <1>3 DEF ListInv, ListShape
  <2>2. status'[tail] = "linked" /\ next'[tail] = tail
    BY <1>4, <1>5, <1>8, <2>1
  <2> QED BY <1>8, <1>9, <1>10, <1>11, <1>12, <1>13, <2>1, <2>2 DEF ListShape, Live
<1>15. getUnmarked(nxt[t]) = N
  BY DEF N, c
<1> QED BY <1>1, <1>2, <1>5, <1>7, <1>14, <1>15 DEF c

(* The exchange of find and of remove.                                     *)
LEMMA UnlinksKept ==
  ASSUME ListInv, NEW t \in Threads, pc = [u \in Threads |-> pc[u]], ~Strays(t),
         NEW from \in {"find.help", "remove.cas"},
         NEW to, to \notin {"add.discard", "add.cas", "remove.cas"},
         to \in PassedLabels => from = "find.help" /\ to \in HelpingLabels,
         PredIsCurr(t), Goto(t, from, to), Unlinks(t)
  PROVE  /\ ListInv' /\ curr[t] \in Nodes /\ status[curr[t]] = "linked"
         /\ status' = [status EXCEPT ![curr[t]] = "retired"]
<1> DEFINE c == curr[t]
           N == getUnmarked(nxt[t])
<1>1. /\ c \in Nodes /\ status[c] = "linked" /\ c # tail /\ c # NULL
      /\ "pred" \notin dangling[t] /\ "curr" \notin dangling[t] /\ N # NULL
  BY NextOfLinked, HeapAssumption DEF Goto
<1>2. c \in marked /\ next[c] = N
  <2>1. isMarked(nxt[t]) \/ pc[t] = "remove.cas"
    BY DEF ListInv, Traverses, Goto, HelpingLabels
  <2> QED BY <1>1, <2>1 DEF ListInv, Traverses
<1>3. /\ ListShape' /\ N \in Nodes /\ status'[N] = "linked"
      /\ \A m \in Nodes : status'[m] = IF m = c THEN "retired" ELSE status[m]
      /\ pred[t] # NULL => status'[pred[t]] = "linked"
  BY <1>1, <1>2, UnlinkShape
<1>4. /\ StorePred(t, N) /\ status' = [status EXCEPT ![c] = "retired"]
      /\ UNCHANGED <<item, tail, marked, pred, curr, nxt, node, op, key, seen,
                     calls, dangling, main>>
      /\ pc[t] = from /\ pc' = [pc EXCEPT ![t] = to]
  BY DEF Unlinks, findLocals, callVars, Goto
<1>5. /\ next' \in [Nodes -> NodeOrNull] /\ head' \in NodeOrNull
      /\ \A m \in Nodes : next'[m] = IF m = pred[t] THEN N ELSE next[m]
      /\ \A m \in marked : next'[m] = next[m]
  BY <1>1, <1>3, <1>4, StorePredEffect DEF ListShape, NodeOrNull
<1>6. LoopedTypeOK'
  BY <1>4, <1>5 DEF ListInv, LoopedTypeOK, ListTypeOK, Statuses
<1>7. pc'[t] = to /\ \A u \in Threads : u # t => pc'[u] = pc[u]
  BY <1>4
<1>8. ASSUME NEW u \in Threads PROVE node[u] # NULL =>
        status'[node[u]] = "private" /\ next'[node[u]] = next[node[u]]
  <2>1. node[u] \in NodeOrNull /\ OwnsNode(u)
    BY DEF ListInv, LoopedTypeOK, ListTypeOK
  <2>2. pred[t] # NULL => status[pred[t]] = "linked"
    BY <1>1, PredLinked
  <2> QED BY <1>1, <1>3, <1>5, <2>1, <2>2, HeapAssumption DEF OwnsNode, NodeOrNull
<1>9. ASSUME NEW u \in Threads, u # t PROVE Undisturbed(u)
  <2>1. Same(u) /\ tail' = tail /\ dangling' = dangling /\ node' = node /\ marked' = marked
    BY <1>4, <1>7, <1>9 DEF Same, Relabels
  <2> QED BY <1>1, <1>3, <1>5, <1>8, <2>1 DEF Undisturbed
<1>10. OwnsNode(t)'
  BY <1>4, <1>7, <1>8 DEF ListInv, OwnsNode
<1>11. Traverses(t)'
  <2>1. /\ Traverses(t)
        /\ pred[t] # NULL => Live(pred[t])' /\ pred[t] # tail
    <3>1. pred[t] \in NodeOrNull
      BY DEF ListInv, LoopedTypeOK, ListTypeOK
    <3> QED BY <1>1, <1>3, <1>4, <3>1, PredLinked DEF Live, NodeOrNull, ListInv
  <2>2. Live(c)' /\ Live(N)'
    BY <1>1, <1>3, <1>4 DEF Live, getUnmarked
  <2>3. to \in HelpingLabels => from = "find.help" /\ isMarked(nxt[t])
    <3>1. HelpingLabels \subseteq PassedLabels /\ "find.help" \in HelpingLabels
      BY DEF PassedLabels, HelpingLabels
    <3> QED BY <1>4, <2>1, <3>1 DEF Traverses
  <2>4. next'[c] = N
    BY <1>2, <1>5
  <2>5. /\ pred'[t] = pred[t] /\ curr'[t] = c /\ nxt'[t] = nxt[t] /\ tail' = tail
        /\ marked' = marked /\ dangling'[t] = dangling[t]
    BY <1>4
  <2>6. /\ getUnmarked(nxt[t])' = N /\ isMarked(nxt[t])' = isMarked(nxt[t])
        /\ Live(getUnmarked(nxt[t]))' /\ Live(curr[t])'
        /\ pred'[t] # NULL => pred'[t] # tail' /\ Live(pred[t])'
    BY <2>1, <2>2, <2>5 DEF getUnmarked, isMarked
  <2> HIDE DEF c, N
  <2> QED BY <1>1, <1>2, <1>7, <2>3, <2>4, <2>5, <2>6 DEF Traverses
<1> QED BY <1>1, <1>3, <1>4, <1>6, <1>9, <1>10, <1>11, OthersKept DEF ListInv

(* The exchange of add links its node between pred and curr.               *)
LEMMA AddsKept ==
  ASSUME ListInv, NEW t \in Threads, pc = [u \in Threads |-> pc[u]], ~Strays(t),
         NEW again \in NoCurrLabels \ {"add.discard"},
         NEW done \in NoCurrLabels \ {"add.discard"}, Adds(t, again, done)
  PROVE  /\ ListInv'
         /\ \/ status' = status
            \/ /\ node[t] \in Nodes /\ status[node[t]] = "private"
               /\ status' = [status EXCEPT ![node[t]] = "linked"]
<1>0. pc[t] = "add.cas"
  BY DEF Adds
<1>1. CASE ~PredIsCurr(t)
  <2>1. TryAgain(t, "add.cas", again)
    BY <1>1 DEF Adds
  <2> QED BY <2>1, TryAgainKept DEF TryAgain, heapVars
<1>2. CASE PredIsCurr(t)
  <2> DEFINE c == curr[t]
             n == node[t]
  <2>1. /\ StorePred(t, n) /\ status' = [status EXCEPT ![n] = "linked"]
        /\ node' = [node EXCEPT ![t] = NULL] /\ Decides(t, TRUE) /\ Forget(t)
        /\ dangling' = [dangling EXCEPT ![t] = {}]
        /\ UNCHANGED <<item, tail, marked, calls, main>>
        /\ pc' = [pc EXCEPT ![t] = done]
    BY <1>2 DEF Adds, Goto
  <2>2. "pred" \notin dangling[t]
    BY <1>0, UsesOf
  <2>3. /\ c \in Nodes /\ status[c] = "linked"
        /\ pred[t] = NULL => head = c
        /\ pred[t] # NULL =>
             /\ pred[t] \in Nodes \ marked /\ status[pred[t]] = "linked"
             /\ pred[t] # tail /\ next[pred[t]] = c
    BY <1>2, <2>2, PredLinked
  <2>4. n \in Nodes /\ status[n] = "private" /\ next[n] = c
    BY <1>0 DEF ListInv, OwnsNode, LoopedTypeOK, ListTypeOK, NodeOrNull
  <2>5. /\ next' \in [Nodes -> NodeOrNull]
        /\ head' = IF pred[t] = NULL THEN n ELSE head
        /\ \A m \in Nodes : next'[m] = IF m = pred[t] THEN n ELSE next[m]
        /\ \A m \in marked : next'[m] = next[m]
        /\ next'[tail] = next[tail]
    BY <1>2, <2>1, <2>2, <2>4, StorePredEffect
  <2> HIDE DEF c, n
  <2>6. \A m \in Nodes : status'[m] = IF m = n THEN "linked" ELSE status[m]
    BY <2>1, <2>4 DEF ListInv, LoopedTypeOK, ListTypeOK
  <2>7. /\ \A m, l \in Nodes \ {tail} :
             /\ status[m] = "linked" => next[m] # head
             /\ status[m] = "linked" /\ status[l] = "linked" /\ next[m] = next[l]
                  => m = l
        /\ \A m \in Nodes : status[m] = "linked" =>
             next[m] \in Nodes /\ status[next[m]] = "linked"
        /\ tail \in Nodes /\ next[tail] = tail /\ status[tail] = "linked"
        /\ head \in Nodes /\ status[head] = "linked"
    BY DEF ListInv, ListShape
  <2>8. n # pred[t] /\ n # c /\ n # tail /\ n # head
        /\ next'[n] = c /\ (pred[t] # NULL => next'[pred[t]] = n)
    BY <2>3, <2>4, <2>5, <2>7, HeapAssumption
(* Nobody but pred leads to the new node or led to curr.                   *)
  <2>9. ASSUME NEW m \in Nodes, m # n, m # pred[t], status'[m] = "linked"
        PROVE  /\ status[m] = "linked" /\ next'[m] = next[m] /\ next[m] \in Nodes
               /\ status[next[m]] = "linked" /\ next[m] # n
               /\ m # tail => next[m] # c /\ next[m] # head
    BY <2>3, <2>4, <2>5, <2>6, <2>7, <2>9
  <2>10. ASSUME NEW m \in Nodes, status'[m] = "linked"
         PROVE  /\ next'[m] \in Nodes /\ status'[next'[m]] = "linked"
                /\ m # tail => next'[m] # head'
    <3>1. CASE m = n
      <4>1. c # head'
        BY <2>3, <2>5, <2>7, <2>8
      <4> QED BY <2>3, <2>6, <2>8, <3>1, <4>1
    <3>2. CASE m # n /\ m = pred[t]
      <4>1. pred[t] # NULL
        BY <3>2, HeapAssumption
      <4> QED BY <2>4, <2>5, <2>6, <2>8, <3>2, <4>1
    <3>3. CASE m # n /\ m # pred[t]
      BY <2>5, <2>6, <2>9, <2>10, <3>3
    <3> QED BY <3>1, <3>2, <3>3
  <2>11. ASSUME NEW m \in Nodes \ {tail}, NEW l \in Nodes \ {tail},
                status'[m] = "linked", status'[l] = "linked", next'[m] = next'[l]
         PROVE  m = l
    <3>1. CASE m \in {n, pred[t]} /\ l \in {n, pred[t]}
      BY <2>8, <2>11, <3>1, HeapAssumption
    <3>2. CASE m \notin {n, pred[t]} /\ l \in {n, pred[t]}
      BY <2>8, <2>9, <2>11, <3>2, HeapAssumption
    <3>3. CASE m \in {n, pred[t]} /\ l \notin {n, pred[t]}
      BY <2>8, <2>9, <2>11, <3>3, HeapAssumption
    <3>4. CASE m \notin {n, pred[t]} /\ l \notin {n, pred[t]}
      BY <2>7, <2>9, <2>11, <3>4
    <3> QED BY <3>1, <3>2, <3>3, <3>4
  <2>12. head' \in Nodes /\ status'[head'] = "linked"
    BY <2>4, <2>5, <2>6, <2>7
  <2>13. \A m \in marked : m \in Nodes /\ m # n /\ m # pred[t]
         /\ status'[m] \in {"linked", "retired"}
    BY <2>3, <2>4, <2>6, HeapAssumption DEF ListInv, ListShape, Live
  <2>14. \A m \in Nodes : status'[m] = "retired" => m \in marked /\ next'[m] \in Nodes
    BY <2>5, <2>6 DEF ListInv, ListShape
  <2>15. ListShape'
    <3>1. tail' = tail /\ marked' = marked /\ tail \notin marked
      BY <2>1 DEF ListInv, ListShape
    <3> QED BY <2>5, <2>6, <2>7, <2>8, <2>10, <2>11, <2>12, <2>13, <2>14, <3>1
            DEF ListShape, Live
  <2>16. /\ op' = [op EXCEPT ![t] = "true"] /\ key' = [key EXCEPT ![t] = NULL]
         /\ seen' = [u \in Threads |->
                       IF u = t THEN {}
                       ELSE IF key[u] = key[t] THEN seen[u] \cup {TRUE} ELSE seen[u]]
         /\ pred' = [pred EXCEPT ![t] = NULL] /\ curr' = [curr EXCEPT ![t] = NULL]
         /\ nxt' = [nxt EXCEPT ![t] = NoLink]
    BY <2>1 DEF Decides, Forget
  <2>17. LoopedTypeOK'
    <3>1. seen' \in [Threads -> SUBSET BOOLEAN]
      BY <2>16 DEF ListInv, LoopedTypeOK, ListTypeOK
    <3> QED BY <2>1, <2>5, <2>12, <2>16, <3>1
            DEF ListInv, LoopedTypeOK, ListTypeOK, NodeOrNull, NoLink, Results,
                Statuses, Roles
  <2>18. /\ \A u \in Threads : u # t => Same(u) /\ dangling'[u] = dangling[u]
         /\ node'[t] = NULL /\ op'[t] = "true" /\ pc'[t] = done
         /\ pred'[t] = NULL /\ curr'[t] = NULL /\ nxt'[t] = NoLink
    BY <2>1, <2>16 DEF ListInv, LoopedTypeOK, ListTypeOK, Same, Relabels
  <2>19. ASSUME NEW u \in Threads, u # t PROVE Undisturbed(u)
    <3>1. node[u] # NULL => /\ status[node[u]] = "private" /\ node[u] \in Nodes
                            /\ node[u] # n
      BY <2>19 DEF ListInv, OwnsNode, LoopedTypeOK, ListTypeOK, NodeOrNull, n
    <3>2. \A v \in Threads : node'[v] = node[v] \/ node'[v] = NULL
      BY <2>18 DEF Same
    <3>3. node[u] # NULL => node[u] # pred[t]
      BY <2>3, <3>1
    <3> QED BY <2>1, <2>4, <2>5, <2>6, <2>13, <2>18, <2>19, <3>1, <3>2, <3>3
            DEF Undisturbed
  <2>20. OwnsNode(t)' /\ Traverses(t)'
    <3>1. done \notin PassedLabels \cup HelpingLabels
                        \cup {"remove.cas", "add.cas", "add.discard"}
      BY DEF NoCurrLabels, PassedLabels, HelpingLabels
    <3> QED BY <2>18, <3>1 DEF OwnsNode, Traverses, NoLink, getUnmarked
  <2> QED BY <2>1, <2>4, <2>15, <2>17, <2>19, <2>20, OthersKept DEF ListInv, n
<1> QED BY <1>1, <1>2

(* The mark of remove.                                                     *)
LEMMA MarksKept ==
  ASSUME ListInv, NEW t \in Threads, pc = [u \in Threads |-> pc[u]], ~Strays(t),
         NEW again \in NoCurrLabels \ {"add.discard"}, Marks(t, again)
  PROVE  ListInv'
<1>0. pc[t] = "remove.mark"
  BY DEF Marks
<1>1. CASE TryAgain(t, "remove.mark", again)
  BY <1>1, TryAgainKept
<1>2. CASE ~TryAgain(t, "remove.mark", again)
  <2> DEFINE c == curr[t]
             N == getUnmarked(nxt[t])
  <2>1. /\ Link(c) = <<N, FALSE>> /\ marked' = marked \cup {c} /\ Decides(t, FALSE)
        /\ pc' = [pc EXCEPT ![t] = "remove.cas"]
        /\ UNCHANGED <<heapVars, head, tail, pred, curr, nxt, node, calls, dangling,
                       main>>
    BY <1>2 DEF Marks, Goto, findLocals
  <2>2. /\ c # NULL /\ c # tail /\ N # NULL /\ Live(c) /\ c \in Nodes
    BY <1>0, UsesOf DEF ListInv, Traverses, PassedLabels, NoCurrLabels, Live
  <2>3. next[c] = N
    BY <2>1 DEF Link
  <2>4. /\ op' = [op EXCEPT ![t] = "true"] /\ key' = [key EXCEPT ![t] = NULL]
        /\ seen' = [u \in Threads |->
                      IF u = t THEN {}
                      ELSE IF key[u] = key[t] THEN seen[u] \cup {FALSE} ELSE seen[u]]
    BY <2>1 DEF Decides
  <2>5. LoopedTypeOK'
    <3>1. seen' \in [Threads -> SUBSET BOOLEAN]
      BY <2>4 DEF ListInv, LoopedTypeOK, ListTypeOK
    <3> QED BY <2>1, <2>2, <2>4, <3>1
            DEF ListInv, LoopedTypeOK, ListTypeOK, Results, heapVars
  <2>6. ListShape'
    BY <2>1, <2>2 DEF ListInv, ListShape, Live, heapVars
  <2>7. /\ \A u \in Threads : u # t => Same(u)
        /\ op'[t] = "true" /\ pc'[t] = "remove.cas"
    BY <2>1, <2>4 DEF ListInv, LoopedTypeOK, ListTypeOK, Same, Relabels
  <2>8. ASSUME NEW u \in Threads, u # t PROVE Undisturbed(u)
    <3>1. node[u] # NULL => status[node[u]] = "private"
      BY DEF ListInv, OwnsNode
    <3>2. status' = status /\ next' = next /\ node' = node /\ dangling' = dangling
          /\ tail' = tail /\ marked \subseteq marked'
      BY <2>1 DEF heapVars
    <3> QED BY <2>7, <2>8, <3>1, <3>2 DEF Undisturbed
  <2>9. OwnsNode(t)'
    BY <2>1, <2>7 DEF ListInv, OwnsNode, heapVars
  <2>10. Traverses(t)'
    <3>1. Traverses(t) /\ "remove.cas" \notin HelpingLabels /\ pc[t] \notin HelpingLabels
      BY <1>0 DEF ListInv, HelpingLabels
    <3>2. /\ status' = status /\ next' = next /\ tail' = tail /\ dangling' = dangling
          /\ pred' = pred /\ curr' = curr /\ nxt' = nxt
          /\ c \in marked' /\ next'[c] = N
      BY <2>1, <2>3 DEF heapVars
    <3> QED BY <2>2, <2>7, <3>1, <3>2 DEF Traverses, Live
  <2> QED BY <2>5, <2>6, <2>8, <2>9, <2>10, OthersKept DEF ListInv
<1> QED BY <1>1, <1>2

(* remove unlinks the node it has marked, or leaves it to others.          *)
LEMMA RemovesKept ==
  ASSUME ListInv, NEW t \in Threads, pc = [u \in Threads |-> pc[u]], ~Strays(t),
         NEW retire, retire \notin (PassedLabels \cup {"add.discard", "add.cas"}),
         NEW done \in NoCurrLabels \ {"add.discard"}, Removes(t, retire, done)
  PROVE  /\ ListInv'
         /\ \/ status' = status /\ pc'[t] = done
            \/ /\ curr[t] \in Nodes /\ status[curr[t]] = "linked"
               /\ status' = [status EXCEPT ![curr[t]] = "retired"]
               /\ pc'[t] = retire
<1>1. CASE PredIsCurr(t)
  <2>1. Goto(t, "remove.cas", retire) /\ Unlinks(t)
    BY <1>1 DEF Removes
  <2>2. retire \notin {"add.discard", "add.cas", "remove.cas"}
        /\ retire \notin PassedLabels
    BY DEF PassedLabels
  <2>3. pc'[t] = retire
    BY <2>1 DEF Goto
  <2> QED BY <1>1, <2>1, <2>2, <2>3, UnlinksKept
<1>2. CASE ~PredIsCurr(t)
  <2>1. Goto(t, "remove.cas", done) /\ UNCHANGED <<heapVars, loopedVars>>
    BY <1>2 DEF Removes
  <2>2. /\ UNCHANGED <<heapVars, head, tail, marked, pred, curr, nxt, node, op,
                       dangling>>
        /\ pc'[t] = done /\ \A u \in Threads : u # t => pc'[u] = pc[u]
    BY <2>1 DEF loopedVars, listVars, findLocals, callVars, Goto
  <2>3. LoopedTypeOK'
    BY <2>1 DEF ListInv, LoopedTypeOK, ListTypeOK, loopedVars, listVars,
       findLocals, callVars, heapVars
  <2>4. \A u \in Threads : Relabels(u)
    BY <2>2 DEF Relabels, NoCurrLabels, PassedLabels, HelpingLabels
  <2> QED BY <2>2, <2>3, <2>4, LabelKept DEF heapVars
<1> QED BY <1>1, <1>2

(* add deletes the node it did not need.                                   *)
LEMMA DiscardsKept ==
  ASSUME ListInv, NEW t \in Threads, pc = [u \in Threads |-> pc[u]],
         NEW done \in NoCurrLabels \ {"add.discard"}, Discards(t, done)
  PROVE  /\ ListInv' /\ node[t] \in Nodes /\ status[node[t]] = "private"
         /\ status' = [status EXCEPT ![node[t]] = "free"]
<1> DEFINE n == node[t]
<1>1. /\ pc[t] = "add.discard" /\ pc' = [pc EXCEPT ![t] = done] /\ Delete({n})
      /\ node' = [node EXCEPT ![t] = NULL]
      /\ UNCHANGED <<head, tail, marked, pred, curr, nxt, op, key, seen, calls,
                     dangling, main>>
  BY DEF Discards, Goto, findLocals
<1>2. n \in Nodes /\ status[n] = "private"
  BY <1>1 DEF ListInv, OwnsNode, LoopedTypeOK, ListTypeOK, NodeOrNull
<1>3. /\ status' = [m \in Nodes |-> IF m = n THEN "free" ELSE status[m]]
      /\ next' = [m \in Nodes |-> IF m = n THEN NULL ELSE next[m]]
      /\ item' = [m \in Nodes |-> IF m = n THEN NULL ELSE item[m]]
  BY <1>1, Zenon DEF Delete
<1>4. LoopedTypeOK'
  BY <1>1, <1>3 DEF ListInv, LoopedTypeOK, ListTypeOK, NodeOrNull, Statuses
<1> HIDE DEF n
<1>5. \A m \in Nodes : m # n => status'[m] = status[m] /\ next'[m] = next[m]
  BY <1>3
<1>6. \A m \in Nodes : Live(m) \/ status'[m] \in {"linked", "retired"} =>
        status'[m] = status[m] /\ next'[m] = next[m]
  BY <1>2, <1>3 DEF Live
<1>7. /\ \A u \in Threads : u # t => Same(u) /\ dangling'[u] = dangling[u]
      /\ node'[t] = NULL /\ pc'[t] = done
  BY <1>1 DEF ListInv, LoopedTypeOK, ListTypeOK, Same, Relabels
<1>8. \A u \in Threads : u # t /\ node[u] # NULL =>
        /\ status'[node[u]] = "private" /\ next'[node[u]] = next[node[u]]
        /\ node'[t] # node[u]
  <2>1. \A u \in Threads : node[u] \in NodeOrNull /\ OwnsNode(u)
    BY DEF ListInv, LoopedTypeOK, ListTypeOK
  <2> QED BY <1>5, <1>7, <2>1 DEF OwnsNode, NodeOrNull, n
<1>9. done \notin PassedLabels \cup HelpingLabels
                    \cup {"remove.cas", "add.cas", "add.discard"}
  BY DEF NoCurrLabels, PassedLabels, HelpingLabels
<1>10. op'[t] # "add" /\ op'[t] = op[t]
  BY <1>1 DEF ListInv, OwnsNode
<1>11. OwnsNode(t)'
  BY <1>7, <1>9, <1>10 DEF OwnsNode
<1>12. Traverses(t)'
  <2>1. /\ Traverses(t) /\ curr[t] \in NodeOrNull /\ pred[t] \in NodeOrNull
        /\ nxt[t] \in NodeOrNull \X BOOLEAN
    BY DEF ListInv, LoopedTypeOK, ListTypeOK
  <2>2. \A m : Live(m) => Live(m)' /\ status'[m] = status[m]
    BY <1>6 DEF Live
  <2>3. \A m \in Nodes : m \in marked => next'[m] = next[m]
    BY <1>6 DEF ListInv, ListShape
  <2>4. curr[t] # NULL /\ status'[curr[t]] = "linked" => status[curr[t]] = "linked"
    BY <1>3, <2>1 DEF NodeOrNull
  <2>5. curr[t] \in marked => curr[t] \in Nodes
    BY DEF ListInv, ListShape, Live
  <2>6. pc[t] \notin PassedLabels \cup HelpingLabels \cup {"remove.cas"}
    BY <1>1 DEF PassedLabels, HelpingLabels
  <2> QED BY <1>1, <1>7, <1>9, <2>1, <2>2, <2>3, <2>4, <2>5, <2>6 DEF Traverses
<1>13. status' = [status EXCEPT ![n] = "free"]
  BY <1>2, <1>3 DEF ListInv, LoopedTypeOK, ListTypeOK
<1> QED BY <1>1, <1>2, <1>4, <1>6, <1>7, <1>8, <1>11, <1>12, <1>13, FreshKept DEF n

(* Retired nodes are deleted, while no thread goes to a label at which it  *)
(* knows more than before.                                                 *)
LEMMA DeletesKept ==
  ASSUME ListInv, NEW S \in SUBSET Nodes, \A n \in S : status[n] = "retired",
         Delete(S), AfterDeletion,
         UNCHANGED <<head, tail, findLocals, callVars, calls>>,
         \A u \in Threads : Relabels(u)
  PROVE  /\ ListInv'
         /\ \A u \in Threads : dangling'[u] =
              dangling[u] \cup {r \in Roles : Named(u, r) \in S}
<1>1. /\ status' = [m \in Nodes |-> IF m \in S THEN "free" ELSE status[m]]
      /\ next' = [m \in Nodes |-> IF m \in S THEN NULL ELSE next[m]]
      /\ item' = [m \in Nodes |-> IF m \in S THEN NULL ELSE item[m]]
  BY Zenon DEF Delete
<1>2. Freed = S
  BY <1>1 DEF Freed
<1>3. /\ dangling' = [u \in Threads |->
                        dangling[u] \cup {r \in Roles : Named(u, r) \in S}]
      /\ marked' = marked \ S
      /\ UNCHANGED <<head, tail, pred, curr, nxt, node, op, key, seen, calls>>
  BY <1>2 DEF AfterDeletion, Dangles, findLocals, callVars
<1>4. LoopedTypeOK'
  BY <1>1, <1>3 DEF ListInv, LoopedTypeOK, ListTypeOK, NodeOrNull, Statuses
<1>5. \A m \in Nodes : /\ m \in S => status[m] = "retired" /\ status'[m] = "free"
                       /\ m \notin S => status'[m] = status[m] /\ next'[m] = next[m]
  BY <1>1
<1>6. ListShape'
  BY <1>3, <1>5 DEF ListInv, ListShape, Live
<1>7. ASSUME NEW u \in Threads PROVE Undisturbed(u)
  <2>1. node[u] # NULL => node[u] \in Nodes /\ status[node[u]] = "private"
    BY DEF ListInv, OwnsNode, LoopedTypeOK, ListTypeOK, NodeOrNull
  <2>2. Same(u) /\ tail' = tail /\ dangling[u] \subseteq dangling'[u]
    BY <1>3, <1>7 DEF Same
  <2>3. \A m \in Nodes :
          /\ status[m] = "linked" => status'[m] \in {"linked", "retired"}
          /\ status[m] = "retired" => status'[m] \in {"retired", "free"}
          /\ status[m] = "retired" /\ status'[m] = "free" =>
               \A r \in Roles : Named(u, r) = m => r \in dangling'[u]
    BY <1>3, <1>5
  <2>4. \A m \in marked : status'[m] = "free" \/ (m \in marked' /\ next'[m] = next[m])
    BY <1>3, <1>5 DEF ListInv, ListShape, Live
  <2> QED BY <1>3, <1>5, <2>1, <2>2, <2>3, <2>4 DEF Undisturbed
<1> QED BY <1>3, <1>4, <1>6, <1>7, OthersKept DEF ListInv

(* The constructor's list.                                                 *)
LEMMA LoopedInitKept == LoopedInit => ListInv
<1> SUFFICES ASSUME LoopedInit PROVE ListInv
  OBVIOUS
<1> PICK s \in Nodes :
      /\ head = s /\ tail = s
      /\ status = [n \in Nodes |-> IF n = s THEN "linked" ELSE "free"]
      /\ next = [n \in Nodes |-> IF n = s THEN s ELSE NULL]
      /\ item = [n \in Nodes |-> NULL]
  BY DEF LoopedInit
<1>1. ListInit /\ dangling = [t \in Threads |-> {}]
  BY DEF LoopedInit
<1>2. LoopedTypeOK
  BY <1>1 DEF LoopedTypeOK, ListTypeOK, ListInit, NodeOrNull, Statuses, NoLink, Roles
<1>3. ListShape
  BY <1>1 DEF ListShape, ListInit, Live
<1>4. ASSUME NEW t \in Threads PROVE OwnsNode(t) /\ Traverses(t)
  <2>1. /\ pc[t] = "idle" /\ node[t] = NULL /\ op[t] = "none" /\ pred[t] = NULL
        /\ curr[t] = NULL /\ nxt[t] = NoLink
    BY <1>1 DEF ListInit
  <2> QED BY <2>1 DEF OwnsNode, Traverses, NoCurrLabels, PassedLabels,
          HelpingLabels, NoLink, getUnmarked
<1> QED BY <1>2, <1>3, <1>4 DEF ListInv

(* What the shape of the list says of the linked nodes as a set.           *)
LEMMA ListWithin ==
  ASSUME ListInv
  PROVE  /\ Linked \in SUBSET Nodes /\ Within(next, Linked)
         /\ head # NULL /\ head \in Linked
BY HeapAssumption DEF ListInv, ListShape, Within, Linked

(* Thread u does not come to a label at which it must have no node.        *)
Busy(u) ==
  \/ pc'[u] = pc[u] \/ pc[u] \in QuietLabels
  \/ pc'[u] \notin QuietLabels /\ pc[u] # "add.discard"

(* Links of nodes that are not linked may change, and their status.        *)
LEMMA PlacedBeside ==
  ASSUME ListInv, ListPlaced, head' = head,
         \A n \in Nodes : /\ status'[n] = "linked" <=> status[n] = "linked"
                          /\ status[n] = "linked" => next'[n] = next[n],
         \A n \in Nodes : status'[n] = "private" => \E t \in Threads : node'[t] = n,
         \A t \in Threads :
           \/ node'[t] = NULL
           \/ node'[t] = node[t] /\ op'[t] = op[t] /\ Busy(t)
           \/ op'[t] = "add" /\ pc'[t] \notin QuietLabels
           \/ pc'[t] = "add.discard"
  PROVE  ListPlaced'
<1>1. Linked' = Linked /\ \A n \in Linked : next'[n] = next[n]
  BY DEF Linked
<1>2. Reaches(head, next', Linked)
  BY <1>1, ReachesWithin, ListWithin DEF ListPlaced
<1>3. "add.discard" \notin QuietLabels
  BY DEF QuietLabels
<1> QED BY <1>1, <1>2, <1>3 DEF ListPlaced, Reaches, Closed, Busy

(* A step that changes no link in the list and no status.                  *)
LEMMA PlacedKept ==
  ASSUME ListInv, ListPlaced, UNCHANGED <<status, next, head, node, op>>,
         \A u \in Threads : Busy(u)
  PROVE  ListPlaced'
BY PlacedBeside DEF ListPlaced

(* find returns to its caller: add links its node to curr, not yet to the  *)
(* list.                                                                   *)
LEMMA EndsPlaced ==
  ASSUME ListInv, ListPlaced, NEW t \in Threads, pc = [u \in Threads |-> pc[u]],
         NEW found \in BOOLEAN, NEW done,
         pc[t] \notin QuietLabels \cup {"add.discard"},
         Ends(t, found, AfterFind(t, found, done))
  PROVE  ListPlaced'
<1>1. /\ UNCHANGED <<status, head, node>>
      /\ next' = IF op[t] = "add" /\ ~found
                 THEN [next EXCEPT ![node[t]] = curr[t]] ELSE next
      /\ pc' = [pc EXCEPT ![t] = AfterFind(t, found, done)]
      /\ op[t] = "add" /\ ~found => op' = op
      /\ \A u \in Threads : u # t => op'[u] = op[u]
  BY DEF Ends, FindReturns, DecidedBy, ListInv, LoopedTypeOK, ListTypeOK
<1>2. op[t] = "add" => status[node[t]] = "private"
  BY DEF ListInv, OwnsNode
<1>3. \A n \in Nodes : status[n] = "linked" => next'[n] = next[n]
  BY <1>1, <1>2 DEF ListInv, LoopedTypeOK, ListTypeOK
<1>4. \A u \in Threads : u # t => op'[u] = op[u] /\ Busy(u)
  BY <1>1 DEF Busy
<1>5. \/ node[t] = NULL
      \/ op'[t] = "add" /\ pc'[t] \notin QuietLabels
      \/ pc'[t] = "add.discard"
  <2>1. node[t] # NULL => op[t] = "add"
    BY DEF ListPlaced
  <2> QED BY <1>1, <2>1 DEF AfterFind, QuietLabels
<1> QED BY <1>1, <1>3, <1>4, <1>5, PlacedBeside DEF ListPlaced

(* A new node is in the hands of its add.                                  *)
LEMMA CallAddPlaced ==
  ASSUME ListInv, ListPlaced, NEW t \in Threads, pc = [u \in Threads |-> pc[u]],
         NEW to, to \notin QuietLabels, CallAdd(t, to)
  PROVE  ListPlaced'
<1>0. \A k : (k \in Present) \in BOOLEAN
  OBVIOUS
<1> PICK n \in Nodes, k \in Elements, member \in BOOLEAN :
      /\ BeginCall(t, "add", k, member) /\ New(n, k)
      /\ node' = [node EXCEPT ![t] = n]
  BY <1>0 DEF CallAdd
<1>1. /\ head' = head /\ pc[t] = "idle" /\ pc' = [pc EXCEPT ![t] = to]
      /\ op' = [op EXCEPT ![t] = "add"]
  BY DEF CallAdd, Goto, BeginCall
<1>2. node[t] = NULL
  BY <1>1 DEF ListPlaced, QuietLabels
<1>3. \A m \in Nodes : /\ status'[m] = IF m = n THEN "private" ELSE status[m]
                       /\ m # n => next'[m] = next[m]
      /\ status[n] = "free"
  BY DEF New, ListInv, LoopedTypeOK, ListTypeOK
<1>4. /\ node'[t] = n /\ op'[t] = "add" /\ pc'[t] = to
      /\ \A u \in Threads : u # t =>
           node'[u] = node[u] /\ op'[u] = op[u] /\ pc'[u] = pc[u]
  BY <1>1 DEF ListInv, LoopedTypeOK, ListTypeOK
<1>5. ASSUME NEW m \in Nodes, status'[m] = "private"
      PROVE  \E u \in Threads : node'[u] = m
  <2>1. CASE m = n
    BY <1>4, <2>1
  <2>2. CASE m # n
    <3>1. PICK u \in Threads : node[u] = m
      BY <1>3, <1>5, <2>2 DEF ListPlaced
    <3> QED BY <1>2, <1>4, <3>1, HeapAssumption
  <2> QED BY <2>1, <2>2
<1> QED BY <1>1, <1>3, <1>4, <1>5, PlacedBeside DEF Busy

(* A call without a node begins.                                           *)
LEMMA CallOtherPlaced ==
  ASSUME ListInv, ListPlaced, NEW t \in Threads, pc = [u \in Threads |-> pc[u]],
         NEW to, CallOther(t, to)
  PROVE  ListPlaced'
<1>0. \A k : (k \in Present) \in BOOLEAN
  OBVIOUS
<1>1. PICK k \in Elements, o \in {"remove", "contains"}, member \in BOOLEAN :
        BeginCall(t, o, k, member)
  BY <1>0 DEF CallOther
<1>2. /\ UNCHANGED <<status, next, head, node>> /\ pc[t] = "idle"
      /\ \A u \in Threads : u # t => op'[u] = op[u] /\ pc'[u] = pc[u]
  BY <1>1 DEF CallOther, BeginCall, Goto, heapVars, ListInv, LoopedTypeOK, ListTypeOK
<1>3. node[t] = NULL
  BY <1>2 DEF ListPlaced, QuietLabels
<1> QED BY <1>2, <1>3, PlacedBeside DEF ListPlaced, Busy

(* An operation returns.                                                   *)
LEMMA ReturnsPlaced ==
  ASSUME ListInv, ListPlaced, NEW t \in Threads, pc[t] \in QuietLabels,
         \A u \in Threads : u # t => pc'[u] = pc[u], Returns(t)
  PROVE  ListPlaced'
<1>1. /\ UNCHANGED <<status, next, head, node>>
      /\ \A u \in Threads : u # t => op'[u] = op[u]
  BY DEF Returns, heapVars, ListInv, LoopedTypeOK, ListTypeOK
<1>2. node[t] = NULL
  BY DEF ListPlaced
<1> QED BY <1>1, <1>2, PlacedBeside DEF ListPlaced, Busy

(* add deletes the node it did not need.                                   *)
LEMMA DiscardsPlaced ==
  ASSUME ListInv, ListPlaced, NEW t \in Threads, pc = [u \in Threads |-> pc[u]],
         NEW done, Discards(t, done)
  PROVE  ListPlaced'
<1> DEFINE n == node[t]
<1>1. /\ pc[t] = "add.discard" /\ pc' = [pc EXCEPT ![t] = done] /\ Delete({n})
      /\ node' = [node EXCEPT ![t] = NULL] /\ UNCHANGED <<head, op>>
  BY DEF Discards, Goto
<1>2. n \in Nodes /\ status[n] = "private"
  BY <1>1 DEF ListInv, OwnsNode, LoopedTypeOK, ListTypeOK, NodeOrNull
<1>3. \A m \in Nodes : /\ status'[m] = IF m = n THEN "free" ELSE status[m]
                       /\ m # n => next'[m] = next[m]
  BY <1>1 DEF Delete
<1>4. /\ node'[t] = NULL
      /\ \A u \in Threads : u # t => node'[u] = node[u] /\ pc'[u] = pc[u]
  BY <1>1 DEF ListInv, LoopedTypeOK, ListTypeOK
<1> HIDE DEF n
<1>5. ASSUME NEW m \in Nodes, status'[m] = "private"
      PROVE  \E u \in Threads : node'[u] = m
  <2>1. m # n /\ status[m] = "private"
    BY <1>3, <1>5
  <2> QED BY <1>4, <2>1 DEF ListPlaced, n
<1> QED BY <1>1, <1>2, <1>3, <1>4, <1>5, PlacedBeside DEF Busy

(* Retired nodes are deleted.                                              *)
LEMMA DeletesPlaced ==
  ASSUME ListInv, ListPlaced, NEW S, \A n \in S : status[n] = "retired", Delete(S),
         UNCHANGED <<head, node, op>>, \A u \in Threads : Busy(u)
  PROVE  ListPlaced'
<1>1. \A m \in Nodes : /\ status'[m] = IF m \in S THEN "free" ELSE status[m]
                       /\ m \notin S => next'[m] = next[m]
  BY DEF Delete
<1>2. \A n \in Nodes : status'[n] = "private" => \E t \in Threads : node'[t] = n
  BY <1>1 DEF ListPlaced
<1>3. \A n \in Nodes : /\ status'[n] = "linked" <=> status[n] = "linked"
                       /\ status[n] = "linked" => next'[n] = next[n]
  BY <1>1
<1> QED BY <1>2, <1>3, PlacedBeside

(* A marked curr is taken out of the list.                                 *)
LEMMA UnlinksPlaced ==
  ASSUME ListInv, ListPlaced, NEW t \in Threads, ~Strays(t),
         pc[t] \in {"find.help", "remove.cas"}, PredIsCurr(t), Unlinks(t),
         \A u \in Threads : Busy(u)
  PROVE  ListPlaced'
<1> DEFINE c == curr[t]
           N == getUnmarked(nxt[t])
           p == pred[t]
<1>1. /\ c \in Nodes /\ status[c] = "linked" /\ c # tail
      /\ "pred" \notin dangling[t] /\ "curr" \notin dangling[t] /\ N # NULL
  BY NextOfLinked
<1>2. c \in marked /\ next[c] = N
  <2>1. isMarked(nxt[t]) \/ pc[t] = "remove.cas"
    BY DEF ListInv, Traverses, HelpingLabels
  <2> QED BY <1>1, <2>1 DEF ListInv, Traverses
<1>3. /\ p = NULL => head = c
      /\ p # NULL => /\ p \in Nodes \ marked /\ status[p] = "linked"
                     /\ p # tail /\ next[p] = c
  BY <1>1, PredLinked
<1>4. N \in Nodes
  BY <1>1, <1>2 DEF ListInv, ListShape
<1>5. /\ StorePred(t, N) /\ status' = [status EXCEPT ![c] = "retired"]
      /\ UNCHANGED <<node, op>>
  BY DEF Unlinks, callVars
<1>6. /\ head' = IF p = NULL THEN N ELSE head
      /\ \A m \in Nodes : next'[m] = IF m = p THEN N ELSE next[m]
  BY <1>1, <1>4, <1>5, StorePredEffect
<1> HIDE DEF c, N, p
<1>7. /\ Linked' = Linked \ {c} /\ c \in Linked
      /\ \A m \in Nodes : status'[m] = "private" => status[m] = "private"
  BY <1>1, <1>5 DEF Linked, ListInv, LoopedTypeOK, ListTypeOK
<1>8. Reaches(head', next', Linked \ {c})
  <2>1. Reaches(head, next, Linked)
    BY DEF ListPlaced
  <2>2. CASE p = NULL
    <3>1. head = c /\ head' = next[c] /\ \A m \in Linked : next'[m] = next[m]
      BY <1>2, <1>3, <1>6, <2>2, HeapAssumption DEF Linked
    <3> QED BY <1>7, <2>1, <3>1, ReachesPopped, ListWithin
  <2>3. CASE p # NULL
    <3>1. /\ p \in Linked /\ p # c /\ head # c /\ next[p] = c /\ head' = head
          /\ next'[p] = next[c] /\ \A m \in Linked : m # p => next'[m] = next[m]
      BY <1>2, <1>3, <1>6, <2>3 DEF Linked, ListInv, ListShape
    <3> QED BY <1>7, <2>1, <3>1, ReachesUnlinked, ListWithin
  <2> QED BY <2>2, <2>3
<1> QED BY <1>5, <1>7, <1>8 DEF ListPlaced, Reaches, Closed, Busy

(* remove marks curr.                                                      *)
LEMMA MarksPlaced ==
  ASSUME ListInv, ListPlaced, NEW t \in Threads, pc = [u \in Threads |-> pc[u]],
         NEW again, Marks(t, again)
  PROVE  ListPlaced'
<1>1. /\ UNCHANGED <<status, next, head, node>> /\ pc[t] = "remove.mark"
      /\ \A u \in Threads : u # t => op'[u] = op[u] /\ pc'[u] = pc[u]
  BY DEF Marks, Goto, TryAgain, Decides, heapVars, callVars, ListInv, LoopedTypeOK,
     ListTypeOK
<1>2. node[t] = NULL
  BY <1>1 DEF ListPlaced, QuietLabels
<1> QED BY <1>1, <1>2, PlacedBeside DEF ListPlaced, Busy

(* add links its node between pred and curr, or goes back.                 *)
LEMMA AddsPlaced ==
  ASSUME ListInv, ListPlaced, NEW t \in Threads, pc = [u \in Threads |-> pc[u]],
         ~Strays(t), NEW again, again \notin QuietLabels, NEW done,
         Adds(t, again, done)
  PROVE  ListPlaced'
<1>0. pc[t] = "add.cas"
  BY DEF Adds
<1>1. CASE ~PredIsCurr(t)
  <2>1. /\ UNCHANGED <<status, next, head, node, op>>
        /\ pc' = [pc EXCEPT ![t] = again]
    BY <1>1 DEF Adds, TryAgain, Goto, heapVars, callVars
  <2>2. \A u \in Threads : Busy(u)
    BY <1>0, <2>1 DEF Busy
  <2> QED BY <2>1, <2>2, PlacedKept
<1>2. CASE PredIsCurr(t)
  <2> DEFINE c == curr[t]
             n == node[t]
             p == pred[t]
  <2>1. /\ StorePred(t, n) /\ status' = [status EXCEPT ![n] = "linked"]
        /\ node' = [node EXCEPT ![t] = NULL] /\ Decides(t, TRUE)
        /\ pc' = [pc EXCEPT ![t] = done]
    BY <1>2 DEF Adds, Goto
  <2>2. "pred" \notin dangling[t]
    BY <1>0, UsesOf
  <2>3. /\ c \in Nodes /\ status[c] = "linked"
        /\ p = NULL => head = c
        /\ p # NULL => /\ p \in Nodes \ marked /\ status[p] = "linked"
                       /\ p # tail /\ next[p] = c
    BY <1>2, <2>2, PredLinked
  <2>4. n \in Nodes /\ status[n] = "private" /\ next[n] = c
    BY <1>0 DEF ListInv, OwnsNode, LoopedTypeOK, ListTypeOK, NodeOrNull
  <2>5. /\ head' = IF p = NULL THEN n ELSE head
        /\ \A m \in Nodes : next'[m] = IF m = p THEN n ELSE next[m]
    BY <1>2, <2>1, <2>2, <2>4, StorePredEffect
  <2>6. /\ node'[t] = NULL
        /\ \A u \in Threads : u # t =>
             node'[u] = node[u] /\ op'[u] = op[u] /\ pc'[u] = pc[u]
    BY <2>1 DEF Decides, ListInv, LoopedTypeOK, ListTypeOK
  <2> HIDE DEF c, n, p
  <2>7. /\ Linked' = Linked \cup {n} /\ n \notin Linked
        /\ \A m \in Nodes : status'[m] = "private" => m # n /\ status[m] = "private"
    BY <2>1, <2>4 DEF Linked, ListInv, LoopedTypeOK, ListTypeOK
  <2>8. Reaches(head', next', Linked \cup {n})
    <3>1. Reaches(head, next, Linked)
      BY DEF ListPlaced
    <3>2. CASE p = NULL
      <4>1. /\ head' = n /\ next'[n] = head
            /\ \A m \in Linked : next'[m] = next[m]
        BY <2>3, <2>4, <2>5, <3>2, HeapAssumption DEF Linked
      <4> QED BY <2>4, <3>1, <4>1, ReachesPushed, ListWithin
    <3>3. CASE p # NULL
      <4>1. /\ p \in Linked /\ next'[p] = n /\ next'[n] = next[p] /\ head' = head
            /\ \A m \in Linked : m # p => next'[m] = next[m]
        BY <2>3, <2>4, <2>5, <3>3 DEF Linked
      <4> QED BY <2>4, <2>7, <3>1, <4>1, ReachesInserted, ListWithin
    <3> QED BY <3>2, <3>3
  <2>9. ASSUME NEW m \in Nodes, status'[m] = "private"
        PROVE  \E u \in Threads : node'[u] = m
    BY <2>6, <2>7, <2>9 DEF ListPlaced, n
  <2>10. ASSUME NEW u \in Threads, node'[u] # NULL
         PROVE  /\ op'[u] = "add" \/ pc'[u] = "add.discard"
                /\ pc'[u] \notin QuietLabels
    BY <2>6, <2>10 DEF ListPlaced
  <2> QED BY <2>7, <2>8, <2>9, <2>10 DEF ListPlaced, Reaches, Closed
<1> QED BY <1>1, <1>2

(* The constructor's list.                                                 *)
LEMMA LoopedInitPlaced == LoopedInit => ListPlaced
<1> SUFFICES ASSUME LoopedInit PROVE ListPlaced
  OBVIOUS
<1> PICK s \in Nodes :
      /\ head = s
      /\ status = [n \in Nodes |-> IF n = s THEN "linked" ELSE "free"]
  BY DEF LoopedInit
<1>1. Linked = {s} /\ \A n \in Nodes : status[n] # "private"
  BY DEF Linked
<1>2. \A t \in Threads : node[t] = NULL
  BY DEF LoopedInit, ListInit
<1> QED BY <1>1, <1>2, HeapAssumption DEF ListPlaced, Reaches, Closed

(* The list that starts at head is that of the linked nodes.               *)
LEMMA PlacedChain == ListInv /\ ListPlaced => ChainSet(head) = Linked
BY ChainIsLinked, ListWithin DEF ListPlaced

-----------------------------------------------------------------------------
(* The steps of the list of ListHE.                                        *)

(* A node that stays what it is, linked or retired, keeps its life, and    *)
(* none gets back into the list.                                           *)
Lifelong ==
  /\ globalEraClock' \in {globalEraClock, globalEraClock + 1}
  /\ \A n \in Nodes : Live(n) /\ Live(n)' =>
       /\ status[n] # "linked" => status'[n] # "linked"
       /\ \A e \in Nat :
            e <= globalEraClock /\ WithinLife(n, e) => WithinLife(n, e)'

(* Where the same locals are protected, by the same slots.                 *)
SameSlots == {"find.help", "help.era", "help.check", "help.add", "help.slot1",
              "remove.mark", "remove.cas"}

(* What u has found, and the eras it keeps for that, are as before.        *)
Steady(u) ==
  /\ \/ pc'[u] = pc[u]
     \/ pc[u] \in SameSlots /\ pc'[u] \in SameSlots
     \/ pc[u] = "find.again" /\ pc'[u] = "find.pred"
  /\ pred'[u] = pred[u] /\ curr'[u] = curr[u] /\ nxt'[u] = nxt[u]
  /\ hazardErasList'[u] = hazardErasList[u]
  /\ dangling[u] \subseteq dangling'[u]
  /\ \A n \in Nodes : Live(n) =>
       Live(n)' \/ \A r \in Roles : Named(u, r) = n => r \in dangling'[u]

(* The locals of u, as they are typed.                                     *)
LEMMA ListLocals ==
  ASSUME ListInv, NEW u \in Threads
  PROVE  /\ pred[u] \in NodeOrNull /\ curr[u] \in NodeOrNull
         /\ nxt[u] \in NodeOrNull \X BOOLEAN /\ getUnmarked(nxt[u]) \in NodeOrNull
         /\ node[u] \in NodeOrNull /\ dangling[u] \subseteq Roles
         /\ Named(u, "pred") = pred[u] /\ Named(u, "curr") = curr[u]
         /\ Named(u, "nxt") = getUnmarked(nxt[u])
BY DEF ListInv, LoopedTypeOK, ListTypeOK, getUnmarked, Named

(* The slots that find uses.                                               *)
LEMMA ListSlots == EnoughSlots => 0 \in Slots /\ 1 \in Slots /\ 2 \in Slots
BY ErasAssumption DEF Slots, EnoughSlots

(* The eras of its slots are ones the clock has shown.                     *)
LEMMA ListEras ==
  ASSUME EnoughSlots, HETypeOK, ErasReached, NEW u \in Threads
  PROVE  /\ globalEraClock \in Nat
         /\ \A s \in {0, 1, 2} :
              hazardErasList[u][s] \in Nat /\ hazardErasList[u][s] <= globalEraClock
BY ListSlots DEF HETypeOK, ErasReached

(* The nodes the locals name, where find has made sure of them.            *)
LEMMA ListSeen ==
  ASSUME ListInv, NEW u \in Threads
  PROVE  /\ pc[u] = "find.clock" /\ "curr" \notin dangling[u] => Live(curr[u])
         /\ NextSeen(u) => /\ Live(curr[u])
                           /\ Live(getUnmarked(nxt[u]))
<1>1. Traverses(u)
  BY DEF ListInv
<1>2. pc[u] = "find.clock" /\ "curr" \notin dangling[u] => Live(curr[u])
  BY <1>1 DEF Traverses, NoCurrLabels
<1>3. ASSUME NextSeen(u) PROVE Live(curr[u]) /\ Live(getUnmarked(nxt[u]))
  <2>1. curr[u] # NULL /\ Live(curr[u])
    BY <1>1, <1>3 DEF Traverses, NoCurrLabels, NextSeen
  <2> QED BY <1>1, <1>3, <2>1 DEF Traverses, NextSeen
<1> QED BY <1>2, <1>3

(* What a slot covers, it covers as long as the node is not deleted; and   *)
(* so for an era that fits.                                                *)
LEMMA LifeKept ==
  ASSUME EnoughSlots, HETypeOK, ErasReached, Lifelong, NEW u \in Threads,
         hazardErasList'[u] = hazardErasList[u],
         NEW n, Live(n), Live(n)', NEW s \in {0, 1, 2}
  PROVE  /\ Covers(u, s, n) => Covers(u, s, n)'
         /\ EraFits(u, s, n) => EraFits(u, s, n)'
<1>1. /\ globalEraClock \in Nat /\ hazardErasList[u][s] \in Nat
      /\ hazardErasList[u][s] <= globalEraClock
  BY ListEras
<1>2. /\ n \in Nodes
      /\ \A e \in Nat :
           e <= globalEraClock /\ WithinLife(n, e) => WithinLife(n, e)'
  BY DEF Lifelong, Live
<1>3. hazardErasList'[u][s] = hazardErasList[u][s]
  OBVIOUS
<1>4. Covers(u, s, n) => Covers(u, s, n)'
  <2>1. WithinLife(n, hazardErasList[u][s]) => WithinLife(n, hazardErasList[u][s])'
    BY <1>1, <1>2, <1>3 DEF WithinLife
  <2> QED BY <2>1 DEF Covers
<1>5. EraFits(u, s, n) => EraFits(u, s, n)'
  <2>1. CASE globalEraClock' = globalEraClock
    <3>1. WithinLife(n, globalEraClock) => WithinLife(n, globalEraClock)'
      BY <1>1, <1>2, <2>1 DEF WithinLife
    <3> QED BY <2>1, <3>1, <1>3 DEF EraFits
  <2>2. CASE globalEraClock' = globalEraClock + 1
    <3>1. globalEraClock' # hazardErasList'[u][s]
      BY <1>1, <1>3, <2>2
    <3> QED BY <3>1 DEF EraFits
  <2> QED BY <2>1, <2>2 DEF Lifelong
<1> QED BY <1>4, <1>5

(* A thread that goes on with what it has found keeps its invariant.       *)
LEMMA SteadyKept ==
  ASSUME EnoughSlots, ListInv, HETypeOK, ErasReached, NEW u \in Threads,
         Covered(u), LoadedFits(u), Steady(u), Lifelong
  PROVE  Covered(u)' /\ LoadedFits(u)'
<1>1. /\ pred'[u] = pred[u] /\ curr'[u] = curr[u] /\ nxt'[u] = nxt[u]
      /\ hazardErasList'[u] = hazardErasList[u]
      /\ dangling[u] \subseteq dangling'[u]
      /\ getUnmarked(nxt[u])' = getUnmarked(nxt[u])
  BY DEF Steady, getUnmarked
<1>2. \A r : Named(u, r)' = Named(u, r)
  BY <1>1 DEF Named
<1>3. Protected(u)' = Protected(u) /\ \A r : SlotOf(u, r)' = SlotOf(u, r)
  <2>1. CASE pc'[u] = pc[u]
    BY <2>1 DEF Protected, SlotOf, FindLabels
  <2>2. CASE pc[u] \in SameSlots /\ pc'[u] \in SameSlots
    BY <2>2 DEF Protected, SlotOf, SameSlots, FindLabels
  <2>3. CASE pc[u] = "find.again" /\ pc'[u] = "find.pred"
    BY <2>3 DEF Protected, SlotOf, FindLabels
  <2> QED BY <2>1, <2>2, <2>3 DEF Steady
<1>4. ASSUME NEW r \in Roles, r \notin dangling'[u], Live(Named(u, r))
      PROVE  Live(Named(u, r))'
  <2>1. Named(u, r) \in Nodes
    BY <1>4 DEF Live
  <2>2. \/ Live(Named(u, r))' \/ \A q \in Roles : Named(u, q) = Named(u, r) => q \in dangling'[u]
    <3> DEFINE n == Named(u, r)
    <3>1. Live(n)' \/ \A q \in Roles : Named(u, q) = n => q \in dangling'[u]
      <4>0. n' = n
        BY <1>2
      <4>1. \A m \in Nodes : Live(m) =>
              Live(m)' \/ \A q \in Roles : Named(u, q) = m => q \in dangling'[u]
        BY DEF Steady
      <4>2. n \in Nodes /\ Live(n)
        BY <1>4, <2>1
      <4> QED BY <4>0, <4>1, <4>2 DEF Live
    <3> QED BY <3>1
  <2> QED BY <1>4, <2>2
<1>7. /\ "curr" \notin dangling'[u] /\ Live(curr[u]) => Live(curr[u])'
      /\ "nxt" \notin dangling'[u] /\ Live(getUnmarked(nxt[u])) =>
           Live(getUnmarked(nxt[u]))'
  <2>1. "curr" \in Roles /\ "nxt" \in Roles
    BY DEF Roles
  <2>2. "curr" \notin dangling'[u] /\ Live(Named(u, "curr")) => Live(Named(u, "curr"))'
    BY <1>4, <2>1
  <2>3. "nxt" \notin dangling'[u] /\ Live(Named(u, "nxt")) => Live(Named(u, "nxt"))'
    BY <1>4, <2>1
  <2> QED BY <2>2, <2>3 DEF Named
<1>5. Covered(u)'
  <2>1. SUFFICES ASSUME NEW r \in Protected(u), r \notin dangling'[u],
                        Named(u, r) # NULL
                 PROVE  Live(Named(u, r))' /\ Covers(u, SlotOf(u, r), Named(u, r))'
    BY <1>2, <1>3 DEF Covered
  <2>2. r \in Roles
    BY DEF Protected, Roles
  <2>3. Live(Named(u, r)) /\ Covers(u, SlotOf(u, r), Named(u, r))
    BY <1>1, <2>1 DEF Covered
  <2>4. Live(Named(u, r))'
    BY <1>4, <2>1, <2>2, <2>3
  <2>5. SlotOf(u, r) \in {0, 1, 2}
    BY <2>2 DEF SlotOf, Roles
  <2>6. ASSUME NEW n, NEW s \in {0, 1, 2}, Live(n), Live(n)', Covers(u, s, n)
        PROVE  Covers(u, s, n)'
    BY <1>1, <2>6, LifeKept
  <2>7. Live(Named(u, r))' /\ Covers(u, SlotOf(u, r), Named(u, r))'
    <3> DEFINE m == Named(u, r)
               s == SlotOf(u, r)
    <3>1. m' = m /\ s' = s
      BY <1>2, <1>3
    <3>2. Live(m)' /\ Live(m) /\ s \in {0, 1, 2} /\ Covers(u, s, m)
      BY <2>3, <2>4, <2>5
    <3> HIDE DEF m, s
    <3>3. ASSUME NEW x, NEW y, x = m, y = s
          PROVE  Covers(u, s, m)'
      <4>1. Live(x) /\ y \in {0, 1, 2} /\ Covers(u, y, x)
        BY <3>2, <3>3
      <4>2. Live(x)'
        BY <3>1, <3>2, <3>3 DEF Live
      <4>3. Covers(u, y, x)'
        BY <2>6, <4>1, <4>2
      <4> QED BY <3>1, <3>3, <4>3 DEF Covers, WithinLife, Listed
    <3>4. Covers(u, s, m)'
      BY <3>3
    <3> QED BY <3>2, <3>4 DEF m, s
  <2> QED BY <2>7
<1>6. LoadedFits(u)'
  <2>1. ASSUME pc'[u] = "find.clock", "curr" \notin dangling'[u]
        PROVE  EraFits(u, 1, curr[u])'
    <3>1. pc[u] = "find.clock" /\ "curr" \notin dangling[u]
      BY <1>1, <2>1 DEF Steady, SameSlots
    <3>2. Live(curr[u]) /\ EraFits(u, 1, curr[u])
      BY <3>1, ListSeen DEF LoadedFits
    <3>3. Live(curr[u])'
      BY <1>7, <2>1, <3>2
    <3>4. PICK n : n = curr[u]
      OBVIOUS
    <3>5. Live(n) /\ EraFits(u, 1, n) /\ Live(n)'
      BY <1>1, <3>2, <3>3, <3>4 DEF Live
    <3>6. EraFits(u, 1, n)'
      BY <1>1, <3>5, LifeKept
    <3>7. n = curr'[u]
      BY <1>1, <3>4
    <3> QED BY <3>6, <3>7 DEF EraFits, WithinLife, Listed
  <2>2. ASSUME pc'[u] = "find.clock" PROVE pred'[u] = NULL
    BY <1>1, <2>2 DEF LoadedFits, Steady, SameSlots
  <2>3. ASSUME NextSeen(u)'
        PROVE  IF pc'[u] = "next.clock" THEN EraFits(u, 0, getUnmarked(nxt[u]))'
                                        ELSE Covers(u, 0, getUnmarked(nxt[u]))'
    <3>1. /\ pc'[u] \in {"next.clock", "find.again", "find.pred"}
          /\ dangling'[u] \cap {"curr", "nxt"} = {} /\ status'[curr[u]] = "linked"
          /\ getUnmarked(nxt[u]) # NULL
      BY <1>1, <2>3 DEF NextSeen
    <3>2. /\ pc[u] \in {"next.clock", "find.again", "find.pred"}
          /\ pc'[u] = "next.clock" <=> pc[u] = "next.clock"
      BY <3>1 DEF Steady, SameSlots
    <3>3. curr[u] # NULL /\ Live(curr[u])
      BY <1>1, <3>1, <3>2 DEF ListInv, Traverses, NoCurrLabels
    <3>4. Live(curr[u])'
      BY <1>1, <3>1, <3>3 DEF Live
    <3>5. status[curr[u]] = "linked"
      <4>1. \A n \in Nodes : Live(n) /\ Live(n)' =>
              (status[n] # "linked" => status'[n] # "linked")
        BY DEF Lifelong
      <4> QED BY <1>1, <3>1, <3>3, <3>4, <4>1 DEF Live
    <3>6. NextSeen(u)
      BY <1>1, <3>1, <3>2, <3>5 DEF NextSeen
    <3>7. Live(getUnmarked(nxt[u])) /\ Live(getUnmarked(nxt[u]))'
      BY <1>7, <3>1, <3>6, ListSeen
    <3>8. IF pc[u] = "next.clock" THEN EraFits(u, 0, getUnmarked(nxt[u]))
                                  ELSE Covers(u, 0, getUnmarked(nxt[u]))
      BY <3>6 DEF LoadedFits
    <3>9. PICK n : n = getUnmarked(nxt[u])
      OBVIOUS
    <3>11. Live(n) /\ Live(n)'
      BY <1>1, <3>7, <3>9 DEF Live
    <3>12. /\ EraFits(u, 0, n) => EraFits(u, 0, n)'
           /\ Covers(u, 0, n) => Covers(u, 0, n)'
      BY <1>1, <3>11, LifeKept
    <3>13. n = getUnmarked(nxt[u])'
      BY <1>1, <3>9
    <3>10. /\ EraFits(u, 0, getUnmarked(nxt[u])) => EraFits(u, 0, getUnmarked(nxt[u]))'
           /\ Covers(u, 0, getUnmarked(nxt[u])) => Covers(u, 0, getUnmarked(nxt[u]))'
      BY <3>9, <3>12, <3>13 DEF EraFits, Covers, WithinLife, Listed
    <3> QED BY <3>2, <3>8, <3>10
  <2>4. ASSUME pc'[u] \in {"misread.clock", "misread.publish"}
        PROVE  nxt'[u] = Misread
    BY <1>1, <2>4 DEF LoadedFits, Steady, SameSlots
  <2> QED BY <2>1, <2>2, <2>3, <2>4 DEF LoadedFits, Misread
<1> QED BY <1>5, <1>6

(* A step of t takes no removed node out of the hands of its thread.       *)
Step(t) ==
  /\ Lifelong
  /\ \A u \in Threads : u # t => Steady(u) /\ pc'[u] = pc[u]
  /\ \A m \in Nodes :
       /\ status[m] = "retired" /\ ~Listed(m) /\ ~(Removing(t) /\ m = curr[t])
       => status'[m] = "retired" /\ ~Listed(m)'
  /\ Removing(t)' =>
       \/ Removing(t) /\ curr'[t] = curr[t]
       \/ curr'[t] \in Nodes /\ status[curr'[t]] = "linked"

(* The other threads' invariant is kept by a step of t.                    *)
LEMMA ListOthersKept ==
  ASSUME EnoughSlots, IInv, NEW t \in Threads, Step(t),
         NEW u \in Threads, u # t
  PROVE  ThreadInv(u)'
<1>1. Covered(u)' /\ LoadedFits(u)'
  BY SteadyKept DEF IInv, TypeOK, ThreadInv, Step, Scheme
<1>2. RemovedByOne(u)'
  <2>1. SUFFICES ASSUME Removing(u)
                 PROVE  /\ curr[u] \in Nodes /\ status'[curr[u]] = "retired"
                        /\ ~Listed(curr[u])'
                        /\ ~(Removing(t)' /\ curr'[t] = curr[u])
                        /\ \A v \in Threads \ {t} :
                             Removing(v)' /\ curr'[v] = curr[u] => v = u
    <3>1. pc'[u] = pc[u] /\ curr'[u] = curr[u]
      BY DEF Step, Steady
    <3> QED BY <2>1, <3>1 DEF RemovedByOne, Removing, Listed
  <2>2. /\ curr[u] \in Nodes /\ status[curr[u]] = "retired" /\ ~Listed(curr[u])
        /\ \A v \in Threads : Removing(v) /\ curr[v] = curr[u] => v = u
    BY <2>1 DEF IInv, ThreadInv, RemovedByOne
  <2>3. ~(Removing(t) /\ curr[u] = curr[t])
    BY <2>2
  <2>4. curr'[u] = curr[u]
    BY DEF Step, Steady
  <2>5. status'[curr[u]] = "retired" /\ ~Listed(curr[u])'
    <3>1. PICK m \in Nodes : m = curr[u]
      BY <2>2
    <3>2. status'[m] = "retired" /\ ~Listed(m)'
      BY <2>2, <2>3, <3>1 DEF Step
    <3> QED BY <2>4, <3>1, <3>2 DEF Listed
  <2>6. ~(Removing(t)' /\ curr'[t] = curr[u])
    BY <2>2, <2>3 DEF Step
  <2>7. \A v \in Threads \ {t} : Removing(v)' /\ curr'[v] = curr[u] => v = u
    BY <2>2 DEF Step, Steady, Removing
  <2> QED BY <2>2, <2>5, <2>6, <2>7
<1> QED BY <1>1, <1>2 DEF ThreadInv

(* The parts of the invariant after a step of t.                           *)
LEMMA ListStepInv ==
  ASSUME EnoughSlots, IInv, NEW t \in Threads, Step(t), ListInv', Scheme({})',
         HETypeOK', ThreadInv(t)', MainAlone', pc' \in [Threads -> Labels],
         main' \in MainStates
  PROVE  IInv'
<1>1. TypeOK'
  BY DEF TypeOK, ListInv
<1> QED BY <1>1, ListOthersKept DEF IInv

(* Where find holds nothing that it has found.                             *)
HoldingLabels == SameSlots \cup (FindLabels \ {"find.head", "find.publish"})
                  \cup {"find.misread", "misread.clock", "misread.publish",
                        "add.cas"}
RemovingLabels == {"help.era", "remove.clear", "retire.era"}

(* A thread that has found nothing needs no era.                           *)
LEMMA HoldsNothing ==
  ASSUME NEW t \in Threads, pc'[t] \notin HoldingLabels \cup RemovingLabels
  PROVE  ThreadInv(t)'
<1>1. Protected(t)' = {}
  BY DEF HoldingLabels, SameSlots, Protected, FindLabels
<1> QED BY <1>1 DEF HoldingLabels, RemovingLabels, ThreadInv, Covered, LoadedFits,
           RemovedByOne, NextSeen, Removing, SameSlots, FindLabels

(* Of the scheme a step of t changes no more than t's own slots and        *)
(* locals.                                                                 *)
Quiet(t) ==
  /\ HETypeOK'
  /\ UNCHANGED <<globalEraClock, retiredPtrList, retiredNodesCount>>
  /\ currEra'[t] <= globalEraClock
  /\ \A s \in Slots : hazardErasList'[t][s] <= globalEraClock
  /\ \A n \in Nodes : newEra'[n] <= globalEraClock /\ delEra'[n] <= globalEraClock
  /\ \A u \in Threads : u # t =>
       hazardErasList'[u] = hazardErasList[u] /\ currEra'[u] = currEra[u]

(* The nodes in use stay in use, in the same era.                          *)
NodesKept ==
  \A n \in Nodes : Live(n) =>
    /\ Live(n)' /\ newEra'[n] = newEra[n] /\ delEra'[n] = delEra[n]
    /\ status[n] = "retired" => status'[n] = "retired"

(* Nothing but locals and slots of t and nodes that are not in use changes.*)
Local(t) ==
  /\ Quiet(t) /\ NodesKept
  /\ Destroyed => Destroyed'
  /\ \A u \in Threads : u # t =>
       /\ pc'[u] = pc[u] /\ pred'[u] = pred[u] /\ curr'[u] = curr[u]
       /\ nxt'[u] = nxt[u] /\ dangling'[u] = dangling[u]
  /\ Removing(t)' =>
       \/ Removing(t) /\ curr'[t] = curr[t]
       \/ curr'[t] \in Nodes /\ status[curr'[t]] = "linked"

(* What such a step keeps.                                                 *)
LEMMA LocalEffect ==
  ASSUME IInv, NEW t \in Threads, Local(t)
  PROVE  /\ Scheme({})' /\ HETypeOK' /\ Step(t)
         /\ \A n : Listed(n)' <=> Listed(n)
<1>1. Scheme({}) /\ HETypeOK /\ retiredPtrList \in [Threads -> Seq(Nodes)]
  BY DEF IInv, TypeOK, HETypeOK
<1>2. \A u \in Threads :
        /\ currEra'[u] <= globalEraClock
        /\ \A s \in Slots : hazardErasList'[u][s] <= globalEraClock
  BY <1>1 DEF Scheme, ErasReached, Local, Quiet
<1>3. \A n \in Nodes : status[n] = "retired" =>
        status'[n] = "retired" /\ delEra'[n] = delEra[n]
  BY DEF Local, NodesKept, Live
<1>4. Scheme({})' /\ \A n : Listed(n)' <=> Listed(n)
  <2>1. /\ UNCHANGED <<globalEraClock, retiredPtrList, retiredNodesCount>>
        /\ \A n \in Nodes :
             newEra'[n] <= globalEraClock /\ delEra'[n] <= globalEraClock
        /\ Destroyed => Destroyed'
        /\ \A u \in Threads : pc'[u] \in {} => pc[u] \in {} /\ currEra'[u] = currEra[u]
    BY DEF Local, Quiet
  <2> DEFINE S == {}
  <2>2. Scheme(S) /\ \A u \in Threads : pc'[u] \in S => pc[u] \in S /\ currEra'[u] = currEra[u]
    BY <1>1, <2>1
  <2>3. S' = S
    OBVIOUS
  <2> HIDE DEF S
  <2>4. Scheme(S)' /\ \A n : Listed(n)' <=> Listed(n)
    BY <1>1, <1>2, <1>3, <2>1, <2>2, SchemeKept
  <2> USE DEF S
  <2> QED BY <2>4
<1>5. Lifelong
  <2>2. ASSUME NEW n \in Nodes, Live(n)
        PROVE  /\ status[n] # "linked" => status'[n] # "linked"
               /\ \A e \in Nat :
                    e <= globalEraClock /\ WithinLife(n, e) => WithinLife(n, e)'
    <3>1. newEra'[n] = newEra[n] /\ delEra'[n] = delEra[n]
      BY <2>2 DEF Local, NodesKept
    <3>2. status[n] # "linked" => status'[n] # "linked"
      BY <1>3, <2>2 DEF Live
    <3> QED BY <1>4, <3>1, <3>2 DEF WithinLife
  <2>3. globalEraClock' \in {globalEraClock, globalEraClock + 1}
    BY DEF Local, Quiet
  <2> QED BY <2>2, <2>3 DEF Lifelong
<1>6. ASSUME NEW u \in Threads, u # t PROVE Steady(u) /\ pc'[u] = pc[u]
  <2>1. \A n \in Nodes : Live(n) => Live(n)'
    BY DEF Local, NodesKept
  <2> QED BY <1>6, <2>1 DEF Local, Quiet, Steady
<1>7. Step(t)
  BY <1>3, <1>4, <1>5, <1>6 DEF Step, Local
<1> QED BY <1>1, <1>4, <1>7 DEF Local, Quiet

(* A step of t that changes nothing else.                                  *)
LEMMA LocalInv ==
  ASSUME EnoughSlots, IInv, NEW t \in Threads, Local(t), ListInv', ThreadInv(t)',
         MainAlone', pc' \in [Threads -> Labels], main' \in MainStates
  PROVE  IInv'
<1>1. Scheme({})' /\ HETypeOK' /\ Step(t)
  BY LocalEffect
<1> QED BY <1>1, ListStepInv

(* Threads that are not idle keep the main thread waiting.                 *)
LEMMA AloneKept ==
  ASSUME IInv, NEW t \in Threads, pc[t] # "exited", UNCHANGED main
  PROVE  MainAlone' /\ ~Destroyed /\ main \notin {"deleting", "destroyed"}
BY DEF IInv, MainAlone, Destroyed

(* pc is a function.                                                       *)
LEMMA ListPcFunction == IInv => pc = [u \in Threads |-> pc[u]]
BY DEF IInv, TypeOK

(* A step of t from one label to another, with the locals of find.         *)
Own(t, to) ==
  /\ pc' = [pc EXCEPT ![t] = to] /\ to \in Labels \ {"undefined"}
  /\ pc[t] \notin {"exited", "undefined"}
  /\ \A u \in Threads : u # t =>
       /\ pred'[u] = pred[u] /\ curr'[u] = curr[u] /\ nxt'[u] = nxt[u]
       /\ dangling'[u] = dangling[u]
  /\ Quiet(t) /\ NodesKept /\ UNCHANGED main

(* Such a step is a local one.                                             *)
LEMMA OwnLocal ==
  ASSUME IInv, NEW t \in Threads, NEW to \in Labels \ RemovingLabels, Own(t, to)
  PROVE  Local(t)
<1>1. pc'[t] = to /\ \A u \in Threads : u # t => pc'[u] = pc[u]
  BY DEF IInv, TypeOK, Own
<1>2. ~Removing(t)'
  BY <1>1 DEF Removing, RemovingLabels
<1> QED BY <1>1, <1>2 DEF Local, Own, Destroyed

(* The invariant after such a step.                                        *)
LEMMA OwnInv ==
  ASSUME EnoughSlots, IInv, NEW t \in Threads, NEW to, Own(t, to), Local(t), ListInv',
         ThreadInv(t)'
  PROVE  IInv'
<1>1. pc' \in [Threads -> Labels] /\ main' \in MainStates
  BY DEF Own, IInv, TypeOK
<1>2. MainAlone'
  BY AloneKept DEF Own
<1> QED BY <1>1, <1>2, LocalInv

(* A step after which t has found nothing.                                 *)
LEMMA OwnNothing ==
  ASSUME EnoughSlots, IInv, NEW t \in Threads,
         NEW to \in Labels \ (HoldingLabels \cup RemovingLabels),
         Own(t, to), ListInv'
  PROVE  IInv'
<1>1. pc'[t] = to
  BY DEF Own, IInv, TypeOK
<1>2. ThreadInv(t)'
  BY <1>1, HoldsNothing
<1> QED BY <1>2, OwnLocal, OwnInv

(* Steps that are quiet: those that leave the scheme as it is, those of    *)
(* get_protected and of protectEraRelease, a store of clear.               *)
LEMMA QuietSame ==
  ASSUME IInv, NEW t \in Threads, UNCHANGED <<heVars, heLocals>>,
         HETypeOK',
         \A n \in Nodes : newEra'[n] <= globalEraClock /\ delEra'[n] <= globalEraClock
  PROVE  Quiet(t)
BY DEF IInv, Scheme, ErasReached, Quiet, heVars, heLocals

LEMMA QuietUnchanged ==
  ASSUME IInv, NEW t \in Threads, UNCHANGED ofScheme
  PROVE  Quiet(t) /\ (\A n \in Nodes : newEra'[n] = newEra[n] /\ delEra'[n] = delEra[n])
<1>1. HETypeOK'
  BY DEF IInv, TypeOK, HETypeOK, ofScheme, heVars, heLocals, eraFields
<1>2. \A n \in Nodes : newEra'[n] <= globalEraClock /\ delEra'[n] <= globalEraClock
  BY DEF IInv, Scheme, ErasReached, ofScheme, eraFields
<1> QED BY <1>1, <1>2, QuietSame DEF ofScheme, eraFields

LEMMA QuietProtects ==
  ASSUME IInv, NEW t \in Threads, NEW s \in Slots, Protects(t, NULL, s)
  PROVE  Quiet(t) /\ UNCHANGED <<heapVars, eraFields>>
<1>1. Scheme({}) /\ HETypeOK /\ NULL \in NodeOrNull
  BY DEF IInv, TypeOK, NodeOrNull
<1> DEFINE S == {}
<1>2. Scheme(S)
  BY <1>1
<1> HIDE DEF S
<1>3. /\ HETypeOK'
      /\ UNCHANGED <<heapVars, globalEraClock, retiredPtrList,
                     retiredNodesCount, eraFields>>
      /\ currEra'[t] <= globalEraClock
      /\ \A i \in Slots : hazardErasList'[t][i] <= globalEraClock
      /\ \A u \in Threads : u # t =>
           /\ ptr'[u] = ptr[u] /\ hazardErasList'[u] = hazardErasList[u]
           /\ currEra'[u] = currEra[u]
  BY <1>1, <1>2, ProtectEffect
<1> QED BY <1>1, <1>3 DEF Quiet, Scheme, ErasReached, eraFields

LEMMA QuietRelease ==
  ASSUME IInv, NEW t \in Threads, NEW s \in Slots, NEW other \in Slots,
         NEW from, NEW to, ProtectEraRelease(t, from, to, s, other),
         UNCHANGED eraFields
  PROVE  /\ Quiet(t) /\ (\A n \in Nodes : newEra'[n] = newEra[n] /\ delEra'[n] = delEra[n])
         /\ hazardErasList'[t] = [hazardErasList[t] EXCEPT ![s] = hazardErasList[t][other]]
<1>1. Scheme({}) /\ HETypeOK
  BY DEF IInv, TypeOK
<1>2. /\ hazardErasList \in [Threads -> [Slots -> Nat]]
      /\ hazardErasList' =
           [hazardErasList EXCEPT ![t][s] = hazardErasList[t][other]]
      /\ UNCHANGED <<globalEraClock, retiredPtrList, retiredNodesCount, heLocals,
                     eraFields>>
  BY <1>1 DEF ProtectEraRelease, HETypeOK
<1>3. hazardErasList' \in [Threads -> [Slots -> Nat]]
  BY <1>2
<1>4. /\ hazardErasList'[t] = [hazardErasList[t] EXCEPT ![s] = hazardErasList[t][other]]
      /\ \A u \in Threads : u # t => hazardErasList'[u] = hazardErasList[u]
  BY <1>2
<1>5. \A i \in Slots : hazardErasList'[t][i] <= globalEraClock
  <2>1. ASSUME NEW i \in Slots PROVE hazardErasList'[t][i] <= globalEraClock
    <3>1. hazardErasList[t][i] <= globalEraClock /\ hazardErasList[t][other] <= globalEraClock
      BY <1>1 DEF Scheme, ErasReached
    <3> QED BY <1>2, <1>4, <3>1
  <2> QED BY <2>1
<1>6. HETypeOK'
  BY <1>1, <1>2, <1>3 DEF HETypeOK, heLocals, eraFields
<1>7. Quiet(t)
  BY <1>1, <1>2, <1>4, <1>5, <1>6 DEF Quiet, Scheme, ErasReached, heLocals, eraFields
<1> QED BY <1>2, <1>4, <1>7 DEF eraFields

LEMMA QuietClear ==
  ASSUME IInv, NEW t \in Threads, NEW from, NEW done, ClearSlot(t, from, done),
         UNCHANGED <<globalEraClock, retiredPtrList, retiredNodesCount, eraFields,
                     ptr, currEra>>
  PROVE  Quiet(t) /\ (\A n \in Nodes : newEra'[n] = newEra[n] /\ delEra'[n] = delEra[n])
<1>1. Scheme({}) /\ HETypeOK /\ ptr' \in [Threads -> NodeOrNull]
  BY DEF IInv, TypeOK, HETypeOK
<1> DEFINE S == {}
<1>2. Scheme(S)
  BY <1>1
<1> HIDE DEF S
<1>3. /\ HETypeOK'
      /\ currEra'[t] <= globalEraClock
      /\ \A i \in Slots : hazardErasList'[t][i] <= globalEraClock
      /\ \A u \in Threads : u # t => hazardErasList'[u] = hazardErasList[u]
  BY <1>1, <1>2, ClearEffect
<1> QED BY <1>1, <1>3 DEF Quiet, Scheme, ErasReached, eraFields

(* Nodes stay in use where the heap is unchanged.                          *)
LEMMA HeapKeepsNodes ==
  ASSUME UNCHANGED status,
         \A n \in Nodes : newEra'[n] = newEra[n] /\ delEra'[n] = delEra[n]
  PROVE  NodesKept
BY DEF NodesKept, Live

(* The lives of the nodes in use are what they were after a local step.    *)
LEMMA LocalLives ==
  ASSUME IInv, NEW t \in Threads, Local(t), NEW n, Live(n)
  PROVE  /\ Live(n)' /\ n \in Nodes /\ n # NULL
         /\ \A e \in Nat : WithinLife(n, e) => WithinLife(n, e)'
         /\ globalEraClock' = globalEraClock /\ globalEraClock \in Nat
         /\ status[n] = "linked" => WithinLife(n, globalEraClock)'
<1>1. /\ Live(n)' /\ n \in Nodes /\ n # NULL /\ newEra'[n] = newEra[n] /\ delEra'[n] = delEra[n]
      /\ globalEraClock' = globalEraClock
  BY HeapAssumption DEF Local, NodesKept, Live, Quiet
<1>2. Listed(n)' <=> Listed(n)
  BY LocalEffect
<1>3. \A e \in Nat : WithinLife(n, e) => WithinLife(n, e)'
  BY <1>1, <1>2 DEF WithinLife
<1>4. globalEraClock \in Nat /\ newEra[n] <= globalEraClock
  BY <1>1 DEF IInv, TypeOK, HETypeOK, Scheme, ErasReached
<1>5. status[n] = "linked" => ~Listed(n)
  BY DEF IInv, Scheme, RetiredOnce, Listed, Members, Retired
<1> QED BY <1>1, <1>2, <1>3, <1>4, <1>5 DEF WithinLife

(* What t has found after a local step: where the slots cover that.        *)
LEMMA HoldsNow ==
  ASSUME EnoughSlots, IInv, NEW t \in Threads, Local(t), NEW sp \in {0, 1, 2},
         NEW sc \in {0, 1, 2},
         Protected(t)' \subseteq {"pred", "curr"},
         "pred" \in Protected(t)' => SlotOf(t, "pred")' = sp,
         "curr" \in Protected(t)' => SlotOf(t, "curr")' = sc,
         "pred" \in Protected(t)' /\ "pred" \notin dangling'[t] /\ pred'[t] # NULL =>
           Live(pred'[t]) /\ WithinLife(pred'[t], hazardErasList'[t][sp]),
         "curr" \in Protected(t)' /\ "curr" \notin dangling'[t] /\ curr'[t] # NULL =>
           Live(curr'[t]) /\ WithinLife(curr'[t], hazardErasList'[t][sc])
  PROVE  Covered(t)'
<1>1. hazardErasList'[t][sp] \in Nat /\ hazardErasList'[t][sc] \in Nat
  BY ListSlots DEF Local, Quiet, HETypeOK
<1>2. ASSUME "pred" \in Protected(t)', "pred" \notin dangling'[t], pred'[t] # NULL
      PROVE  Live(pred[t])' /\ Covers(t, SlotOf(t, "pred"), pred[t])'
  <2>1. PICK n : n = pred'[t]
    OBVIOUS
  <2>2. PICK e : e = hazardErasList'[t][sp]
    OBVIOUS
  <2>3. Live(n)' /\ WithinLife(n, e)'
    BY <1>1, <1>2, <2>1, <2>2, LocalLives
  <2> QED BY <1>2, <2>1, <2>2, <2>3 DEF Live, Covers, WithinLife, Listed
<1>3. ASSUME "curr" \in Protected(t)', "curr" \notin dangling'[t], curr'[t] # NULL
      PROVE  Live(curr[t])' /\ Covers(t, SlotOf(t, "curr"), curr[t])'
  <2>1. PICK n : n = curr'[t]
    OBVIOUS
  <2>2. PICK e : e = hazardErasList'[t][sc]
    OBVIOUS
  <2>3. Live(n)' /\ WithinLife(n, e)'
    BY <1>1, <1>3, <2>1, <2>2, LocalLives
  <2> QED BY <1>3, <2>1, <2>2, <2>3 DEF Live, Covers, WithinLife, Listed
<1>4. SUFFICES ASSUME NEW r \in Protected(t)', r \notin dangling'[t], Named(t, r)' # NULL
               PROVE  Live(Named(t, r))' /\ Covers(t, SlotOf(t, r), Named(t, r))'
  BY DEF Covered
<1>5. r = "pred" \/ r = "curr"
  OBVIOUS
<1>6. CASE r = "pred"
  BY <1>2, <1>4, <1>6 DEF Named
<1>7. CASE r = "curr"
  BY <1>3, <1>4, <1>7 DEF Named
<1> QED BY <1>5, <1>6, <1>7

(* What t has found before a step.                                         *)
LEMMA HeldBefore ==
  ASSUME IInv, NEW t \in Threads
  PROVE  /\ "pred" \in Protected(t) /\ "pred" \notin dangling[t] /\ pred[t] # NULL =>
              /\ Live(pred[t])
              /\ WithinLife(pred[t], hazardErasList[t][SlotOf(t, "pred")])
         /\ "curr" \in Protected(t) /\ "curr" \notin dangling[t] /\ curr[t] # NULL =>
              /\ Live(curr[t])
              /\ WithinLife(curr[t], hazardErasList[t][SlotOf(t, "curr")])
         /\ "nxt" \in Protected(t) /\ "nxt" \notin dangling[t]
            /\ getUnmarked(nxt[t]) # NULL =>
              /\ Live(getUnmarked(nxt[t]))
              /\ WithinLife(getUnmarked(nxt[t]), hazardErasList[t][SlotOf(t, "nxt")])
<1>1. Covered(t)
  BY DEF IInv, ThreadInv
<1>2. /\ Named(t, "pred") = pred[t] /\ Named(t, "curr") = curr[t]
      /\ Named(t, "nxt") = getUnmarked(nxt[t])
  BY DEF Named
<1> QED BY <1>1, <1>2 DEF Covered, Covers

(* A call.                                                                 *)
LEMMA CallInv ==
  ASSUME EnoughSlots, IInv, NEW t \in Threads, Call(t)
  PROVE  IInv'
<1>1. "find.head" \in NoCurrLabels \ {"add.discard"}
  BY DEF NoCurrLabels
<1>2. ListInv'
  BY <1>1, CallAddKept, CallOtherKept, ListPcFunction DEF Call, IInv
<1>3. /\ pc[t] = "idle" /\ pc' = [pc EXCEPT ![t] = "find.head"]
      /\ UNCHANGED <<findLocals, dangling, main, heVars, heLocals>>
  BY DEF Call, CallAdd, CallOther, Goto
<1>4. /\ NodesKept /\ HETypeOK'
      /\ \A n \in Nodes : newEra'[n] <= globalEraClock /\ delEra'[n] <= globalEraClock
  <2>1. /\ HETypeOK /\ status \in [Nodes -> Statuses]
        /\ \A n \in Nodes : newEra[n] <= globalEraClock /\ delEra[n] <= globalEraClock
    BY DEF IInv, TypeOK, ListInv, LoopedTypeOK, ListTypeOK, Scheme, ErasReached
  <2>2. CASE CallAdd(t, "find.head") /\ BornNow(node'[t])
    <3>1. PICK n \in Nodes, k \in Elements : New(n, k) /\ node' = [node EXCEPT ![t] = n]
      BY <2>2 DEF CallAdd
    <3>2. node'[t] = n
      BY <3>1 DEF IInv, ListInv, LoopedTypeOK, ListTypeOK
    <3>3. /\ status[n] = "free"
          /\ \A m \in Nodes : m # n => status'[m] = status[m]
          /\ \A m \in Nodes : m # n => newEra'[m] = newEra[m] /\ delEra'[m] = delEra[m]
          /\ newEra'[n] = globalEraClock /\ delEra'[n] = 0
      BY <2>1, <2>2, <3>1, <3>2 DEF New, BornNow, HETypeOK
    <3>4. NodesKept
      BY <3>3 DEF NodesKept, Live
    <3>5. newEra' \in [Nodes -> Nat] /\ delEra' \in [Nodes -> Nat]
      BY <2>1, <2>2 DEF BornNow, HETypeOK
    <3>6. HETypeOK'
      BY <1>3, <2>1, <3>5 DEF HETypeOK, heVars, heLocals
    <3>7. ASSUME NEW m \in Nodes
          PROVE  newEra'[m] <= globalEraClock /\ delEra'[m] <= globalEraClock
      <4>1. globalEraClock \in Nat
        BY <2>1 DEF HETypeOK
      <4> QED BY <2>1, <3>3, <4>1
    <3> QED BY <3>4, <3>6, <3>7
  <2>3. CASE CallOther(t, "find.head") /\ UNCHANGED eraFields
    <3>1. NodesKept
      BY <2>3 DEF CallOther, heapVars, eraFields, NodesKept, Live
    <3>2. HETypeOK'
      BY <1>3, <2>1, <2>3 DEF HETypeOK, heVars, heLocals, eraFields
    <3> QED BY <2>1, <2>3, <3>1, <3>2 DEF eraFields
  <2> QED BY <2>2, <2>3 DEF Call
<1>5. /\ "find.head" \in Labels \ {"undefined"}
      /\ "find.head" \notin HoldingLabels \cup RemovingLabels
  BY DEF Labels, FindLabels, HoldingLabels, RemovingLabels, SameSlots
<1>6. Own(t, "find.head")
  <2>1. Quiet(t)
    BY <1>3, <1>4, QuietSame
  <2> QED BY <1>3, <1>4, <1>5, <2>1 DEF Own, findLocals
<1> QED BY <1>2, <1>5, <1>6, OwnNothing

(* The heap and the eras of its nodes are as before.                       *)
LEMMA OwnSame ==
  ASSUME IInv, NEW t \in Threads, UNCHANGED ofScheme, UNCHANGED status, UNCHANGED main,
         NEW to \in Labels \ {"undefined"}, pc' = [pc EXCEPT ![t] = to],
         pc[t] \notin {"exited", "undefined"},
         \A u \in Threads : u # t =>
           /\ pred'[u] = pred[u] /\ curr'[u] = curr[u] /\ nxt'[u] = nxt[u]
           /\ dangling'[u] = dangling[u]
  PROVE  Own(t, to)
BY QuietUnchanged, HeapKeepsNodes DEF Own

(* find loads head.                                                        *)
LEMMA FindHeadInv ==
  ASSUME EnoughSlots, IInv, NEW t \in Threads, FindHead(t)
  PROVE  IInv'
<1>1. ListInv'
  <2>1. "find.clock" \notin PassedLabels \cup {"add.discard", "add.cas"}
    BY DEF PassedLabels, HelpingLabels
  <2> QED BY <2>1, LoadsHeadKept, ListPcFunction DEF FindHead, IInv
<1>2. /\ pc[t] = "find.head" /\ pc' = [pc EXCEPT ![t] = "find.clock"]
      /\ pred' = [pred EXCEPT ![t] = NULL] /\ curr' = [curr EXCEPT ![t] = head]
      /\ nxt' = [nxt EXCEPT ![t] = NoLink]
      /\ dangling' = [dangling EXCEPT ![t] = {}]
      /\ UNCHANGED <<heapVars, main>> /\ UNCHANGED ofScheme
  BY DEF FindHead, LoadsHead, Follow, Goto
<1>3. "find.clock" \in Labels \ {"undefined"} /\ "find.clock" \notin RemovingLabels
  BY DEF Labels, FindLabels, RemovingLabels
<1>4. Own(t, "find.clock")
  <2>1. \A u \in Threads : u # t =>
           /\ pred'[u] = pred[u] /\ curr'[u] = curr[u] /\ nxt'[u] = nxt[u]
           /\ dangling'[u] = dangling[u]
    BY <1>2 DEF IInv, ListInv, LoopedTypeOK, ListTypeOK
  <2> QED BY <1>2, <1>3, <2>1, OwnSame DEF heapVars
<1>5. Local(t)
  BY <1>3, <1>4, OwnLocal
<1>6. ThreadInv(t)'
  <2>1. pc'[t] = "find.clock" /\ pred'[t] = NULL /\ curr'[t] = head
    BY <1>2 DEF IInv, TypeOK, ListInv, LoopedTypeOK, ListTypeOK
  <2>2. PICK n : n = head
    OBVIOUS
  <2>3. status[n] = "linked" /\ Live(n)
    BY <2>2 DEF IInv, ListInv, ListShape, Live
  <2>4. WithinLife(n, globalEraClock)' /\ n = curr'[t]
    BY <1>5, <2>1, <2>2, <2>3, LocalLives
  <2>5. EraFits(t, 1, curr[t])'
    BY <2>4 DEF EraFits, WithinLife, Listed
  <2>6. Protected(t)' = {}
    BY <2>1 DEF Protected, FindLabels
  <2> QED BY <2>1, <2>5, <2>6 DEF ThreadInv, Covered, LoadedFits, RemovedByOne, NextSeen,
             Removing
<1> QED BY <1>1, <1>4, <1>5, <1>6, OwnInv

(* A step of get_protected is one of find that only goes on.               *)
LEMMA ProtectList ==
  ASSUME EnoughSlots, IInv, NEW t \in Threads, NEW s \in Slots,
         NEW from \in FindLabels \cup HelpLabels, NEW to \in FindLabels \cup HelpLabels,
         \/ \E publish, done : /\ ProtectClock(t, from, publish, done, s)
                               /\ to = IF EraPublished(t, s) THEN done ELSE publish
         \/ ProtectPublish(t, from, to, s),
         UNCHANGED <<loopedVars, main>>,
         from \notin PassedLabels, to \in PassedLabels => from \in PassedLabels,
         curr[t] = NULL => to \in NoCurrLabels
  PROVE  /\ ListInv' /\ Own(t, to) /\ (to \notin RemovingLabels => Local(t))
         /\ pc[t] = from /\ pc'[t] = to
         /\ pred' = pred /\ curr' = curr /\ nxt' = nxt /\ dangling' = dangling
         /\ heapVars' = heapVars /\ globalEraClock' = globalEraClock
<1>1. Protects(t, NULL, s)
  BY DEF Protects
<1>2. Quiet(t) /\ UNCHANGED <<heapVars, eraFields>>
  BY <1>1, QuietProtects
<1>3. pc[t] = from /\ pc' = [pc EXCEPT ![t] = to]
  BY DEF ProtectClock, ProtectPublish, Goto
<1>4. pred' = pred /\ curr' = curr /\ nxt' = nxt /\ dangling' = dangling
      /\ heapVars' = heapVars /\ globalEraClock' = globalEraClock
  BY <1>2 DEF loopedVars, listVars, findLocals, Quiet
<1>5. pc'[t] = to /\ \A u \in Threads : u # t => pc'[u] = pc[u]
  BY <1>3 DEF IInv, TypeOK
<1>6. ListInv'
  <2>1. \A u \in Threads : u # t => Relabels(u)
    BY <1>5 DEF Relabels
  <2>2. Relabels(t)
    <3>1. to \notin {"add.discard", "add.cas", "remove.cas"}
      BY DEF FindLabels, HelpLabels
    <3>2. to \notin PassedLabels /\ to \notin HelpingLabels
      BY DEF PassedLabels
    <3> QED BY <1>3, <1>5, <3>1, <3>2 DEF Relabels
  <2> QED BY <1>2, <1>4, <2>1, <2>2, LabelKept DEF IInv, ListInv, LoopedTypeOK, ListTypeOK,
             loopedVars, listVars, findLocals, callVars, heapVars
<1>7. Own(t, to)
  <2>1. NodesKept
    BY <1>2, HeapKeepsNodes DEF heapVars, eraFields
  <2>2. to \in Labels \ {"undefined"} /\ from \notin {"exited", "undefined"}
    BY DEF Labels, FindLabels, HelpLabels
  <2> QED BY <1>2, <1>3, <1>4, <2>1, <2>2 DEF Own
<1>8. to \notin RemovingLabels => Local(t)
  BY <1>7, OwnLocal DEF Own
<1> QED BY <1>3, <1>4, <1>5, <1>6, <1>7, <1>8

(* find publishes the era in which it has loaded head.                     *)
LEMMA FindProtectInv ==
  ASSUME EnoughSlots, IInv, NEW t \in Threads, FindProtect(t)
  PROVE  IInv'
<1>1. 0 \in Slots /\ 1 \in Slots /\ 2 \in Slots
  BY ListSlots
<1>2. /\ {"find.clock", "find.publish", "find.next", "find.head"} \subseteq FindLabels
      /\ {"find.clock", "find.publish", "find.next", "find.head"} \cap PassedLabels = {}
      /\ {"find.clock", "find.publish", "find.next", "find.head"} \cap RemovingLabels = {}
  BY DEF FindLabels, PassedLabels, HelpingLabels, RemovingLabels
<1>3. pc[t] \in {"find.clock", "find.publish"} => curr[t] # NULL
  BY DEF IInv, ListInv, Traverses, NoCurrLabels
<1>4. CASE ProtectClock(t, "find.clock", "find.publish", "find.next", 1)
  <2> DEFINE to == IF EraPublished(t, 1) THEN "find.next" ELSE "find.publish"
  <2>1. /\ to \in FindLabels \cup HelpLabels /\ to \notin PassedLabels
        /\ "find.clock" \in FindLabels \cup HelpLabels
        /\ "find.clock" \notin PassedLabels /\ to \notin RemovingLabels
    BY <1>2
  <2>2. pc[t] = "find.clock" /\ hazardErasList' = hazardErasList
    BY <1>4 DEF ProtectClock, Goto, heVars
  <2>3. /\ ListInv' /\ Own(t, to) /\ Local(t) /\ pc'[t] = to
        /\ pred' = pred /\ curr' = curr /\ nxt' = nxt /\ dangling' = dangling
    <3>1. UNCHANGED <<loopedVars, main>>
      BY DEF FindProtect
    <3>2. \E publish, done : /\ ProtectClock(t, "find.clock", publish, done, 1)
                             /\ to = IF EraPublished(t, 1) THEN done ELSE publish
      BY <1>4
    <3> HIDE DEF to
    <3> QED BY <1>1, <1>3, <2>1, <2>2, <3>1, <3>2, ProtectList
  <2>4. CASE EraPublished(t, 1)
    <3>1. pc'[t] = "find.next" /\ globalEraClock = hazardErasList[t][1]
      BY <2>3, <2>4 DEF EraPublished
    <3>2. pred[t] = NULL /\ ("curr" \notin dangling[t] => EraFits(t, 1, curr[t]))
      BY <2>2 DEF IInv, ThreadInv, LoadedFits
    <3>3. "curr" \notin dangling[t] =>
            Live(curr[t]) /\ WithinLife(curr[t], hazardErasList[t][1])
      BY <2>2, <3>1, <3>2, ListSeen DEF IInv, EraFits
    <3>4. /\ Protected(t)' = {"pred", "curr"}
          /\ SlotOf(t, "pred")' = 2 /\ SlotOf(t, "curr")' = 1
      BY <3>1 DEF Protected, SlotOf, FindLabels
    <3>5. Covered(t)'
      BY <2>2, <2>3, <3>2, <3>3, <3>4, HoldsNow
    <3>6. ThreadInv(t)'
      BY <3>1, <3>5 DEF ThreadInv, LoadedFits, RemovedByOne, NextSeen, Removing
    <3> QED BY <2>3, <3>6, OwnInv
  <2>5. CASE ~EraPublished(t, 1)
    <3>1. to = "find.publish" /\ to \notin HoldingLabels \cup RemovingLabels
      BY <2>5 DEF HoldingLabels, RemovingLabels, SameSlots
    <3> QED BY <2>3, <3>1, OwnNothing DEF Own
  <2> QED BY <2>4, <2>5
<1>5. CASE ProtectPublish(t, "find.publish", "find.head", 1)
  <2>1. "find.head" \in NoCurrLabels
    BY DEF NoCurrLabels
  <2>2. ListInv' /\ Own(t, "find.head")
    <3>1. UNCHANGED <<loopedVars, main>>
      BY DEF FindProtect
    <3> QED BY <1>1, <1>2, <1>5, <2>1, <3>1, ProtectList
  <2>3. "find.head" \notin HoldingLabels \cup RemovingLabels
    BY DEF HoldingLabels, RemovingLabels, SameSlots
  <2> QED BY <2>2, <2>3, OwnNothing DEF Own
<1> QED BY <1>4, <1>5 DEF FindProtect

(* Where find goes from curr to next, with the same pred and curr, whose   *)
(* eras are in slots 2 and 1.                                              *)
WalkLabels == {"find.next", "next.clock", "next.publish", "find.again", "find.pred",
               "find.misread", "misread.clock", "misread.publish"}

LEMMA WalksOn ==
  ASSUME EnoughSlots, IInv, NEW t \in Threads, Local(t), pc[t] \in WalkLabels,
         pc'[t] \in WalkLabels \cup {"add.cas"},
         pred'[t] = pred[t], curr'[t] = curr[t],
         dangling[t] \cap {"pred", "curr"} \subseteq dangling'[t],
         hazardErasList'[t][1] = hazardErasList[t][1],
         hazardErasList'[t][2] = hazardErasList[t][2],
         LoadedFits(t)'
  PROVE  ThreadInv(t)'
<1>1. /\ Protected(t) = {"pred", "curr"}
      /\ SlotOf(t, "pred") = 2 /\ SlotOf(t, "curr") = 1
  BY DEF WalkLabels, Protected, SlotOf, FindLabels
<1>2. /\ Protected(t)' \subseteq {"pred", "curr"}
      /\ SlotOf(t, "pred")' = 2 /\ SlotOf(t, "curr")' = 1
  BY DEF WalkLabels, Protected, SlotOf, FindLabels
<1>3. /\ "pred" \notin dangling'[t] /\ pred'[t] # NULL =>
           Live(pred'[t]) /\ WithinLife(pred'[t], hazardErasList'[t][2])
      /\ "curr" \notin dangling'[t] /\ curr'[t] # NULL =>
           Live(curr'[t]) /\ WithinLife(curr'[t], hazardErasList'[t][1])
  BY <1>1, HeldBefore
<1>4. Covered(t)'
  BY <1>2, <1>3, HoldsNow
<1>5. RemovedByOne(t)'
  BY DEF WalkLabels, RemovedByOne, Removing
<1> QED BY <1>4, <1>5 DEF ThreadInv

(* next is loaded from curr.                                               *)
LEMMA FindNextInv ==
  ASSUME EnoughSlots, IInv, NEW t \in Threads, ~Strays(t), FindNext(t)
  PROVE  IInv'
<1>1. PICK from \in {"find.next", "find.misread"}, to \in {"next.clock", "misread.clock"} :
        /\ Goto(t, from, to)
        /\ IF to = "next.clock" THEN LoadsNext(t, Link(curr[t])) ELSE LoadsNext(t, Misread)
  BY DEF FindNext
<1>2. /\ pc[t] = from /\ pc' = [pc EXCEPT ![t] = to]
      /\ UNCHANGED ofScheme
  BY <1>1 DEF FindNext, Goto
<1>3. "curr" \notin dangling[t]
  BY <1>2, UsesOf
<1>4. ListInv'
  <2>1. /\ to \notin PassedLabels \cup {"add.discard", "add.cas"}
        /\ from \notin NoCurrLabels
    BY DEF PassedLabels, HelpingLabels, NoCurrLabels
  <2>2. LoadsNext(t, Link(curr[t])) \/ LoadsNext(t, Misread)
    BY <1>1
  <2> QED BY <1>1, <1>3, <2>1, <2>2, LoadsNextKept, ListPcFunction DEF IInv
<1>5. /\ nxt' = [nxt EXCEPT ![t] = IF to = "next.clock" THEN Link(curr[t]) ELSE Misread]
      /\ dangling' = [dangling EXCEPT ![t] = @ \ {"nxt"}]
      /\ UNCHANGED <<heapVars, main, pred, curr>>
  BY <1>1 DEF LoadsNext
<1>6. /\ to \in Labels \ {"undefined"} /\ to \notin RemovingLabels
      /\ from \notin {"exited", "undefined"}
  BY DEF Labels, FindLabels, HelpLabels, RemovingLabels
<1>7. Own(t, to) /\ Local(t)
  <2>1. \A u \in Threads : u # t => nxt'[u] = nxt[u] /\ dangling'[u] = dangling[u]
    BY <1>5 DEF IInv, ListInv, LoopedTypeOK, ListTypeOK
  <2>2. UNCHANGED <<status, main>>
    BY <1>5 DEF heapVars
  <2>3. Own(t, to)
    BY <1>2, <1>5, <1>6, <2>1, <2>2, OwnSame
  <2> QED BY <1>6, <2>3, OwnLocal
<1>8. /\ pc'[t] = to /\ pred' = pred /\ curr' = curr
      /\ nxt'[t] = IF to = "next.clock" THEN Link(curr[t]) ELSE Misread
      /\ dangling[t] \cap {"pred", "curr"} \subseteq dangling'[t]
      /\ "curr" \notin dangling'[t] /\ status' = status
  BY <1>2, <1>3, <1>5 DEF IInv, TypeOK, ListInv, LoopedTypeOK, ListTypeOK, heapVars
<1>9. LoadedFits(t)'
  <2>1. CASE to = "misread.clock"
    BY <1>8, <2>1 DEF LoadedFits, NextSeen, Misread
  <2>2. CASE to = "next.clock"
    <3>1. getUnmarked(nxt[t])' = next[curr[t]]
      BY <1>8, <2>2, LinkParts DEF getUnmarked
    <3>2. ASSUME status[curr[t]] = "linked"
          PROVE  EraFits(t, 0, getUnmarked(nxt[t]))'
      <4>1. curr[t] # NULL
        BY <1>2 DEF IInv, ListInv, Traverses, NoCurrLabels
      <4>2. Live(curr[t])
        BY <1>3, <4>1 DEF IInv, ListInv, Traverses
      <4>3. PICK n : n = next[curr[t]]
        OBVIOUS
      <4>4. n \in Nodes /\ status[n] = "linked"
        BY <3>2, <4>2, <4>3, LinkOfLive DEF IInv
      <4>5. WithinLife(n, globalEraClock)'
        BY <1>7, <4>4, LocalLives DEF Live
      <4>6. n = getUnmarked(nxt[t])'
        BY <3>1, <4>3
      <4> QED BY <4>5, <4>6 DEF EraFits, WithinLife, Listed
    <3>3. NextSeen(t)' => status[curr[t]] = "linked"
      BY <1>8 DEF NextSeen
    <3> QED BY <1>8, <2>2, <3>2, <3>3 DEF LoadedFits
  <2> QED BY <2>1, <2>2
<1>10. hazardErasList' = hazardErasList
  BY <1>2 DEF ofScheme, heVars
<1>11. ThreadInv(t)'
  BY <1>2, <1>7, <1>8, <1>9, <1>10, WalksOn DEF WalkLabels
<1> QED BY <1>4, <1>7, <1>11, OwnInv

(* The era in which next was loaded is published, or is already.           *)
LEMMA FindProtectNextInv ==
  ASSUME EnoughSlots, IInv, NEW t \in Threads, FindProtectNext(t)
  PROVE  IInv'
<1>1. 0 \in Slots /\ 1 \in Slots /\ 2 \in Slots
  BY ListSlots
<1>2. PICK clock \in {"next.clock", "misread.clock"},
           publish \in {"next.publish", "misread.publish"},
           load \in {"find.next", "find.misread"} :
        /\ \/ ProtectClock(t, clock, publish, "find.again", 0)
           \/ ProtectPublish(t, publish, load, 0)
        /\ clock = "misread.clock" <=> publish = "misread.publish"
  BY DEF FindProtectNext, ProtectNext
<1>3. UNCHANGED <<loopedVars, main>>
  BY DEF FindProtectNext
<1>4. \A to \in {clock, publish, load, "find.again"} :
        /\ to \in FindLabels \cup HelpLabels /\ to \in WalkLabels
        /\ to \notin PassedLabels /\ to \notin RemovingLabels
        /\ to \notin NoCurrLabels
  BY DEF FindLabels, HelpLabels, PassedLabels, HelpingLabels, RemovingLabels,
     NoCurrLabels, WalkLabels
<1>5. pc[t] \in {clock, publish} => curr[t] # NULL
  BY <1>4 DEF IInv, ListInv, Traverses
<1>6. CASE ProtectClock(t, clock, publish, "find.again", 0)
  <2> DEFINE to == IF EraPublished(t, 0) THEN "find.again" ELSE publish
  <2>1. pc[t] = clock /\ hazardErasList' = hazardErasList
    BY <1>6 DEF ProtectClock, Goto, heVars
  <2>2. /\ \E p, done : /\ ProtectClock(t, clock, p, done, 0)
                        /\ to = IF EraPublished(t, 0) THEN done ELSE p
        /\ to \in {publish, "find.again"}
        /\ to = "find.again" => EraPublished(t, 0)
    BY <1>6
  <2> HIDE DEF to
  <2>3. /\ ListInv' /\ Own(t, to) /\ Local(t) /\ pc'[t] = to
        /\ pred' = pred /\ curr' = curr /\ nxt' = nxt /\ dangling' = dangling
        /\ heapVars' = heapVars
    <3>1. clock \in FindLabels \cup HelpLabels /\ to \in FindLabels \cup HelpLabels
          /\ clock \notin PassedLabels /\ to \notin PassedLabels
          /\ to \notin RemovingLabels /\ curr[t] # NULL
      BY <1>4, <1>5, <2>1, <2>2
    <3> QED BY <1>1, <1>3, <2>2, <3>1, ProtectList
  <2>4. /\ LoadedFits(t) /\ status' = status
        /\ getUnmarked(nxt[t])' = getUnmarked(nxt[t])
    BY <2>3 DEF IInv, ThreadInv, heapVars, getUnmarked
  <2>5. clock = "misread.clock" => nxt[t] = Misread /\ getUnmarked(nxt[t]) = NULL
    <3>1. clock = "misread.clock" => nxt[t] = Misread
      BY <2>1, <2>4 DEF LoadedFits
    <3> QED BY <3>1, LinkParts
  <2>6. ASSUME NextSeen(t)' PROVE to = "find.again" /\ Covers(t, 0, getUnmarked(nxt[t]))'
    <3>1. to = "find.again" /\ EraPublished(t, 0)
      BY <2>2, <2>3, <2>6 DEF NextSeen
    <3>2. clock = "next.clock"
      BY <2>4, <2>5, <2>6 DEF NextSeen
    <3>3. NextSeen(t)
      BY <2>1, <2>3, <2>4, <2>6, <3>2 DEF NextSeen
    <3>4. PICK n : n = getUnmarked(nxt[t])
      OBVIOUS
    <3>5. Live(n) /\ EraFits(t, 0, n)
      BY <2>1, <2>4, <3>2, <3>3, <3>4, ListSeen DEF LoadedFits, IInv
    <3>6. WithinLife(n, globalEraClock) /\ globalEraClock = hazardErasList[t][0]
      BY <3>1, <3>5 DEF EraFits, EraPublished
    <3>7. WithinLife(n, globalEraClock)' /\ globalEraClock' = globalEraClock
      <4>1. /\ \A e \in Nat : WithinLife(n, e) => WithinLife(n, e)'
            /\ globalEraClock' = globalEraClock /\ globalEraClock \in Nat
        BY <2>3, <3>5, LocalLives
      <4> QED BY <3>6, <4>1 DEF WithinLife
    <3>8. Covers(t, 0, n)'
      BY <2>1, <3>6, <3>7 DEF Covers, WithinLife, Listed
    <3>9. n = getUnmarked(nxt[t])'
      BY <2>4, <3>4
    <3> QED BY <3>1, <3>8, <3>9 DEF Covers, WithinLife, Listed
  <2>7. pc'[t] \in {"misread.clock", "misread.publish"} => nxt'[t] = Misread
    BY <1>2, <2>2, <2>3, <2>5
  <2>8. pc'[t] # "find.clock" /\ (pc'[t] # "next.clock" \/ ~NextSeen(t)')
    BY <2>2, <2>3, <2>6
  <2>9. LoadedFits(t)'
    BY <2>6, <2>7, <2>8 DEF LoadedFits, Misread
  <2>10. ThreadInv(t)'
    BY <1>4, <2>1, <2>2, <2>3, <2>9, WalksOn
  <2> QED BY <2>3, <2>10, OwnInv
<1>7. CASE ProtectPublish(t, publish, load, 0)
  <2>1. pc[t] = publish
    BY <1>7 DEF ProtectPublish, Goto
  <2>2. /\ ListInv' /\ Own(t, load) /\ Local(t) /\ pc'[t] = load
        /\ pred' = pred /\ curr' = curr /\ nxt' = nxt /\ dangling' = dangling
    BY <1>1, <1>3, <1>4, <1>5, <1>7, <2>1, ProtectList
  <2>3. /\ hazardErasList'[t][1] = hazardErasList[t][1]
        /\ hazardErasList'[t][2] = hazardErasList[t][2]
    <3>1. hazardErasList \in [Threads -> [Slots -> Nat]]
      BY DEF IInv, TypeOK, HETypeOK
    <3> QED BY <1>1, <1>7, <3>1 DEF ProtectPublish
  <2>4. LoadedFits(t)'
    BY <2>2 DEF LoadedFits, NextSeen
  <2>5. ThreadInv(t)'
    BY <1>4, <2>1, <2>2, <2>3, <2>4, WalksOn
  <2> QED BY <2>2, <2>5, OwnInv
<1> QED BY <1>2, <1>6, <1>7

(* find starts again.                                                      *)
LEMMA TryAgainInv ==
  ASSUME EnoughSlots, IInv, NEW t \in Threads,
         NEW from \in Labels \ {"exited", "undefined"},
         TryAgain(t, from, "find.head"), UNCHANGED ofScheme
  PROVE  IInv'
<1>1. "find.head" \in NoCurrLabels \ {"add.discard"}
  BY DEF NoCurrLabels
<1>2. ListInv'
  BY <1>1, TryAgainKept, ListPcFunction DEF IInv
<1>3. /\ pc[t] = from /\ pc' = [pc EXCEPT ![t] = "find.head"] /\ Forget(t)
      /\ dangling' = [dangling EXCEPT ![t] = {}]
      /\ UNCHANGED <<heapVars, main>>
  BY DEF TryAgain, Goto
<1>4. /\ "find.head" \in Labels \ {"undefined"}
      /\ "find.head" \notin HoldingLabels \cup RemovingLabels
  BY DEF Labels, FindLabels, HoldingLabels, RemovingLabels, SameSlots
<1>5. Own(t, "find.head")
  <2>1. \A u \in Threads : u # t =>
          /\ pred'[u] = pred[u] /\ curr'[u] = curr[u] /\ nxt'[u] = nxt[u]
          /\ dangling'[u] = dangling[u]
    BY <1>3 DEF Forget, IInv, ListInv, LoopedTypeOK, ListTypeOK
  <2> QED BY <1>3, <1>4, <2>1, OwnSame DEF heapVars
<1> QED BY <1>2, <1>4, <1>5, OwnNothing

(* curr->next is found to be next again.                                   *)
LEMMA ValidatesInv ==
  ASSUME EnoughSlots, IInv, NEW t \in Threads, ~Strays(t),
         Validates(t, "find.head"), UNCHANGED ofScheme
  PROVE  IInv'
<1>1. CASE TryAgain(t, "find.again", "find.head")
  <2>1. "find.again" \in Labels \ {"exited", "undefined"}
    BY DEF Labels, FindLabels
  <2> QED BY <1>1, <2>1, TryAgainInv
<1>2. CASE ~TryAgain(t, "find.again", "find.head")
  <2>1. /\ pc[t] = "find.again" /\ pc' = [pc EXCEPT ![t] = "find.pred"]
        /\ Link(curr[t]) = nxt[t] /\ getUnmarked(nxt[t]) # tail
        /\ UNCHANGED <<heapVars, loopedVars, main>>
    BY <1>2 DEF Validates, Goto
  <2>2. ListInv'
    <3>1. "find.head" \in NoCurrLabels \ {"add.discard"}
      BY DEF NoCurrLabels
    <3> QED BY <3>1, ValidatesKept, ListPcFunction DEF IInv
  <2>3. "find.pred" \in Labels \ {"undefined"} /\ "find.pred" \notin RemovingLabels
    BY DEF Labels, FindLabels, RemovingLabels
  <2>4. Own(t, "find.pred") /\ Local(t)
    <3>1. Own(t, "find.pred")
      BY <2>1, <2>3, OwnSame DEF loopedVars, listVars, findLocals, heapVars
    <3> QED BY <2>3, <3>1, OwnLocal
  <2>5. Steady(t)
    <3>1. pc'[t] = "find.pred"
      BY <2>1 DEF IInv, TypeOK
    <3>2. \A n \in Nodes : Live(n) => Live(n)'
      BY <2>4 DEF Local, NodesKept
    <3> QED BY <2>1, <3>1, <3>2 DEF Steady, loopedVars, listVars, findLocals, ofScheme, heVars
  <2>6. ThreadInv(t)'
    <3>1. Lifelong
      BY <2>4, LocalEffect DEF Step
    <3>2. Covered(t)' /\ LoadedFits(t)'
      BY <2>5, <3>1, SteadyKept DEF IInv, TypeOK, Scheme, ThreadInv
    <3>3. pc'[t] = "find.pred"
      BY <2>1 DEF IInv, TypeOK
    <3> QED BY <3>2, <3>3 DEF ThreadInv, RemovedByOne, Removing
  <2> QED BY <2>2, <2>4, <2>6, OwnInv
<1> QED BY <1>1, <1>2

(* What find has when it finds *pred = curr: slot 1 covers curr, which is  *)
(* in the list, and slot 0 what followed it when its era was published.    *)
LEMMA FoundAtPred ==
  ASSUME EnoughSlots, IInv, NEW t \in Threads, ~Strays(t), pc[t] = "find.pred",
         PredIsCurr(t)
  PROVE  /\ curr[t] \in Nodes /\ status[curr[t]] = "linked" /\ curr[t] # tail
         /\ getUnmarked(nxt[t]) # NULL /\ dangling[t] \subseteq {"nxt"}
         /\ Live(curr[t]) /\ WithinLife(curr[t], hazardErasList[t][1])
         /\ pred[t] # NULL =>
              Live(pred[t]) /\ WithinLife(pred[t], hazardErasList[t][2])
         /\ "nxt" \notin dangling[t] =>
              /\ Live(getUnmarked(nxt[t]))
              /\ WithinLife(getUnmarked(nxt[t]), hazardErasList[t][0])
<1>1. /\ curr[t] \in Nodes /\ status[curr[t]] = "linked" /\ curr[t] # tail
      /\ {"pred", "curr"} \cap dangling[t] = {} /\ getUnmarked(nxt[t]) # NULL
      /\ "nxt" \notin dangling[t] => Live(getUnmarked(nxt[t]))
  BY NextOfLinked DEF IInv
<1>2. dangling[t] \subseteq Roles /\ curr[t] # NULL
  BY <1>1, ListLocals, HeapAssumption DEF IInv
<1>3. /\ Protected(t) = {"pred", "curr"}
      /\ SlotOf(t, "pred") = 2 /\ SlotOf(t, "curr") = 1
  BY DEF Protected, SlotOf, FindLabels
<1>4. ASSUME "nxt" \notin dangling[t]
      PROVE  WithinLife(getUnmarked(nxt[t]), hazardErasList[t][0])
  <2>1. NextSeen(t)
    BY <1>1, <1>4 DEF NextSeen
  <2> QED BY <2>1 DEF IInv, ThreadInv, LoadedFits, Covers
<1> QED BY <1>1, <1>2, <1>3, <1>4, HeldBefore DEF Roles

(* What it has found stays with it when it stays at curr.                  *)
LEMMA StaysAtCurr ==
  ASSUME EnoughSlots, IInv, NEW t \in Threads, ~Strays(t), pc[t] = "find.pred",
         PredIsCurr(t), Local(t), pc'[t] \in {"find.help", "remove.mark"},
         hazardErasList' = hazardErasList,
         pred'[t] = pred[t], curr'[t] = curr[t], nxt'[t] = nxt[t],
         dangling'[t] = dangling[t]
  PROVE  ThreadInv(t)'
<1>1. /\ Protected(t)' = Roles
      /\ SlotOf(t, "pred")' = 2 /\ SlotOf(t, "curr")' = 1 /\ SlotOf(t, "nxt")' = 0
  BY DEF Protected, SlotOf, FindLabels, Roles
<1>2. /\ hazardErasList[t][0] \in Nat /\ hazardErasList[t][1] \in Nat
      /\ hazardErasList[t][2] \in Nat
  BY ListSlots DEF IInv, TypeOK, HETypeOK
<1>3. ASSUME NEW n, NEW s \in {0, 1, 2}, Live(n), WithinLife(n, hazardErasList[t][s])
      PROVE  Live(n)' /\ Covers(t, s, n)'
  <2>1. PICK e : e = hazardErasList[t][s]
    OBVIOUS
  <2>2. Live(n)' /\ WithinLife(n, e)'
    BY <1>2, <1>3, <2>1, LocalLives
  <2> QED BY <2>1, <2>2 DEF Covers, WithinLife, Listed
<1>4. pred[t] # NULL => Live(pred[t])' /\ Covers(t, 2, pred[t])'
  <2>1. PICK n : n = pred[t]
    OBVIOUS
  <2>2. n # NULL => Live(n)' /\ Covers(t, 2, n)'
    BY <1>3, <2>1, FoundAtPred
  <2> QED BY <2>1, <2>2 DEF Live, Covers, WithinLife, Listed
<1>5. Live(curr[t])' /\ Covers(t, 1, curr[t])'
  <2>1. PICK n : n = curr[t]
    OBVIOUS
  <2>2. Live(n)' /\ Covers(t, 1, n)'
    BY <1>3, <2>1, FoundAtPred
  <2> QED BY <2>1, <2>2 DEF Live, Covers, WithinLife, Listed
<1>6. "nxt" \notin dangling'[t] =>
        Live(getUnmarked(nxt[t]))' /\ Covers(t, 0, getUnmarked(nxt[t]))'
  <2>1. PICK n : n = getUnmarked(nxt[t])
    OBVIOUS
  <2>2. "nxt" \notin dangling[t] => Live(n)' /\ Covers(t, 0, n)'
    BY <1>3, <2>1, FoundAtPred
  <2>3. n = getUnmarked(nxt[t])'
    BY <2>1 DEF getUnmarked
  <2> QED BY <2>2, <2>3 DEF Live, Covers, WithinLife, Listed
<1>7. Covered(t)'
  <2>1. SUFFICES ASSUME NEW r \in Roles, r \notin dangling'[t], Named(t, r)' # NULL
                 PROVE  Live(Named(t, r))' /\ Covers(t, SlotOf(t, r), Named(t, r))'
    BY <1>1 DEF Covered
  <2>2. CASE r = "pred"
    BY <1>1, <1>4, <2>1, <2>2 DEF Named, Live, Covers, WithinLife, Listed
  <2>3. CASE r = "curr"
    BY <1>1, <1>5, <2>1, <2>3 DEF Named, Live, Covers, WithinLife, Listed
  <2>4. CASE r = "nxt"
    BY <1>1, <1>6, <2>1, <2>4 DEF Named, Live, Covers, WithinLife, Listed
  <2> QED BY <2>2, <2>3, <2>4 DEF Roles
<1> QED BY <1>7 DEF ThreadInv, LoadedFits, NextSeen, RemovedByOne, Removing

(* *pred is compared with curr, and curr is passed or is to be unlinked.   *)
LEMMA ComparesInv ==
  ASSUME EnoughSlots, IInv, NEW t \in Threads, ~Strays(t),
         Compares(t, "find.head", "find.slot2"), UNCHANGED ofScheme
  PROVE  IInv'
<1>1. CASE TryAgain(t, "find.pred", "find.head")
  <2>1. "find.pred" \in Labels \ {"exited", "undefined"}
    BY DEF Labels, FindLabels
  <2> QED BY <1>1, <2>1, TryAgainInv
<1>2. ListInv' /\ pc[t] = "find.pred" /\ hazardErasList' = hazardErasList
  <2>1. "find.head" \in NoCurrLabels \ {"add.discard"}
    BY DEF NoCurrLabels
  <2>2. "find.slot2" \notin PassedLabels \cup {"add.discard", "add.cas"}
    BY DEF PassedLabels, HelpingLabels
  <2> QED BY <2>1, <2>2, ComparesKept, ListPcFunction DEF IInv, Compares, ofScheme, heVars
<1>3. CASE /\ PredIsCurr(t)
           /\ Goto(t, "find.pred", "find.help")
           /\ UNCHANGED <<heapVars, loopedVars, main>>
  <2>1. "find.help" \in Labels \ {"undefined"} /\ "find.help" \notin RemovingLabels
    BY DEF Labels, HelpLabels, RemovingLabels
  <2>2. /\ UNCHANGED <<status, main, pred, curr, nxt, dangling>>
        /\ pc' = [pc EXCEPT ![t] = "find.help"]
    BY <1>3 DEF Goto, heapVars, loopedVars, listVars, findLocals
  <2>3. Own(t, "find.help")
    BY <1>2, <2>1, <2>2, OwnSame
  <2>4. Local(t)
    BY <2>1, <2>3, OwnLocal
  <2>5. pc'[t] = "find.help"
    BY <2>2 DEF IInv, TypeOK
  <2>6. ThreadInv(t)'
    BY <1>2, <1>3, <2>2, <2>4, <2>5, StaysAtCurr
  <2> QED BY <1>2, <2>3, <2>4, <2>6, OwnInv
<1>4. CASE /\ PredIsCurr(t)
           /\ Goto(t, "find.pred", "find.slot2")
           /\ MovesTo(t, curr[t])
  <2> DEFINE N == getUnmarked(nxt[t])
             D == (IF curr[t] = pred[t] THEN dangling[t] \cap {"pred"} ELSE {})
                    \cup (IF "nxt" \in dangling[t] THEN {"curr"} ELSE {})
  <2>1. /\ pc' = [pc EXCEPT ![t] = "find.slot2"]
        /\ pred' = [pred EXCEPT ![t] = curr[t]] /\ curr' = [curr EXCEPT ![t] = N]
        /\ nxt' = [nxt EXCEPT ![t] = NoLink]
        /\ dangling' = [dangling EXCEPT ![t] = D]
        /\ UNCHANGED <<heapVars, main>>
    BY <1>4 DEF MovesTo, Follow, Goto
  <2>2. "find.slot2" \in Labels \ {"undefined"} /\ "find.slot2" \notin RemovingLabels
    BY DEF Labels, FindLabels, RemovingLabels
  <2>3. Own(t, "find.slot2")
    <3>1. \A u \in Threads : u # t =>
            /\ pred'[u] = pred[u] /\ curr'[u] = curr[u] /\ nxt'[u] = nxt[u]
            /\ dangling'[u] = dangling[u]
      BY <2>1 DEF IInv, ListInv, LoopedTypeOK, ListTypeOK
    <3> QED BY <1>2, <2>1, <2>2, <3>1, OwnSame DEF heapVars
  <2>4. Local(t)
    BY <2>2, <2>3, OwnLocal
  <2>5. /\ pc'[t] = "find.slot2" /\ pred'[t] = curr[t] /\ curr'[t] = N
        /\ dangling'[t] = D
    BY <2>1 DEF IInv, TypeOK, ListInv, LoopedTypeOK, ListTypeOK
  <2>6. /\ Protected(t)' = {"pred", "curr"}
        /\ SlotOf(t, "pred")' = 1 /\ SlotOf(t, "curr")' = 0
    BY <2>5 DEF Protected, SlotOf, FindLabels
  <2>7. /\ Live(curr[t]) /\ WithinLife(curr[t], hazardErasList[t][1])
        /\ "nxt" \notin dangling[t] =>
             Live(N) /\ WithinLife(N, hazardErasList[t][0])
    BY <1>2, <1>4, FoundAtPred
  <2>8. "curr" \notin D => "nxt" \notin dangling[t]
    OBVIOUS
  <2>9. Covered(t)'
    <3> HIDE DEF D, N
    <3>1. /\ Live(pred'[t]) /\ WithinLife(pred'[t], hazardErasList'[t][1])
          /\ "curr" \notin dangling'[t] =>
               Live(curr'[t]) /\ WithinLife(curr'[t], hazardErasList'[t][0])
      BY <1>2, <2>5, <2>7, <2>8 DEF N
    <3> QED BY <2>4, <2>6, <3>1, HoldsNow
  <2>10. ThreadInv(t)'
    BY <2>5, <2>9 DEF ThreadInv, LoadedFits, NextSeen, RemovedByOne, Removing
  <2> QED BY <1>2, <2>3, <2>4, <2>10, OwnInv
<1> QED BY <1>1, <1>3, <1>4 DEF Compares

(* find returns.                                                           *)
LEMMA EndsInv ==
  ASSUME EnoughSlots, IInv, NEW t \in Threads, ~Strays(t), NEW found \in BOOLEAN,
         pc[t] \in {"find.again", "find.pred"},
         found => pc[t] = "find.pred" /\ PredIsCurr(t),
         Ends(t, found, AfterFind(t, found, Done(t))), UNCHANGED ofScheme
  PROVE  IInv'
<1> DEFINE to == AfterFind(t, found, Done(t))
<1>1. ListInv'
  <2>1. Done(t) \in NoCurrLabels \ {"add.discard"}
    BY DEF Done, NoCurrLabels
  <2>2. /\ pc[t] \notin NoCurrLabels \cup HelpingLabels \cup {"remove.cas"}
        /\ found => pc[t] \in PassedLabels
    BY DEF NoCurrLabels, HelpingLabels, PassedLabels
  <2> QED BY <2>1, <2>2, EndsKept, ListPcFunction DEF IInv
<1>2. /\ pc' = [pc EXCEPT ![t] = to] /\ FindReturns(t, found, nxt[t])
      /\ dangling' = [dangling EXCEPT ![t] = IF DecidedBy(t, found) THEN {} ELSE @]
      /\ UNCHANGED <<status, main>>
  BY DEF Ends
<1>3. \/ to \in {"add.discard", "return", "clear"}
      \/ to = "add.cas" /\ op[t] = "add" /\ ~found
      \/ to = "remove.mark" /\ op[t] = "remove" /\ found
  BY DEF AfterFind, Done
<1>4. to \in Labels \ {"undefined"} /\ to \notin RemovingLabels
  BY <1>3 DEF Labels, CallLabels, RemovingLabels
<1> HIDE DEF to
<1>5. \A u \in Threads : u # t =>
        /\ pred'[u] = pred[u] /\ curr'[u] = curr[u] /\ nxt'[u] = nxt[u]
        /\ dangling'[u] = dangling[u]
  BY <1>2 DEF FindReturns, Forget, IInv, ListInv, LoopedTypeOK, ListTypeOK
<1>6. Own(t, to)
  BY <1>2, <1>4, <1>5, OwnSame
<1>7. hazardErasList' = hazardErasList /\ pc'[t] = to /\ Local(t)
  BY <1>2, <1>4, <1>6, OwnLocal DEF ofScheme, heVars, IInv, TypeOK
<1>8. CASE to \in {"add.discard", "return", "clear"}
  <2>1. to \notin HoldingLabels
    BY <1>8 DEF HoldingLabels, SameSlots, FindLabels
  <2> QED BY <1>1, <1>4, <1>6, <2>1, OwnNothing
<1>9. CASE to = "remove.mark"
  <2>1. ~DecidedBy(t, found) /\ found
    BY <1>3, <1>9 DEF DecidedBy
  <2>2. /\ pred'[t] = pred[t] /\ curr'[t] = curr[t]
        /\ nxt'[t] = nxt[t] /\ dangling'[t] = dangling[t]
    BY <1>2, <2>1 DEF FindReturns, IInv, TypeOK, ListInv, LoopedTypeOK, ListTypeOK
  <2>3. ThreadInv(t)'
    BY <1>7, <1>9, <2>1, <2>2, StaysAtCurr
  <2> QED BY <1>1, <1>6, <1>7, <2>3, OwnInv
<1>10. CASE to = "add.cas"
  <2>1. ~DecidedBy(t, found)
    BY <1>3, <1>10 DEF DecidedBy
  <2>2. /\ pred'[t] = pred[t] /\ curr'[t] = curr[t] /\ dangling'[t] = dangling[t]
    BY <1>2, <2>1 DEF FindReturns, IInv, TypeOK, ListInv, LoopedTypeOK, ListTypeOK
  <2>3. LoadedFits(t)'
    BY <1>7, <1>10 DEF LoadedFits, NextSeen
  <2>4. ThreadInv(t)'
    BY <1>7, <1>10, <2>2, <2>3, WalksOn DEF WalkLabels
  <2> QED BY <1>1, <1>6, <1>7, <2>4, OwnInv
<1> QED BY <1>3, <1>8, <1>9, <1>10

(* find compares what it has loaded.                                       *)
LEMMA FindCompareInv ==
  ASSUME EnoughSlots, IInv, NEW t \in Threads, ~Strays(t), FindCompare(t)
  PROVE  IInv'
<1>1. UNCHANGED ofScheme
  BY DEF FindCompare
<1>2. CASE Validates(t, "find.head") \/ Compares(t, "find.head", "find.slot2")
  BY <1>1, <1>2, ValidatesInv, ComparesInv
<1>3. CASE AtTail(t) /\ Ends(t, FALSE, AfterFind(t, FALSE, Done(t)))
  BY <1>1, <1>3, EndsInv DEF AtTail
<1>4. CASE AtKey(t) /\ Ends(t, FoundAtCurr(t), AfterFind(t, FoundAtCurr(t), Done(t)))
  <2>1. FoundAtCurr(t) \in BOOLEAN /\ pc[t] = "find.pred" /\ PredIsCurr(t)
    BY <1>4 DEF FoundAtCurr, AtKey
  <2> QED BY <1>1, <1>4, <2>1, EndsInv
<1> QED BY <1>2, <1>3, <1>4 DEF FindCompare

(* The eras of pred and curr are handed over from slot to slot.            *)
LEMMA FindSlotsInv ==
  ASSUME EnoughSlots, IInv, NEW t \in Threads, FindSlots(t)
  PROVE  IInv'
<1>1. 0 \in Slots /\ 1 \in Slots /\ 2 \in Slots
  BY ListSlots
<1>2. PICK from \in {"find.slot2", "find.slot1"}, to \in {"find.slot1", "find.next"},
           s \in {1, 2}, other \in {0, 1} :
        /\ ProtectEraRelease(t, from, to, s, other)
        /\ IF from = "find.slot2" THEN to = "find.slot1" /\ s = 2 /\ other = 1
                                  ELSE to = "find.next" /\ s = 1 /\ other = 0
  BY DEF FindSlots
<1>3. /\ pc[t] = from /\ pc' = [pc EXCEPT ![t] = to] /\ UNCHANGED <<main, status>>
      /\ UNCHANGED <<pred, curr, nxt, dangling, eraFields>>
      /\ UNCHANGED <<heapVars, loopedVars>>
  BY <1>2 DEF FindSlots, ProtectEraRelease, Goto, heapVars, loopedVars, listVars, findLocals
<1>4. /\ Quiet(t) /\ (\A n \in Nodes : newEra'[n] = newEra[n] /\ delEra'[n] = delEra[n])
      /\ hazardErasList'[t] = [hazardErasList[t] EXCEPT ![s] = hazardErasList[t][other]]
  BY <1>1, <1>2, <1>3, QuietRelease
<1>5. to \in Labels \ {"undefined"} /\ to \notin RemovingLabels
  BY DEF Labels, FindLabels, RemovingLabels
<1>6. Own(t, to) /\ Local(t)
  <2>1. Own(t, to)
    BY <1>3, <1>4, <1>5, HeapKeepsNodes DEF Own
  <2> QED BY <1>5, <2>1, OwnLocal
<1>7. ListInv'
  <2>1. Relabels(t) /\ \A u \in Threads : u # t => Relabels(u)
    <3>1. curr[t] # NULL
      BY <1>3 DEF IInv, ListInv, Traverses, NoCurrLabels
    <3>2. pc'[t] = to /\ \A u \in Threads : u # t => pc'[u] = pc[u]
      BY <1>3 DEF IInv, TypeOK
    <3>3. to \notin PassedLabels \cup HelpingLabels \cup {"add.discard", "add.cas", "remove.cas"}
      BY DEF PassedLabels, HelpingLabels
    <3> QED BY <3>1, <3>2, <3>3 DEF Relabels
  <2> QED BY <1>3, <2>1, LabelKept DEF IInv, ListInv, LoopedTypeOK, ListTypeOK,
             loopedVars, listVars, findLocals, callVars, heapVars
<1>8. /\ pc'[t] = to /\ pred'[t] = pred[t] /\ curr'[t] = curr[t]
      /\ dangling'[t] = dangling[t]
  BY <1>3 DEF IInv, TypeOK
<1>9. hazardErasList[t] \in [Slots -> Nat]
  BY DEF IInv, TypeOK, HETypeOK
<1>10. CASE from = "find.slot2"
  <2>1. /\ hazardErasList'[t][2] = hazardErasList[t][1]
        /\ hazardErasList'[t][0] = hazardErasList[t][0]
    BY <1>1, <1>2, <1>4, <1>9, <1>10
  <2>2. /\ Protected(t) = {"pred", "curr"} /\ Protected(t)' = {"pred", "curr"}
        /\ SlotOf(t, "pred") = 1 /\ SlotOf(t, "curr") = 0
        /\ SlotOf(t, "pred")' = 2 /\ SlotOf(t, "curr")' = 0
    BY <1>2, <1>3, <1>8, <1>10 DEF Protected, SlotOf, FindLabels
  <2>3. /\ "pred" \notin dangling'[t] /\ pred'[t] # NULL =>
             Live(pred'[t]) /\ WithinLife(pred'[t], hazardErasList'[t][2])
        /\ "curr" \notin dangling'[t] /\ curr'[t] # NULL =>
             Live(curr'[t]) /\ WithinLife(curr'[t], hazardErasList'[t][0])
    BY <1>8, <2>1, <2>2, HeldBefore
  <2>4. Covered(t)'
    BY <1>6, <2>2, <2>3, HoldsNow
  <2>5. ThreadInv(t)'
    BY <1>2, <1>8, <1>10, <2>4 DEF ThreadInv, LoadedFits, NextSeen, RemovedByOne, Removing
  <2> QED BY <1>6, <1>7, <2>5, OwnInv
<1>11. CASE from = "find.slot1"
  <2>1. /\ hazardErasList'[t][1] = hazardErasList[t][0]
        /\ hazardErasList'[t][2] = hazardErasList[t][2]
    BY <1>1, <1>2, <1>4, <1>9, <1>11
  <2>2. /\ Protected(t) = {"pred", "curr"} /\ Protected(t)' = {"pred", "curr"}
        /\ SlotOf(t, "pred") = 2 /\ SlotOf(t, "curr") = 0
        /\ SlotOf(t, "pred")' = 2 /\ SlotOf(t, "curr")' = 1
    BY <1>2, <1>3, <1>8, <1>11 DEF Protected, SlotOf, FindLabels
  <2>3. /\ "pred" \notin dangling'[t] /\ pred'[t] # NULL =>
             Live(pred'[t]) /\ WithinLife(pred'[t], hazardErasList'[t][2])
        /\ "curr" \notin dangling'[t] /\ curr'[t] # NULL =>
             Live(curr'[t]) /\ WithinLife(curr'[t], hazardErasList'[t][1])
    BY <1>8, <2>1, <2>2, HeldBefore
  <2>4. Covered(t)'
    BY <1>6, <2>2, <2>3, HoldsNow
  <2>5. ThreadInv(t)'
    BY <1>2, <1>8, <1>11, <2>4 DEF ThreadInv, LoadedFits, NextSeen, RemovedByOne, Removing
  <2> QED BY <1>6, <1>7, <2>5, OwnInv
<1> QED BY <1>10, <1>11

(* find goes on from next: slot 0 hands its era over to slot 1.            *)
LEMMA HelpSlot1Inv ==
  ASSUME EnoughSlots, IInv, NEW t \in Threads, HelpSlot1(t)
  PROVE  IInv'
<1> DEFINE N == getUnmarked(nxt[t])
           D == (dangling[t] \cap {"pred"}) \cup (IF "nxt" \in dangling[t] THEN {"curr"} ELSE {})
<1>1. 0 \in Slots /\ 1 \in Slots /\ 2 \in Slots
  BY ListSlots
<1>2. /\ pc[t] = "help.slot1" /\ pc' = [pc EXCEPT ![t] = "find.misread"]
      /\ ProtectEraRelease(t, "help.slot1", "find.misread", 1, 0)
      /\ pred' = [pred EXCEPT ![t] = pred[t]] /\ curr' = [curr EXCEPT ![t] = N]
      /\ nxt' = [nxt EXCEPT ![t] = NoLink]
      /\ dangling' = [dangling EXCEPT ![t] = D]
      /\ UNCHANGED <<heapVars, main, eraFields>>
  BY DEF HelpSlot1, ProtectEraRelease, Goto, MovesTo, Follow
<1>3. ListInv'
  <2>1. "find.misread" \notin PassedLabels \cup {"add.discard", "add.cas"}
    BY DEF PassedLabels, HelpingLabels
  <2>2. N # NULL /\ ("nxt" \notin dangling[t] => Live(N))
    <3>1. Traverses(t) /\ pc[t] \in HelpingLabels /\ pc[t] \in PassedLabels
      BY <1>2 DEF IInv, ListInv, HelpingLabels, PassedLabels
    <3>2. N # NULL /\ isMarked(nxt[t])
      BY <3>1 DEF Traverses
    <3>3. "nxt" \notin dangling[t] => Live(N)
      BY <3>1, <3>2 DEF Traverses
    <3> QED BY <3>2, <3>3
  <2>3. /\ MovesTo(t, pred[t]) /\ Goto(t, "help.slot1", "find.misread")
        /\ pc = [u \in Threads |-> pc[u]]
    BY ListPcFunction DEF HelpSlot1, ProtectEraRelease
  <2> QED BY <2>1, <2>2, <2>3, MovesKept DEF IInv
<1>4. "find.misread" \in Labels \ {"undefined"} /\ "find.misread" \notin RemovingLabels
  BY DEF Labels, HelpLabels, RemovingLabels
<1>5. /\ Quiet(t) /\ (\A n \in Nodes : newEra'[n] = newEra[n] /\ delEra'[n] = delEra[n])
      /\ hazardErasList'[t] = [hazardErasList[t] EXCEPT ![1] = hazardErasList[t][0]]
  BY <1>1, <1>2, QuietRelease
<1>6. Own(t, "find.misread") /\ Local(t)
  <2>1. \A u \in Threads : u # t =>
          /\ pred'[u] = pred[u] /\ curr'[u] = curr[u] /\ nxt'[u] = nxt[u]
          /\ dangling'[u] = dangling[u]
    BY <1>2 DEF IInv, ListInv, LoopedTypeOK, ListTypeOK
  <2>2. Own(t, "find.misread")
    BY <1>2, <1>4, <1>5, <2>1, HeapKeepsNodes DEF Own, heapVars
  <2> QED BY <1>4, <2>2, OwnLocal
<1>7. /\ pc'[t] = "find.misread" /\ pred'[t] = pred[t] /\ curr'[t] = N
      /\ dangling'[t] = D
      /\ hazardErasList'[t][1] = hazardErasList[t][0]
      /\ hazardErasList'[t][2] = hazardErasList[t][2]
  <2>1. hazardErasList[t] \in [Slots -> Nat]
    BY DEF IInv, TypeOK, HETypeOK
  <2>2. /\ hazardErasList'[t][1] = hazardErasList[t][0]
        /\ hazardErasList'[t][2] = hazardErasList[t][2]
    BY <1>1, <1>5, <2>1
  <2> QED BY <1>2, <2>2 DEF IInv, TypeOK, ListInv, LoopedTypeOK, ListTypeOK
<1>8. /\ Protected(t) = Roles /\ Protected(t)' = {"pred", "curr"}
      /\ SlotOf(t, "pred") = 2 /\ SlotOf(t, "curr") = 1 /\ SlotOf(t, "nxt") = 0
      /\ SlotOf(t, "pred")' = 2 /\ SlotOf(t, "curr")' = 1
  BY <1>2, <1>7 DEF Protected, SlotOf, FindLabels
<1>9. /\ "pred" \notin D => "pred" \notin dangling[t]
      /\ "curr" \notin D => "nxt" \notin dangling[t]
  OBVIOUS
<1>10. Covered(t)'
  <2> HIDE DEF D, N
  <2>1. /\ "pred" \notin dangling'[t] /\ pred'[t] # NULL =>
             Live(pred'[t]) /\ WithinLife(pred'[t], hazardErasList'[t][2])
        /\ "curr" \notin dangling'[t] /\ curr'[t] # NULL =>
             Live(curr'[t]) /\ WithinLife(curr'[t], hazardErasList'[t][1])
    BY <1>7, <1>8, <1>9, HeldBefore DEF N, Roles
  <2> QED BY <1>6, <1>8, <2>1, HoldsNow
<1>11. ThreadInv(t)'
  BY <1>7, <1>10 DEF ThreadInv, LoadedFits, NextSeen, RemovedByOne, Removing
<1> QED BY <1>3, <1>6, <1>11, OwnInv

(* A linked node is in no retired list, and what is listed is retired.     *)
LEMMA ListedRetired ==
  ASSUME IInv
  PROVE  /\ \A n : Listed(n) => n \in Nodes /\ status[n] = "retired"
         /\ \A n : status[n] = "linked" => ~Listed(n)
<1>1. retiredPtrList \in [Threads -> Seq(Nodes)] /\ RetiredOnce
  BY DEF IInv, TypeOK, HETypeOK, Scheme
<1> QED BY <1>1, OneEntry

(* t unlinks curr and goes on to retire it.                                *)
UnlinksOwn(t, to) ==
  /\ pc' = [pc EXCEPT ![t] = to]
  /\ curr[t] \in Nodes /\ status[curr[t]] = "linked"
  /\ status' = [status EXCEPT ![curr[t]] = "retired"]
  /\ UNCHANGED ofScheme /\ UNCHANGED <<pred, curr, nxt, dangling, main>>

LEMMA UnlinkedOwn ==
  ASSUME IInv, NEW t \in Threads, NEW to \in RemovingLabels, to \in Labels,
         pc[t] \in {"find.help", "remove.cas"}, UnlinksOwn(t, to)
  PROVE  Local(t) /\ Own(t, to) /\ RemovedByOne(t)'
<1>1. /\ pc'[t] = to /\ \A u \in Threads : u # t => pc'[u] = pc[u]
      /\ curr' = curr /\ curr[t] \in Nodes /\ status[curr[t]] = "linked"
      /\ status' = [status EXCEPT ![curr[t]] = "retired"]
      /\ status \in [Nodes -> Statuses]
  BY DEF UnlinksOwn, IInv, TypeOK, ListInv, LoopedTypeOK, ListTypeOK
<1>2. Quiet(t) /\ (\A n \in Nodes : newEra'[n] = newEra[n] /\ delEra'[n] = delEra[n])
  BY QuietUnchanged DEF UnlinksOwn
<1>3. NodesKept
  <2>1. \A n \in Nodes : status'[n] = IF n = curr[t] THEN "retired" ELSE status[n]
    BY <1>1
  <2> QED BY <1>2, <2>1 DEF NodesKept, Live
<1>4. to \in Labels \ {"undefined"}
  BY DEF RemovingLabels
<1>5. Own(t, to)
  BY <1>2, <1>3, <1>4 DEF Own, UnlinksOwn
<1>6. Local(t)
  BY <1>1, <1>5 DEF Own, Local, Destroyed
<1>7. RemovedByOne(t)'
  <2>1. ~Listed(curr[t])
    BY <1>1, ListedRetired
  <2>2. PICK n : n = curr[t]
    OBVIOUS
  <2>3. ~Listed(n)'
    BY <1>6, <2>1, <2>2, LocalEffect
  <2>4. n = curr'[t]
    BY <1>1, <2>2
  <2>5. status'[curr[t]] = "retired"
    BY <1>1
  <2>6. \A u \in Threads : Removing(u)' /\ curr[u] = curr[t] => u = t
    <3>1. \A u \in Threads : Removing(u) => status[curr[u]] = "retired"
      BY DEF IInv, ThreadInv, RemovedByOne
    <3> QED BY <1>1, <3>1 DEF Removing
  <2> QED BY <1>1, <2>3, <2>4, <2>5, <2>6 DEF RemovedByOne, Listed
<1> QED BY <1>5, <1>6, <1>7

(* find unlinks curr, which then is its own to retire.                     *)
LEMMA FindHelpInv ==
  ASSUME EnoughSlots, IInv, NEW t \in Threads, ~Strays(t), FindHelp(t)
  PROVE  IInv'
<1>1. pc[t] = "find.help" /\ UNCHANGED ofScheme
  BY DEF FindHelp
<1>2. CASE ~PredIsCurr(t)
  <2>1. /\ TryAgain(t, "find.help", "find.head")
        /\ "find.help" \in Labels \ {"exited", "undefined"}
    BY <1>2 DEF FindHelp, Labels, HelpLabels
  <2> QED BY <1>1, <2>1, TryAgainInv
<1>3. CASE PredIsCurr(t)
  <2>1. /\ Goto(t, "find.help", "help.era") /\ Unlinks(t)
        /\ pc' = [pc EXCEPT ![t] = "help.era"]
        /\ UNCHANGED <<pred, curr, nxt, dangling, main>>
    BY <1>3 DEF FindHelp, Goto, Unlinks, findLocals
  <2>2. /\ ListInv' /\ curr[t] \in Nodes /\ status[curr[t]] = "linked"
        /\ status' = [status EXCEPT ![curr[t]] = "retired"]
    <3>1. /\ "help.era" \notin {"add.discard", "add.cas", "remove.cas"}
          /\ "help.era" \in HelpingLabels /\ "find.help" \in {"find.help", "remove.cas"}
      BY DEF HelpingLabels
    <3> QED BY <1>3, <2>1, <3>1, UnlinksKept, ListPcFunction DEF IInv
  <2>3. UnlinksOwn(t, "help.era")
    BY <1>1, <2>1, <2>2 DEF UnlinksOwn
  <2>4. Local(t) /\ Own(t, "help.era") /\ RemovedByOne(t)'
    <3>1. "help.era" \in RemovingLabels /\ "help.era" \in Labels
      BY DEF RemovingLabels, Labels, HelpLabels
    <3> QED BY <1>1, <2>3, <3>1, UnlinkedOwn
  <2>5. Steady(t)
    <3>1. pc'[t] = "help.era"
      BY <2>1 DEF IInv, TypeOK
    <3>2. \A n \in Nodes : Live(n) => Live(n)'
      BY <2>4 DEF Local, NodesKept
    <3>3. hazardErasList' = hazardErasList
      BY <1>1 DEF ofScheme, heVars
    <3> QED BY <1>1, <2>1, <3>1, <3>2, <3>3 DEF Steady, SameSlots
  <2>6. Covered(t)' /\ LoadedFits(t)'
    BY <2>4, <2>5, LocalEffect, SteadyKept DEF IInv, TypeOK, ThreadInv, Scheme, Step
  <2>7. ThreadInv(t)'
    BY <2>4, <2>6 DEF ThreadInv
  <2> QED BY <2>2, <2>4, <2>7, OwnInv
<1> QED BY <1>2, <1>3

(* A removed node gets its entry in the retired list of its thread.        *)
LEMMA RetiresInv ==
  ASSUME EnoughSlots, IInv, NEW t \in Threads, Retires(t)
  PROVE  IInv'
<1>1. PICK from \in {"help.era", "retire.era"}, to \in {"help.check", "retire.check"} :
        /\ RetirePush(t, curr[t], from, to)
        /\ from = "help.era" <=> to = "help.check"
  BY DEF Retires
<1>2. /\ pc[t] = from /\ pc' = [pc EXCEPT ![t] = to]
      /\ UNCHANGED <<heapVars, loopedVars, main, globalEraClock, hazardErasList>>
      /\ UNCHANGED <<status, pred, curr, nxt, dangling>>
  BY <1>1 DEF Retires, RetirePush, Goto, heapVars, loopedVars, listVars, findLocals
<1>3. /\ pc'[t] = to /\ (\A u \in Threads : u # t => pc'[u] = pc[u])
      /\ pc' \in [Threads -> Labels]
  BY <1>2 DEF IInv, TypeOK, Labels, HelpLabels, CallLabels
<1>4. /\ Removing(t) /\ curr[t] \in Nodes /\ status[curr[t]] = "retired"
      /\ ~Listed(curr[t]) /\ curr[t] # NULL
  BY <1>2, HeapAssumption DEF IInv, ThreadInv, RemovedByOne, Removing
<1>5. /\ Scheme({})' /\ HETypeOK'
      /\ \A m : Listed(m)' <=> Listed(m) \/ m = curr[t]
      /\ \A m, e : e <= globalEraClock /\ WithinLife(m, e) => WithinLife(m, e)'
  <2>1. Scheme({}) /\ HETypeOK /\ pc \in [Threads -> Labels] /\ UNCHANGED main
    BY <1>2 DEF IInv, TypeOK
  <2> DEFINE S == {}
  <2>2. Scheme(S) /\ S' = S
    BY <2>1
  <2> HIDE DEF S
  <2>3. /\ Scheme(S)' /\ HETypeOK'
        /\ \A m : Listed(m)' <=> Listed(m) \/ m = curr[t]
        /\ \A m, e : e <= globalEraClock /\ WithinLife(m, e) => WithinLife(m, e)'
    BY <1>1, <1>4, <2>1, <2>2, PushEffect
  <2> USE DEF S
  <2> QED BY <2>3
<1>6. ListInv'
  <2>1. \A u \in Threads : Relabels(u)
    <3>1. from = "help.era" => from \in HelpingLabels /\ from \in PassedLabels
      BY DEF HelpingLabels, PassedLabels
    <3>2. to = "retire.check" => to \notin PassedLabels /\ to \notin HelpingLabels
      BY DEF HelpingLabels, PassedLabels
    <3>3. to \notin {"add.discard", "add.cas", "remove.cas"}
      OBVIOUS
    <3> QED BY <1>1, <1>2, <1>3, <1>4, <3>1, <3>2, <3>3 DEF Relabels
  <2> QED BY <1>2, <2>1, LabelKept DEF IInv, ListInv, LoopedTypeOK, ListTypeOK,
             loopedVars, listVars, findLocals, callVars, heapVars
<1>7. Lifelong
  <2>1. \A n \in Nodes : status'[n] = status[n] /\ globalEraClock' = globalEraClock
    BY <1>2
  <2> QED BY <1>2, <1>5, <2>1 DEF Lifelong
<1>8. ASSUME NEW u \in Threads, u # t \/ to = "help.check" PROVE Steady(u)
  <2>1. \A n \in Nodes : Live(n) => Live(n)'
    BY <1>2 DEF Live
  <2>2. \/ pc'[u] = pc[u]
        \/ pc[u] = "help.era" /\ pc'[u] = "help.check"
    BY <1>1, <1>2, <1>3, <1>8
  <2> QED BY <1>2, <2>1, <2>2 DEF Steady, SameSlots
<1>9. Step(t)
  <2>1. ~Removing(t)'
    BY <1>3 DEF Removing
  <2> QED BY <1>2, <1>3, <1>4, <1>5, <1>7, <1>8, <2>1 DEF Step
<1>10. ThreadInv(t)'
  <2>1. CASE to = "help.check"
    <3>1. Covered(t)' /\ LoadedFits(t)'
      BY <1>7, <1>8, <2>1, SteadyKept DEF IInv, TypeOK, ThreadInv, Scheme
    <3> QED BY <1>3, <2>1, <3>1 DEF ThreadInv, RemovedByOne, Removing
  <2>2. CASE to = "retire.check"
    <3>1. pc'[t] \notin HoldingLabels \cup RemovingLabels
      BY <1>3, <2>2 DEF HoldingLabels, RemovingLabels, SameSlots, FindLabels
    <3> QED BY <3>1, HoldsNothing
  <2> QED BY <2>1, <2>2
<1>11. MainAlone' /\ main' \in MainStates
  BY <1>2, AloneKept DEF IInv, TypeOK
<1> QED BY <1>3, <1>5, <1>6, <1>9, <1>10, <1>11, ListStepInv

(* The sweep of a retired list: what it deletes dangles from then on.      *)
LEMMA SweepsInv ==
  ASSUME EnoughSlots, IInv, NEW t \in Threads, Sweeps(t)
  PROVE  IInv'
<1>1. PICK from \in {"help.check", "help.add", "retire.check", "retire.add"},
           to \in {"help.add", "help.slot1", "retire.add", "return"} :
        /\ pc[t] = from /\ pc' = [pc EXCEPT ![t] = to]
        /\ from \in {"help.check", "help.add"} <=> to \in {"help.add", "help.slot1"}
        /\ \/ UNCHANGED <<heapVars, eraFields, retiredPtrList, retiredNodesCount,
                          currEra, globalEraClock>>
           \/ Sweep(t) /\ globalEraClock' \in {globalEraClock, globalEraClock + 1}
        /\ UNCHANGED <<hazardErasList, ptr, slot>>
  BY DEF Sweeps, RetireCheck, RetireAdd, Goto
<1>2. /\ AfterDeletion
      /\ UNCHANGED <<head, tail, findLocals, callVars, calls, main>>
      /\ UNCHANGED <<pred, curr, nxt>>
  BY DEF Sweeps, findLocals
<1>3. /\ pc'[t] = to /\ (\A u \in Threads : u # t => pc'[u] = pc[u])
      /\ pc' \in [Threads -> Labels]
  BY <1>1 DEF IInv, TypeOK, Labels, HelpLabels, CallLabels
<1>4. MainAlone' /\ ~Destroyed /\ main' \in MainStates
  BY <1>1, <1>2, AloneKept DEF IInv, TypeOK
<1>5. /\ Scheme({}) /\ HETypeOK /\ status \in [Nodes -> Statuses]
      /\ globalEraClock \in Nat
  BY DEF IInv, TypeOK, ListInv, LoopedTypeOK, ListTypeOK, HETypeOK
<1>6. PICK S \in SUBSET Nodes :
        /\ Delete(S) /\ Scheme({})' /\ HETypeOK'
        /\ \A n \in S : Listed(n) /\ status[n] = "retired"
        /\ \A n : Listed(n)' <=> Listed(n) /\ n \notin S
        /\ \A n \in Nodes \ S : newEra'[n] = newEra[n] /\ delEra'[n] = delEra[n]
        /\ globalEraClock' \in {globalEraClock, globalEraClock + 1}
  <2>1. CASE UNCHANGED <<heapVars, eraFields, retiredPtrList, retiredNodesCount,
                         currEra, globalEraClock>>
    <3>1. Delete({})
      BY <2>1 DEF Delete, heapVars, IInv, ListInv, LoopedTypeOK, ListTypeOK
    <3>2. HETypeOK'
      BY <1>1, <1>5, <2>1 DEF HETypeOK, eraFields
    <3>3. Scheme({})'
      BY <1>1, <1>2, <1>5, <2>1 DEF Scheme, RetiredOnce, CountsRetired, ErasReached,
         RetiredBefore, Destroyed, heapVars, eraFields
    <3>4. \A n : Listed(n)' <=> Listed(n)
      BY <2>1 DEF Listed, Retired
    <3> QED BY <2>1, <3>1, <3>2, <3>3, <3>4 DEF eraFields
  <2>2. CASE Sweep(t) /\ globalEraClock' \in {globalEraClock, globalEraClock + 1}
    <3> DEFINE T == {}
    <3>1. Scheme(T) /\ T' = T /\ \A u \in Threads : pc'[u] \in T => u # t /\ pc[u] \in T
      BY <1>5
    <3> HIDE DEF T
    <3>2. UNCHANGED <<hazardErasList, ptr, slot, main>>
      BY <1>1, <1>2
    <3>3. /\ Scheme(T)' /\ HETypeOK'
          /\ \A n \in Removed(t) : n \in Nodes /\ Listed(n) /\ status[n] = "retired"
          /\ \A n : Listed(n)' <=> Listed(n) /\ n \notin Removed(t)
          /\ \A n \in Nodes :
               n \notin Removed(t) => newEra'[n] = newEra[n] /\ delEra'[n] = delEra[n]
      BY <1>4, <1>5, <2>2, <3>1, <3>2, SweepEffect
    <3> USE DEF T
    <3>4. Scheme({})' /\ Removed(t) \in SUBSET Nodes /\ Delete(Removed(t))
      BY <2>2, <3>3 DEF Sweep, DeleteInEra
    <3> QED BY <2>2, <3>3, <3>4
  <2> QED BY <1>1, <2>1, <2>2
<1>7. /\ ListInv'
      /\ \A u \in Threads :
           dangling'[u] = dangling[u] \cup {r \in Roles : Named(u, r) \in S}
  <2>1. \A u \in Threads : Relabels(u)
    <3>1. from \in {"help.check", "help.add"} => from \in HelpingLabels /\ from \in PassedLabels
      BY DEF HelpingLabels, PassedLabels
    <3>2. to \in {"retire.add", "return"} => to \notin PassedLabels /\ to \notin HelpingLabels
      BY DEF HelpingLabels, PassedLabels
    <3>3. to \notin {"add.discard", "add.cas", "remove.cas"} /\ "return" \in NoCurrLabels
      BY DEF NoCurrLabels
    <3>4. to # "return" => pc[t] \notin NoCurrLabels
      BY <1>1 DEF NoCurrLabels
    <3>5. curr[t] = NULL => pc[t] \in NoCurrLabels
      BY DEF IInv, ListInv, Traverses
    <3> QED BY <1>1, <1>3, <3>1, <3>2, <3>3, <3>4, <3>5 DEF Relabels
  <2> QED BY <1>2, <1>6, <2>1, DeletesKept DEF IInv
<1>8. \A m \in Nodes : status'[m] = IF m \in S THEN "free" ELSE status[m]
  BY <1>6 DEF Delete
<1>9. Lifelong
  <2>1. ASSUME NEW n \in Nodes, Live(n), Live(n)'
        PROVE  /\ status[n] # "linked" => status'[n] # "linked"
               /\ \A e \in Nat :
                    e <= globalEraClock /\ WithinLife(n, e) => WithinLife(n, e)'
    <3>1. n \notin S /\ status'[n] = status[n]
      BY <1>8, <2>1 DEF Live
    <3>2. newEra'[n] = newEra[n] /\ delEra'[n] = delEra[n] /\ (Listed(n)' <=> Listed(n))
      BY <1>6, <3>1
    <3> QED BY <3>1, <3>2 DEF WithinLife
  <2> QED BY <1>6, <2>1 DEF Lifelong
<1>10. ASSUME NEW u \in Threads, u # t \/ to \in {"help.add", "help.slot1"}
       PROVE  Steady(u)
  <2>1. \A n \in Nodes : Live(n) =>
          Live(n)' \/ \A r \in Roles : Named(u, r) = n => r \in dangling'[u]
    <3>1. ASSUME NEW n \in Nodes, Live(n), ~Live(n)', NEW r \in Roles, Named(u, r) = n
          PROVE  r \in dangling'[u]
      <4>1. n \in S
        BY <1>8, <3>1 DEF Live
      <4> QED BY <1>7, <3>1, <4>1
    <3> QED BY <3>1
  <2>2. \/ pc'[u] = pc[u]
        \/ pc[u] \in {"help.check", "help.add"} /\ pc'[u] \in {"help.add", "help.slot1"}
    BY <1>1, <1>3, <1>10
  <2>3. pc'[u] = pc[u] \/ (pc[u] \in SameSlots /\ pc'[u] \in SameSlots)
    BY <2>2 DEF SameSlots
  <2> QED BY <1>1, <1>2, <1>7, <2>1, <2>3 DEF Steady
<1>11. Step(t)
  <2>1. \A m \in Nodes : status[m] = "retired" /\ ~Listed(m) =>
          status'[m] = "retired" /\ ~Listed(m)'
    BY <1>6, <1>8
  <2>2. ~Removing(t)'
    BY <1>3 DEF Removing
  <2> QED BY <1>3, <1>9, <1>10, <2>1, <2>2 DEF Step
<1>12. ThreadInv(t)'
  <2>1. CASE to \in {"help.add", "help.slot1"}
    <3>1. Covered(t)' /\ LoadedFits(t)'
      BY <1>9, <1>10, <2>1, SteadyKept DEF IInv, TypeOK, ThreadInv, Scheme
    <3> QED BY <1>3, <2>1, <3>1 DEF ThreadInv, RemovedByOne, Removing
  <2>2. CASE to \in {"retire.add", "return"}
    <3>1. pc'[t] \notin HoldingLabels \cup RemovingLabels
      BY <1>3, <2>2 DEF HoldingLabels, RemovingLabels, SameSlots, FindLabels
    <3> QED BY <3>1, HoldsNothing
  <2> QED BY <2>1, <2>2
<1> QED BY <1>3, <1>4, <1>6, <1>7, <1>11, <1>12, ListStepInv

(* add deletes the node it does not need.                                  *)
LEMMA AddDiscardInv ==
  ASSUME EnoughSlots, IInv, NEW t \in Threads, AddDiscard(t)
  PROVE  IInv'
<1>1. /\ Discards(t, "clear") /\ ForgetEras({node[t]}) /\ UNCHANGED <<heVars, heLocals>>
      /\ pc[t] = "add.discard" /\ pc' = [pc EXCEPT ![t] = "clear"]
      /\ UNCHANGED <<pred, curr, nxt, dangling, main>>
  BY DEF AddDiscard, Discards, Goto, findLocals
<1>2. /\ ListInv' /\ node[t] \in Nodes /\ status[node[t]] = "private"
      /\ status' = [status EXCEPT ![node[t]] = "free"]
  <2>1. "clear" \in NoCurrLabels \ {"add.discard"}
    BY DEF NoCurrLabels
  <2> QED BY <1>1, <2>1, DiscardsKept, ListPcFunction DEF IInv
<1>3. /\ HETypeOK /\ status \in [Nodes -> Statuses]
      /\ \A n \in Nodes : newEra[n] <= globalEraClock /\ delEra[n] <= globalEraClock
  BY DEF IInv, TypeOK, ListInv, LoopedTypeOK, ListTypeOK, Scheme, ErasReached
<1>4. /\ newEra' \in [Nodes -> Nat] /\ delEra' \in [Nodes -> Nat]
      /\ \A n \in Nodes : n # node[t] =>
           newEra'[n] = newEra[n] /\ delEra'[n] = delEra[n] /\ status'[n] = status[n]
      /\ newEra'[node[t]] = 0 /\ delEra'[node[t]] = 0
  BY <1>1, <1>2, <1>3 DEF ForgetEras, HETypeOK
<1>5. NodesKept
  BY <1>2, <1>4 DEF NodesKept, Live
<1>6. HETypeOK'
  BY <1>1, <1>3, <1>4 DEF HETypeOK, heVars, heLocals
<1>7. \A n \in Nodes : newEra'[n] <= globalEraClock /\ delEra'[n] <= globalEraClock
  <2>1. globalEraClock \in Nat
    BY <1>3 DEF HETypeOK
  <2> QED BY <1>3, <1>4, <2>1
<1>8. /\ "clear" \in Labels \ (HoldingLabels \cup RemovingLabels)
      /\ "clear" # "undefined"
  BY DEF Labels, FindLabels, HoldingLabels, RemovingLabels, SameSlots
<1>9. Own(t, "clear")
  <2>1. Quiet(t)
    BY <1>1, <1>6, <1>7, QuietSame
  <2> QED BY <1>1, <1>5, <1>8, <2>1 DEF Own
<1> QED BY <1>2, <1>8, <1>9, OwnNothing

(* The nodes of a step that changes no eras and retires none.              *)
LEMMA OwnNodes ==
  ASSUME IInv, NEW t \in Threads, UNCHANGED ofScheme, UNCHANGED main,
         \/ UNCHANGED status
         \/ \E n \in Nodes : /\ status[n] = "private"
                             /\ status' = [status EXCEPT ![n] = "linked"],
         NEW to \in Labels \ {"undefined"}, pc' = [pc EXCEPT ![t] = to],
         pc[t] \notin {"exited", "undefined"},
         \A u \in Threads : u # t =>
           /\ pred'[u] = pred[u] /\ curr'[u] = curr[u] /\ nxt'[u] = nxt[u]
           /\ dangling'[u] = dangling[u]
  PROVE  Own(t, to)
<1>1. Quiet(t) /\ (\A n \in Nodes : newEra'[n] = newEra[n] /\ delEra'[n] = delEra[n])
  BY QuietUnchanged
<1>2. NodesKept
  <2>1. status \in [Nodes -> Statuses]
    BY DEF IInv, ListInv, LoopedTypeOK, ListTypeOK
  <2>2. \A n \in Nodes : Live(n) => status'[n] = status[n]
    BY <2>1 DEF Live
  <2> QED BY <1>1, <2>2 DEF NodesKept, Live
<1> QED BY <1>1, <1>2 DEF Own

(* add links its node.                                                     *)
LEMMA AddCasInv ==
  ASSUME EnoughSlots, IInv, NEW t \in Threads, ~Strays(t), AddCas(t)
  PROVE  IInv'
<1>1. Adds(t, "find.head", "clear") /\ UNCHANGED ofScheme
  BY DEF AddCas
<1>2. CASE TryAgain(t, "add.cas", "find.head")
  <2>1. "add.cas" \in Labels \ {"exited", "undefined"}
    BY DEF Labels, CallLabels
  <2> QED BY <1>1, <1>2, <2>1, TryAgainInv
<1>3. CASE ~TryAgain(t, "add.cas", "find.head")
  <2>1. /\ pc[t] = "add.cas" /\ pc' = [pc EXCEPT ![t] = "clear"] /\ Forget(t)
        /\ dangling' = [dangling EXCEPT ![t] = {}] /\ main' = main
    BY <1>1, <1>3 DEF Adds, Goto
  <2>2. /\ ListInv'
        /\ \/ status' = status
           \/ /\ node[t] \in Nodes /\ status[node[t]] = "private"
              /\ status' = [status EXCEPT ![node[t]] = "linked"]
    <3>1. /\ "clear" \in NoCurrLabels \ {"add.discard"}
          /\ "find.head" \in NoCurrLabels \ {"add.discard"}
      BY DEF NoCurrLabels
    <3> QED BY <1>1, <3>1, AddsKept, ListPcFunction DEF IInv
  <2>3. /\ "clear" \in Labels \ (HoldingLabels \cup RemovingLabels)
        /\ "clear" # "undefined"
    BY DEF Labels, FindLabels, HoldingLabels, RemovingLabels, SameSlots
  <2>4. \A u \in Threads : u # t =>
          /\ pred'[u] = pred[u] /\ curr'[u] = curr[u] /\ nxt'[u] = nxt[u]
          /\ dangling'[u] = dangling[u]
    BY <2>1 DEF Forget, IInv, ListInv, LoopedTypeOK, ListTypeOK
  <2>5. Own(t, "clear")
    BY <1>1, <2>1, <2>2, <2>3, <2>4, OwnNodes
  <2> QED BY <2>2, <2>3, <2>5, OwnNothing
<1> QED BY <1>2, <1>3

(* remove marks curr.                                                      *)
LEMMA RemoveMarkInv ==
  ASSUME EnoughSlots, IInv, NEW t \in Threads, ~Strays(t), RemoveMark(t)
  PROVE  IInv'
<1>1. Marks(t, "find.head") /\ UNCHANGED ofScheme
  BY DEF RemoveMark
<1>2. CASE TryAgain(t, "remove.mark", "find.head")
  <2>1. "remove.mark" \in Labels \ {"exited", "undefined"}
    BY DEF Labels, CallLabels
  <2> QED BY <1>1, <1>2, <2>1, TryAgainInv
<1>3. CASE ~TryAgain(t, "remove.mark", "find.head")
  <2>1. /\ pc[t] = "remove.mark" /\ pc' = [pc EXCEPT ![t] = "remove.cas"]
        /\ UNCHANGED <<status, pred, curr, nxt, dangling, main>>
    BY <1>1, <1>3 DEF Marks, Goto, findLocals, heapVars
  <2>2. ListInv'
    <3>1. "find.head" \in NoCurrLabels \ {"add.discard"}
      BY DEF NoCurrLabels
    <3> QED BY <1>1, <3>1, MarksKept, ListPcFunction DEF IInv
  <2>3. "remove.cas" \in Labels \ {"undefined"} /\ "remove.cas" \notin RemovingLabels
    BY DEF Labels, CallLabels, RemovingLabels
  <2>4. Own(t, "remove.cas") /\ Local(t)
    <3>1. Own(t, "remove.cas")
      BY <1>1, <2>1, <2>3, OwnSame
    <3> QED BY <2>3, <3>1, OwnLocal
  <2>5. pc'[t] = "remove.cas"
    BY <2>1 DEF IInv, TypeOK
  <2>6. Steady(t)
    <3>1. \A n \in Nodes : Live(n) => Live(n)'
      BY <2>1 DEF Live
    <3>2. hazardErasList' = hazardErasList
      BY <1>1 DEF ofScheme, heVars
    <3> QED BY <2>1, <2>5, <3>1, <3>2 DEF Steady, SameSlots
  <2>7. Covered(t)' /\ LoadedFits(t)'
    BY <2>4, <2>6, LocalEffect, SteadyKept DEF IInv, TypeOK, ThreadInv, Scheme, Step
  <2>8. ThreadInv(t)'
    BY <2>5, <2>7 DEF ThreadInv, RemovedByOne, Removing
  <2> QED BY <2>2, <2>4, <2>8, OwnInv
<1> QED BY <1>2, <1>3

(* remove needs no era any more for the node it has unlinked.              *)
LEMMA RemovesHoldsNothing ==
  ASSUME NEW t \in Threads, pc'[t] \in {"remove.clear", "retire.era"}
  PROVE  Covered(t)' /\ LoadedFits(t)'
<1>1. Protected(t)' = {}
  BY DEF Protected, FindLabels
<1> QED BY <1>1 DEF Covered, LoadedFits, NextSeen

(* remove unlinks curr, which then is its own to retire.                   *)
LEMMA RemoveCasInv ==
  ASSUME EnoughSlots, IInv, NEW t \in Threads, ~Strays(t), RemoveCas(t)
  PROVE  IInv'
<1>1. /\ Removes(t, "remove.clear", "clear") /\ UNCHANGED ofScheme
      /\ pc[t] = "remove.cas" /\ UNCHANGED <<pred, curr, nxt, dangling, main>>
      /\ \E to \in {"remove.clear", "clear"} : pc' = [pc EXCEPT ![t] = to]
  BY DEF RemoveCas, Removes, Unlinks, Goto, loopedVars, listVars, findLocals
<1>2. /\ ListInv'
      /\ \/ status' = status /\ pc'[t] = "clear"
         \/ /\ curr[t] \in Nodes /\ status[curr[t]] = "linked"
            /\ status' = [status EXCEPT ![curr[t]] = "retired"]
            /\ pc'[t] = "remove.clear"
  <2>1. /\ "remove.clear" \notin PassedLabels \cup {"add.discard", "add.cas"}
        /\ "clear" \in NoCurrLabels \ {"add.discard"}
    BY DEF PassedLabels, HelpingLabels, NoCurrLabels
  <2> QED BY <1>1, <2>1, RemovesKept, ListPcFunction DEF IInv
<1>3. PICK to \in {"remove.clear", "clear"} :
        pc' = [pc EXCEPT ![t] = to] /\ pc'[t] = to
  BY <1>1 DEF IInv, TypeOK
<1>4. CASE to = "clear"
  <2>1. /\ to \in Labels \ {"undefined"} /\ to \notin HoldingLabels \cup RemovingLabels
    BY <1>4 DEF Labels, FindLabels, HoldingLabels, RemovingLabels, SameSlots
  <2>2. Own(t, to)
    BY <1>1, <1>2, <1>3, <1>4, <2>1, OwnSame
  <2> QED BY <1>2, <2>1, <2>2, OwnNothing
<1>5. CASE to = "remove.clear"
  <2>1. to \in RemovingLabels /\ to \in Labels
    BY <1>5 DEF RemovingLabels, Labels, CallLabels
  <2>2. UnlinksOwn(t, to)
    BY <1>1, <1>2, <1>3, <1>5 DEF UnlinksOwn
  <2>3. Local(t) /\ Own(t, to) /\ RemovedByOne(t)'
    BY <1>1, <2>1, <2>2, UnlinkedOwn
  <2>4. Covered(t)' /\ LoadedFits(t)'
    BY <1>3, <1>5, RemovesHoldsNothing
  <2>5. ThreadInv(t)'
    BY <2>3, <2>4 DEF ThreadInv
  <2> QED BY <1>2, <2>3, <2>5, OwnInv
<1> QED BY <1>4, <1>5

(* remove clears its slots before it retires the node it has unlinked.     *)
LEMMA RemoveClearInv ==
  ASSUME EnoughSlots, IInv, NEW t \in Threads, Clear(t), pc[t] = "remove.clear"
  PROVE  IInv'
<1>1. PICK to \in {"remove.clear", "retire.era"} :
        /\ pc' = [pc EXCEPT ![t] = to]
        /\ ClearSlot(t, "remove.clear", "retire.era")
  BY DEF Clear, ClearSlot, Goto
<1>2. /\ UNCHANGED <<heapVars, loopedVars, main>>
      /\ UNCHANGED <<globalEraClock, retiredPtrList, retiredNodesCount, eraFields,
                     ptr, currEra>>
      /\ UNCHANGED <<status, pred, curr, nxt, dangling>>
  BY DEF Clear, ClearSlot, Goto, heapVars, loopedVars, listVars, findLocals
<1>3. /\ pc'[t] = to /\ \A u \in Threads : u # t => pc'[u] = pc[u]
      /\ to \in Labels /\ to \in RemovingLabels /\ to # "undefined"
  BY <1>1 DEF IInv, TypeOK, Labels, CallLabels, RemovingLabels
<1>4. Own(t, to) /\ Local(t)
  <2>1. Quiet(t) /\ (\A n \in Nodes : newEra'[n] = newEra[n] /\ delEra'[n] = delEra[n])
    BY <1>1, <1>2, QuietClear
  <2>2. Own(t, to)
    BY <1>1, <1>2, <1>3, <2>1, HeapKeepsNodes DEF Own
  <2>3. Removing(t) /\ curr'[t] = curr[t]
    BY <1>2 DEF Removing
  <2> QED BY <1>2, <1>3, <2>2, <2>3 DEF Local, Own, Destroyed
<1>5. RemovedByOne(t) /\ Removing(t) /\ curr[t] # NULL
  BY HeapAssumption DEF IInv, ThreadInv, RemovedByOne, Removing
<1>6. RemovedByOne(t)'
  <2>1. \A u \in Threads : Removing(u)' => Removing(u)
    BY <1>3, <1>5 DEF Removing
  <2>2. Listed(curr[t])' <=> Listed(curr[t])
    BY <1>2 DEF Listed, Retired
  <2> QED BY <1>2, <1>5, <2>1, <2>2 DEF RemovedByOne
<1>7. ThreadInv(t)'
  BY <1>3, <1>6, RemovesHoldsNothing DEF ThreadInv
<1>8. ListInv'
  <2>1. \A u \in Threads : Relabels(u)
    <3>1. /\ to \notin PassedLabels /\ to \notin HelpingLabels
          /\ to \notin {"add.discard", "add.cas", "remove.cas"}
      BY DEF PassedLabels, HelpingLabels
    <3> QED BY <1>3, <1>5, <3>1 DEF Relabels
  <2> QED BY <1>2, <2>1, LabelKept DEF IInv, ListInv, LoopedTypeOK, ListTypeOK,
             loopedVars, listVars, findLocals, callVars, heapVars
<1> QED BY <1>4, <1>7, <1>8, OwnInv

(* The other operations return.                                            *)
LEMMA ReturnInv ==
  ASSUME EnoughSlots, IInv, NEW t \in Threads,
         Return(t) \/ (Clear(t) /\ pc[t] # "remove.clear")
  PROVE  IInv'
<1>1. PICK from \in {"clear", "return"}, to \in {"clear", "idle"} :
        /\ pc[t] = from /\ pc' = [pc EXCEPT ![t] = to]
  BY DEF Return, Clear, ClearSlot, Goto
<1>2. /\ Quiet(t) /\ (\A n \in Nodes : newEra'[n] = newEra[n] /\ delEra'[n] = delEra[n])
      /\ Returns(t) \/ UNCHANGED <<heapVars, loopedVars, main>>
  <2>1. CASE Clear(t) /\ pc[t] # "remove.clear"
    <3>1. /\ ClearSlot(t, "clear", "idle")
          /\ UNCHANGED <<globalEraClock, retiredPtrList, retiredNodesCount,
                         eraFields, ptr, currEra>>
          /\ Returns(t) \/ UNCHANGED <<heapVars, loopedVars, main>>
      BY <2>1 DEF Clear, ClearSlot, Goto
    <3> QED BY <3>1, QuietClear
  <2>2. CASE Return(t)
    BY <2>2, QuietUnchanged DEF Return
  <2> QED BY <2>1, <2>2
<1>3. /\ UNCHANGED <<status, main>>
      /\ \A u \in Threads : u # t =>
           /\ pred'[u] = pred[u] /\ curr'[u] = curr[u] /\ nxt'[u] = nxt[u]
           /\ dangling'[u] = dangling[u]
  BY <1>2 DEF Returns, Forget, loopedVars, listVars, findLocals, heapVars, IInv,
     ListInv, LoopedTypeOK, ListTypeOK
<1>4. /\ to \in Labels \ {"undefined"} /\ to \notin HoldingLabels \cup RemovingLabels
      /\ to \in NoCurrLabels \ {"add.discard"}
  BY DEF Labels, FindLabels, HoldingLabels, RemovingLabels, SameSlots, NoCurrLabels
<1>5. ListInv'
  <2>1. CASE Returns(t)
    <3>1. Goto(t, from, to)
      BY <1>1 DEF Goto
    <3> QED BY <1>4, <2>1, <3>1, ReturnsKept, ListPcFunction DEF IInv
  <2>2. CASE UNCHANGED <<heapVars, loopedVars, main>>
    <3>1. \A u \in Threads : Relabels(u)
      BY <1>1, <1>4 DEF Relabels, NoCurrLabels, PassedLabels, HelpingLabels, IInv, TypeOK
    <3> QED BY <2>2, <3>1, LabelKept DEF IInv, ListInv, LoopedTypeOK, ListTypeOK,
               loopedVars, listVars, findLocals, callVars, heapVars
  <2> QED BY <1>2, <2>1, <2>2
<1>6. Own(t, to)
  BY <1>1, <1>2, <1>3, <1>4, HeapKeepsNodes DEF Own
<1> QED BY <1>4, <1>5, <1>6, OwnNothing

(* A thread ends, or goes where nothing is defined.                        *)
LEMMA EndInv ==
  ASSUME EnoughSlots, IInv, NEW t \in Threads, NEW to \in {"exited", "undefined"},
         pc' = [pc EXCEPT ![t] = to], UNCHANGED <<heapVars, ofScheme, loopedVars, main>>,
         to = "undefined" => main \notin {"deleting", "destroyed"}
  PROVE  IInv'
<1>1. /\ pc'[t] = to /\ \A u \in Threads : u # t => pc'[u] = pc[u]
      /\ pc' \in [Threads -> Labels]
  BY DEF IInv, TypeOK, Labels
<1>2. ListInv'
  <2>1. \A u \in Threads : Relabels(u)
    BY <1>1 DEF Relabels, NoCurrLabels, PassedLabels, HelpingLabels
  <2> QED BY <2>1, LabelKept DEF IInv, ListInv, LoopedTypeOK, ListTypeOK,
             loopedVars, listVars, findLocals, callVars, heapVars
<1>3. Local(t)
  <2>1. Quiet(t) /\ (\A n \in Nodes : newEra'[n] = newEra[n] /\ delEra'[n] = delEra[n])
    BY QuietUnchanged
  <2>2. UNCHANGED <<status, pred, curr, nxt, dangling, main>>
    BY DEF heapVars, loopedVars, listVars, findLocals
  <2>3. ~Removing(t)'
    BY <1>1 DEF Removing
  <2> QED BY <1>1, <2>1, <2>2, <2>3, HeapKeepsNodes DEF Local, Destroyed
<1>4. ThreadInv(t)'
  <2>1. pc'[t] \notin HoldingLabels \cup RemovingLabels
    BY <1>1 DEF HoldingLabels, RemovingLabels, SameSlots, FindLabels
  <2> QED BY <2>1, HoldsNothing
<1>5. MainAlone'
  BY <1>1 DEF IInv, MainAlone
<1>6. main' \in MainStates
  BY DEF IInv, TypeOK
<1> QED BY <1>1, <1>2, <1>3, <1>4, <1>5, <1>6, LocalInv

(* A step of a thread.                                                     *)
LEMMA ThreadStepInv ==
  ASSUME EnoughSlots, IInv, NEW t \in Threads, ThreadStep(t)
  PROVE  IInv'
<1>1. CASE ~Strays(t) /\ FindStep(t)
  BY <1>1, FindHeadInv, FindProtectInv, FindNextInv, FindProtectNextInv,
     FindCompareInv, FindSlotsInv, FindHelpInv, HelpSlot1Inv DEF FindStep
<1>2. CASE ~Strays(t) /\ CallStep(t)
  BY <1>2, CallInv, AddDiscardInv, AddCasInv, RemoveMarkInv, RemoveCasInv,
     RemoveClearInv, RetiresInv, SweepsInv, ReturnInv DEF CallStep
<1>3. CASE Strays(t) /\ Stray(t) /\ UNCHANGED <<heapVars, ofScheme, loopedVars, main>>
  <2>1. main \notin {"deleting", "destroyed"}
    <3>1. pc[t] # "exited"
      BY <1>3 DEF Strays, Uses
    <3> QED BY <3>1 DEF IInv, MainAlone
  <2> QED BY <1>3, <2>1, EndInv DEF Stray
<1>4. CASE Exits(t) /\ UNCHANGED ofScheme
  <2>1. /\ pc[t] = "idle" /\ pc' = [pc EXCEPT ![t] = "exited"]
        /\ UNCHANGED <<heapVars, loopedVars, main>>
    BY <1>4 DEF Exits, LeaveLoop, Goto
  <2> QED BY <1>4, <2>1, EndInv
<1> QED BY <1>1, <1>2, <1>3, <1>4 DEF ThreadStep

(* The main thread goes on; the threads and their slots stay as they are.  *)
LEMMA MainMoves ==
  ASSUME IInv, ListInv', MainAlone', main' \in MainStates, Destroyed => Destroyed',
         UNCHANGED <<heapVars, ofScheme, pc, pred, curr, nxt, dangling>>
  PROVE  IInv'
<1>1. UNCHANGED <<heapVars, heVars, eraFields, heLocals, pc, pred, curr, nxt, dangling>>
  BY DEF ofScheme
<1>2. UNCHANGED <<status, next, item, globalEraClock, hazardErasList, retiredPtrList,
                  retiredNodesCount, newEra, delEra, ptr, currEra, slot, pc, pred,
                  curr, nxt, dangling>>
  BY <1>1 DEF heapVars, heVars, heLocals, eraFields
<1>3. Scheme({})'
  BY <1>2 DEF IInv, Scheme, RetiredOnce, CountsRetired, ErasReached, RetiredBefore,
     Retired
<1>4. TypeOK'
  BY <1>2 DEF IInv, TypeOK, HETypeOK, ListInv
<1>5. ASSUME NEW t \in Threads PROVE ThreadInv(t)'
  <2>1. ThreadInv(t)
    BY DEF IInv
  <2>2. Protected(t)' = Protected(t) /\ \A r : SlotOf(t, r)' = SlotOf(t, r)
    BY <1>2 DEF Protected, SlotOf
  <2>3. /\ \A n : Live(n)' <=> Live(n)
        /\ \A n : Listed(n)' <=> Listed(n)
        /\ \A r : Named(t, r)' = Named(t, r)
    BY <1>2 DEF Live, Listed, Retired, Named
  <2>4. \A n : \A e : WithinLife(n, e)' <=> WithinLife(n, e)
    BY <1>2, <2>3 DEF WithinLife
  <2>5. Covered(t)'
    BY <1>2, <2>1, <2>2, <2>3, <2>4 DEF ThreadInv, Covered, Covers
  <2>6. LoadedFits(t)'
    BY <1>2, <2>1, <2>4 DEF ThreadInv, LoadedFits, NextSeen, EraFits, Covers
  <2>7. RemovedByOne(t)'
    BY <1>2, <2>1, <2>3 DEF ThreadInv, RemovedByOne, Removing
  <2> QED BY <2>5, <2>6, <2>7 DEF ThreadInv
<1> QED BY <1>3, <1>4, <1>5 DEF IInv

(* The list is deleted, and with it all retired nodes.                     *)
LEMMA DestroyInv == ASSUME EnoughSlots, IInv, Destroy PROVE IInv'
<1>1. /\ main = "deleting" /\ main' = "destroyed" /\ pc' = pc
      /\ \A t \in Threads : pc[t] = "exited"
  BY DEF Destroy, DeleteStructure, IInv, MainAlone
<1> DEFINE S == UNION {Retired(t) : t \in Threads}
<1>2. S \in SUBSET Nodes /\ \A n \in S : status[n] = "retired"
  <2>1. \A n \in S : Listed(n)
    BY DEF Listed
  <2> HIDE DEF S
  <2> QED BY <2>1, ListedRetired
<1>3. /\ Delete(S) /\ ForgetEras(S) /\ AfterDeletion
      /\ UNCHANGED <<head, tail, findLocals, callVars, calls>>
      /\ retiredPtrList' = [t \in Threads |-> <<>>]
      /\ UNCHANGED <<globalEraClock, hazardErasList, retiredNodesCount>>
      /\ UNCHANGED <<ptr, currEra, slot>>
  BY DEF Destroy, DeleteInEra, heLocals
<1> HIDE DEF S
<1>4. ListInv'
  <2>1. \A u \in Threads : Relabels(u)
    BY <1>1 DEF Relabels
  <2> QED BY <1>2, <1>3, <2>1, DeletesKept DEF IInv
<1>5. HETypeOK'
  <2>1. newEra' \in [Nodes -> Nat] /\ delEra' \in [Nodes -> Nat]
    BY <1>3 DEF ForgetEras, IInv, TypeOK, HETypeOK
  <2>2. retiredPtrList' \in [Threads -> Seq(Nodes)]
    BY <1>3
  <2> QED BY <1>3, <2>1, <2>2 DEF IInv, TypeOK, HETypeOK
<1>6. Scheme({})'
  <2>1. RetiredOnce' /\ CountsRetired'
    BY <1>1, <1>3 DEF RetiredOnce, CountsRetired, Destroyed
  <2>2. ErasReached'
    BY <1>3 DEF ForgetEras, IInv, TypeOK, HETypeOK, Scheme, ErasReached
  <2> QED BY <2>1, <2>2 DEF Scheme, RetiredBefore
<1>7. ASSUME NEW t \in Threads PROVE ThreadInv(t)'
  <2>1. pc'[t] \notin HoldingLabels \cup RemovingLabels
    BY <1>1 DEF HoldingLabels, RemovingLabels, SameSlots, FindLabels
  <2> QED BY <2>1, HoldsNothing
<1>8. TypeOK'
  BY <1>1, <1>4, <1>5 DEF IInv, TypeOK, ListInv, MainStates
<1> QED BY <1>1, <1>4, <1>6, <1>7, <1>8 DEF IInv, MainAlone

(* The constructors and an empty list.                                     *)
LEMMA InitInv == Init => IInv
<1> SUFFICES ASSUME Init PROVE IInv
  OBVIOUS
<1>1. ListInv
  BY LoopedInitKept DEF Init
<1>2. /\ pc = [t \in Threads |-> "idle"] /\ main = "filling"
      /\ curr = [t \in Threads |-> NULL]
  BY DEF Init, LoopedInit, ListInit
<1>3. Scheme({}) /\ HETypeOK
  <2> DEFINE S == {}
  <2>1. HEInit
    BY DEF Init
  <2> HIDE DEF S
  <2>2. Scheme(S) /\ HETypeOK
    BY <2>1, InitEffect
  <2> USE DEF S
  <2> QED BY <2>2
<1>4. TypeOK
  BY <1>1, <1>2, <1>3 DEF TypeOK, ListInv, MainStates, Labels
<1>5. ASSUME NEW t \in Threads PROVE ThreadInv(t)
  BY <1>2 DEF ThreadInv, Covered, LoadedFits, NextSeen, RemovedByOne, Removing,
     Protected, FindLabels
<1> QED BY <1>1, <1>2, <1>3, <1>4, <1>5 DEF IInv, MainAlone

(* Every step keeps the invariant.                                         *)
LEMMA NextInv == ASSUME EnoughSlots, IInv, [Next]_vars PROVE IInv'
<1>1. ASSUME NEW t \in Threads, ThreadStep(t) PROVE IInv'
  BY <1>1, ThreadStepInv
<1>2. CASE (Starts \/ Quits \/ Joins) /\ UNCHANGED ofScheme
  <2>1. /\ UNCHANGED <<heapVars, ofScheme, pc, pred, curr, nxt, dangling>>
        /\ ~Destroyed /\ main' \in MainStates
    BY <1>2 DEF Starts, Quits, Joins, StartThreads, QuitSignal, JoinUndrained,
       Filling, Destroyed, MainStates, findLocals, loopedVars, listVars
  <2>2. MainAlone'
    BY <1>2 DEF Starts, Quits, Joins, StartThreads, QuitSignal, JoinUndrained,
       MainAlone
  <2>3. ListInv'
    <3>1. CASE Starts
      BY <3>1, StartsKept DEF IInv
    <3>2. CASE Quits \/ Joins
      <4>1. \A u \in Threads : Relabels(u)
        BY <2>1 DEF Relabels
      <4>2. UNCHANGED <<heapVars, loopedVars>>
        BY <3>2 DEF Quits, Joins
      <4> QED BY <2>1, <4>1, <4>2, LabelKept DEF IInv, ListInv, LoopedTypeOK,
                 ListTypeOK, loopedVars, listVars, findLocals, callVars, heapVars
    <3> QED BY <1>2, <3>1, <3>2
  <2> QED BY <2>1, <2>2, <2>3, MainMoves
<1>3. CASE Destroy
  BY <1>3, DestroyInv
<1>4. CASE UNCHANGED vars
  <2>1. /\ UNCHANGED <<heapVars, ofScheme, pc, pred, curr, nxt, dangling>>
        /\ UNCHANGED <<loopedVars, main>>
    BY <1>4 DEF vars, ofScheme, loopedVars, listVars, findLocals
  <2>2. main' \in MainStates /\ MainAlone' /\ (Destroyed => Destroyed')
    BY <2>1 DEF IInv, TypeOK, MainAlone, Destroyed
  <2>3. ListInv'
    <3>1. \A u \in Threads : Relabels(u)
      BY <2>1 DEF Relabels
    <3> QED BY <2>1, <3>1, LabelKept DEF IInv, ListInv, LoopedTypeOK, ListTypeOK,
               loopedVars, listVars, findLocals, callVars, heapVars
  <2> QED BY <2>1, <2>2, <2>3, MainMoves
<1> QED BY <1>1, <1>2, <1>3, <1>4 DEF Next, MainStep, Finished

(* What the invariant is for.                                              *)
LEMMA ListCovers == IInv => TypeOK /\ EraCovers
<1> SUFFICES ASSUME IInv PROVE TypeOK /\ EraCovers
  OBVIOUS
<1>1. ASSUME NEW t \in Threads, NEW role \in Protected(t) \ dangling[t],
             Named(t, role) # NULL
      PROVE  /\ newEra[Named(t, role)] <= hazardErasList[t][SlotOf(t, role)]
             /\ (\E u \in Threads : Named(t, role) \in Retired(u)) =>
                  hazardErasList[t][SlotOf(t, role)] <= delEra[Named(t, role)]
  BY <1>1 DEF IInv, ThreadInv, Covered, Covers, WithinLife, Listed
<1> QED BY <1>1 DEF EraCovers, IInv

-----------------------------------------------------------------------------
(* Where every node is.                                                    *)

(* A step that retires no node and takes none out of the hands of its      *)
(* remover.                                                                *)
LEMMA StaysPlaced ==
  ASSUME Placed, ListPlaced',
         \A n \in Nodes : status'[n] = "retired" => status[n] = "retired",
         \A n : Listed(n) => Listed(n)',
         \A u \in Threads : Removing(u) => Removing(u)' /\ curr'[u] = curr[u]
  PROVE  Placed'
BY DEF Placed

(* The labels at which threads may have nodes.                             *)
LEMMA BusyLabels ==
  /\ FindLabels \cap QuietLabels = {} /\ HelpLabels \cap QuietLabels = {}
  /\ "undefined" \notin QuietLabels
  /\ {"remove.mark", "remove.cas", "remove.clear", "retire.era", "retire.check",
      "retire.add", "clear", "return", "idle", "exited"} \subseteq QuietLabels
BY DEF FindLabels, HelpLabels, QuietLabels

(* The lists stay as they are.                                             *)
LEMMA ListsStay ==
  ASSUME UNCHANGED retiredPtrList
  PROVE  \A n : Listed(n)' <=> Listed(n)
BY DEF Listed, Retired

(* A step of t that changes locals of find, and no label but its own.      *)
LEMMA LocalPlaces ==
  ASSUME IInv, Placed, NEW t \in Threads, NEW to, pc' = [pc EXCEPT ![t] = to],
         pc[t] \in QuietLabels \/ (to \notin QuietLabels /\ pc[t] # "add.discard"),
         Removing(t) => to \in {"help.era", "remove.clear", "retire.era"},
         UNCHANGED <<status, next, head, node, op, retiredPtrList>>,
         \A u \in Threads : Removing(u) => curr'[u] = curr[u]
  PROVE  Placed'
<1>1. pc'[t] = to /\ \A u \in Threads : u # t => pc'[u] = pc[u]
  BY DEF IInv, TypeOK
<1>2. \A u \in Threads : Busy(u)
  BY <1>1 DEF Busy
<1>3. ListPlaced'
  BY <1>2, PlacedKept DEF IInv, Placed
<1>4. \A u \in Threads : Removing(u) => Removing(u)'
  BY <1>1 DEF Removing
<1> QED BY <1>3, <1>4, ListsStay, StaysPlaced

(* The steps of find that only look, and publish.                          *)
LEMMA FindPlaces ==
  ASSUME IInv, Placed, NEW t \in Threads,
         \/ FindHead(t) \/ FindProtect(t) \/ FindNext(t) \/ FindProtectNext(t)
         \/ FindSlots(t) \/ HelpSlot1(t)
  PROVE  Placed'
<1>1. /\ \E from, to \in FindLabels \cup HelpLabels : Goto(t, from, to)
      /\ ~Removing(t)
  BY DEF FindHead, FindProtect, FindNext, FindProtectNext, FindSlots, HelpSlot1,
     ProtectNext, ProtectClock, ProtectPublish, ProtectEraRelease, Goto, FindLabels,
     HelpLabels, Removing
<1>2. PICK from, to \in FindLabels \cup HelpLabels : Goto(t, from, to)
  BY <1>1
<1>3. pc[t] = from /\ pc' = [pc EXCEPT ![t] = to]
  BY <1>2 DEF Goto
<1>4. /\ UNCHANGED <<status, next, head, node, op, retiredPtrList>>
      /\ \A u \in Threads : u # t => curr'[u] = curr[u]
  <2>1. CASE FindHead(t) \/ FindNext(t)
    BY <2>1 DEF FindHead, FindNext, LoadsHead, LoadsNext, Follow, heapVars, heVars,
       ofScheme, callVars, IInv, ListInv, LoopedTypeOK, ListTypeOK
  <2>2. CASE FindProtect(t) \/ FindProtectNext(t)
    BY <2>2 DEF FindProtect, FindProtectNext, ProtectNext, ProtectClock,
       ProtectPublish, heapVars, heVars, loopedVars, listVars, findLocals, callVars
  <2>3. CASE FindSlots(t) \/ HelpSlot1(t)
    BY <2>3 DEF FindSlots, HelpSlot1, ProtectEraRelease, MovesTo, Follow, heapVars,
       heVars, loopedVars, listVars, findLocals, callVars, IInv, ListInv,
       LoopedTypeOK, ListTypeOK
  <2> QED BY <2>1, <2>2, <2>3
<1>5. pc[t] # "add.discard" /\ to \notin QuietLabels
  BY <1>3, BusyLabels DEF FindLabels, HelpLabels
<1> QED BY <1>1, <1>3, <1>4, <1>5, LocalPlaces

(* find compares, goes on, or returns to its caller.                       *)
LEMMA FindComparePlaces ==
  ASSUME IInv, Placed, NEW t \in Threads, FindCompare(t)
  PROVE  Placed'
<1>1. UNCHANGED retiredPtrList
  BY DEF FindCompare, ofScheme, heVars
<1>2. CASE Validates(t, "find.head") \/ Compares(t, "find.head", "find.slot2")
  <2>1. PICK to \in FindLabels \cup HelpLabels :
          pc[t] \in {"find.again", "find.pred"} /\ pc' = [pc EXCEPT ![t] = to]
    BY <1>2 DEF Validates, Compares, TryAgain, Goto, FindLabels, HelpLabels
  <2>2. /\ UNCHANGED <<status, next, head, node, op>>
        /\ \A u \in Threads : u # t => curr'[u] = curr[u]
    BY <1>2 DEF Validates, Compares, TryAgain, MovesTo, Follow, Forget, heapVars,
       loopedVars, listVars, findLocals, callVars, IInv, ListInv, LoopedTypeOK,
       ListTypeOK
  <2>3. ~Removing(t) /\ to \notin QuietLabels
    BY <2>1, BusyLabels DEF Removing
  <2> QED BY <1>1, <2>1, <2>2, <2>3, LocalPlaces
<1>3. ASSUME NEW found \in BOOLEAN, pc[t] \in {"find.again", "find.pred"},
             Ends(t, found, AfterFind(t, found, Done(t)))
      PROVE  Placed'
  <2>1. ListPlaced'
    <3>1. pc[t] \notin QuietLabels \cup {"add.discard"}
      BY <1>3, BusyLabels DEF FindLabels
    <3> QED BY <1>3, <3>1, EndsPlaced, ListPcFunction DEF IInv, Placed
  <2>2. /\ UNCHANGED status
        /\ \A u \in Threads : u # t => pc'[u] = pc[u] /\ curr'[u] = curr[u]
    BY <1>3 DEF Ends, FindReturns, Forget, IInv, TypeOK, ListInv, LoopedTypeOK,
       ListTypeOK
  <2>3. \A u \in Threads : Removing(u) => Removing(u)' /\ curr'[u] = curr[u]
    BY <1>3, <2>2 DEF Removing
  <2> QED BY <1>1, <2>1, <2>2, <2>3, ListsStay, StaysPlaced
<1> QED BY <1>2, <1>3 DEF FindCompare, AtTail, AtKey, FoundAtCurr

(* A step of t in which it takes curr out of the list.                     *)
LEMMA TakesOutPlaces ==
  ASSUME IInv, Placed, NEW t \in Threads, ~Strays(t), Unlinks(t), PredIsCurr(t),
         pc[t] \in {"find.help", "remove.cas"}, NEW to,
         to \in {"help.era", "remove.clear"}, pc' = [pc EXCEPT ![t] = to],
         pc[t] = "find.help" => to = "help.era", UNCHANGED retiredPtrList
  PROVE  Placed'
<1>1. pc'[t] = to /\ \A u \in Threads : u # t => pc'[u] = pc[u]
  BY DEF IInv, TypeOK
<1>2. \A u \in Threads : Busy(u)
  BY <1>1, BusyLabels DEF Busy, HelpLabels
<1>3. ListPlaced'
  BY <1>2, UnlinksPlaced DEF IInv, Placed
<1>4. /\ UNCHANGED curr
      /\ \A m \in Nodes : status'[m] = "retired" /\ m # curr[t] => status[m] = "retired"
  BY DEF Unlinks, findLocals, IInv, ListInv, LoopedTypeOK, ListTypeOK
<1>5. Removing(t)' /\ \A u \in Threads : Removing(u) => Removing(u)'
  BY <1>1 DEF Removing
<1> QED BY <1>3, <1>4, <1>5, ListsStay DEF Placed

(* find takes a marked node out.                                           *)
LEMMA FindHelpPlaces ==
  ASSUME IInv, Placed, NEW t \in Threads, ~Strays(t), FindHelp(t)
  PROVE  Placed'
<1>1. pc[t] = "find.help" /\ UNCHANGED retiredPtrList
  BY DEF FindHelp, ofScheme, heVars
<1>2. CASE ~PredIsCurr(t)
  <2>1. /\ pc' = [pc EXCEPT ![t] = "find.head"]
        /\ UNCHANGED <<status, next, head, node, op>>
        /\ \A u \in Threads : u # t => curr'[u] = curr[u]
    BY <1>2 DEF FindHelp, TryAgain, Goto, Forget, heapVars, callVars, IInv, ListInv,
       LoopedTypeOK, ListTypeOK
  <2>2. ~Removing(t) /\ "find.head" \notin QuietLabels
    BY <1>1, BusyLabels DEF Removing, FindLabels
  <2> QED BY <1>1, <2>1, <2>2, LocalPlaces
<1>3. CASE PredIsCurr(t)
  BY <1>1, <1>3, TakesOutPlaces DEF FindHelp, Goto
<1> QED BY <1>2, <1>3

(* remove takes its node out, or leaves that to some find.                 *)
LEMMA RemoveCasPlaces ==
  ASSUME IInv, Placed, NEW t \in Threads, ~Strays(t), RemoveCas(t)
  PROVE  Placed'
<1>1. pc[t] = "remove.cas" /\ UNCHANGED retiredPtrList
  BY DEF RemoveCas, Removes, ofScheme, heVars
<1>2. CASE ~PredIsCurr(t)
  <2>1. /\ pc' = [pc EXCEPT ![t] = "clear"]
        /\ UNCHANGED <<status, next, head, node, op, curr>>
    BY <1>2 DEF RemoveCas, Removes, Goto, heapVars, loopedVars, listVars, findLocals,
       callVars
  <2>2. ~Removing(t) /\ "remove.cas" \in QuietLabels
    BY <1>1, BusyLabels DEF Removing
  <2> QED BY <1>1, <2>1, <2>2, LocalPlaces
<1>3. CASE PredIsCurr(t)
  BY <1>1, <1>3, TakesOutPlaces DEF RemoveCas, Removes, Goto
<1> QED BY <1>2, <1>3

(* The node a thread has taken out gets its entry.                         *)
LEMMA RetiresPlaces ==
  ASSUME IInv, Placed, NEW t \in Threads, Retires(t)
  PROVE  Placed'
<1>1. PICK from \in {"help.era", "retire.era"}, to \in {"help.check", "retire.check"} :
        /\ RetirePush(t, curr[t], from, to)
        /\ from = "help.era" <=> to = "help.check"
  BY DEF Retires
<1>2. /\ pc[t] = from /\ pc' = [pc EXCEPT ![t] = to]
      /\ UNCHANGED <<status, next, head, node, op, curr, main>>
  BY <1>1 DEF Retires, RetirePush, Goto, heapVars, loopedVars, listVars, findLocals,
     callVars
<1>3. pc'[t] = to /\ \A u \in Threads : u # t => pc'[u] = pc[u]
  BY <1>2 DEF IInv, TypeOK
<1>4. curr[t] \in Nodes /\ status[curr[t]] = "retired" /\ ~Listed(curr[t])
  BY <1>2 DEF IInv, ThreadInv, RemovedByOne, Removing
<1>5. \A m : Listed(m)' <=> Listed(m) \/ m = curr[t]
  <2> DEFINE S == {}
  <2>1. Scheme(S) /\ HETypeOK /\ pc \in [Threads -> Labels]
    BY DEF IInv, TypeOK
  <2> HIDE DEF S
  <2> QED BY <1>1, <1>2, <1>4, <2>1, PushEffect
<1>6. ListPlaced'
  <2>1. \A u \in Threads : Busy(u)
    BY <1>1, <1>2, <1>3, BusyLabels DEF Busy, HelpLabels
  <2> QED BY <1>2, <2>1, PlacedKept DEF IInv, Placed
<1>7. \A u \in Threads : u # t /\ Removing(u) => Removing(u)'
  BY <1>3 DEF Removing
<1> QED BY <1>2, <1>5, <1>6, <1>7 DEF Placed

(* A sweep takes the nodes it deletes out of the list of its thread.       *)
LEMMA SweepsPlaces ==
  ASSUME IInv, Placed, NEW t \in Threads, Sweeps(t)
  PROVE  Placed'
<1>1. PICK from \in {"help.check", "help.add", "retire.check", "retire.add"},
           to \in {"help.add", "help.slot1", "retire.add", "return"} :
        /\ pc[t] = from /\ pc' = [pc EXCEPT ![t] = to]
        /\ from \in {"help.check", "help.add"} <=> to \in {"help.add", "help.slot1"}
        /\ \/ UNCHANGED <<heapVars, retiredPtrList>>
           \/ Sweep(t) /\ globalEraClock' \in {globalEraClock, globalEraClock + 1}
        /\ UNCHANGED <<hazardErasList, ptr, slot>>
  BY DEF Sweeps, RetireCheck, RetireAdd, Goto
<1>2. UNCHANGED <<head, node, op, curr, main>>
  BY DEF Sweeps, findLocals, callVars
<1>3. pc'[t] = to /\ \A u \in Threads : u # t => pc'[u] = pc[u]
  BY <1>1 DEF IInv, TypeOK
<1>4. \A u \in Threads : Busy(u)
  BY <1>1, <1>3, BusyLabels DEF Busy, HelpLabels
<1>5. \A u \in Threads : Removing(u) => Removing(u)'
  BY <1>1, <1>3 DEF Removing
<1>6. CASE UNCHANGED <<heapVars, retiredPtrList>>
  <2>1. UNCHANGED <<status, next>>
    BY <1>6 DEF heapVars
  <2>2. ListPlaced'
    BY <1>2, <1>4, <2>1, PlacedKept DEF IInv, Placed
  <2> QED BY <1>2, <1>5, <1>6, <2>1, <2>2, ListsStay, StaysPlaced
<1>7. CASE Sweep(t) /\ globalEraClock' \in {globalEraClock, globalEraClock + 1}
  <2> DEFINE T == {}
  <2>1. ~Destroyed /\ HETypeOK
    <3>1. pc[t] # "exited"
      BY <1>1
    <3> QED BY <3>1 DEF IInv, TypeOK, MainAlone, Destroyed
  <2>2. Scheme(T) /\ \A u \in Threads : pc'[u] \in T => u # t /\ pc[u] \in T
    BY DEF IInv
  <2> HIDE DEF T
  <2>3. /\ \A n \in Removed(t) : n \in Nodes /\ Listed(n) /\ status[n] = "retired"
        /\ \A n : Listed(n)' <=> Listed(n) /\ n \notin Removed(t)
    BY <1>1, <1>2, <1>7, <2>1, <2>2, SweepEffect
  <2>4. Delete(Removed(t))
    BY <1>7 DEF Sweep, DeleteInEra
  <2>5. ListPlaced'
    BY <1>2, <1>4, <2>3, <2>4, DeletesPlaced DEF IInv, Placed
  <2>6. \A m \in Nodes : status'[m] = IF m \in Removed(t) THEN "free" ELSE status[m]
    BY <2>4 DEF Delete
  <2>7. \A m \in Nodes : status'[m] = "retired" =>
          status[m] = "retired" /\ m \notin Removed(t)
    BY <2>6
  <2> QED BY <1>2, <1>5, <2>3, <2>5, <2>7 DEF Placed
<1> QED BY <1>1, <1>6, <1>7

(* The steps of add and the mark of remove.                                *)
LEMMA AddsPlaces ==
  ASSUME IInv, Placed, NEW t \in Threads, ~Strays(t),
         Call(t) \/ AddDiscard(t) \/ AddCas(t) \/ RemoveMark(t)
  PROVE  Placed'
<1>1. ListPlaced'
  <2>1. "find.head" \notin QuietLabels
    BY DEF QuietLabels
  <2>2. ListInv /\ ListPlaced /\ pc = [u \in Threads |-> pc[u]]
    BY ListPcFunction DEF IInv, Placed
  <2>3. CASE Call(t)
    BY <2>1, <2>2, <2>3, CallAddPlaced, CallOtherPlaced DEF Call
  <2>4. CASE AddDiscard(t)
    BY <2>2, <2>4, DiscardsPlaced DEF AddDiscard
  <2>5. CASE AddCas(t)
    BY <2>1, <2>2, <2>5, AddsPlaced DEF AddCas
  <2>6. CASE RemoveMark(t)
    BY <2>2, <2>6, MarksPlaced DEF RemoveMark
  <2> QED BY <2>3, <2>4, <2>5, <2>6
<1>2. /\ UNCHANGED retiredPtrList
      /\ pc[t] \in {"idle", "add.discard", "add.cas", "remove.mark"}
      /\ \A u \in Threads : u # t => pc'[u] = pc[u] /\ curr'[u] = curr[u]
  <2>1. /\ UNCHANGED retiredPtrList
        /\ \E from \in {"idle", "add.discard", "add.cas", "remove.mark"},
              to \in Labels : Goto(t, from, to)
        /\ UNCHANGED findLocals \/ Forget(t)
    BY DEF Call, CallAdd, CallOther, AddDiscard, Discards, AddCas, Adds, RemoveMark,
       Marks, TryAgain, heVars, ofScheme, Labels, FindLabels, CallLabels
  <2> QED BY <2>1 DEF Goto, Forget, findLocals, IInv, TypeOK, ListInv, LoopedTypeOK,
             ListTypeOK
<1>3. \A n \in Nodes : status'[n] = "retired" => status[n] = "retired"
  <2>1. status \in [Nodes -> Statuses]
    BY DEF IInv, ListInv, LoopedTypeOK, ListTypeOK
  <2>2. CASE Call(t)
    BY <2>1, <2>2 DEF Call, CallAdd, CallOther, New, heapVars
  <2>3. CASE AddDiscard(t)
    <3>1. PICK S : Delete(S)
      BY <2>3 DEF AddDiscard, Discards
    <3> QED BY <3>1 DEF Delete
  <2>4. CASE AddCas(t)
    <3>1. status' = status \/ status' = [status EXCEPT ![node[t]] = "linked"]
      BY <2>4 DEF AddCas, Adds, TryAgain, heapVars
    <3> QED BY <2>1, <3>1
  <2>5. CASE RemoveMark(t)
    BY <2>1, <2>5 DEF RemoveMark, Marks, TryAgain, heapVars
  <2> QED BY <2>2, <2>3, <2>4, <2>5
<1>4. \A u \in Threads : Removing(u) => Removing(u)' /\ curr'[u] = curr[u]
  BY <1>2 DEF Removing
<1> QED BY <1>1, <1>2, <1>3, <1>4, ListsStay, StaysPlaced

(* remove clears its slots with its node in its hands; other operations    *)
(* clear theirs and return.                                                *)
LEMMA ReturnPlaces ==
  ASSUME IInv, Placed, NEW t \in Threads, Clear(t) \/ Return(t)
  PROVE  Placed'
<1>1. PICK from \in {"remove.clear", "clear", "return"},
           to \in {"remove.clear", "retire.era", "clear", "idle"} :
        /\ pc[t] = from /\ pc' = [pc EXCEPT ![t] = to]
        /\ from = "remove.clear" <=> to \in {"remove.clear", "retire.era"}
        /\ from = "remove.clear" => UNCHANGED <<heapVars, loopedVars, main>>
  BY DEF Clear, ClearSlot, Return, Goto
<1>2. pc[t] \in QuietLabels /\ \A u \in Threads : u # t => pc'[u] = pc[u]
  BY <1>1, BusyLabels DEF IInv, TypeOK
<1>3. UNCHANGED retiredPtrList
  BY DEF Clear, Return, ofScheme, heVars
<1>4. CASE Returns(t) /\ from # "remove.clear"
  <2>1. ListPlaced'
    BY <1>2, <1>4, ReturnsPlaced DEF IInv, Placed
  <2>2. UNCHANGED status /\ \A u \in Threads : u # t => curr'[u] = curr[u]
    BY <1>4 DEF Returns, Forget, heapVars, IInv, ListInv, LoopedTypeOK, ListTypeOK
  <2>3. \A u \in Threads : Removing(u) => Removing(u)' /\ curr'[u] = curr[u]
    BY <1>1, <1>2, <1>4, <2>2 DEF Removing
  <2> QED BY <1>3, <2>1, <2>2, <2>3, ListsStay, StaysPlaced
<1>5. CASE UNCHANGED <<heapVars, loopedVars, main>>
  <2>1. UNCHANGED <<status, next, head, node, op, curr>>
    BY <1>5 DEF heapVars, loopedVars, listVars, findLocals, callVars
  <2>2. Removing(t) => to \in {"help.era", "remove.clear", "retire.era"}
    BY <1>1 DEF Removing
  <2> QED BY <1>1, <1>2, <1>3, <2>1, <2>2, LocalPlaces
<1>6. Returns(t) \/ UNCHANGED <<heapVars, loopedVars, main>>
  BY DEF Clear, Return
<1> QED BY <1>1, <1>4, <1>5, <1>6

(* No node but the list's is left when the retired lists are deleted.      *)
LEMMA DestroyPlaces == ASSUME IInv, Placed, Destroy PROVE Placed'
<1> DEFINE S == UNION {Retired(t) : t \in Threads}
<1>1. /\ \A t \in Threads : pc[t] = "exited" /\ pc'[t] = pc[t]
      /\ Delete(S) /\ UNCHANGED <<head, node, op>>
  BY DEF Destroy, DeleteInEra, DeleteStructure, callVars, IInv, MainAlone
<1>2. \A m \in Nodes : status'[m] = IF m \in S THEN "free" ELSE status[m]
  BY <1>1 DEF Delete
<1>3. \A n : Listed(n) <=> n \in S
  BY DEF Listed
<1>4. \A m \in Nodes : status[m] = "retired" => m \in S
  <2>1. \A t \in Threads : ~Removing(t)
    BY <1>1 DEF Removing
  <2> QED BY <1>3, <2>1 DEF Placed
<1>5. \A u \in Threads : Busy(u)
  BY <1>1 DEF Busy
<1> HIDE DEF S
<1>6. ListPlaced'
  <2>1. \A n \in S : status[n] = "retired"
    BY <1>3, ListedRetired
  <2> QED BY <1>1, <1>5, <2>1, DeletesPlaced DEF IInv, Placed
<1>7. \A m \in Nodes : status'[m] # "retired"
  BY <1>2, <1>4
<1> QED BY <1>6, <1>7 DEF Placed

(* Every step keeps the places.                                            *)
LEMMA NextPlaces == ASSUME IInv, Placed, [Next]_vars PROVE Placed'
<1>1. ASSUME NEW t \in Threads, ThreadStep(t) PROVE Placed'
  <2>1. CASE ~Strays(t) /\ FindStep(t)
    BY <2>1, FindPlaces, FindComparePlaces, FindHelpPlaces DEF FindStep
  <2>2. CASE ~Strays(t) /\ CallStep(t)
    BY <2>2, AddsPlaces, RemoveCasPlaces, RetiresPlaces, SweepsPlaces, ReturnPlaces
       DEF CallStep
  <2>3. ASSUME NEW to \in {"exited", "undefined"}, pc' = [pc EXCEPT ![t] = to],
               pc[t] \in QuietLabels \/ (to = "undefined" /\ pc[t] # "add.discard"),
               ~Removing(t), UNCHANGED <<heapVars, ofScheme, loopedVars>>
        PROVE  Placed'
    <3>1. UNCHANGED <<status, next, head, node, op, curr, retiredPtrList>>
      BY <2>3 DEF heapVars, heVars, ofScheme, loopedVars, listVars, findLocals, callVars
    <3> QED BY <2>3, <3>1, BusyLabels, LocalPlaces
  <2>4. CASE Strays(t) /\ Stray(t) /\ UNCHANGED <<heapVars, ofScheme, loopedVars, main>>
    <3>1. ~Removing(t) /\ pc[t] # "add.discard"
      BY <2>4 DEF Strays, Uses, Removing
    <3> QED BY <2>3, <2>4, <3>1 DEF Stray
  <2>5. CASE Exits(t) /\ UNCHANGED ofScheme
    <3>1. pc[t] = "idle" /\ ~Removing(t)
      BY <2>5 DEF Exits, LeaveLoop, Goto, Removing
    <3> QED BY <2>3, <2>5, <3>1, BusyLabels DEF Exits, LeaveLoop, Goto
  <2> QED BY <1>1, <2>1, <2>2, <2>4, <2>5 DEF ThreadStep
<1>2. CASE Destroy
  BY <1>2, DestroyPlaces
<1>3. CASE ((Starts \/ Quits \/ Joins) /\ UNCHANGED ofScheme) \/ UNCHANGED vars
  <2>1. UNCHANGED <<status, next, head, node, op, curr, pc, retiredPtrList>>
    <3>1. CASE UNCHANGED vars
      BY <3>1 DEF vars, heapVars, heVars, loopedVars, listVars, findLocals, callVars
    <3>2. CASE (Starts \/ Quits \/ Joins) /\ UNCHANGED ofScheme
      BY <3>2 DEF Starts, Quits, Joins, StartThreads, QuitSignal, JoinUndrained,
         heapVars, heVars, ofScheme, loopedVars, listVars, findLocals, callVars
    <3> QED BY <1>3, <3>1, <3>2
  <2>2. ListPlaced'
    BY <2>1, PlacedKept DEF IInv, Placed, Busy
  <2>3. \A u \in Threads : Removing(u) => Removing(u)' /\ curr'[u] = curr[u]
    BY <2>1 DEF Removing
  <2> QED BY <2>1, <2>2, <2>3, ListsStay, StaysPlaced
<1> QED BY <1>1, <1>2, <1>3 DEF Next, MainStep, Finished

(* The constructor's list is in its place.                                 *)
LEMMA InitPlaced == Init => Placed
BY LoopedInitPlaced DEF Init, LoopedInit, Placed

(* What the places are for.                                                *)
LEMMA PlacedOwned == ASSUME IInv, Placed PROVE OneOwner
<1>1. ChainSet(head) = Linked
  BY PlacedChain DEF IInv, Placed
<1>2. \A t \in Threads : ~Destroyed => retiredNodesCount[t] = Len(retiredPtrList[t])
  BY DEF IInv, Scheme, CountsRetired
<1>3. ASSUME NEW n \in Nodes
      PROVE  InOnePlace(n, Linked, EntriesOf(retiredPtrList, n),
                        {t \in Threads : Holds(t, n)})
  <2> DEFINE entries == EntriesOf(retiredPtrList, n)
             holders == {t \in Threads : Holds(t, n)}
  <2>1. status[n] \in Statuses /\ (n \in Linked <=> status[n] = "linked") /\ n # NULL
    BY HeapAssumption DEF IInv, ListInv, LoopedTypeOK, ListTypeOK, Linked
  <2>2. IF Listed(n) THEN status[n] = "retired" /\ \E x : entries = {x}
        ELSE entries = {}
    BY OneEntry DEF IInv, TypeOK, HETypeOK, Scheme
  <2>3. \A t \in Threads : node[t] = n =>
          status[n] = "private" /\ \A u \in Threads : node[u] = n => u = t
    BY <2>1 DEF IInv, ListInv, OwnsNode
  <2>4. \A t \in Threads : Removing(t) /\ curr[t] = n =>
          /\ status[n] = "retired" /\ ~Listed(n)
          /\ \A u \in Threads : Removing(u) /\ curr[u] = n => u = t
    BY DEF IInv, ThreadInv, RemovedByOne
  <2>5. \A t : Holds(t, n) <=> node[t] = n \/ (Removing(t) /\ curr[t] = n)
    BY DEF Holds, Removing
  <2>6. ASSUME NEW t \in Threads, Holds(t, n) PROVE holders = {t}
    BY <2>3, <2>4, <2>5, <2>6
  <2>7. status[n] \in {"linked", "free"} => entries = {} /\ holders = {}
    BY <2>2, <2>3, <2>4, <2>5
  <2>8. status[n] = "private" => entries = {} /\ \E x : holders = {x}
    BY <2>2, <2>5, <2>6 DEF Placed, ListPlaced
  <2>9. status[n] = "retired" =>
          \/ entries = {} /\ \E x : holders = {x}
          \/ holders = {} /\ \E x : entries = {x}
    <3>1. CASE ~Listed(n)
      BY <2>2, <2>5, <2>6, <3>1 DEF Placed
    <3>2. CASE Listed(n)
      BY <2>2, <2>3, <2>4, <2>5, <3>2
    <3> QED BY <3>1, <3>2
  <2> HIDE DEF entries, holders
  <2>10. InOnePlace(n, Linked, entries, holders)
    BY <2>1, <2>7, <2>8, <2>9, PlacedOnce
  <2> QED BY <2>10 DEF entries, holders
<1> QED BY <1>1, <1>2, <1>3 DEF OneOwner

=============================================================================
