----------------------------- MODULE HeapProofs -----------------------------
(***************************************************************************)
(* Lemmas about module Heap.  A list is what its links reach from its      *)
(* first node.  What links reach is followed through the changes that      *)
(* pushes, removals and insertions make: a set that is closed under the    *)
(* new links gives one that is closed under the old.                       *)
(*                                                                         *)
(* What the walk of ChainTo returns is proved by induction on its steps    *)
(* (SetInduction, ChainComputed), and followed from then on through the    *)
(* same changes (ChainPushed, ChainPopped, ChainAppended).                 *)
(***************************************************************************)
EXTENDS Heap, FiniteSetTheorems, WellFoundedInduction, TLAPS

(* No link leads from a node of L out of L.                                *)
Within(link, L) == \A n \in L : link[n] # NULL => link[n] \in L

(* What other nodes do is irrelevant to what is reached within L.          *)
LEMMA ReachesWithin ==
  ASSUME NEW p, NEW f, NEW g, NEW L \in SUBSET Nodes, Reaches(p, f, L),
         Within(f, L), p # NULL => p \in L, \A n \in L : g[n] = f[n]
  PROVE  Reaches(p, g, L)
<1> SUFFICES ASSUME NEW S \in SUBSET Nodes, Closed(S, p, g)
             PROVE  L \subseteq S
  BY DEF Reaches
<1>1. Closed(S \cap L, p, f)
  BY DEF Closed, Within
<1> QED BY <1>1 DEF Reaches

(* A node is put in front of the first.                                    *)
LEMMA ReachesPushed ==
  ASSUME NEW p, NEW f, NEW g, NEW L \in SUBSET Nodes, Reaches(p, f, L),
         Within(f, L), p # NULL => p \in L, NEW n \in Nodes,
         \A m \in L : g[m] = f[m], g[n] = p
  PROVE  Reaches(n, g, L \cup {n})
<1> SUFFICES ASSUME NEW S \in SUBSET Nodes, Closed(S, n, g), n # NULL
             PROVE  L \cup {n} \subseteq S
  BY HeapAssumption DEF Reaches
<1>1. Closed(S \cap L, p, f)
  BY DEF Closed, Within
<1>2. n \in S
  BY DEF Closed
<1> QED BY <1>1, <1>2 DEF Reaches

(* The first node is taken out.                                            *)
LEMMA ReachesPopped ==
  ASSUME NEW p, NEW f, NEW g, NEW L \in SUBSET Nodes, Reaches(p, f, L),
         Within(f, L), p \in L, \A m \in L : g[m] = f[m]
  PROVE  Reaches(f[p], g, L \ {p})
<1> SUFFICES ASSUME NEW S \in SUBSET Nodes, Closed(S, f[p], g)
             PROVE  L \ {p} \subseteq S
  BY DEF Reaches
<1>1. Closed((S \cap L) \cup {p}, p, f)
  BY DEF Closed, Within
<1>2. (S \cap L) \cup {p} \in SUBSET Nodes
  OBVIOUS
<1> QED BY <1>1, <1>2 DEF Reaches

(* A node n is put behind the node m, at the end or not.                   *)
LEMMA ReachesInserted ==
  ASSUME NEW p, NEW f, NEW g, NEW L \in SUBSET Nodes, Reaches(p, f, L),
         Within(f, L), p # NULL => p \in L,
         NEW m \in L, NEW n \in Nodes, n \notin L,
         g[m] = n, g[n] = f[m], \A k \in L : k # m => g[k] = f[k]
  PROVE  Reaches(p, g, L \cup {n})
<1> SUFFICES ASSUME NEW S \in SUBSET Nodes, Closed(S, p, g)
             PROVE  L \cup {n} \subseteq S
  BY DEF Reaches
<1>1. n # NULL
  BY HeapAssumption
<1>2. Closed(S \cap L, p, f)
  BY <1>1 DEF Closed, Within
<1>3. L \subseteq S
  BY <1>2 DEF Reaches
<1> QED BY <1>1, <1>3 DEF Closed

(* The node n behind m is taken out.                                       *)
LEMMA ReachesUnlinked ==
  ASSUME NEW p, NEW f, NEW g, NEW L \in SUBSET Nodes, Reaches(p, f, L),
         Within(f, L), p # NULL => p \in L,
         NEW m \in L, NEW n \in L, m # n, p # n, f[m] = n,
         g[m] = f[n], \A k \in L : k # m => g[k] = f[k]
  PROVE  Reaches(p, g, L \ {n})
<1> SUFFICES ASSUME NEW S \in SUBSET Nodes, Closed(S, p, g)
             PROVE  L \ {n} \subseteq S
  BY DEF Reaches
<1>1. m \in S
  <2> SUFFICES ASSUME m \notin S PROVE FALSE
    OBVIOUS
  <2>1. Closed(S \cap L, p, f)
    BY DEF Closed, Within
  <2> QED BY <2>1 DEF Reaches
<1>2. Closed((S \cap L) \cup {n}, p, f)
  BY <1>1 DEF Closed, Within
<1>3. (S \cap L) \cup {n} \in SUBSET Nodes
  OBVIOUS
<1> QED BY <1>2, <1>3 DEF Reaches

(* When links reach every linked node and no other, the list is that of    *)
(* the linked nodes.                                                       *)
LEMMA ChainIsLinked ==
  ASSUME NEW p, Reaches(p, next, Linked), Within(next, Linked),
         p # NULL => p \in Linked
  PROVE  ChainSet(p) = Linked
<1>1. Linked \in SUBSET Nodes /\ Closed(Linked, p, next)
  BY DEF Linked, Closed, Within
<1>2. ChainSet(p) \subseteq Linked
  BY <1>1 DEF ChainSet
<1>3. ASSUME NEW n \in Linked PROVE n \in ChainSet(p)
  BY <1>1, <1>3 DEF ChainSet, Reaches
<1> QED BY <1>2, <1>3

(* The entries of a list that mention n.                                   *)
LEMMA EntriesDef ==
  ASSUME NEW lists, NEW n, NEW e
  PROVE  e \in EntriesOf(lists, n) <=>
           \E t \in DOMAIN lists : \E i \in 1..Len(lists[t]) :
             lists[t][i] = n /\ e = <<t, i>>
BY DEF EntriesOf

(* A set without members, and one with a single member.                    *)
LEMMA Cards == Cardinality({}) = 0 /\ \A x : Cardinality({x}) = 1
BY FS_EmptySet, FS_Singleton

(* A node is in one place when it is linked and nobody's, or not linked    *)
(* and in one entry or in one thread's hands, or free and nowhere.         *)
LEMMA PlacedOnce ==
  ASSUME NEW n \in Nodes, NEW list, NEW entries, NEW holders,
         status[n] \in Statuses,
         n \in list <=> status[n] = "linked",
         status[n] \in {"linked", "free"} => entries = {} /\ holders = {},
         status[n] \in {"private", "retired"} =>
           \/ entries = {} /\ \E x : holders = {x}
           \/ holders = {} /\ \E x : entries = {x}
  PROVE  InOnePlace(n, list, entries, holders)
<1>1. list \cap {n} = IF status[n] = "linked" THEN {n} ELSE {}
  OBVIOUS
<1>2. n \in Allocated <=> status[n] # "free"
  BY DEF Allocated
<1>3. CASE status[n] = "linked"
  <2>1. /\ Cardinality(list \cap {n}) = 1 /\ Cardinality(entries) = 0
        /\ Cardinality(holders) = 0
    BY <1>1, <1>3, Cards
  <2> QED BY <1>2, <1>3, <2>1 DEF InOnePlace
<1>4. CASE status[n] = "free"
  <2>1. /\ Cardinality(list \cap {n}) = 0 /\ Cardinality(entries) = 0
        /\ Cardinality(holders) = 0
    BY <1>1, <1>4, Cards
  <2> QED BY <1>2, <1>4, <2>1 DEF InOnePlace
<1>5. CASE status[n] \in {"private", "retired"}
  <2>1. Cardinality(list \cap {n}) = 0
    BY <1>1, <1>5, Cards
  <2>2. \/ Cardinality(entries) = 0 /\ Cardinality(holders) = 1
        \/ Cardinality(entries) = 1 /\ Cardinality(holders) = 0
    BY <1>5, Cards
  <2> QED BY <1>2, <1>5, <2>1, <2>2 DEF InOnePlace
<1> QED BY <1>3, <1>4, <1>5 DEF Statuses


-----------------------------------------------------------------------------
(* A set with 0 and the successor of each of its members has every natural *)
(* number in it: otherwise there would be a least one that it has not.     *)
LEMMA SetInduction ==
  ASSUME NEW S, 0 \in S, \A n \in Nat : n \in S => n + 1 \in S
  PROVE  Nat \subseteq S
<1> DEFINE T == Nat \ S
<1> SUFFICES ASSUME T # {} PROVE FALSE
  OBVIOUS
<1>1. PICK x \in T : \A y \in T : ~(<<y, x>> \in OpToRel(<, Nat))
  <2>1. T \subseteq Nat
    OBVIOUS
  <2> QED BY <2>1, NatLessThanWellFounded, WFMin, Zenon
<1>2. ASSUME NEW y \in T, y < x PROVE FALSE
  <2>1. <<y, x>> \in {ss \in Nat \X Nat : ss[1] < ss[2]}
    BY <1>2
  <2> QED BY <1>1, <2>1, Zenon DEF OpToRel
<1>3. x # 0 /\ x - 1 \in Nat
  OBVIOUS
<1>4. x - 1 \in T
  BY <1>3
<1> QED BY <1>2, <1>3, <1>4

(* The nodes of s, all different, are those met from p on, up to last.     *)
IsChain(s, p, last, link) ==
  /\ s \in Seq(Nodes)
  /\ \A i, j \in 1..Len(s) : s[i] = s[j] => i = j
  /\ p = IF Len(s) = 0 THEN NULL ELSE s[1]
  /\ \A i \in 1..Len(s) :
       IF i < Len(s) THEN s[i] # last /\ link[s[i]] = s[i + 1]
                     ELSE s[i] = last \/ link[s[i]] = NULL

(* A chain is what ChainTo computes: it is no longer than there are        *)
(* addresses, and the walk finds the nodes of s one after another.         *)
LEMMA ChainComputed ==
  ASSUME NEW s, NEW p, NEW last, IsChain(s, p, last, next)
  PROVE  ChainTo(p, last) = s
<1> DEFINE N == Cardinality(Nodes)
           Step(f) == [i \in 1..N |->
                         IF i = 1 THEN p
                         ELSE IF f[i - 1] \in {NULL, last} THEN NULL
                              ELSE next[f[i - 1]]]
           at == CHOOSE f : f = Step(f)
           g == [i \in 1..N |-> IF i <= Len(s) THEN s[i] ELSE NULL]
<1>1. N \in Nat /\ Len(s) \in Nat /\ Len(s) <= N
  <2>1. N \in Nat
    BY FiniteMemory, FS_CardinalityType
  <2>2. /\ Len(s) \in Nat
        /\ s \in [1..Len(s) -> Nodes]
        /\ \A i, j \in 1..Len(s) : s[i] = s[j] => i = j
    BY DEF IsChain
  <2>3. IsInjective(s)
    BY <2>2 DEF IsInjective
  <2>4. s \in Injection(1..Len(s), Nodes)
    BY <2>2, <2>3 DEF Injection
  <2>5. Cardinality(1..Len(s)) <= N
    BY <2>4, FiniteMemory, FS_Injection DEF ExistsInjection
  <2> QED BY <2>1, <2>2, <2>5, FS_Interval
<1>2. g = Step(g)
  <2>1. ASSUME NEW i \in 1..N PROVE g[i] = Step(g)[i]
    BY <1>1, HeapAssumption DEF IsChain
  <2> QED BY <2>1
<1>3. at = Step(at)
  BY <1>2
<1>4. ASSUME NEW i \in 1..N PROVE at[i] = g[i]
  <2> HIDE DEF at, g
  <2> DEFINE S == {k \in Nat : k \in 1..N => at[k] = g[k]}
  <2>1. 0 \in S
    OBVIOUS
  <2>2. ASSUME NEW k \in Nat, k \in S PROVE k + 1 \in S
    <3> SUFFICES ASSUME k + 1 \in 1..N PROVE at[k + 1] = g[k + 1]
      OBVIOUS
    <3>1. at[k + 1] = Step(at)[k + 1] /\ g[k + 1] = Step(g)[k + 1]
      BY <1>2, <1>3
    <3>2. CASE k = 0
      BY <3>1, <3>2
    <3>3. CASE k # 0
      <4>1. k \in 1..N /\ at[k] = g[k]
        BY <1>1, <2>2, <3>3
      <4> QED BY <3>1, <3>3, <4>1
    <3> QED BY <3>2, <3>3
  <2>3. Nat \subseteq S
    <3> HIDE DEF S
    <3> QED BY <2>1, <2>2, SetInduction
  <2>4. i \in S
    BY <1>1, <2>3
  <2> QED BY <2>4
<1>5. {i \in 1..N : at[i] # NULL} = 1..Len(s)
  BY <1>1, <1>4, HeapAssumption DEF IsChain
<1>6. Cardinality({i \in 1..N : at[i] # NULL}) = Len(s)
  <2>1. Cardinality(1..Len(s)) = IF 1 > Len(s) THEN 0 ELSE Len(s) - 1 + 1
    <3>1. 1 \in Int /\ Len(s) \in Int
      BY <1>1
    <3> QED BY <3>1, FS_Interval, Zenon
  <2>2. Cardinality(1..Len(s)) = Len(s)
    BY <1>1, <2>1
  <2> HIDE DEF at
  <2> QED BY <1>5, <2>2, Zenon
<1>7. [i \in 1..Len(s) |-> at[i]] = s
  BY <1>1, <1>4 DEF IsChain
<1> HIDE DEF g
<1> QED BY <1>6, <1>7, Zenon DEF ChainTo

(* A chain does not depend on the links of other nodes, or of its last.    *)
LEMMA ChainUnchanged ==
  ASSUME NEW s, NEW p, NEW last, NEW f, NEW g, IsChain(s, p, last, f),
         \A i \in 1..Len(s) : s[i] # last => g[s[i]] = f[s[i]]
  PROVE  IsChain(s, p, last, g)
BY DEF IsChain

(* A node in front of the first.                                           *)
LEMMA ChainPushed ==
  ASSUME NEW s, NEW p, NEW last, NEW link, IsChain(s, p, last, link),
         NEW n \in Nodes, \A i \in 1..Len(s) : s[i] # n,
         link[n] = p, n # last
  PROVE  IsChain(<<n>> \o s, n, last, link)
<1> DEFINE r == <<n>> \o s
<1>1. /\ r \in Seq(Nodes) /\ Len(r) = Len(s) + 1 /\ Len(s) \in Nat
      /\ \A i \in 1..Len(r) : r[i] = IF i = 1 THEN n ELSE s[i - 1]
      /\ \A i \in 1..Len(s) : s[i] \in Nodes
  BY DEF IsChain
<1>2. ASSUME NEW i \in 1..Len(r), NEW j \in 1..Len(r), r[i] = r[j]
      PROVE  i = j
  <2>1. i = 1 \/ i - 1 \in 1..Len(s)
    BY <1>1
  <2>2. j = 1 \/ j - 1 \in 1..Len(s)
    BY <1>1
  <2> QED BY <1>1, <1>2, <2>1, <2>2 DEF IsChain
<1>3. ASSUME NEW i \in 1..Len(r)
      PROVE  IF i < Len(r) THEN r[i] # last /\ link[r[i]] = r[i + 1]
                           ELSE r[i] = last \/ link[r[i]] = NULL
  <2>1. CASE i = 1
    <3>1. r[1] = n /\ (Len(s) # 0 => r[2] = s[1])
      BY <1>1
    <3> QED BY <1>1, <2>1, <3>1 DEF IsChain
  <2>2. CASE i # 1
    <3>1. i - 1 \in 1..Len(s) /\ r[i] = s[i - 1]
      BY <1>1, <2>2
    <3>2. i < Len(r) => r[i + 1] = s[i]
      BY <1>1
    <3> QED BY <1>1, <3>1, <3>2 DEF IsChain
  <2> QED BY <2>1, <2>2
<1>4. Len(r) # 0 /\ n = r[1]
  BY <1>1
<1> HIDE DEF r
<1>5. IsChain(r, n, last, link)
  BY <1>1, <1>2, <1>3, <1>4 DEF IsChain
<1> QED BY <1>5 DEF r

(* Without the first node, unless it is the last.                          *)
LEMMA ChainPopped ==
  ASSUME NEW s, NEW p, NEW last, NEW link, IsChain(s, p, last, link),
         p \in Nodes, p # last
  PROVE  /\ s # <<>> /\ Head(s) = p
         /\ IsChain(Tail(s), link[p], last, link)
         /\ Len(s) \in Nat \ {0} /\ Len(Tail(s)) = Len(s) - 1
         /\ \A i \in 1..Len(Tail(s)) : Tail(s)[i] = s[i + 1] /\ s[i + 1] # p
<1>1. /\ Len(s) \in Nat \ {0} /\ s[1] = p /\ s # <<>> /\ Head(s) = p
      /\ \A i \in 1..Len(s) : s[i] \in Nodes
  BY HeapAssumption DEF IsChain
<1> DEFINE r == Tail(s)
<1>2. /\ r \in Seq(Nodes) /\ Len(r) = Len(s) - 1
      /\ \A i \in 1..Len(r) : r[i] = s[i + 1]
  BY <1>1 DEF IsChain
<1>3. \A i \in 1..Len(r) : s[i + 1] # p
  BY <1>1, <1>2 DEF IsChain
<1>4. \A i, j \in 1..Len(r) : r[i] = r[j] => i = j
  BY <1>1, <1>2 DEF IsChain
<1>5. ASSUME NEW i \in 1..Len(r)
      PROVE  IF i < Len(r) THEN r[i] # last /\ link[r[i]] = r[i + 1]
                           ELSE r[i] = last \/ link[r[i]] = NULL
  <2>1. i + 1 \in 1..Len(s) /\ (i < Len(r) <=> i + 1 < Len(s))
    BY <1>1, <1>2
  <2> QED BY <1>2, <2>1 DEF IsChain
<1>6. link[p] = IF Len(r) = 0 THEN NULL ELSE r[1]
  <2>1. CASE Len(s) = 1
    BY <1>1, <1>2, <2>1 DEF IsChain
  <2>2. CASE Len(s) > 1
    <3>1. link[s[1]] = s[1 + 1] /\ r[1] = s[2]
      BY <1>1, <1>2, <2>2 DEF IsChain
    <3> QED BY <1>1, <1>2, <2>2, <3>1
  <2> QED BY <1>1, <2>1, <2>2
<1> HIDE DEF r
<1>7. IsChain(r, link[p], last, link)
  BY <1>2, <1>4, <1>5, <1>6 DEF IsChain
<1> QED BY <1>1, <1>2, <1>3, <1>7 DEF r

(* One more node, behind the last.                                         *)
LEMMA ChainAppended ==
  ASSUME NEW s, NEW p, NEW last, NEW link, IsChain(s, p, last, link),
         Len(s) # 0, s[Len(s)] = last, last \in Nodes,
         NEW n \in Nodes, \A i \in 1..Len(s) : s[i] # n, link[last] = n
  PROVE  IsChain(Append(s, n), p, n, link)
<1> DEFINE r == Append(s, n)
<1>1. /\ r \in Seq(Nodes) /\ Len(r) = Len(s) + 1 /\ Len(s) \in Nat
      /\ \A i \in 1..Len(r) : r[i] = IF i = Len(r) THEN n ELSE s[i]
      /\ \A i \in 1..Len(s) : s[i] \in Nodes
  BY DEF IsChain
<1>2. ASSUME NEW i \in 1..Len(r), NEW j \in 1..Len(r), r[i] = r[j]
      PROVE  i = j
  <2>1. i = Len(r) \/ i \in 1..Len(s)
    BY <1>1
  <2>2. j = Len(r) \/ j \in 1..Len(s)
    BY <1>1
  <2> QED BY <1>1, <1>2, <2>1, <2>2 DEF IsChain
<1>3. ASSUME NEW i \in 1..Len(r)
      PROVE  IF i < Len(r) THEN r[i] # n /\ link[r[i]] = r[i + 1]
                           ELSE r[i] = n \/ link[r[i]] = NULL
  <2>1. CASE i = Len(r)
    BY <1>1, <2>1
  <2>2. CASE i = Len(s)
    <3>1. r[i] = last /\ r[i + 1] = n /\ i < Len(r) /\ i \in 1..Len(s)
      BY <1>1, <2>2
    <3> QED BY <3>1
  <2>3. CASE i < Len(s)
    <3>1. r[i] = s[i] /\ r[i + 1] = s[i + 1] /\ i \in 1..Len(s) /\ i < Len(r)
      BY <1>1, <2>3
    <3> QED BY <2>3, <3>1 DEF IsChain
  <2> QED BY <1>1, <2>1, <2>2, <2>3
<1>4. p = r[1] /\ Len(r) # 0
  BY <1>1 DEF IsChain
<1> HIDE DEF r
<1>5. IsChain(r, p, n, link)
  BY <1>1, <1>2, <1>3, <1>4 DEF IsChain
<1> QED BY <1>5 DEF r

=============================================================================
