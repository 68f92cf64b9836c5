--------------------------- MODULE ProgramHEProofs ---------------------------
(***************************************************************************)
(* What is proved of ProgramHE, for any number of threads, slots,          *)
(* addresses, items and keys and for each of the three structures: its     *)
(* invariant is inductive, so that every variable keeps its type and the   *)
(* eras in the slots lie within the lives of the nodes they are published  *)
(* for, every node has one owner and tail is at most one behind.           *)
(*                                                                         *)
(* The steps of the list are proved about in ListHEProofs, and so is the   *)
(* scheme: first its lemmas are taken over for the stack and the steps of  *)
(* the stack are shown to keep its invariant and its places, then the same *)
(* is done for the queue. The program, which takes these steps, comes      *)
(* last.                                                                   *)
(***************************************************************************)
EXTENDS ProgramHE, HeapProofs

P == INSTANCE ListHEProofs

(* That module assumes of the constants what ProgramHE assumes.            *)
LEMMA FiniteThere == P!IsFiniteSet(Nodes)
BY FiniteMemory DEF IsFiniteSet, P!IsFiniteSet

USE HeapAssumption, FiniteThere, ThreadsAssumption, ErasAssumption

-----------------------------------------------------------------------------
(* The scheme, as the stack uses it.                                       *)

(* The scheme of the stack and that of ListHEProofs are the same.          *)
LEMMA StackScheme ==
  /\ Stack!Threads = P!Threads
  /\ Stack!Slots = P!Slots
  /\ Stack!NodeOrNull = P!NodeOrNull
  /\ Stack!Destroyed <=> P!Destroyed
  /\ Stack!HEInit <=> P!HEInit
  /\ Stack!HETypeOK <=> P!HETypeOK
  /\ \A t : Stack!Retired(t) = P!Retired(t)
  /\ \A n : Stack!Listed(n) <=> P!Listed(n)
  /\ \A n, e : Stack!WithinLife(n, e) <=> P!WithinLife(n, e)
  /\ \A t, s, n : Stack!EraFits(t, s, n) <=> P!EraFits(t, s, n)
  /\ Stack!RetiredOnce <=> P!RetiredOnce
  /\ \A S : Stack!Scheme(S) <=> P!Scheme(S)
  /\ \A t : Stack!Removed(t) = P!Removed(t)
  /\ \A t : Stack!Sweep(t) <=> P!Sweep(t)
  /\ \A t, n, from, to : Stack!RetirePush(t, n, from, to)
       <=> P!RetirePush(t, n, from, to)
  /\ \A t, from, done : Stack!ClearSlot(t, from, done) <=> P!ClearSlot(t, from, done)
  /\ \A lists, n : Stack!EntriesOf(lists, n) = P!EntriesOf(lists, n)
  /\ Stack!Destroyed' <=> P!Destroyed'
  /\ Stack!HETypeOK' <=> P!HETypeOK'
  /\ \A S : Stack!Scheme(S)' <=> P!Scheme(S)'
  /\ \A n : Stack!Listed(n)' <=> P!Listed(n)'
  /\ \A n, e : Stack!WithinLife(n, e)' <=> P!WithinLife(n, e)'
<1>1. /\ Stack!Threads = P!Threads
      /\ Stack!Slots = P!Slots
      /\ Stack!NodeOrNull = P!NodeOrNull
      /\ Stack!Destroyed <=> P!Destroyed
      /\ Stack!HEInit <=> P!HEInit
      /\ Stack!HETypeOK <=> P!HETypeOK
  BY DEF Stack!Threads, P!Threads, Stack!Slots, P!Slots,
     Stack!NodeOrNull, P!NodeOrNull, Stack!Destroyed, P!Destroyed,
     Stack!emptyEra, P!emptyEra, Stack!HEInit, P!HEInit, Stack!HETypeOK,
     P!HETypeOK
<1>2. /\ \A t : Stack!Retired(t) = P!Retired(t)
      /\ \A n : Stack!Listed(n) <=> P!Listed(n)
      /\ \A n, e : Stack!WithinLife(n, e) <=> P!WithinLife(n, e)
      /\ \A t, s, n : Stack!EraFits(t, s, n) <=> P!EraFits(t, s, n)
      /\ Stack!RetiredOnce <=> P!RetiredOnce
      /\ \A S : Stack!Scheme(S) <=> P!Scheme(S)
  BY DEF Stack!Members, P!Members, Stack!Retired, P!Retired,
     Stack!Threads, P!Threads, Stack!Listed, P!Listed, Stack!WithinLife,
     P!WithinLife, Stack!EraFits, P!EraFits, Stack!RetiredOnce,
     P!RetiredOnce, Stack!Destroyed, P!Destroyed, Stack!CountsRetired,
     P!CountsRetired, Stack!Slots, P!Slots, Stack!ErasReached,
     P!ErasReached, Stack!RetiredBefore, P!RetiredBefore, Stack!Scheme,
     P!Scheme
<1>3. \A S : Stack!Cardinality(S) = P!Cardinality(S)
  BY DEF Stack!Cardinality, P!Cardinality
<1>4. \A list, S : Stack!Survivors(list, S) = P!Survivors(list, S)
  BY DEF Stack!InOrder, P!InOrder, Stack!Survivors, P!Survivors,
     Stack!Cardinality, P!Cardinality
<1>5. /\ \A t : Stack!Kept(t) = P!Kept(t)
      /\ \A t : Stack!Removed(t) = P!Removed(t)
  BY <1>2, <1>4 DEF Stack!Slots, P!Slots, Stack!emptyEra, P!emptyEra,
     Stack!canRemoveNode, P!canRemoveNode, Stack!Kept, P!Kept,
     Stack!Members, P!Members, Stack!Removed, P!Removed
<1>6. \A t : Stack!Sweep(t) <=> P!Sweep(t)
  BY <1>3, <1>5 DEF Stack!Delete, P!Delete, Stack!ForgetEras,
     P!ForgetEras, Stack!DeleteInEra, P!DeleteInEra, Stack!Sweep, P!Sweep
<1>7. /\ \A t, n, from, to : Stack!RetirePush(t, n, from, to)
           <=> P!RetirePush(t, n, from, to)
      /\ \A t, from, done : Stack!ClearSlot(t, from, done)
           <=> P!ClearSlot(t, from, done)
      /\ \A lists, n : Stack!EntriesOf(lists, n) = P!EntriesOf(lists, n)
  BY DEF Stack!Goto, P!Goto, Stack!heapVars, P!heapVars,
     Stack!RetirePush, P!RetirePush, Stack!emptyEra, P!emptyEra,
     Stack!ClearSlot, P!ClearSlot, Stack!EntriesOf, P!EntriesOf
<1>8. /\ Stack!Destroyed' <=> P!Destroyed'
      /\ Stack!HETypeOK' <=> P!HETypeOK'
      /\ \A S : Stack!Scheme(S)' <=> P!Scheme(S)'
      /\ \A n : Stack!Listed(n)' <=> P!Listed(n)'
      /\ \A n, e : Stack!WithinLife(n, e)' <=> P!WithinLife(n, e)'
  BY DEF Stack!Destroyed, P!Destroyed, Stack!Threads, P!Threads,
     Stack!Slots, P!Slots, Stack!NodeOrNull, P!NodeOrNull, Stack!HETypeOK,
     P!HETypeOK, Stack!RetiredOnce, P!RetiredOnce, Stack!CountsRetired,
     P!CountsRetired, Stack!ErasReached, P!ErasReached, Stack!Members,
     P!Members, Stack!Retired, P!Retired, Stack!RetiredBefore,
     P!RetiredBefore, Stack!Scheme, P!Scheme, Stack!Listed, P!Listed,
     Stack!WithinLife, P!WithinLife
<1> QED BY <1>1, <1>2, <1>5, <1>6, <1>7, <1>8

(* The entries and lengths of the retired lists.                           *)
LEMMA StackListEntries ==
  ASSUME retiredPtrList \in [Stack!Threads -> Seq(Nodes)], NEW t \in Stack!Threads
  PROVE  /\ retiredPtrList[t] \in Seq(Nodes)
         /\ Len(retiredPtrList[t]) \in Nat
         /\ \A i \in 1..Len(retiredPtrList[t]) : retiredPtrList[t][i] \in Nodes
         /\ Stack!Retired(t) \subseteq Nodes
BY P!ListEntries, StackScheme

(* The scheme begins with empty lists in the first era.                    *)
LEMMA StackInitEffect ==
  ASSUME NEW S, Stack!HEInit
  PROVE  Stack!Scheme(S) /\ Stack!HETypeOK
BY P!InitEffect, StackScheme

(* A step that leaves the lists and the clock alone, keeps the retired     *)
(* nodes with their eras, stores no later era than the clock's and lets    *)
(* nobody begin to check.                                                  *)
LEMMA StackSchemeKept ==
  ASSUME NEW S, Stack!Scheme(S), retiredPtrList \in [Stack!Threads -> Seq(Nodes)],
         UNCHANGED <<globalEraClock, retiredPtrList, retiredNodesCount>>,
         \A n \in Nodes : status[n] = "retired" =>
           status'[n] = "retired" /\ delEra'[n] = delEra[n],
         \A n \in Nodes : newEra'[n] <= globalEraClock /\ delEra'[n] <= globalEraClock,
         \A u \in Stack!Threads : /\ currEra'[u] <= globalEraClock
                            /\ \A s \in Stack!Slots : hazardErasList'[u][s] <= globalEraClock,
         \A u \in Stack!Threads : pc'[u] \in S => pc[u] \in S
           /\ currEra'[u] = currEra[u],
         Stack!Destroyed => Stack!Destroyed'
  PROVE  /\ Stack!Scheme(S)'
         /\ \A n : Stack!Listed(n)' <=> Stack!Listed(n)
BY P!SchemeKept, StackScheme
   DEF Stack!heapVars, P!heapVars, Stack!eraFields, P!eraFields

(* A node that is in no list is appended to that of t, in the era of the   *)
(* clock: no era that has been published is later than its life.           *)
LEMMA StackPushEffect ==
  ASSUME NEW S, Stack!Scheme(S), Stack!HETypeOK,
         NEW t \in Stack!Threads, NEW n \in Nodes, NEW from, NEW to,
         Stack!RetirePush(t, n, from, to), NEW L, pc \in [Stack!Threads -> L],
         status[n] = "retired", ~Stack!Listed(n), UNCHANGED main
  PROVE  /\ Stack!Scheme(S)' /\ Stack!HETypeOK'
         /\ \A m : Stack!Listed(m)' <=> Stack!Listed(m) \/ m = n
         /\ \A m, e : e <= globalEraClock /\ Stack!WithinLife(m, e)
              => Stack!WithinLife(m, e)'
BY P!PushEffect, StackScheme
   DEF Stack!heapVars, P!heapVars, Stack!eraFields, P!eraFields

(* A sweep of t takes the nodes it deletes out of the list of t, and       *)
(* leaves all others as they are.                                          *)
LEMMA StackSweepEffect ==
  ASSUME NEW S, Stack!Scheme(S), Stack!HETypeOK, NEW t \in Stack!Threads,
         Stack!Sweep(t),
         UNCHANGED <<hazardErasList, ptr, slot, main>>, ~Stack!Destroyed,
         globalEraClock' \in {globalEraClock, globalEraClock + 1},
         \A u \in Stack!Threads : pc'[u] \in S => u # t /\ pc[u] \in S
  PROVE  /\ Stack!Scheme(S)' /\ Stack!HETypeOK'
         /\ \A n \in Stack!Removed(t) : n \in Nodes /\ Stack!Listed(n)
              /\ status[n] = "retired"
         /\ \A n : Stack!Listed(n)' <=> Stack!Listed(n) /\ n \notin Stack!Removed(t)
         /\ \A n \in Nodes :
              IF n \in Stack!Removed(t) THEN status'[n] = "free"
              ELSE /\ status'[n] = status[n] /\ next'[n] = next[n]
                   /\ item'[n] = item[n]
                   /\ newEra'[n] = newEra[n] /\ delEra'[n] = delEra[n]
BY P!SweepEffect, StackScheme
   DEF Stack!heapVars, P!heapVars, Stack!eraFields, P!eraFields

(* When a sweep comes, the clock has moved since the nodes it can delete   *)
(* were retired: a clock that still shows the published era vouches for    *)
(* a node that stays.                                                      *)
LEMMA StackSweepSpares ==
  ASSUME NEW S, Stack!Scheme(S), Stack!HETypeOK, NEW t \in Stack!Threads,
         NEW u \in Stack!Threads, NEW s \in Stack!Slots, NEW n,
         \/ /\ globalEraClock' = globalEraClock + 1
         \/ /\ pc[t] \in S /\ globalEraClock # currEra[t]
            /\ UNCHANGED globalEraClock,
         globalEraClock' = hazardErasList[u][s], Stack!EraFits(u, s, n)
  PROVE  n \notin Stack!Removed(t)
BY P!SweepSpares, StackScheme

LEMMA StackFirstSlot == 0 \in Stack!Slots
BY P!FirstSlot, StackScheme

(* A step of get_protected: what is loaded goes to the locals of t, and no *)
(* era later than the clock's is published.                                *)
StackProtects(t, atom, s) ==
  \/ \E from, clock : Stack!ProtectLoad(t, from, clock, atom)
  \/ \E from, publish, done : Stack!ProtectClock(t, from, publish, done, s)
  \/ \E from, load : Stack!ProtectPublish(t, from, load, s)

(* The same of it.                                                         *)
LEMMA StackProtectsSame ==
  \A t, atom, s : StackProtects(t, atom, s) <=> P!Protects(t, atom, s)
BY DEF StackProtects, P!Protects, Stack!Goto, P!Goto, Stack!heapVars,
   P!heapVars, Stack!heVars, P!heVars, Stack!eraFields, P!eraFields,
   Stack!ProtectLoad, P!ProtectLoad, Stack!EraPublished, P!EraPublished,
   Stack!ProtectClock, P!ProtectClock, Stack!ProtectPublish, P!ProtectPublish

LEMMA StackProtectEffect ==
  ASSUME NEW S, Stack!Scheme(S), Stack!HETypeOK, NEW t \in Stack!Threads,
         NEW s \in Stack!Slots,
         NEW atom \in Stack!NodeOrNull, StackProtects(t, atom, s)
  PROVE  /\ Stack!HETypeOK'
         /\ UNCHANGED <<Stack!heapVars, globalEraClock, retiredPtrList,
                        retiredNodesCount, Stack!eraFields>>
         /\ currEra'[t] <= globalEraClock
         /\ \A i \in Stack!Slots : hazardErasList'[t][i] <= globalEraClock
         /\ \A u \in Stack!Threads : u # t =>
              /\ ptr'[u] = ptr[u] /\ hazardErasList'[u] = hazardErasList[u]
              /\ currEra'[u] = currEra[u]
BY P!ProtectEffect, StackScheme, StackProtectsSame
   DEF Stack!heapVars, P!heapVars, Stack!eraFields, P!eraFields

(* clear stores the empty era in a slot of t.                              *)
LEMMA StackClearEffect ==
  ASSUME NEW S, Stack!Scheme(S), Stack!HETypeOK, NEW t \in Stack!Threads,
         NEW from, NEW done,
         Stack!ClearSlot(t, from, done), ptr' \in [Stack!Threads -> Stack!NodeOrNull],
         UNCHANGED <<globalEraClock, retiredPtrList, retiredNodesCount,
                     Stack!eraFields, currEra>>
  PROVE  /\ Stack!HETypeOK'
         /\ currEra'[t] <= globalEraClock
         /\ \A i \in Stack!Slots : hazardErasList'[t][i] <= globalEraClock
         /\ \A u \in Stack!Threads : u # t => hazardErasList'[u] = hazardErasList[u]
BY P!ClearEffect, StackScheme
   DEF Stack!heapVars, P!heapVars, Stack!eraFields, P!eraFields

(* A listed node has one entry, one that is not listed has none.           *)
LEMMA StackOneEntry ==
  ASSUME retiredPtrList \in [Stack!Threads -> Seq(Nodes)], Stack!RetiredOnce, NEW n
  PROVE  IF Stack!Listed(n)
         THEN /\ n \in Nodes /\ status[n] = "retired"
              /\ \E x : Stack!EntriesOf(retiredPtrList, n) = {x}
         ELSE Stack!EntriesOf(retiredPtrList, n) = {}
BY P!OneEntry, StackScheme

(* The links of the nodes.                                                 *)
LEMMA StackLinks ==
  /\ \A p, f, L : Stack!Reaches(p, f, L) <=> Reaches(p, f, L)
  /\ \A p : Stack!ChainSet(p) = ChainSet(p)
  /\ Stack!Linked = Linked /\ Stack!Statuses = Statuses
  /\ \A n, l, e, h : Stack!InOnePlace(n, l, e, h) <=> InOnePlace(n, l, e, h)
<1>1. \A S : Stack!Cardinality(S) = Cardinality(S)
  BY DEF Stack!Cardinality, Cardinality
<1> QED
  BY <1>1
     DEF Stack!Reaches, Reaches, Stack!Closed, Closed, Stack!ChainSet, ChainSet,
         Stack!Linked, Linked, Stack!Statuses, Statuses, Stack!Allocated, Allocated,
         Stack!InOnePlace, InOnePlace

(* What other nodes do is irrelevant to what is reached within L.          *)
LEMMA StackReachesWithin ==
  ASSUME NEW p, NEW f, NEW g, NEW L \in SUBSET Nodes, Stack!Reaches(p, f, L),
         Within(f, L), p # NULL => p \in L, \A n \in L : g[n] = f[n]
  PROVE  Stack!Reaches(p, g, L)
BY ReachesWithin, StackLinks

(* A node is put in front of the first.                                    *)
LEMMA StackReachesPushed ==
  ASSUME NEW p, NEW f, NEW g, NEW L \in SUBSET Nodes, Stack!Reaches(p, f, L),
         Within(f, L), p # NULL => p \in L, NEW n \in Nodes,
         \A m \in L : g[m] = f[m], g[n] = p
  PROVE  Stack!Reaches(n, g, L \cup {n})
BY ReachesPushed, StackLinks

(* The first node is taken out.                                            *)
LEMMA StackReachesPopped ==
  ASSUME NEW p, NEW f, NEW g, NEW L \in SUBSET Nodes, Stack!Reaches(p, f, L),
         Within(f, L), p \in L, \A m \in L : g[m] = f[m]
  PROVE  Stack!Reaches(f[p], g, L \ {p})
BY ReachesPopped, StackLinks

(* When links reach every linked node and no other, the list is that of    *)
(* the linked nodes.                                                       *)
LEMMA StackChainIsLinked ==
  ASSUME NEW p, Stack!Reaches(p, next, Stack!Linked), Within(next, Stack!Linked),
         p # NULL => p \in Stack!Linked
  PROVE  Stack!ChainSet(p) = Stack!Linked
BY ChainIsLinked, StackLinks

(* A node is in one place when it is linked and nobody's, or not linked    *)
(* and in one entry or in one thread's hands, or free and nowhere.         *)
LEMMA StackPlacedOnce ==
  ASSUME NEW n \in Nodes, NEW list, NEW entries, NEW holders,
         status[n] \in Stack!Statuses,
         n \in list <=> status[n] = "linked",
         status[n] \in {"linked", "free"} => entries = {} /\ holders = {},
         status[n] \in {"private", "retired"} =>
           \/ entries = {} /\ \E x : holders = {x}
           \/ holders = {} /\ \E x : entries = {x}
  PROVE  Stack!InOnePlace(n, list, entries, holders)
BY PlacedOnce, StackLinks

-----------------------------------------------------------------------------
(* The steps of the stack.                                                 *)

(* Where the retired lists are swept.                                      *)
StackChecking == {"retire.check"}

(* A step of another thread.                                               *)
StackSame(u) ==
  /\ pc'[u] = pc[u] /\ node'[u] = node[u] /\ nxt'[u] = nxt[u]
  /\ ptr'[u] = ptr[u] /\ hazardErasList'[u] = hazardErasList[u]
  /\ currEra'[u] = currEra[u] /\ (u \in dangling' <=> u \in dangling)

(* What a guarding thread knows of its node is what EraCovers says.        *)
LEMMA StackCovers ==
  ASSUME Stack!TypeOK, \A t \in Stack!Threads : Stack!GuardedLives(t)
  PROVE  Stack!EraCovers
BY DEF Stack!GuardedLives, Stack!EraCovers, Stack!Guards, Stack!Covers,
       Stack!WithinLife, Stack!Listed

(* The constructors establish the invariant.                               *)
LEMMA StackInitInv == Stack!Init => Stack!IInv
<1> SUFFICES ASSUME Stack!Init PROVE Stack!IInv
  OBVIOUS
<1> USE HeapAssumption, ErasAssumption, ThreadsAssumption
        DEF Stack!Init, Stack!BenchmarkInit, Stack!HeapWithSentinel
<1>1. Stack!Scheme(StackChecking) /\ Stack!TypeOK
  <2>1. Stack!Scheme(StackChecking) /\ Stack!HETypeOK
    BY StackInitEffect
  <2> QED BY <2>1
             DEF Stack!TypeOK, Stack!MainStates, Stack!HeapTypeOK,
                 Stack!NodeOrNull, Stack!Statuses, Stack!Labels
<1>2. Stack!StackShape /\ Stack!MainAlone
  BY DEF Stack!StackShape, Stack!MainAlone
<1>3. \A t \in Stack!Threads : Stack!ThreadInv(t)
  BY DEF Stack!ThreadInv, Stack!OwnsNode, Stack!PoppedByOne, Stack!Popped,
         Stack!LoadedLives, Stack!GuardedLives, Stack!PushLabels,
         Stack!GuardLabels
<1>4. Stack!EraCovers
  BY <1>1, <1>3, StackCovers DEF Stack!ThreadInv
<1> QED BY <1>1, <1>2, <1>3, <1>4 DEF Stack!IInv, StackChecking

(* A thread that changes neither the nodes nor their lists nor the clock.  *)
LEMMA StackLocalInv ==
  ASSUME Stack!IInv, Stack!Defined, NEW t \in Stack!Threads, Stack!TypeOK',
         UNCHANGED <<Stack!heapVars, top, globalEraClock, retiredPtrList,
                     retiredNodesCount, Stack!eraFields>>,
         \A u \in Stack!Threads : u # t => StackSame(u),
         currEra'[t] <= globalEraClock,
         \A s \in Stack!Slots : hazardErasList'[t][s] <= globalEraClock,
         pc'[t] # "retire.check",
         pc'[t] \in Stack!PushLabels =>
           /\ pc[t] \in Stack!PushLabels /\ node'[t] = node[t]
           /\ pc'[t] = "push.cas" => next[node[t]] = ptr'[t],
         Stack!Popped(t)' => Stack!Popped(t) /\ ptr'[t] = ptr[t],
         Stack!LoadedLives(t)', Stack!GuardedLives(t)', Stack!MainAlone',
         Stack!Destroyed => Stack!Destroyed'
  PROVE  Stack!IInv'
<1>1. /\ Stack!TypeOK /\ Stack!Scheme(StackChecking) /\ Stack!StackShape
      /\ \A u \in Stack!Threads : Stack!ThreadInv(u)
  BY DEF Stack!IInv, StackChecking
<1>2. Stack!Scheme(StackChecking)' /\ \A n : Stack!Listed(n)' <=> Stack!Listed(n)
  <2>1. \A u \in Stack!Threads : /\ currEra'[u] <= globalEraClock
                                 /\ \A s \in Stack!Slots : hazardErasList'[u][s] <= globalEraClock
    BY <1>1 DEF Stack!Scheme, Stack!ErasReached, StackSame
  <2>2. \A n \in Nodes : newEra'[n] <= globalEraClock /\ delEra'[n] <= globalEraClock
    BY <1>1 DEF Stack!Scheme, Stack!ErasReached, Stack!eraFields
  <2>3. \A u \in Stack!Threads : pc'[u] \in StackChecking =>
          pc[u] \in StackChecking /\ currEra'[u] = currEra[u]
    BY DEF StackSame, StackChecking
  <2>4. retiredPtrList \in [Stack!Threads -> Seq(Nodes)]
    BY <1>1 DEF Stack!TypeOK, Stack!HETypeOK
  <2>5. UNCHANGED <<status, delEra>>
    BY DEF Stack!heapVars, Stack!eraFields
  <2> QED BY <1>1, <2>1, <2>2, <2>3, <2>4, <2>5, StackSchemeKept
<1>3. Stack!StackShape'
  BY <1>1 DEF Stack!StackShape, Stack!heapVars
<1>4. ASSUME NEW u \in Stack!Threads PROVE Stack!OwnsNode(u)'
  BY <1>1 DEF Stack!ThreadInv, Stack!OwnsNode, StackSame, Stack!heapVars
<1>5. ASSUME NEW u \in Stack!Threads PROVE Stack!PoppedByOne(u)'
  BY <1>1, <1>2
     DEF Stack!ThreadInv, Stack!PoppedByOne, Stack!Popped, StackSame,
         Stack!heapVars
<1>6. ASSUME NEW u \in Stack!Threads
      PROVE Stack!LoadedLives(u)' /\ Stack!GuardedLives(u)'
  <2>1. CASE u # t
    <3>1. Stack!ThreadInv(u) /\ StackSame(u)
      BY <1>1, <2>1
    <3> QED BY <3>1, <1>2
               DEF Stack!ThreadInv, Stack!LoadedLives, Stack!GuardedLives,
                   StackSame, Stack!Live, Stack!EraFits, Stack!Covers,
                   Stack!WithinLife, Stack!heapVars, Stack!eraFields
  <2> QED BY <2>1
<1>7. Stack!EraCovers'
  BY <1>6
     DEF Stack!GuardedLives, Stack!EraCovers, Stack!Guards, Stack!Covers,
         Stack!WithinLife, Stack!Listed
<1> QED BY <1>2, <1>3, <1>4, <1>5, <1>6, <1>7
           DEF Stack!IInv, Stack!ThreadInv, StackChecking

(* get_protected of a push publishes no era later than the clock's.        *)
LEMMA PushProtectInv ==
  ASSUME Stack!IInv, Stack!Defined, NEW t \in Stack!Threads, Stack!PushProtect(t)
  PROVE  Stack!IInv'
<1>1. /\ Stack!TypeOK /\ Stack!Scheme(StackChecking) /\ Stack!MainAlone
      /\ Stack!ThreadInv(t)
  BY DEF Stack!IInv, StackChecking
<1>2. /\ Stack!HETypeOK'
      /\ UNCHANGED <<Stack!heapVars, globalEraClock, retiredPtrList,
                     retiredNodesCount, Stack!eraFields>>
      /\ currEra'[t] <= globalEraClock
      /\ \A s \in Stack!Slots : hazardErasList'[t][s] <= globalEraClock
      /\ \A u \in Stack!Threads : u # t =>
           /\ ptr'[u] = ptr[u] /\ hazardErasList'[u] = hazardErasList[u]
           /\ currEra'[u] = currEra[u]
  <2>1. StackProtects(t, top, 0)
    BY DEF Stack!PushProtect, StackProtects
  <2>2. top \in Stack!NodeOrNull /\ Stack!HETypeOK
    BY <1>1 DEF Stack!TypeOK
  <2> QED BY <1>1, <2>1, <2>2, StackFirstSlot, StackProtectEffect
<1> USE DEF Stack!PushProtect, Stack!ProtectLoad, Stack!ProtectClock,
            Stack!ProtectPublish, Stack!EraPublished, Stack!Goto,
            Stack!heapVars, Stack!heVars, Stack!eraFields, Stack!heLocals,
            Stack!locals
<1>3. Stack!TypeOK'
  <2>1. Stack!HeapTypeOK'
    BY <1>1 DEF Stack!TypeOK, Stack!HeapTypeOK
  <2>2. pc' \in [Stack!Threads -> Stack!Labels]
    BY <1>1
       DEF Stack!TypeOK, Stack!Labels, Stack!PushLabels, Stack!PopLabels,
           Stack!GuardLabels
  <2>3. /\ top' \in Stack!NodeOrNull /\ node' \in [Stack!Threads -> Stack!NodeOrNull]
        /\ nxt' \in [Stack!Threads -> Stack!NodeOrNull]
        /\ retData' \in [Stack!Threads -> Items \cup {NULL}]
        /\ dangling' \subseteq Stack!Threads /\ main' \in Stack!MainStates
    BY <1>1, ErasAssumption DEF Stack!TypeOK
  <2> QED BY <1>2, <2>1, <2>2, <2>3 DEF Stack!TypeOK
<1>4. \A u \in Stack!Threads : u # t => StackSame(u)
  BY <1>1, <1>2 DEF StackSame, Stack!TypeOK
<1>5. /\ UNCHANGED top /\ pc'[t] # "retire.check"
      /\ pc'[t] \in Stack!PushLabels =>
           /\ pc[t] \in Stack!PushLabels /\ node'[t] = node[t]
           /\ pc'[t] = "push.cas" => next[node[t]] = ptr'[t]
      /\ Stack!Popped(t)' => Stack!Popped(t) /\ ptr'[t] = ptr[t]
  BY <1>1 DEF Stack!TypeOK, Stack!PushLabels, Stack!Popped
<1>6. Stack!LoadedLives(t)' /\ Stack!GuardedLives(t)'
  BY <1>1
     DEF Stack!TypeOK, Stack!ThreadInv, Stack!LoadedLives, Stack!GuardedLives,
         Stack!GuardLabels, Stack!Live, Stack!Covers, Stack!WithinLife,
         Stack!Listed, Stack!Retired
<1>7. Stack!MainAlone' /\ (Stack!Destroyed => Stack!Destroyed')
  BY <1>1, ThreadsAssumption
     DEF Stack!TypeOK, Stack!MainAlone, Stack!PushLabels, Stack!Destroyed,
         Stack!Threads
<1> QED BY <1>2, <1>3, <1>4, <1>5, <1>6, <1>7, StackLocalInv

(* The era that get_protected publishes is one of the life of the node at  *)
(* the top, unless the clock moves.                                        *)
LEMMA PopProtectInv ==
  ASSUME Stack!IInv, Stack!Defined, NEW t \in Stack!Threads, Stack!PopProtect(t)
  PROVE  Stack!IInv'
<1>1. /\ Stack!TypeOK /\ Stack!Scheme(StackChecking) /\ Stack!MainAlone
      /\ Stack!ThreadInv(t)
  BY DEF Stack!IInv, StackChecking
<1>2. /\ Stack!HETypeOK'
      /\ UNCHANGED <<Stack!heapVars, globalEraClock, retiredPtrList,
                     retiredNodesCount, Stack!eraFields>>
      /\ currEra'[t] <= globalEraClock
      /\ \A s \in Stack!Slots : hazardErasList'[t][s] <= globalEraClock
      /\ \A u \in Stack!Threads : u # t =>
           /\ ptr'[u] = ptr[u] /\ hazardErasList'[u] = hazardErasList[u]
           /\ currEra'[u] = currEra[u]
  <2>1. StackProtects(t, top, 0)
    BY DEF Stack!PopProtect, StackProtects
  <2>2. top \in Stack!NodeOrNull /\ Stack!HETypeOK
    BY <1>1 DEF Stack!TypeOK
  <2> QED BY <1>1, <2>1, <2>2, StackFirstSlot, StackProtectEffect
<1> USE DEF Stack!PopProtect, Stack!ProtectLoad, Stack!ProtectClock,
            Stack!ProtectPublish, Stack!EraPublished, Stack!Goto,
            Stack!heapVars, Stack!heVars, Stack!eraFields, Stack!heLocals,
            Stack!locals
<1>3. Stack!TypeOK'
  <2>1. Stack!HeapTypeOK'
    BY <1>1 DEF Stack!TypeOK, Stack!HeapTypeOK
  <2>2. pc' \in [Stack!Threads -> Stack!Labels]
    BY <1>1
       DEF Stack!TypeOK, Stack!Labels, Stack!PushLabels, Stack!PopLabels,
           Stack!GuardLabels
  <2>3. /\ top' \in Stack!NodeOrNull /\ node' \in [Stack!Threads -> Stack!NodeOrNull]
        /\ nxt' \in [Stack!Threads -> Stack!NodeOrNull]
        /\ retData' \in [Stack!Threads -> Items \cup {NULL}]
        /\ dangling' \subseteq Stack!Threads /\ main' \in Stack!MainStates
    BY <1>1, ErasAssumption DEF Stack!TypeOK
  <2> QED BY <1>2, <2>1, <2>2, <2>3 DEF Stack!TypeOK
<1>4. \A u \in Stack!Threads : u # t => StackSame(u)
  BY <1>1, <1>2 DEF StackSame, Stack!TypeOK
<1>5. /\ UNCHANGED top /\ pc'[t] # "retire.check"
      /\ pc'[t] \in Stack!PushLabels =>
           /\ pc[t] \in Stack!PushLabels /\ node'[t] = node[t]
           /\ pc'[t] = "push.cas" => next[node[t]] = ptr'[t]
      /\ Stack!Popped(t)' => Stack!Popped(t) /\ ptr'[t] = ptr[t]
  BY <1>1 DEF Stack!TypeOK, Stack!PushLabels, Stack!Popped
<1>6. Stack!LoadedLives(t)' /\ Stack!GuardedLives(t)'
  <2>1. top # NULL => Stack!Live(top) /\ Stack!WithinLife(top, globalEraClock)
    <3>1. Stack!StackShape
      BY DEF Stack!IInv
    <3>2. ASSUME top # NULL PROVE top \in Nodes /\ ~Stack!Listed(top)
      <4>1. Stack!Listed(top) => status[top] = "retired"
        BY <1>1
           DEF Stack!Listed, Stack!Retired, Stack!Members, Stack!Scheme,
               Stack!RetiredOnce
      <4> QED BY <1>1, <3>1, <3>2, <4>1
                 DEF Stack!TypeOK, Stack!NodeOrNull, Stack!StackShape
    <3> QED BY <1>1, <3>1, <3>2
               DEF Stack!StackShape, Stack!Live, Stack!WithinLife,
                   Stack!Scheme, Stack!ErasReached
  <2>2. \A n, e : Stack!WithinLife(n, e)' <=> Stack!WithinLife(n, e)
    BY <1>2 DEF Stack!WithinLife, Stack!Listed, Stack!Retired
  <2>3. \A n : Stack!Live(n)' <=> Stack!Live(n)
    BY <1>2 DEF Stack!Live
  <2>4. CASE Stack!ProtectLoad(t, "pop.get", "pop.clock", top)
    BY <1>1, <1>2, <2>1, <2>2, <2>3, <2>4
       DEF Stack!TypeOK, Stack!HETypeOK, Stack!LoadedLives, Stack!GuardedLives,
           Stack!GuardLabels, Stack!EraFits
  <2>5. CASE Stack!ProtectClock(t, "pop.clock", "pop.publish",
                          IF ptr[t] = NULL THEN "clear" ELSE "pop.check", 0)
    BY <1>1, <1>2, <2>2, <2>3, <2>5
       DEF Stack!TypeOK, Stack!HETypeOK, Stack!NodeOrNull, Stack!ThreadInv,
           Stack!LoadedLives, Stack!GuardedLives, Stack!GuardLabels,
           Stack!EraFits, Stack!Covers
  <2>6. CASE Stack!ProtectPublish(t, "pop.publish", "pop.get", 0)
    BY <1>1, <2>6
       DEF Stack!TypeOK, Stack!LoadedLives, Stack!GuardedLives,
           Stack!GuardLabels
  <2> QED BY <2>4, <2>5, <2>6
<1>7. Stack!MainAlone' /\ (Stack!Destroyed => Stack!Destroyed')
  BY <1>1, ThreadsAssumption
     DEF Stack!TypeOK, Stack!MainAlone, Stack!PushLabels, Stack!Destroyed,
         Stack!Threads
<1> QED BY <1>2, <1>3, <1>4, <1>5, <1>6, <1>7, StackLocalInv

(* A pop that begins relies on nothing.                                    *)
LEMMA PopCallInv ==
  ASSUME Stack!IInv, Stack!Defined, NEW t \in Stack!Threads, Stack!PopCall(t)
  PROVE  Stack!IInv'
<1>1. /\ Stack!TypeOK /\ Stack!Scheme(StackChecking) /\ Stack!MainAlone
      /\ Stack!ThreadInv(t)
  BY DEF Stack!IInv, StackChecking
<1>2. /\ Stack!HETypeOK'
      /\ UNCHANGED <<Stack!heapVars, globalEraClock, retiredPtrList,
                     retiredNodesCount, Stack!eraFields>>
      /\ currEra'[t] <= globalEraClock
      /\ \A s \in Stack!Slots : hazardErasList'[t][s] <= globalEraClock
      /\ \A u \in Stack!Threads : u # t =>
           /\ ptr'[u] = ptr[u] /\ hazardErasList'[u] = hazardErasList[u]
           /\ currEra'[u] = currEra[u]
  BY <1>1
     DEF Stack!TypeOK, Stack!HETypeOK, Stack!Scheme, Stack!ErasReached,
         Stack!PopCall, Stack!Calling, Stack!DrainingAs, Stack!heapVars,
         Stack!heVars, Stack!eraFields, Stack!heLocals
<1> USE DEF Stack!PopCall, Stack!Calling, Stack!DrainingAs, Stack!Goto,
            Stack!heapVars, Stack!heVars, Stack!eraFields, Stack!heLocals,
            Stack!locals
<1>3. Stack!TypeOK'
  <2>1. Stack!HeapTypeOK'
    BY <1>1 DEF Stack!TypeOK, Stack!HeapTypeOK
  <2>2. pc' \in [Stack!Threads -> Stack!Labels]
    BY <1>1
       DEF Stack!TypeOK, Stack!Labels, Stack!PushLabels, Stack!PopLabels,
           Stack!GuardLabels
  <2>3. /\ top' \in Stack!NodeOrNull /\ node' \in [Stack!Threads -> Stack!NodeOrNull]
        /\ nxt' \in [Stack!Threads -> Stack!NodeOrNull]
        /\ retData' \in [Stack!Threads -> Items \cup {NULL}]
        /\ dangling' \subseteq Stack!Threads /\ main' \in Stack!MainStates
    BY <1>1, ErasAssumption DEF Stack!TypeOK
  <2> QED BY <1>2, <2>1, <2>2, <2>3 DEF Stack!TypeOK
<1>4. \A u \in Stack!Threads : u # t => StackSame(u)
  BY <1>1, <1>2 DEF StackSame, Stack!TypeOK
<1>5. /\ UNCHANGED top /\ pc'[t] # "retire.check"
      /\ pc'[t] \in Stack!PushLabels =>
           /\ pc[t] \in Stack!PushLabels /\ node'[t] = node[t]
           /\ pc'[t] = "push.cas" => next[node[t]] = ptr'[t]
      /\ Stack!Popped(t)' => Stack!Popped(t) /\ ptr'[t] = ptr[t]
  BY <1>1 DEF Stack!TypeOK, Stack!PushLabels, Stack!Popped
<1>6. Stack!LoadedLives(t)' /\ Stack!GuardedLives(t)'
  BY <1>1
     DEF Stack!TypeOK, Stack!ThreadInv, Stack!LoadedLives, Stack!GuardedLives,
         Stack!GuardLabels, Stack!Live, Stack!Covers, Stack!WithinLife,
         Stack!Listed, Stack!Retired
<1>7. Stack!MainAlone' /\ (Stack!Destroyed => Stack!Destroyed')
  BY <1>1, ThreadsAssumption
     DEF Stack!TypeOK, Stack!MainAlone, Stack!PushLabels, Stack!Destroyed,
         Stack!Threads
<1> QED BY <1>2, <1>3, <1>4, <1>5, <1>6, <1>7, StackLocalInv

(* The second look at the top lets the pop go on with what it guards.      *)
LEMMA PopCheckInv ==
  ASSUME Stack!IInv, Stack!Defined, NEW t \in Stack!Threads, Stack!PopCheck(t)
  PROVE  Stack!IInv'
<1>1. /\ Stack!TypeOK /\ Stack!Scheme(StackChecking) /\ Stack!MainAlone
      /\ Stack!ThreadInv(t)
  BY DEF Stack!IInv, StackChecking
<1>2. /\ Stack!HETypeOK'
      /\ UNCHANGED <<Stack!heapVars, globalEraClock, retiredPtrList,
                     retiredNodesCount, Stack!eraFields>>
      /\ currEra'[t] <= globalEraClock
      /\ \A s \in Stack!Slots : hazardErasList'[t][s] <= globalEraClock
      /\ \A u \in Stack!Threads : u # t =>
           /\ ptr'[u] = ptr[u] /\ hazardErasList'[u] = hazardErasList[u]
           /\ currEra'[u] = currEra[u]
  BY <1>1
     DEF Stack!TypeOK, Stack!HETypeOK, Stack!Scheme, Stack!ErasReached,
         Stack!PopCheck, Stack!heapVars, Stack!heVars, Stack!eraFields,
         Stack!heLocals
<1> USE DEF Stack!PopCheck, Stack!Goto, Stack!heapVars, Stack!heVars,
            Stack!eraFields, Stack!heLocals, Stack!locals
<1>3. Stack!TypeOK'
  <2>1. Stack!HeapTypeOK'
    BY <1>1 DEF Stack!TypeOK, Stack!HeapTypeOK
  <2>2. pc' \in [Stack!Threads -> Stack!Labels]
    BY <1>1
       DEF Stack!TypeOK, Stack!Labels, Stack!PushLabels, Stack!PopLabels,
           Stack!GuardLabels
  <2>3. /\ top' \in Stack!NodeOrNull /\ node' \in [Stack!Threads -> Stack!NodeOrNull]
        /\ nxt' \in [Stack!Threads -> Stack!NodeOrNull]
        /\ retData' \in [Stack!Threads -> Items \cup {NULL}]
        /\ dangling' \subseteq Stack!Threads /\ main' \in Stack!MainStates
    BY <1>1, ErasAssumption DEF Stack!TypeOK
  <2> QED BY <1>2, <2>1, <2>2, <2>3 DEF Stack!TypeOK
<1>4. \A u \in Stack!Threads : u # t => StackSame(u)
  BY <1>1, <1>2 DEF StackSame, Stack!TypeOK
<1>5. /\ UNCHANGED top /\ pc'[t] # "retire.check"
      /\ pc'[t] \in Stack!PushLabels =>
           /\ pc[t] \in Stack!PushLabels /\ node'[t] = node[t]
           /\ pc'[t] = "push.cas" => next[node[t]] = ptr'[t]
      /\ Stack!Popped(t)' => Stack!Popped(t) /\ ptr'[t] = ptr[t]
  BY <1>1 DEF Stack!TypeOK, Stack!PushLabels, Stack!Popped
<1>6. Stack!LoadedLives(t)' /\ Stack!GuardedLives(t)'
  BY <1>1
     DEF Stack!TypeOK, Stack!ThreadInv, Stack!LoadedLives, Stack!GuardedLives,
         Stack!GuardLabels, Stack!Live, Stack!Covers, Stack!WithinLife,
         Stack!Listed, Stack!Retired
<1>7. Stack!MainAlone' /\ (Stack!Destroyed => Stack!Destroyed')
  BY <1>1, ThreadsAssumption
     DEF Stack!TypeOK, Stack!MainAlone, Stack!PushLabels, Stack!Destroyed,
         Stack!Threads
<1> QED BY <1>2, <1>3, <1>4, <1>5, <1>6, <1>7, StackLocalInv

(* A popped node stays its popper's.                                       *)
LEMMA PopItemInv ==
  ASSUME Stack!IInv, Stack!Defined, NEW t \in Stack!Threads, Stack!PopItem(t)
  PROVE  Stack!IInv'
<1>1. /\ Stack!TypeOK /\ Stack!Scheme(StackChecking) /\ Stack!MainAlone
      /\ Stack!ThreadInv(t)
  BY DEF Stack!IInv, StackChecking
<1>2. /\ Stack!HETypeOK'
      /\ UNCHANGED <<Stack!heapVars, globalEraClock, retiredPtrList,
                     retiredNodesCount, Stack!eraFields>>
      /\ currEra'[t] <= globalEraClock
      /\ \A s \in Stack!Slots : hazardErasList'[t][s] <= globalEraClock
      /\ \A u \in Stack!Threads : u # t =>
           /\ ptr'[u] = ptr[u] /\ hazardErasList'[u] = hazardErasList[u]
           /\ currEra'[u] = currEra[u]
  BY <1>1
     DEF Stack!TypeOK, Stack!HETypeOK, Stack!Scheme, Stack!ErasReached,
         Stack!PopItem, Stack!heapVars, Stack!heVars, Stack!eraFields,
         Stack!heLocals
<1> USE DEF Stack!PopItem, Stack!Goto, Stack!heapVars, Stack!heVars,
            Stack!eraFields, Stack!heLocals, Stack!locals
<1>3. Stack!TypeOK'
  <2>1. Stack!HeapTypeOK'
    BY <1>1 DEF Stack!TypeOK, Stack!HeapTypeOK
  <2>2. pc' \in [Stack!Threads -> Stack!Labels]
    BY <1>1
       DEF Stack!TypeOK, Stack!Labels, Stack!PushLabels, Stack!PopLabels,
           Stack!GuardLabels
  <2>3. /\ top' \in Stack!NodeOrNull /\ node' \in [Stack!Threads -> Stack!NodeOrNull]
        /\ nxt' \in [Stack!Threads -> Stack!NodeOrNull]
        /\ retData' \in [Stack!Threads -> Items \cup {NULL}]
        /\ dangling' \subseteq Stack!Threads /\ main' \in Stack!MainStates
    BY <1>1, ErasAssumption DEF Stack!TypeOK
  <2> QED BY <1>2, <2>1, <2>2, <2>3 DEF Stack!TypeOK
<1>4. \A u \in Stack!Threads : u # t => StackSame(u)
  BY <1>1, <1>2 DEF StackSame, Stack!TypeOK
<1>5. /\ UNCHANGED top /\ pc'[t] # "retire.check"
      /\ pc'[t] \in Stack!PushLabels =>
           /\ pc[t] \in Stack!PushLabels /\ node'[t] = node[t]
           /\ pc'[t] = "push.cas" => next[node[t]] = ptr'[t]
      /\ Stack!Popped(t)' => Stack!Popped(t) /\ ptr'[t] = ptr[t]
  BY <1>1 DEF Stack!TypeOK, Stack!PushLabels, Stack!Popped
<1>6. Stack!LoadedLives(t)' /\ Stack!GuardedLives(t)'
  BY <1>1
     DEF Stack!TypeOK, Stack!ThreadInv, Stack!LoadedLives, Stack!GuardedLives,
         Stack!GuardLabels, Stack!Live, Stack!Covers, Stack!WithinLife,
         Stack!Listed, Stack!Retired
<1>7. Stack!MainAlone' /\ (Stack!Destroyed => Stack!Destroyed')
  BY <1>1, ThreadsAssumption
     DEF Stack!TypeOK, Stack!MainAlone, Stack!PushLabels, Stack!Destroyed,
         Stack!Threads
<1> QED BY <1>2, <1>3, <1>4, <1>5, <1>6, <1>7, StackLocalInv

(* The link that a pop reads is that of a node that lives on.              *)
LEMMA PopNextInv ==
  ASSUME Stack!IInv, Stack!Defined, NEW t \in Stack!Threads, Stack!PopNext(t)
  PROVE  Stack!IInv'
<1>1. /\ Stack!TypeOK /\ Stack!Scheme(StackChecking) /\ Stack!MainAlone
      /\ Stack!ThreadInv(t)
  BY DEF Stack!IInv, StackChecking
<1>2. /\ Stack!HETypeOK'
      /\ UNCHANGED <<Stack!heapVars, globalEraClock, retiredPtrList,
                     retiredNodesCount, Stack!eraFields>>
      /\ currEra'[t] <= globalEraClock
      /\ \A s \in Stack!Slots : hazardErasList'[t][s] <= globalEraClock
      /\ \A u \in Stack!Threads : u # t =>
           /\ ptr'[u] = ptr[u] /\ hazardErasList'[u] = hazardErasList[u]
           /\ currEra'[u] = currEra[u]
  BY <1>1
     DEF Stack!TypeOK, Stack!HETypeOK, Stack!Scheme, Stack!ErasReached,
         Stack!PopNext, Stack!heapVars, Stack!heVars, Stack!eraFields,
         Stack!heLocals
<1> USE DEF Stack!PopNext, Stack!Goto, Stack!heapVars, Stack!heVars,
            Stack!eraFields, Stack!heLocals, Stack!locals
<1>3. Stack!TypeOK'
  <2>1. Stack!HeapTypeOK'
    BY <1>1 DEF Stack!TypeOK, Stack!HeapTypeOK
  <2>2. pc' \in [Stack!Threads -> Stack!Labels]
    BY <1>1
       DEF Stack!TypeOK, Stack!Labels, Stack!PushLabels, Stack!PopLabels,
           Stack!GuardLabels
  <2>3. /\ top' \in Stack!NodeOrNull /\ node' \in [Stack!Threads -> Stack!NodeOrNull]
        /\ nxt' \in [Stack!Threads -> Stack!NodeOrNull]
        /\ retData' \in [Stack!Threads -> Items \cup {NULL}]
        /\ dangling' \subseteq Stack!Threads /\ main' \in Stack!MainStates
    <3>1. ptr[t] \in Nodes
      BY <1>1 DEF Stack!ThreadInv, Stack!GuardedLives, Stack!GuardLabels
    <3>2. next[ptr[t]] \in Stack!NodeOrNull
      BY <1>1, <3>1 DEF Stack!TypeOK, Stack!HeapTypeOK
    <3> QED BY <1>1, <3>2 DEF Stack!TypeOK
  <2> QED BY <1>2, <2>1, <2>2, <2>3 DEF Stack!TypeOK
<1>4. \A u \in Stack!Threads : u # t => StackSame(u)
  BY <1>1, <1>2 DEF StackSame, Stack!TypeOK
<1>5. /\ UNCHANGED top /\ pc'[t] # "retire.check"
      /\ pc'[t] \in Stack!PushLabels =>
           /\ pc[t] \in Stack!PushLabels /\ node'[t] = node[t]
           /\ pc'[t] = "push.cas" => next[node[t]] = ptr'[t]
      /\ Stack!Popped(t)' => Stack!Popped(t) /\ ptr'[t] = ptr[t]
  BY <1>1 DEF Stack!TypeOK, Stack!PushLabels, Stack!Popped
<1>6. Stack!LoadedLives(t)' /\ Stack!GuardedLives(t)'
  BY <1>1
     DEF Stack!TypeOK, Stack!ThreadInv, Stack!LoadedLives, Stack!GuardedLives,
         Stack!GuardLabels, Stack!Live, Stack!Covers, Stack!WithinLife,
         Stack!Listed, Stack!Retired
<1>7. Stack!MainAlone' /\ (Stack!Destroyed => Stack!Destroyed')
  BY <1>1, ThreadsAssumption
     DEF Stack!TypeOK, Stack!MainAlone, Stack!PushLabels, Stack!Destroyed,
         Stack!Threads
<1> QED BY <1>2, <1>3, <1>4, <1>5, <1>6, <1>7, StackLocalInv

(* clear gives up what was published, and with its last store the call     *)
(* returns.                                                                *)
LEMMA StackReturnInv ==
  ASSUME Stack!IInv, Stack!Defined, NEW t \in Stack!Threads, Stack!Return(t)
  PROVE  Stack!IInv'
<1>1. /\ Stack!TypeOK /\ Stack!Scheme(StackChecking) /\ Stack!MainAlone
  BY DEF Stack!IInv, StackChecking
<1>2. /\ UNCHANGED <<Stack!heapVars, globalEraClock, retiredPtrList,
                     retiredNodesCount, Stack!eraFields, currEra>>
      /\ ptr' \in [Stack!Threads -> Stack!NodeOrNull]
      /\ \A u \in Stack!Threads : u # t => ptr'[u] = ptr[u] /\ currEra'[u] = currEra[u]
  BY <1>1 DEF Stack!Return, Stack!TypeOK, Stack!HETypeOK, Stack!NodeOrNull
<1>3. /\ Stack!HETypeOK'
      /\ currEra'[t] <= globalEraClock
      /\ \A s \in Stack!Slots : hazardErasList'[t][s] <= globalEraClock
      /\ \A u \in Stack!Threads : u # t => hazardErasList'[u] = hazardErasList[u]
  <2>1. Stack!HETypeOK /\ Stack!ClearSlot(t, "clear", "idle")
    BY <1>1 DEF Stack!TypeOK, Stack!Return
  <2> QED BY <1>1, <1>2, <2>1, StackClearEffect
<1> USE DEF Stack!Return, Stack!ClearSlot, Stack!ReturnItem, Stack!Goto
<1>4. Stack!TypeOK'
  <2>1. Stack!HeapTypeOK'
    BY <1>1 DEF Stack!TypeOK, Stack!HeapTypeOK, Stack!heapVars
  <2>2. pc' \in [Stack!Threads -> Stack!Labels]
    BY <1>1 DEF Stack!TypeOK, Stack!Labels
  <2>3. /\ top' \in Stack!NodeOrNull /\ node' \in [Stack!Threads -> Stack!NodeOrNull]
        /\ nxt' \in [Stack!Threads -> Stack!NodeOrNull]
        /\ retData' \in [Stack!Threads -> Items \cup {NULL}]
        /\ dangling' \subseteq Stack!Threads /\ main' \in Stack!MainStates
    BY <1>1 DEF Stack!TypeOK, Stack!NodeOrNull, Stack!MainStates
  <2> QED BY <1>3, <2>1, <2>2, <2>3 DEF Stack!TypeOK
<1>5. \A u \in Stack!Threads : u # t => StackSame(u)
  BY <1>1, <1>2, <1>3 DEF StackSame, Stack!TypeOK
<1>6. /\ UNCHANGED top /\ pc'[t] \in {"clear", "idle"}
      /\ pc'[t] # "retire.check" /\ pc'[t] \notin Stack!PushLabels /\ ~Stack!Popped(t)'
      /\ Stack!LoadedLives(t)' /\ Stack!GuardedLives(t)'
  BY <1>1
     DEF Stack!TypeOK, Stack!PushLabels, Stack!Popped, Stack!LoadedLives,
         Stack!GuardedLives, Stack!GuardLabels
<1>7. Stack!MainAlone' /\ (Stack!Destroyed => Stack!Destroyed')
  BY <1>1, ThreadsAssumption
     DEF Stack!TypeOK, Stack!MainAlone, Stack!PushLabels, Stack!Destroyed,
         Stack!Threads
<1> QED BY <1>2, <1>3, <1>4, <1>5, <1>6, <1>7, StackLocalInv

(* main, and the threads that it waits for, change no node.                *)
LEMMA StackMainInv ==
  ASSUME Stack!IInv, Stack!Defined, NEW t \in Stack!Threads,
         Stack!ThreadExit(t) \/ ((Stack!Quit \/ Stack!Join) /\ t = 0)
  PROVE  Stack!IInv'
<1>1. /\ Stack!TypeOK /\ Stack!Scheme(StackChecking) /\ Stack!MainAlone
      /\ Stack!ThreadInv(t)
  BY DEF Stack!IInv, StackChecking
<1> USE DEF Stack!ThreadExit, Stack!Quit, Stack!Join, Stack!LeaveLoop,
            Stack!QuitSignal, Stack!JoinThreads, Stack!Goto, Stack!heapVars,
            Stack!heVars, Stack!eraFields, Stack!heLocals, Stack!locals
<1>2. Stack!TypeOK'
  <2>1. Stack!HeapTypeOK' /\ Stack!HETypeOK'
    BY <1>1 DEF Stack!TypeOK, Stack!HeapTypeOK, Stack!HETypeOK
  <2>2. pc' \in [Stack!Threads -> Stack!Labels]
    BY <1>1 DEF Stack!TypeOK, Stack!Labels
  <2>3. main' \in Stack!MainStates
    BY DEF Stack!MainStates
  <2> QED BY <1>1, <2>1, <2>2, <2>3 DEF Stack!TypeOK
<1>3. \A u \in Stack!Threads : u # t => StackSame(u)
  BY <1>1 DEF StackSame, Stack!TypeOK
<1>4. /\ UNCHANGED <<Stack!heapVars, top, globalEraClock, retiredPtrList,
                     retiredNodesCount, Stack!eraFields>>
      /\ currEra'[t] <= globalEraClock
      /\ \A s \in Stack!Slots : hazardErasList'[t][s] <= globalEraClock
  BY <1>1 DEF Stack!Scheme, Stack!ErasReached
<1>5. /\ pc'[t] = pc[t] \/ pc'[t] \in {"exited", "idle"}
      /\ UNCHANGED <<node, ptr, nxt, hazardErasList, dangling>>
  BY <1>1 DEF Stack!TypeOK
<1>6. Stack!LoadedLives(t)' /\ Stack!GuardedLives(t)'
  BY <1>1, <1>4, <1>5
     DEF Stack!ThreadInv, Stack!LoadedLives, Stack!GuardedLives,
         Stack!GuardLabels, Stack!Live, Stack!EraFits, Stack!Covers,
         Stack!WithinLife, Stack!Listed, Stack!Retired
<1>7. CASE Stack!ThreadExit(t)
  <2>1. Stack!MainAlone' /\ (Stack!Destroyed => Stack!Destroyed')
    BY <1>1, <1>7, ThreadsAssumption
       DEF Stack!TypeOK, Stack!MainAlone, Stack!PushLabels, Stack!Destroyed,
           Stack!Threads
  <2>2. /\ pc'[t] # "retire.check" /\ pc'[t] \notin Stack!PushLabels
        /\ ~Stack!Popped(t)'
    BY <1>1, <1>7 DEF Stack!TypeOK, Stack!PushLabels, Stack!Popped
  <2> QED BY <1>2, <1>3, <1>4, <1>6, <2>1, <2>2, StackLocalInv
<1>8. CASE Stack!Join /\ t = 0
  <2>1. Stack!MainAlone' /\ (Stack!Destroyed => Stack!Destroyed')
    BY <1>1, <1>8, ThreadsAssumption
       DEF Stack!TypeOK, Stack!MainAlone, Stack!PushLabels, Stack!Destroyed,
           Stack!Threads
  <2>2. /\ pc'[t] # "retire.check" /\ pc'[t] \notin Stack!PushLabels
        /\ ~Stack!Popped(t)'
    BY <1>1, <1>8 DEF Stack!TypeOK, Stack!PushLabels, Stack!Popped
  <2> QED BY <1>2, <1>3, <1>4, <1>6, <2>1, <2>2, StackLocalInv
<1>9. CASE Stack!Quit
  <2>1. /\ \A u \in Stack!Threads : Stack!ThreadInv(u)'
    BY <1>9
       DEF Stack!IInv, Stack!ThreadInv, Stack!OwnsNode, Stack!PoppedByOne,
           Stack!Popped, Stack!LoadedLives, Stack!GuardedLives, Stack!Live,
           Stack!EraFits, Stack!Covers, Stack!WithinLife, Stack!Listed,
           Stack!Retired
  <2>2. Stack!Scheme(StackChecking)'
    BY <1>1, <1>9
       DEF Stack!Scheme, Stack!RetiredOnce, Stack!CountsRetired,
           Stack!ErasReached, Stack!RetiredBefore, Stack!Retired,
           Stack!Destroyed
  <2>3. Stack!StackShape' /\ Stack!MainAlone' /\ Stack!EraCovers'
    BY <1>9
       DEF Stack!IInv, Stack!StackShape, Stack!MainAlone, Stack!EraCovers,
           Stack!Guards, Stack!Retired
  <2> QED BY <1>2, <2>1, <2>2, <2>3 DEF Stack!IInv, StackChecking
<1> QED BY <1>7, <1>8, <1>9

(* A push that begins owns a node nobody else knows, born in the era of    *)
(* the clock.                                                              *)
LEMMA PushCallInv ==
  ASSUME Stack!IInv, Stack!Defined, NEW t \in Stack!Threads, Stack!PushCall(t)
  PROVE  Stack!IInv'
<1>1. /\ Stack!TypeOK /\ Stack!Scheme(StackChecking) /\ Stack!MainAlone
      /\ Stack!StackShape
      /\ \A u \in Stack!Threads : Stack!ThreadInv(u)
  BY DEF Stack!IInv, StackChecking
<1>2. PICK n \in Nodes, i \in Items :
        Stack!NewInEra(n, i) /\ node' = [node EXCEPT ![t] = n]
  BY DEF Stack!PushCall
<1>3. /\ status[n] = "free" /\ status' = [status EXCEPT ![n] = "private"]
      /\ next' = [next EXCEPT ![n] = NULL] /\ item' = [item EXCEPT ![n] = i]
      /\ newEra' = [newEra EXCEPT ![n] = globalEraClock]
      /\ delEra' = [delEra EXCEPT ![n] = 0]
      /\ UNCHANGED <<globalEraClock, hazardErasList, retiredPtrList,
                     retiredNodesCount, ptr, currEra, slot, top, nxt, retData,
                     dangling, main>>
      /\ main = "sleeping" /\ pc[t] = "idle"
      /\ pc' = [pc EXCEPT ![t] = "push.get"]
  BY <1>2
     DEF Stack!PushCall, Stack!NewInEra, Stack!New, Stack!BornNow,
         Stack!Calling, Stack!Goto, Stack!heVars, Stack!heLocals
<1>4. Stack!TypeOK'
  <2>1. Stack!HeapTypeOK'
    BY <1>1, <1>3
       DEF Stack!TypeOK, Stack!HeapTypeOK, Stack!NodeOrNull, Stack!Statuses
  <2>2. Stack!HETypeOK'
    BY <1>1, <1>3 DEF Stack!TypeOK, Stack!HETypeOK
  <2>3. pc' \in [Stack!Threads -> Stack!Labels]
          /\ node' \in [Stack!Threads -> Stack!NodeOrNull]
    BY <1>1, <1>2, <1>3
       DEF Stack!TypeOK, Stack!Labels, Stack!PushLabels, Stack!NodeOrNull
  <2> QED BY <1>1, <1>3, <2>1, <2>2, <2>3 DEF Stack!TypeOK
<1>5. Stack!Scheme(StackChecking)' /\ \A m : Stack!Listed(m)' <=> Stack!Listed(m)
  <2>1. \A m \in Nodes : status[m] = "retired" =>
          status'[m] = "retired" /\ delEra'[m] = delEra[m]
    BY <1>1, <1>3 DEF Stack!TypeOK, Stack!HeapTypeOK, Stack!HETypeOK
  <2>2. \A m \in Nodes : newEra'[m] <= globalEraClock /\ delEra'[m] <= globalEraClock
    BY <1>1, <1>3
       DEF Stack!TypeOK, Stack!HETypeOK, Stack!Scheme, Stack!ErasReached
  <2>3. \A u \in Stack!Threads : /\ currEra'[u] <= globalEraClock
                                 /\ \A s \in Stack!Slots : hazardErasList'[u][s] <= globalEraClock
    BY <1>1, <1>3 DEF Stack!Scheme, Stack!ErasReached
  <2>4. \A u \in Stack!Threads : pc'[u] \in StackChecking =>
          pc[u] \in StackChecking /\ currEra'[u] = currEra[u]
    BY <1>1, <1>3 DEF Stack!TypeOK, StackChecking
  <2>5. /\ retiredPtrList \in [Stack!Threads -> Seq(Nodes)]
        /\ Stack!Destroyed => Stack!Destroyed'
    BY <1>1, <1>3 DEF Stack!TypeOK, Stack!HETypeOK, Stack!Destroyed
  <2> QED BY <1>1, <1>3, <2>1, <2>2, <2>3, <2>4, <2>5, StackSchemeKept
<1>6. Stack!StackShape'
  BY <1>1, <1>3
     DEF Stack!TypeOK, Stack!HeapTypeOK, Stack!StackShape, Stack!NodeOrNull
<1>7. Stack!MainAlone'
  BY <1>3 DEF Stack!MainAlone
<1>8. \A m \in Nodes \ {n} :
        /\ status'[m] = status[m] /\ next'[m] = next[m]
        /\ newEra'[m] = newEra[m] /\ delEra'[m] = delEra[m]
  BY <1>1, <1>3 DEF Stack!TypeOK, Stack!HeapTypeOK, Stack!HETypeOK
<1>9. ASSUME NEW u \in Stack!Threads
      PROVE  Stack!OwnsNode(u)' /\ Stack!PoppedByOne(u)'
               /\ Stack!LoadedLives(u)' /\ Stack!GuardedLives(u)'
  <2>0. Stack!ThreadInv(u) /\ Stack!OwnsNode(t)
    BY <1>1 DEF Stack!ThreadInv
  <2>1. Stack!OwnsNode(u)'
    BY <1>1, <1>2, <1>3, <1>8, <2>0
       DEF Stack!TypeOK, Stack!HeapTypeOK, Stack!ThreadInv, Stack!OwnsNode,
           Stack!PushLabels
  <2>2. Stack!PoppedByOne(u)'
    BY <1>1, <1>3, <1>5, <1>8, <2>0
       DEF Stack!TypeOK, Stack!ThreadInv, Stack!PoppedByOne, Stack!Popped
  <2>3. Stack!LoadedLives(u)' /\ Stack!GuardedLives(u)'
    BY <1>1, <1>3, <1>5, <1>8, <2>0
       DEF Stack!TypeOK, Stack!ThreadInv, Stack!LoadedLives,
           Stack!GuardedLives, Stack!GuardLabels, Stack!Live, Stack!EraFits,
           Stack!Covers, Stack!WithinLife
  <2> QED BY <2>1, <2>2, <2>3
<1>10. Stack!EraCovers'
  BY <1>9
     DEF Stack!GuardedLives, Stack!EraCovers, Stack!Guards, Stack!Covers,
         Stack!WithinLife, Stack!Listed
<1> QED BY <1>4, <1>5, <1>6, <1>7, <1>9, <1>10
           DEF Stack!IInv, Stack!ThreadInv, StackChecking

(* A push writes the link of its own node, which it then links.            *)
LEMMA PushLinkInv ==
  ASSUME Stack!IInv, Stack!Defined, NEW t \in Stack!Threads,
         Stack!PushCheck(t) \/ Stack!PushCas(t)
  PROVE  Stack!IInv'
<1>1. /\ Stack!TypeOK /\ Stack!Scheme(StackChecking) /\ Stack!MainAlone
      /\ Stack!StackShape
      /\ \A u \in Stack!Threads : Stack!ThreadInv(u)
  BY DEF Stack!IInv, StackChecking
<1>2. /\ pc[t] \in {"push.check", "push.cas"}
      /\ node[t] \in Nodes /\ status[node[t]] = "private"
      /\ pc[t] = "push.cas" => next[node[t]] = ptr[t]
      /\ \A u \in Stack!Threads : pc[u] \in Stack!PushLabels
           /\ node[u] = node[t] => u = t
  BY <1>1
     DEF Stack!PushCheck, Stack!PushCas, Stack!Goto, Stack!ThreadInv,
         Stack!OwnsNode, Stack!PushLabels
<1> USE DEF Stack!PushCheck, Stack!PushCas, Stack!Goto, Stack!heapVars,
            Stack!heVars, Stack!eraFields, Stack!heLocals, Stack!locals
<1>3. /\ UNCHANGED <<item, globalEraClock, hazardErasList, retiredPtrList,
                     retiredNodesCount, newEra, delEra, ptr, currEra, slot,
                     node, nxt, retData, dangling, main>>
      /\ \A u \in Stack!Threads : u # t => pc'[u] = pc[u]
      /\ pc'[t] \in {"push.get", "push.cas", "clear"}
      /\ pc'[t] = "push.cas" => next'[node[t]] = ptr[t]
      /\ \A m \in Nodes : m # node[t] => status'[m] = status[m] /\ next'[m] = next[m]
      /\ pc'[t] # "clear" => status' = status /\ top' = top
  BY <1>1, <1>2 DEF Stack!TypeOK, Stack!HeapTypeOK, Stack!NodeOrNull
<1>4. Stack!TypeOK'
  <2>1. Stack!HeapTypeOK' /\ top' \in Stack!NodeOrNull
    <3>1. top \in Stack!NodeOrNull /\ ptr[t] \in Stack!NodeOrNull
            /\ "linked" \in Stack!Statuses
      BY <1>1 DEF Stack!TypeOK, Stack!HETypeOK, Stack!Statuses
    <3>2. Stack!HeapTypeOK
      BY <1>1 DEF Stack!TypeOK
    <3>3. CASE Stack!PushCheck(t)
      BY <1>2, <3>1, <3>2, <3>3 DEF Stack!HeapTypeOK
    <3>4. CASE Stack!PushCas(t)
      BY <1>2, <3>1, <3>2, <3>4 DEF Stack!HeapTypeOK, Stack!NodeOrNull
    <3> QED BY <1>1, <3>3, <3>4
  <2>2. Stack!HETypeOK'
    BY <1>1, <1>3 DEF Stack!TypeOK, Stack!HETypeOK
  <2>3. pc' \in [Stack!Threads -> Stack!Labels]
    BY <1>1 DEF Stack!TypeOK, Stack!Labels, Stack!PushLabels
  <2> QED BY <1>1, <1>3, <2>1, <2>2, <2>3 DEF Stack!TypeOK
<1>5. Stack!Scheme(StackChecking)' /\ \A m : Stack!Listed(m)' <=> Stack!Listed(m)
  <2>1. \A m \in Nodes : status[m] = "retired" =>
          status'[m] = "retired" /\ delEra'[m] = delEra[m]
    BY <1>2, <1>3
  <2>2. \A m \in Nodes : newEra'[m] <= globalEraClock /\ delEra'[m] <= globalEraClock
    BY <1>1, <1>3 DEF Stack!Scheme, Stack!ErasReached
  <2>3. \A u \in Stack!Threads : /\ currEra'[u] <= globalEraClock
                                 /\ \A s \in Stack!Slots : hazardErasList'[u][s] <= globalEraClock
    BY <1>1, <1>3 DEF Stack!Scheme, Stack!ErasReached
  <2>4. \A u \in Stack!Threads : pc'[u] \in StackChecking =>
          pc[u] \in StackChecking /\ currEra'[u] = currEra[u]
    BY <1>3 DEF StackChecking
  <2>5. /\ retiredPtrList \in [Stack!Threads -> Seq(Nodes)]
        /\ Stack!Destroyed => Stack!Destroyed'
    BY <1>1, <1>3 DEF Stack!TypeOK, Stack!HETypeOK, Stack!Destroyed
  <2> QED BY <1>1, <1>3, <2>1, <2>2, <2>3, <2>4, <2>5, StackSchemeKept
<1>6. Stack!StackShape'
  BY <1>1, <1>2
     DEF Stack!TypeOK, Stack!HeapTypeOK, Stack!StackShape, Stack!NodeOrNull,
         Stack!Statuses
<1>7. Stack!MainAlone'
  BY <1>1, <1>2, <1>3 DEF Stack!MainAlone, Stack!PushLabels
<1>8. ASSUME NEW u \in Stack!Threads
      PROVE  Stack!OwnsNode(u)' /\ Stack!PoppedByOne(u)'
               /\ Stack!LoadedLives(u)' /\ Stack!GuardedLives(u)'
  <2>0. Stack!ThreadInv(u) /\ (u = t \/ pc'[u] = pc[u])
    BY <1>1, <1>3
  <2>1. Stack!OwnsNode(u)'
    BY <1>1, <1>2, <1>3, <2>0
       DEF Stack!ThreadInv, Stack!OwnsNode, Stack!PushLabels
  <2>2. Stack!PoppedByOne(u)'
    BY <1>2, <1>3, <1>5, <2>0
       DEF Stack!ThreadInv, Stack!PoppedByOne, Stack!Popped
  <2>3. \A m : Stack!Live(m) => Stack!Live(m)' /\ next'[m] = next[m]
    BY <1>2, <1>3 DEF Stack!Live
  <2>4. \A m, e : Stack!WithinLife(m, e)' <=> Stack!WithinLife(m, e)
    BY <1>3, <1>5 DEF Stack!WithinLife
  <2>5. Stack!LoadedLives(u)' /\ Stack!GuardedLives(u)'
    BY <1>2, <1>3, <2>0, <2>3, <2>4
       DEF Stack!ThreadInv, Stack!LoadedLives, Stack!GuardedLives,
           Stack!GuardLabels, Stack!EraFits, Stack!Covers
  <2> QED BY <2>1, <2>2, <2>5
<1>9. Stack!EraCovers'
  BY <1>8
     DEF Stack!GuardedLives, Stack!EraCovers, Stack!Guards, Stack!Covers,
         Stack!WithinLife, Stack!Listed
<1> QED BY <1>4, <1>5, <1>6, <1>7, <1>8, <1>9
           DEF Stack!IInv, Stack!ThreadInv, StackChecking

(* A pop that exchanges the top takes the first node; one that relied on a *)
(* deleted node is not followed further.                                   *)
LEMMA PopCasInv ==
  ASSUME Stack!IInv, Stack!Defined, NEW t \in Stack!Threads, Stack!PopCas(t)
  PROVE  Stack!IInv'
<1>1. /\ Stack!TypeOK /\ Stack!Scheme(StackChecking) /\ Stack!MainAlone
      /\ Stack!StackShape
      /\ \A u \in Stack!Threads : Stack!ThreadInv(u)
  BY DEF Stack!IInv, StackChecking
<1>2. /\ pc[t] = "pop.cas" /\ ptr[t] \in Nodes
      /\ t \notin dangling => nxt[t] = next[ptr[t]]
      /\ top = ptr[t] => status[ptr[t]] = "linked"
  <2>1. pc[t] = "pop.cas" /\ Stack!GuardedLives(t)
    BY <1>1 DEF Stack!PopCas, Stack!Goto, Stack!ThreadInv
  <2>2. ptr[t] \in Nodes
    BY <2>1 DEF Stack!GuardedLives, Stack!GuardLabels
  <2> QED BY <1>1, <2>1, <2>2, HeapAssumption
             DEF Stack!GuardedLives, Stack!GuardLabels, Stack!StackShape
<1>3. /\ UNCHANGED <<next, item, globalEraClock, hazardErasList, retiredPtrList,
                     retiredNodesCount, newEra, delEra, ptr, currEra, slot,
                     node, retData, dangling, main>>
      /\ \A u \in Stack!Threads : u # t => pc'[u] = pc[u] /\ nxt'[u] = nxt[u]
      /\ pc'[t] \in {"pop.get", "pop.item", "undefined"}
      /\ \A m \in Nodes : m # ptr[t] => status'[m] = status[m]
      /\ IF top = ptr[t] THEN status'[ptr[t]] = "retired" /\ top' = nxt[t]
                         ELSE status' = status /\ top' = top
      /\ pc'[t] = "pop.item" => top = ptr[t]
      /\ t \in dangling /\ top = ptr[t] => pc'[t] = "undefined"
  BY <1>1, <1>2
     DEF Stack!PopCas, Stack!Goto, Stack!heapVars, Stack!heVars,
         Stack!eraFields, Stack!heLocals, Stack!TypeOK, Stack!HeapTypeOK
<1>4. Stack!TypeOK'
  <2>1. Stack!HeapTypeOK' /\ top' \in Stack!NodeOrNull
    BY <1>1, <1>2, <1>3
       DEF Stack!PopCas, Stack!TypeOK, Stack!HeapTypeOK, Stack!NodeOrNull,
           Stack!Statuses
  <2>2. Stack!HETypeOK'
    BY <1>1, <1>3 DEF Stack!TypeOK, Stack!HETypeOK
  <2>3. pc' \in [Stack!Threads -> Stack!Labels]
    BY <1>1
       DEF Stack!PopCas, Stack!Goto, Stack!TypeOK, Stack!Labels,
           Stack!PopLabels, Stack!GuardLabels
  <2>4. nxt' \in [Stack!Threads -> Stack!NodeOrNull]
    BY <1>1 DEF Stack!PopCas, Stack!TypeOK, Stack!NodeOrNull
  <2> QED BY <1>1, <1>3, <2>1, <2>2, <2>3, <2>4 DEF Stack!TypeOK
<1>5. Stack!Scheme(StackChecking)' /\ \A m : Stack!Listed(m)' <=> Stack!Listed(m)
  <2>1. \A m \in Nodes : status[m] = "retired" =>
          status'[m] = "retired" /\ delEra'[m] = delEra[m]
    BY <1>2, <1>3
  <2>2. \A m \in Nodes : newEra'[m] <= globalEraClock /\ delEra'[m] <= globalEraClock
    BY <1>1, <1>3 DEF Stack!Scheme, Stack!ErasReached
  <2>3. \A u \in Stack!Threads : /\ currEra'[u] <= globalEraClock
                                 /\ \A s \in Stack!Slots : hazardErasList'[u][s] <= globalEraClock
    BY <1>1, <1>3 DEF Stack!Scheme, Stack!ErasReached
  <2>4. \A u \in Stack!Threads : pc'[u] \in StackChecking =>
          pc[u] \in StackChecking /\ currEra'[u] = currEra[u]
    BY <1>3 DEF StackChecking
  <2>5. /\ retiredPtrList \in [Stack!Threads -> Seq(Nodes)]
        /\ Stack!Destroyed => Stack!Destroyed'
    BY <1>1, <1>3 DEF Stack!TypeOK, Stack!HETypeOK, Stack!Destroyed
  <2> QED BY <1>1, <1>3, <2>1, <2>2, <2>3, <2>4, <2>5, StackSchemeKept
<1>6. ASSUME Stack!Defined' PROVE Stack!StackShape'
  <2>1. t \notin dangling \/ top # ptr[t]
    BY <1>3, <1>6 DEF Stack!Defined
  <2>2. CASE top # ptr[t]
    BY <1>1, <1>3, <2>2 DEF Stack!StackShape
  <2>3. CASE top = ptr[t]
    <3>1. top' = next[ptr[t]] /\ top \in Nodes /\ status[top] = "linked"
      BY <1>2, <1>3, <2>1, <2>3
    <3>2. top' # NULL => top' # top /\ status'[top'] = "linked"
      BY <1>1, <1>2, <1>3, <2>3, <3>1, HeapAssumption
         DEF Stack!StackShape, Stack!TypeOK, Stack!HeapTypeOK, Stack!NodeOrNull
    <3>3. ASSUME NEW m \in Nodes, status'[m] = "linked", next[m] # NULL
          PROVE  /\ status'[next[m]] = "linked" /\ next[m] # top'
                 /\ \A n \in Nodes : status'[n] = "linked" /\ next[n] = next[m] => n = m
      <4>1. m # top /\ status[m] = "linked" /\ next[m] \in Nodes
        BY <1>1, <1>2, <1>3, <2>3, <3>3
           DEF Stack!TypeOK, Stack!HeapTypeOK, Stack!NodeOrNull
      <4>2. status[next[m]] = "linked" /\ next[m] # top
        BY <1>1, <3>3, <4>1 DEF Stack!StackShape
      <4>3. next[m] # top'
        BY <1>1, <3>1, <3>3, <4>1, <2>3 DEF Stack!StackShape
      <4>4. ASSUME NEW n \in Nodes, status'[n] = "linked", next[n] = next[m]
            PROVE  n = m
        <5>1. status[n] = "linked"
          BY <1>3, <2>3, <4>4
        <5> QED BY <1>1, <3>3, <4>1, <4>4, <5>1 DEF Stack!StackShape
      <4> QED BY <1>3, <2>3, <4>1, <4>2, <4>3, <4>4
    <3> QED BY <1>3, <3>2, <3>3 DEF Stack!StackShape
  <2> QED BY <2>2, <2>3
<1>7. Stack!MainAlone'
  BY <1>1, <1>2, <1>3 DEF Stack!MainAlone, Stack!PushLabels
<1>8. ASSUME NEW u \in Stack!Threads
      PROVE  Stack!OwnsNode(u)' /\ Stack!PoppedByOne(u)'
               /\ Stack!LoadedLives(u)' /\ Stack!GuardedLives(u)'
  <2>0. Stack!ThreadInv(u) /\ (u # t => pc'[u] = pc[u] /\ nxt'[u] = nxt[u])
    BY <1>1, <1>3
  <2>1. Stack!OwnsNode(u)'
    <3>1. pc'[u] \in Stack!PushLabels => pc'[u] = pc[u]
      BY <1>3, <2>0 DEF Stack!PushLabels
    <3>2. \A v \in Stack!Threads : pc'[v] \in Stack!PushLabels => pc'[v] = pc[v]
      BY <1>3 DEF Stack!PushLabels
    <3>3. \A n \in Nodes : status[n] = "private" => status'[n] = "private"
      BY <1>2, <1>3
    <3> QED BY <1>3, <2>0, <3>1, <3>2, <3>3 DEF Stack!ThreadInv, Stack!OwnsNode
  <2>2. Stack!PoppedByOne(u)'
    <3>0. retiredPtrList \in [Stack!Threads -> Seq(Nodes)]
      BY <1>1 DEF Stack!TypeOK, Stack!HETypeOK
    <3>1. \A n : Stack!Listed(n) => n \in Nodes /\ status[n] = "retired"
      <4>1. \A n : Stack!Listed(n) => n \in Nodes
        BY <3>0, StackListEntries DEF Stack!Listed
      <4> QED BY <1>1, <4>1
                 DEF Stack!Listed, Stack!Retired, Stack!Members, Stack!Scheme,
                     Stack!RetiredOnce
    <3>2. \A v \in Stack!Threads : Stack!Popped(v)' =>
            IF v = t THEN top = ptr[t] ELSE Stack!Popped(v)
      BY <1>3 DEF Stack!Popped
    <3>3. \A v \in Stack!Threads : Stack!Popped(v) => ptr[v] \in Nodes
            /\ status[ptr[v]] = "retired"
      BY <1>1 DEF Stack!ThreadInv, Stack!PoppedByOne
    <3>4. Stack!Popped(u)' => /\ ptr[u] \in Nodes /\ status'[ptr[u]] = "retired"
                              /\ ~Stack!Listed(ptr[u])
      BY <1>2, <1>3, <2>0, <3>1, <3>2 DEF Stack!ThreadInv, Stack!PoppedByOne
    <3>5. ASSUME Stack!Popped(u)', NEW v \in Stack!Threads, Stack!Popped(v)',
                 ptr[v] = ptr[u]
          PROVE  v = u
      BY <1>2, <2>0, <3>2, <3>3, <3>5 DEF Stack!ThreadInv, Stack!PoppedByOne
    <3> QED BY <1>3, <1>5, <3>4, <3>5 DEF Stack!PoppedByOne, Stack!Popped
  <2>3. \A m : Stack!Live(m) => Stack!Live(m)'
    BY <1>2, <1>3 DEF Stack!Live
  <2>4. \A m, e : Stack!WithinLife(m, e)' <=> Stack!WithinLife(m, e)
    BY <1>3, <1>5 DEF Stack!WithinLife
  <2>5. Stack!LoadedLives(u)'
    BY <1>3, <2>0, <2>3, <2>4
       DEF Stack!ThreadInv, Stack!LoadedLives, Stack!EraFits
  <2>6. Stack!GuardedLives(u)'
    <3>1. CASE u # t
      BY <1>3, <2>0, <2>3, <2>4, <3>1
         DEF Stack!ThreadInv, Stack!GuardedLives, Stack!GuardLabels,
             Stack!Covers
    <3>2. CASE u = t
      BY <1>2, <1>3, <2>0, <2>3, <2>4, <3>2
         DEF Stack!ThreadInv, Stack!GuardedLives, Stack!GuardLabels,
             Stack!Covers
    <3> QED BY <3>1, <3>2
  <2> QED BY <2>1, <2>2, <2>5, <2>6
<1>9. Stack!EraCovers'
  BY <1>8
     DEF Stack!GuardedLives, Stack!EraCovers, Stack!Guards, Stack!Covers,
         Stack!WithinLife, Stack!Listed
<1> QED BY <1>4, <1>5, <1>6, <1>7, <1>8, <1>9
           DEF Stack!IInv, Stack!ThreadInv, StackChecking

(* retireNode enters the popped node with the era of the clock.            *)
LEMMA PopRetireInv ==
  ASSUME Stack!IInv, Stack!Defined, NEW t \in Stack!Threads, Stack!PopRetire(t)
  PROVE  Stack!IInv'
<1>1. /\ Stack!TypeOK /\ Stack!Scheme(StackChecking) /\ Stack!MainAlone
      /\ Stack!StackShape
      /\ \A u \in Stack!Threads : Stack!ThreadInv(u)
  BY DEF Stack!IInv, StackChecking
<1>2. /\ pc[t] = "retire.era" /\ pc' = [pc EXCEPT ![t] = "retire.check"]
      /\ UNCHANGED <<status, next, item, globalEraClock, hazardErasList,
                     newEra, ptr, top, node, nxt, retData, dangling, main>>
      /\ Stack!RetirePush(t, ptr[t], "retire.era", "retire.check")
  BY DEF Stack!PopRetire, Stack!RetirePush, Stack!Goto, Stack!heapVars,
         Stack!locals
<1>3. Stack!Popped(t) /\ Stack!PoppedByOne(t)
  BY <1>1, <1>2 DEF Stack!ThreadInv, Stack!Popped
<1>4. /\ Stack!Scheme(StackChecking)' /\ Stack!HETypeOK'
      /\ \A m : Stack!Listed(m)' <=> Stack!Listed(m) \/ m = ptr[t]
      /\ \A m, e : e <= globalEraClock /\ Stack!WithinLife(m, e)
           => Stack!WithinLife(m, e)'
  <2>1. /\ Stack!HETypeOK /\ pc \in [Stack!Threads -> Stack!Labels]
        /\ ptr[t] \in Nodes /\ status[ptr[t]] = "retired" /\ ~Stack!Listed(ptr[t])
    BY <1>1, <1>3 DEF Stack!TypeOK, Stack!PoppedByOne
  <2>2. UNCHANGED main /\ Stack!Scheme(StackChecking)
    BY <1>1, <1>2
  <2>3. Stack!RetirePush(t, ptr[t], "retire.era", "retire.check")
    BY <1>2
  <2> HIDE DEF StackChecking
  <2> QED BY <2>1, <2>2, <2>3, StackPushEffect
<1>5. Stack!TypeOK'
  <2>1. pc' \in [Stack!Threads -> Stack!Labels] /\ Stack!HeapTypeOK'
    BY <1>1, <1>2
       DEF Stack!TypeOK, Stack!HeapTypeOK, Stack!Labels, Stack!PopLabels
  <2> QED BY <1>1, <1>2, <1>4, <2>1 DEF Stack!TypeOK
<1>6. Stack!StackShape' /\ Stack!MainAlone'
  BY <1>1, <1>2 DEF Stack!StackShape, Stack!MainAlone, Stack!PushLabels
<1>7. ASSUME NEW u \in Stack!Threads
      PROVE  Stack!OwnsNode(u)' /\ Stack!PoppedByOne(u)'
               /\ Stack!LoadedLives(u)' /\ Stack!GuardedLives(u)'
  <2>0. /\ Stack!ThreadInv(u) /\ hazardErasList[u][0] <= globalEraClock
        /\ pc'[u] = IF u = t THEN "retire.check" ELSE pc[u]
    BY <1>1, <1>2, StackFirstSlot
       DEF Stack!Scheme, Stack!ErasReached, Stack!TypeOK
  <2>1. Stack!OwnsNode(u)'
    BY <1>1, <1>2, <2>0
       DEF Stack!TypeOK, Stack!ThreadInv, Stack!OwnsNode, Stack!PushLabels
  <2>2. Stack!PoppedByOne(u)'
    BY <1>1, <1>2, <1>3, <1>4, <2>0
       DEF Stack!TypeOK, Stack!ThreadInv, Stack!PoppedByOne, Stack!Popped
  <2>3. \A m : Stack!Live(m)' <=> Stack!Live(m)
    BY <1>2 DEF Stack!Live
  <2>4. Stack!LoadedLives(u)'
    BY <1>2, <1>4, <2>0, <2>3
       DEF Stack!ThreadInv, Stack!LoadedLives, Stack!EraFits
  <2>5. Stack!GuardedLives(u)'
    BY <1>2, <1>4, <2>0, <2>3
       DEF Stack!ThreadInv, Stack!GuardedLives, Stack!GuardLabels, Stack!Covers
  <2> QED BY <2>1, <2>2, <2>4, <2>5
<1>8. Stack!EraCovers'
  BY <1>7
     DEF Stack!GuardedLives, Stack!EraCovers, Stack!Guards, Stack!Covers,
         Stack!WithinLife, Stack!Listed
<1> QED BY <1>4, <1>5, <1>6, <1>7, <1>8
           DEF Stack!IInv, Stack!ThreadInv, StackChecking

(* What a sweep changes of the stack: nothing but the nodes it deletes,    *)
(* which are retired, listed, and not what a thread that may still find    *)
(* the clock in its era has loaded.                                        *)
LEMMA StackSweepInv ==
  ASSUME Stack!IInv, Stack!Defined, NEW t \in Stack!Threads, Stack!Sweep(t),
         Stack!PopSweep(t),
         UNCHANGED <<hazardErasList, ptr, slot, top, node, nxt, retData, main>>,
         \/ globalEraClock' = globalEraClock + 1
         \/ /\ pc[t] = "retire.check" /\ globalEraClock # currEra[t]
            /\ UNCHANGED globalEraClock,
         pc[t] \in {"retire.check", "retire.add"},
         pc' = [pc EXCEPT ![t] = "clear"]
  PROVE  Stack!IInv'
<1>1. /\ Stack!TypeOK /\ Stack!Scheme(StackChecking) /\ Stack!MainAlone
      /\ Stack!StackShape
      /\ \A u \in Stack!Threads : Stack!ThreadInv(u)
  BY DEF Stack!IInv, StackChecking
<1>2. \A u \in Stack!Threads : pc'[u] = IF u = t THEN "clear" ELSE pc[u]
  BY <1>1 DEF Stack!TypeOK
<1>3. ~Stack!Destroyed
  BY <1>1 DEF Stack!MainAlone, Stack!Destroyed
<1>4. /\ Stack!Scheme(StackChecking)' /\ Stack!HETypeOK'
      /\ \A n \in Stack!Removed(t) : n \in Nodes /\ Stack!Listed(n)
           /\ status[n] = "retired"
      /\ \A n : Stack!Listed(n)' <=> Stack!Listed(n) /\ n \notin Stack!Removed(t)
      /\ \A n \in Nodes :
           IF n \in Stack!Removed(t) THEN status'[n] = "free"
           ELSE /\ status'[n] = status[n] /\ next'[n] = next[n]
                /\ item'[n] = item[n]
                /\ newEra'[n] = newEra[n] /\ delEra'[n] = delEra[n]
  <2>1. \A u \in Stack!Threads : pc'[u] \in StackChecking => u # t
          /\ pc[u] \in StackChecking
    BY <1>2 DEF StackChecking
  <2>2. Stack!HETypeOK /\ globalEraClock' \in {globalEraClock, globalEraClock + 1}
    BY <1>1 DEF Stack!TypeOK
  <2> QED BY <1>1, <1>3, <2>1, <2>2, StackSweepEffect
<1>5. dangling' = dangling \cup {u \in Stack!Threads : \E n \in Stack!Guards(u) :
                                 status[n] # "free" /\ status'[n] = "free"}
  BY DEF Stack!PopSweep
<1>6. Stack!TypeOK'
  <2>1. Stack!HeapTypeOK'
    BY <1>1
       DEF Stack!Sweep, Stack!DeleteInEra, Stack!Delete, Stack!TypeOK,
           Stack!HeapTypeOK, Stack!NodeOrNull, Stack!Statuses
  <2>2. pc' \in [Stack!Threads -> Stack!Labels] /\ dangling' \subseteq Stack!Threads
    BY <1>1, <1>5 DEF Stack!TypeOK, Stack!Labels
  <2> QED BY <1>1, <1>4, <2>1, <2>2 DEF Stack!TypeOK
<1>7. Stack!StackShape'
  <2>1. \A n \in Nodes : status'[n] = "linked" =>
          n \notin Stack!Removed(t) /\ status[n] = "linked" /\ next'[n] = next[n]
    BY <1>4
  <2>2. \A n \in Nodes : status[n] = "linked" => status'[n] = "linked"
    BY <1>4
  <2> QED BY <1>1, <2>1, <2>2
             DEF Stack!StackShape, Stack!TypeOK, Stack!HeapTypeOK,
                 Stack!NodeOrNull
<1>8. Stack!MainAlone'
  BY <1>1, <1>2 DEF Stack!MainAlone, Stack!PushLabels
<1>9. ASSUME NEW u \in Stack!Threads
      PROVE  Stack!OwnsNode(u)' /\ Stack!PoppedByOne(u)'
               /\ Stack!LoadedLives(u)' /\ Stack!GuardedLives(u)'
  <2>0. Stack!ThreadInv(u)
    BY <1>1
  <2>1. Stack!OwnsNode(u)'
    BY <1>2, <1>4, <2>0 DEF Stack!ThreadInv, Stack!OwnsNode, Stack!PushLabels
  <2>2. Stack!PoppedByOne(u)'
    BY <1>2, <1>4, <2>0 DEF Stack!ThreadInv, Stack!PoppedByOne, Stack!Popped
  <2>3. \A n : n \notin Stack!Removed(t) =>
          /\ Stack!Live(n)' <=> Stack!Live(n)
          /\ n \in Nodes => \A e : Stack!WithinLife(n, e)' <=> Stack!WithinLife(n, e)
    BY <1>4 DEF Stack!Live, Stack!WithinLife
  <2>4. Stack!LoadedLives(u)'
    <3> SUFFICES ASSUME pc'[u] = "pop.clock", ptr[u] # NULL,
                        globalEraClock' = hazardErasList[u][0]
                 PROVE  Stack!Live(ptr[u])' /\ Stack!WithinLife(ptr[u], globalEraClock)'
      BY DEF Stack!LoadedLives, Stack!EraFits
    <3>1. u # t /\ pc[u] = "pop.clock" /\ Stack!HETypeOK
      BY <1>1, <1>2 DEF Stack!TypeOK
    <3>2. globalEraClock' = globalEraClock
      BY <1>1, <3>1, StackFirstSlot
         DEF Stack!HETypeOK, Stack!Scheme, Stack!ErasReached
    <3>3. Stack!Live(ptr[u]) /\ Stack!EraFits(u, 0, ptr[u])
      BY <2>0, <3>1, <3>2 DEF Stack!ThreadInv, Stack!LoadedLives
    <3>4. ptr[u] \notin Stack!Removed(t)
      BY <1>1, <3>1, <3>2, <3>3, StackFirstSlot, StackSweepSpares
         DEF StackChecking
    <3> QED BY <2>3, <3>2, <3>3, <3>4 DEF Stack!EraFits, Stack!Live
  <2>5. Stack!GuardedLives(u)'
    <3> SUFFICES ASSUME pc'[u] \in Stack!GuardLabels
                 PROVE  /\ ptr[u] \in Nodes
                        /\ u \notin dangling' =>
                             /\ Stack!Live(ptr[u])' /\ Stack!Covers(u, 0, ptr[u])'
                             /\ pc'[u] = "pop.cas" => nxt[u] = next'[ptr[u]]
      BY DEF Stack!GuardedLives
    <3>1. u # t /\ pc'[u] = pc[u]
      BY <1>2 DEF Stack!GuardLabels
    <3>2. /\ ptr[u] \in Nodes
          /\ u \notin dangling =>
               /\ Stack!Live(ptr[u]) /\ Stack!WithinLife(ptr[u], hazardErasList[u][0])
               /\ pc[u] = "pop.cas" => nxt[u] = next[ptr[u]]
      BY <2>0, <3>1 DEF Stack!ThreadInv, Stack!GuardedLives, Stack!Covers
    <3>3. ASSUME u \notin dangling' PROVE ptr[u] \notin Stack!Removed(t)
      BY <1>4, <1>5, <3>1, <3>3 DEF Stack!Guards
    <3>4. ASSUME u \notin dangling'
          PROVE  /\ Stack!Live(ptr[u])'
                 /\ Stack!WithinLife(ptr[u], hazardErasList[u][0])'
                 /\ pc[u] = "pop.cas" => nxt[u] = next'[ptr[u]]
      BY <1>4, <1>5, <2>3, <3>2, <3>3, <3>4
    <3> QED BY <3>1, <3>2, <3>4 DEF Stack!Covers
  <2> QED BY <2>1, <2>2, <2>4, <2>5
<1>10. Stack!EraCovers'
  BY <1>9
     DEF Stack!GuardedLives, Stack!EraCovers, Stack!Guards, Stack!Covers,
         Stack!WithinLife, Stack!Listed
<1> QED BY <1>4, <1>6, <1>7, <1>8, <1>9, <1>10
           DEF Stack!IInv, Stack!ThreadInv, StackChecking

(* The second look at the clock, which decides whether it is advanced      *)
(* before the sweep.                                                       *)
LEMMA PopSweepInv ==
  ASSUME Stack!IInv, Stack!Defined, NEW t \in Stack!Threads, Stack!PopSweep(t)
  PROVE  Stack!IInv'
<1>1. /\ Stack!TypeOK /\ Stack!Scheme(StackChecking) /\ Stack!MainAlone
      /\ Stack!ThreadInv(t)
  BY DEF Stack!IInv, StackChecking
<1>2. CASE Stack!RetireAdd(t, "retire.add", "clear")
  BY <1>2, StackSweepInv
     DEF Stack!RetireAdd, Stack!PopSweep, Stack!Goto, Stack!locals
<1>3. CASE Stack!RetireCheck(t, "retire.check", "retire.add", "clear")
             /\ globalEraClock # currEra[t]
  BY <1>3, StackSweepInv
     DEF Stack!RetireCheck, Stack!PopSweep, Stack!Goto, Stack!locals
<1>4. CASE Stack!RetireCheck(t, "retire.check", "retire.add", "clear")
             /\ globalEraClock = currEra[t]
  <2>1. /\ UNCHANGED <<Stack!heapVars, top, globalEraClock, retiredPtrList,
                       retiredNodesCount, Stack!eraFields, currEra, hazardErasList,
                       ptr, slot, node, nxt, retData, main>>
        /\ pc[t] = "retire.check" /\ pc' = [pc EXCEPT ![t] = "retire.add"]
    BY <1>4 DEF Stack!PopSweep, Stack!RetireCheck, Stack!Goto, Stack!locals
  <2>2. dangling' = dangling
    BY <2>1 DEF Stack!PopSweep, Stack!heapVars
  <2>3. Stack!TypeOK'
    <3>1. Stack!HeapTypeOK' /\ Stack!HETypeOK'
      BY <1>1, <2>1
         DEF Stack!TypeOK, Stack!HeapTypeOK, Stack!HETypeOK, Stack!heapVars,
             Stack!eraFields
    <3>2. pc' \in [Stack!Threads -> Stack!Labels]
      BY <1>1, <2>1 DEF Stack!TypeOK, Stack!Labels, Stack!PopLabels
    <3> QED BY <1>1, <2>1, <2>2, <3>1, <3>2 DEF Stack!TypeOK
  <2>4. \A u \in Stack!Threads : u # t => StackSame(u)
    BY <1>1, <2>1, <2>2 DEF StackSame, Stack!TypeOK
  <2>5. /\ currEra'[t] <= globalEraClock
        /\ \A s \in Stack!Slots : hazardErasList'[t][s] <= globalEraClock
    BY <1>1, <2>1 DEF Stack!Scheme, Stack!ErasReached
  <2>6. /\ pc'[t] = "retire.add" /\ pc'[t] \notin Stack!PushLabels /\ ~Stack!Popped(t)'
        /\ Stack!LoadedLives(t)' /\ Stack!GuardedLives(t)'
    BY <1>1, <2>1
       DEF Stack!TypeOK, Stack!PushLabels, Stack!Popped, Stack!LoadedLives,
           Stack!GuardedLives, Stack!GuardLabels
  <2>7. Stack!MainAlone' /\ (Stack!Destroyed => Stack!Destroyed')
    BY <1>1, <2>1, <2>6, ThreadsAssumption
       DEF Stack!TypeOK, Stack!MainAlone, Stack!PushLabels, Stack!Destroyed,
           Stack!Threads
  <2> QED BY <2>1, <2>3, <2>4, <2>5, <2>6, <2>7, StackLocalInv
<1> QED BY <1>2, <1>3, <1>4 DEF Stack!PopSweep

(* The destructors run alone.                                              *)
LEMMA StackDestroyInv ==
  ASSUME Stack!IInv, Stack!Defined, Stack!Destroy
  PROVE  Stack!IInv'
<1>1. /\ Stack!TypeOK /\ Stack!Scheme(StackChecking) /\ Stack!MainAlone
      /\ Stack!StackShape
      /\ \A u \in Stack!Threads : Stack!ThreadInv(u)
  BY DEF Stack!IInv, StackChecking
<1> DEFINE Dead == {n \in Nodes : n = top \/ \E t \in Stack!Threads : n \in Stack!Retired(t)}
<1>2. /\ main = "deleting" /\ main' = "destroyed" /\ top' = NULL
      /\ retiredPtrList' = [t \in Stack!Threads |-> <<>>]
      /\ UNCHANGED <<pc, globalEraClock, hazardErasList, retiredNodesCount, ptr,
                     currEra, slot, node, nxt, retData, dangling>>
      /\ Stack!DeleteInEra(Dead)
  BY DEF Stack!Destroy, Stack!DeleteStructure, Stack!heLocals, Stack!locals
<1>3. \A u \in Stack!Threads : pc'[u] \in {"idle", "exited"} /\ pc'[u] = pc[u]
  BY <1>1, <1>2 DEF Stack!MainAlone
<1> HIDE DEF Dead
<1>4. Stack!TypeOK'
  <2>1. Stack!HeapTypeOK'
    BY <1>1, <1>2
       DEF Stack!DeleteInEra, Stack!Delete, Stack!TypeOK, Stack!HeapTypeOK,
           Stack!NodeOrNull, Stack!Statuses
  <2>2. Stack!HETypeOK'
    BY <1>1, <1>2
       DEF Stack!DeleteInEra, Stack!ForgetEras, Stack!TypeOK, Stack!HETypeOK
  <2> QED BY <1>1, <1>2, <2>1, <2>2
             DEF Stack!TypeOK, Stack!NodeOrNull, Stack!MainStates
<1>5. Stack!Scheme(StackChecking)'
  <2>1. Stack!RetiredOnce' /\ Stack!CountsRetired'
    BY <1>2 DEF Stack!RetiredOnce, Stack!CountsRetired, Stack!Destroyed
  <2>2. Stack!ErasReached'
    BY <1>1, <1>2
       DEF Stack!DeleteInEra, Stack!ForgetEras, Stack!TypeOK, Stack!HETypeOK,
           Stack!Scheme, Stack!ErasReached
  <2>3. Stack!RetiredBefore(StackChecking)'
    BY <1>3 DEF Stack!RetiredBefore, StackChecking
  <2> QED BY <2>1, <2>2, <2>3 DEF Stack!Scheme
<1>6. Stack!StackShape'
  <2>1. \A n : Stack!Listed(n) => status[n] = "retired"
    BY <1>1
       DEF Stack!Listed, Stack!Retired, Stack!Members, Stack!Scheme,
           Stack!RetiredOnce
  <2>2. \A n \in Dead : n = top \/ status[n] = "retired"
    BY <2>1 DEF Dead, Stack!Listed
  <2>3. \A n \in Nodes : IF n \in Dead THEN status'[n] = "free"
                         ELSE status'[n] = status[n] /\ next'[n] = next[n]
    BY <1>2 DEF Stack!DeleteInEra, Stack!Delete
  <2>4. \A n \in Nodes : status'[n] = "linked" => status[n] = "linked"
          /\ next'[n] = next[n]
    BY <2>3
  <2>5. \A n \in Nodes : status[n] = "linked" /\ n # top => status'[n] = "linked"
    BY <2>2, <2>3
  <2> QED BY <1>1, <1>2, <2>4, <2>5
             DEF Stack!StackShape, Stack!TypeOK, Stack!HeapTypeOK,
                 Stack!NodeOrNull
<1>7. Stack!MainAlone'
  BY <1>1, <1>2 DEF Stack!MainAlone
<1>8. ASSUME NEW u \in Stack!Threads
      PROVE  Stack!OwnsNode(u)' /\ Stack!PoppedByOne(u)'
               /\ Stack!LoadedLives(u)' /\ Stack!GuardedLives(u)'
  BY <1>3
     DEF Stack!OwnsNode, Stack!PushLabels, Stack!PoppedByOne, Stack!Popped,
         Stack!LoadedLives, Stack!GuardedLives, Stack!GuardLabels
<1>9. Stack!EraCovers'
  BY <1>8
     DEF Stack!GuardedLives, Stack!EraCovers, Stack!Guards, Stack!Covers,
         Stack!WithinLife, Stack!Listed
<1> QED BY <1>4, <1>5, <1>6, <1>7, <1>8, <1>9
           DEF Stack!IInv, Stack!ThreadInv, StackChecking

(* A system that has stopped stays as it is.                               *)
LEMMA StackStutters == Stack!IInv /\ UNCHANGED Stack!vars => Stack!IInv'
<1> SUFFICES ASSUME Stack!IInv, UNCHANGED Stack!vars PROVE Stack!IInv'
  OBVIOUS
<1> USE DEF Stack!vars, Stack!heapVars, Stack!heVars, Stack!eraFields,
            Stack!heLocals, Stack!locals
<1>1. Stack!TypeOK' /\ Stack!EraCovers'
  BY DEF Stack!IInv, Stack!TypeOK, Stack!HeapTypeOK, Stack!HETypeOK,
         Stack!EraCovers, Stack!Guards, Stack!Retired
<1>2. Stack!Defined' <=> Stack!Defined
  BY DEF Stack!Defined
<1>3. ASSUME Stack!Defined
      PROVE Stack!Scheme({"retire.check"})' /\ Stack!StackShape' /\ Stack!MainAlone'
  BY <1>3
     DEF Stack!IInv, Stack!Scheme, Stack!RetiredOnce, Stack!CountsRetired,
         Stack!Destroyed, Stack!ErasReached, Stack!RetiredBefore,
         Stack!Retired, Stack!StackShape, Stack!MainAlone
<1>4. ASSUME Stack!Defined, NEW u \in Stack!Threads PROVE Stack!ThreadInv(u)'
  BY <1>4
     DEF Stack!IInv, Stack!ThreadInv, Stack!OwnsNode, Stack!PoppedByOne,
         Stack!Popped, Stack!LoadedLives, Stack!GuardedLives, Stack!Live,
         Stack!EraFits, Stack!Covers, Stack!WithinLife, Stack!Listed,
         Stack!Retired
<1> QED BY <1>1, <1>2, <1>3, <1>4 DEF Stack!IInv

(* Every step keeps the invariant.                                         *)
LEMMA StackNextInv == Stack!IInv /\ [Stack!Next]_(Stack!vars) => Stack!IInv'
<1> SUFFICES ASSUME Stack!IInv, [Stack!Next]_(Stack!vars) PROVE Stack!IInv'
  OBVIOUS
<1>1. ASSUME Stack!Defined, NEW t \in Stack!Threads, Stack!ThreadStep(t)
      PROVE Stack!IInv'
  BY <1>1, PushCallInv, PushProtectInv, PushLinkInv, PopCallInv, PopProtectInv,
     PopCheckInv, PopNextInv, PopCasInv, PopItemInv, PopRetireInv, PopSweepInv,
     StackReturnInv, StackMainInv
     DEF Stack!ThreadStep, Stack!PushStep, Stack!PopStep
<1>2. ASSUME Stack!Defined, Stack!Quit \/ Stack!Join PROVE Stack!IInv'
  <2>1. 0 \in Stack!Threads
    BY ThreadsAssumption DEF Stack!Threads
  <2> QED BY <1>2, <2>1, StackMainInv
<1> QED BY <1>1, <1>2, StackDestroyInv, StackStutters
           DEF Stack!Next, Stack!MainStep, Stack!Finished
-----------------------------------------------------------------------------
(* Where every node is.                                                    *)

(* What the shape of the stack says of the linked nodes as a set.          *)
LEMMA StackWithin ==
  ASSUME Stack!IInv, Stack!Defined
  PROVE  /\ Stack!Linked \in SUBSET Nodes /\ Within(next, Stack!Linked)
         /\ top # NULL => top \in Stack!Linked
         /\ retiredPtrList \in [Stack!Threads -> Seq(Nodes)]
         /\ \A n : Stack!Listed(n) => n \in Nodes /\ status[n] = "retired"
<1>1. Stack!TypeOK /\ Stack!StackShape /\ Stack!Scheme(StackChecking)
  BY DEF Stack!IInv, StackChecking
<1>2. Within(next, Stack!Linked) /\ (top # NULL => top \in Stack!Linked)
  BY <1>1
     DEF Stack!TypeOK, Stack!HeapTypeOK, Stack!NodeOrNull, Stack!StackShape,
         Within, Stack!Linked
<1>3. retiredPtrList \in [Stack!Threads -> Seq(Nodes)] /\ Stack!RetiredOnce
  BY <1>1 DEF Stack!TypeOK, Stack!HETypeOK, Stack!Scheme
<1>4. \A n : Stack!Listed(n) => n \in Nodes /\ status[n] = "retired"
  BY <1>3, StackOneEntry
<1> QED BY <1>2, <1>3, <1>4 DEF Stack!Linked

(* A step that links no node anew and takes none out of the stack.         *)
LEMMA StackKeeps ==
  ASSUME Stack!IInv, Stack!Defined, Stack!Placed,
         Stack!Destroyed => Stack!Destroyed', top' = top,
         Stack!Linked' = Stack!Linked, \A n \in Stack!Linked : next'[n] = next[n],
         \A n \in Nodes : status'[n] = "private"
           => \E t \in Stack!Threads : Stack!Holds(t, n)',
         \A n \in Nodes : status'[n] = "retired" =>
           Stack!Listed(n)' \/ \E t \in Stack!Threads : Stack!Holds(t, n)'
  PROVE  Stack!Placed'
<1>1. ASSUME ~Stack!Destroyed' PROVE Stack!Reaches(top, next, Stack!Linked)'
  <2>1. Stack!Reaches(top, next, Stack!Linked)
    BY <1>1 DEF Stack!Placed
  <2>2. Stack!Reaches(top, next', Stack!Linked)
    BY <2>1, StackReachesWithin, StackWithin
  <2> QED BY <2>2 DEF Stack!Reaches, Stack!Closed
<1> QED BY <1>1 DEF Stack!Placed

(* A step that leaves what is held with who holds it.                      *)
LEMMA StackStays ==
  ASSUME Stack!IInv, Stack!Defined, Stack!Placed,
         UNCHANGED <<status, retiredPtrList, top>>,
         Stack!Destroyed => Stack!Destroyed',
         \A n \in Nodes : status[n] = "linked" => next'[n] = next[n],
         \A n \in Nodes, t \in Stack!Threads : Stack!Holds(t, n) => Stack!Holds(t, n)'
  PROVE  Stack!Placed'
<1>1. Stack!Linked' = Stack!Linked /\ \A n \in Stack!Linked : next'[n] = next[n]
  BY DEF Stack!Linked
<1>2. \A n : Stack!Listed(n)' <=> Stack!Listed(n)
  BY DEF Stack!Listed, Stack!Retired
<1> QED BY <1>1, <1>2, StackKeeps DEF Stack!Placed

(* Most steps of an operation are of that kind.                            *)
LEMMA StackMovesPlace ==
  ASSUME Stack!IInv, Stack!Defined, Stack!Placed, NEW t \in Stack!Threads,
         Stack!PushProtect(t) \/ Stack!PushCheck(t) \/ Stack!PopCall(t)
           \/ Stack!PopProtect(t)
         \/ Stack!PopCheck(t) \/ Stack!PopNext(t) \/ Stack!PopItem(t)
              \/ Stack!Return(t) \/ Stack!ThreadExit(t)
  PROVE  Stack!Placed'
<1>1. Stack!TypeOK /\ Stack!ThreadInv(t)
  BY DEF Stack!IInv
<1>2. /\ UNCHANGED <<status, retiredPtrList, top>>
      /\ Stack!Destroyed => Stack!Destroyed'
      /\ \A n \in Nodes : status[n] = "linked" => next'[n] = next[n]
  <2>1. /\ UNCHANGED <<status, retiredPtrList, top>>
        /\ Stack!Destroyed => Stack!Destroyed'
        /\ next' # next => Stack!PushCheck(t)
    BY DEF Stack!PushProtect, Stack!ProtectLoad, Stack!ProtectClock,
           Stack!ProtectPublish, Stack!PushCheck, Stack!PopCall,
           Stack!PopProtect, Stack!PopCheck, Stack!PopNext, Stack!PopItem,
           Stack!Return, Stack!ReturnItem, Stack!ThreadExit, Stack!LeaveLoop,
           Stack!Destroyed, Stack!heapVars, Stack!heVars, Stack!Goto
  <2>2. Stack!PushCheck(t) =>
          \A n \in Nodes : status[n] = "linked" => next'[n] = next[n]
    BY <1>1
       DEF Stack!TypeOK, Stack!HeapTypeOK, Stack!ThreadInv, Stack!OwnsNode,
           Stack!PushLabels, Stack!PushCheck, Stack!Goto
  <2> QED BY <2>1, <2>2
<1>3. ASSUME NEW n \in Nodes, NEW u \in Stack!Threads, Stack!Holds(u, n)
      PROVE  Stack!Holds(u, n)'
  <2>0. /\ pc \in [Stack!Threads -> Stack!Labels]
        /\ ptr \in [Stack!Threads -> Stack!NodeOrNull]
        /\ node \in [Stack!Threads -> Stack!NodeOrNull]
    BY <1>1 DEF Stack!TypeOK, Stack!HETypeOK
  <2> DEFINE Keeps ==
        /\ u # t => pc'[u] = pc[u] /\ node'[u] = node[u] /\ ptr'[u] = ptr[u]
        /\ pc[t] \in Stack!PushLabels => pc'[t] \in Stack!PushLabels
             /\ node'[t] = node[t]
        /\ pc[t] \in {"pop.item", "retire.era"} =>
             pc'[t] \in {"pop.item", "retire.era"} /\ ptr'[t] = ptr[t]
  <2>1. Stack!PushProtect(t) => Keeps
    BY <2>0
       DEF Stack!PushLabels, Stack!Goto, Stack!PushProtect, Stack!ProtectLoad,
           Stack!ProtectClock, Stack!ProtectPublish, Stack!locals
  <2>2. Stack!PushCheck(t) => Keeps
    BY <2>0
       DEF Stack!PushLabels, Stack!Goto, Stack!PushCheck, Stack!heLocals,
           Stack!locals
  <2>3. Stack!PopCall(t) => Keeps
    BY <2>0
       DEF Stack!PushLabels, Stack!Goto, Stack!PopCall, Stack!heLocals,
           Stack!locals
  <2>4. Stack!PopProtect(t) => Keeps
    BY <2>0
       DEF Stack!PushLabels, Stack!Goto, Stack!PopProtect, Stack!ProtectLoad,
           Stack!ProtectClock, Stack!ProtectPublish, Stack!locals
  <2>5. Stack!PopCheck(t) => Keeps
    BY <2>0
       DEF Stack!PushLabels, Stack!Goto, Stack!PopCheck, Stack!heLocals,
           Stack!locals
  <2>6. Stack!PopNext(t) => Keeps
    BY <2>0 DEF Stack!PushLabels, Stack!Goto, Stack!PopNext, Stack!heLocals
  <2>7. Stack!PopItem(t) => Keeps
    BY <2>0 DEF Stack!PushLabels, Stack!Goto, Stack!PopItem, Stack!heLocals
  <2>8. Stack!Return(t) => Keeps
    BY <2>0 DEF Stack!PushLabels, Stack!Goto, Stack!ClearSlot, Stack!Return
  <2>9. Stack!ThreadExit(t) => Keeps
    BY <2>0
       DEF Stack!PushLabels, Stack!Goto, Stack!ThreadExit, Stack!LeaveLoop,
           Stack!heLocals, Stack!locals
  <2> HIDE DEF Keeps
  <2>10. Keeps
    BY <1>1, <2>1, <2>2, <2>3, <2>4, <2>5, <2>6, <2>7, <2>8, <2>9
  <2> QED BY <1>3, <2>10 DEF Stack!Holds, Keeps
<1> QED BY <1>2, <1>3, StackStays

(* A new node is in the hands of its push.                                 *)
LEMMA PushCallPlaces ==
  ASSUME Stack!IInv, Stack!Defined, Stack!Placed, NEW t \in Stack!Threads,
         Stack!PushCall(t)
  PROVE  Stack!Placed'
<1>1. PICK n \in Nodes, i \in Items :
        Stack!NewInEra(n, i) /\ node' = [node EXCEPT ![t] = n]
  BY DEF Stack!PushCall
<1>2. /\ UNCHANGED <<top, retiredPtrList, main, ptr>> /\ pc[t] = "idle"
      /\ pc' = [pc EXCEPT ![t] = "push.get"] /\ Stack!TypeOK
  BY DEF Stack!PushCall, Stack!Goto, Stack!heVars, Stack!heLocals, Stack!IInv
<1>3. /\ status[n] = "free" /\ status' = [status EXCEPT ![n] = "private"]
      /\ \A m \in Nodes : m # n => status'[m] = status[m] /\ next'[m] = next[m]
  BY <1>1, <1>2 DEF Stack!NewInEra, Stack!New, Stack!TypeOK, Stack!HeapTypeOK
<1>4. Stack!Linked' = Stack!Linked /\ \A m \in Stack!Linked : next'[m] = next[m]
  BY <1>2, <1>3 DEF Stack!Linked, Stack!TypeOK, Stack!HeapTypeOK
<1>5. Stack!Holds(t, n)'
  BY <1>1, <1>2 DEF Stack!Holds, Stack!PushLabels, Stack!TypeOK
<1>6. ASSUME NEW m \in Nodes, NEW u \in Stack!Threads, Stack!Holds(u, m)
      PROVE  Stack!Holds(u, m)'
  BY <1>1, <1>2, <1>6 DEF Stack!Holds, Stack!PushLabels, Stack!TypeOK
<1>7. \A m : Stack!Listed(m)' <=> Stack!Listed(m)
  BY <1>2 DEF Stack!Listed, Stack!Retired
<1>8. status'[n] = "private"
  BY <1>2, <1>3 DEF Stack!TypeOK, Stack!HeapTypeOK
<1> QED BY <1>2, <1>3, <1>4, <1>5, <1>6, <1>7, <1>8, StackKeeps
           DEF Stack!Placed, Stack!Destroyed

(* The exchange of a push hands its node over to the stack.                *)
LEMMA PushCasPlaces ==
  ASSUME Stack!IInv, Stack!Defined, Stack!Placed, NEW t \in Stack!Threads,
         Stack!PushCas(t)
  PROVE  Stack!Placed'
<1>0. Stack!TypeOK /\ Stack!OwnsNode(t)
  BY DEF Stack!IInv, Stack!ThreadInv
<1>1. CASE top # ptr[t]
  <2>1. /\ UNCHANGED <<status, retiredPtrList, top, next>>
        /\ Stack!Destroyed => Stack!Destroyed'
    BY <1>1 DEF Stack!PushCas, Stack!heVars, Stack!Destroyed
  <2>2. ASSUME NEW n \in Nodes, NEW u \in Stack!Threads, Stack!Holds(u, n)
        PROVE  Stack!Holds(u, n)'
    BY <1>0, <1>1, <2>2
       DEF Stack!PushCas, Stack!Holds, Stack!PushLabels, Stack!Goto,
           Stack!heLocals, Stack!locals, Stack!TypeOK
  <2> QED BY <2>1, <2>2, StackStays
<1>2. CASE top = ptr[t]
  <2> DEFINE n == node[t]
  <2>1. /\ UNCHANGED <<next, retiredPtrList, main, node, ptr>>
        /\ pc[t] = "push.cas" /\ pc' = [pc EXCEPT ![t] = "clear"]
        /\ top' = n /\ status' = [status EXCEPT ![n] = "linked"]
    BY <1>2
       DEF Stack!PushCas, Stack!Goto, Stack!heVars, Stack!heLocals,
           Stack!locals
  <2>2. n \in Nodes /\ status[n] = "private" /\ next[n] = top
    BY <1>0, <1>2, <2>1 DEF Stack!OwnsNode, Stack!PushLabels
  <2>3. /\ Stack!Linked' = Stack!Linked \cup {n} /\ status'[n] = "linked"
        /\ \A m \in Nodes : m # n => status'[m] = status[m]
    BY <1>0, <2>1, <2>2 DEF Stack!Linked, Stack!TypeOK, Stack!HeapTypeOK
  <2>4. ASSUME ~Stack!Destroyed' PROVE Stack!Reaches(top, next, Stack!Linked)'
    <3>1. Stack!Reaches(top, next, Stack!Linked)
      BY <2>1, <2>4 DEF Stack!Placed, Stack!Destroyed
    <3>2. Stack!Reaches(n, next, Stack!Linked \cup {n})
      BY <2>2, <3>1, StackReachesPushed, StackWithin
    <3> QED BY <2>1, <2>3, <3>2 DEF Stack!Reaches, Stack!Closed
  <2>5. ASSUME NEW m \in Nodes, NEW u \in Stack!Threads, Stack!Holds(u, m), m # n
        PROVE  Stack!Holds(u, m)'
    BY <1>0, <2>1, <2>5 DEF Stack!Holds, Stack!PushLabels, Stack!TypeOK
  <2>6. \A m : Stack!Listed(m)' <=> Stack!Listed(m)
    BY <2>1 DEF Stack!Listed, Stack!Retired
  <2> QED BY <2>2, <2>3, <2>4, <2>5, <2>6 DEF Stack!Placed
<1> QED BY <1>1, <1>2

(* The exchange of a pop takes the first node into its hands.              *)
LEMMA PopCasPlaces ==
  ASSUME Stack!IInv, Stack!Defined, Stack!Placed, NEW t \in Stack!Threads,
         Stack!PopCas(t)
  PROVE  Stack!Placed'
<1>0. Stack!TypeOK /\ Stack!GuardedLives(t)
  BY DEF Stack!IInv, Stack!ThreadInv
<1>1. CASE top # ptr[t]
  <2>1. /\ UNCHANGED <<status, retiredPtrList, top, next>>
        /\ Stack!Destroyed => Stack!Destroyed'
    BY <1>1 DEF Stack!PopCas, Stack!heVars, Stack!Destroyed
  <2>2. ASSUME NEW n \in Nodes, NEW u \in Stack!Threads, Stack!Holds(u, n)
        PROVE  Stack!Holds(u, n)'
    BY <1>0, <1>1, <2>2
       DEF Stack!PopCas, Stack!Holds, Stack!PushLabels, Stack!Goto,
           Stack!heLocals, Stack!TypeOK
  <2> QED BY <2>1, <2>2, StackStays
<1>2. CASE top = ptr[t] /\ t \in dangling
  BY <1>0, <1>2
     DEF Stack!PopCas, Stack!Goto, Stack!Placed, Stack!Defined, Stack!TypeOK
<1>3. CASE top = ptr[t] /\ t \notin dangling
  <2>1. /\ UNCHANGED <<next, retiredPtrList, main, node, ptr>>
        /\ pc[t] = "pop.cas" /\ pc' = [pc EXCEPT ![t] = "pop.item"]
        /\ top' = nxt[t] /\ status' = [status EXCEPT ![top] = "retired"]
    BY <1>3 DEF Stack!PopCas, Stack!Goto, Stack!heVars, Stack!heLocals
  <2>2. top \in Stack!Linked /\ nxt[t] = next[top] /\ top \in Nodes
    <3>1. ptr[t] \in Nodes /\ nxt[t] = next[ptr[t]]
      BY <1>0, <1>3, <2>1 DEF Stack!GuardedLives, Stack!GuardLabels
    <3>2. top \in Stack!Linked
      BY <1>3, <3>1, HeapAssumption, StackWithin
    <3> QED BY <1>3, <3>1, <3>2
  <2>3. /\ Stack!Linked' = Stack!Linked \ {top} /\ status'[top] = "retired"
        /\ \A m \in Nodes : m # top => status'[m] = status[m]
    BY <1>0, <2>1, <2>2 DEF Stack!Linked, Stack!TypeOK, Stack!HeapTypeOK
  <2>4. ASSUME ~Stack!Destroyed' PROVE Stack!Reaches(top, next, Stack!Linked)'
    <3>1. Stack!Reaches(top, next, Stack!Linked)
      BY <2>1, <2>4 DEF Stack!Placed, Stack!Destroyed
    <3>2. Stack!Reaches(next[top], next, Stack!Linked \ {top})
      BY <2>2, <3>1, StackReachesPopped, StackWithin
    <3> QED BY <2>1, <2>2, <2>3, <3>2 DEF Stack!Reaches, Stack!Closed
  <2>5. /\ pc'[t] = "pop.item"
        /\ \A n : n = top => Stack!Holds(t, n)'
    BY <1>0, <1>3, <2>1 DEF Stack!Holds, Stack!TypeOK
  <2>6. ASSUME NEW n \in Nodes, NEW u \in Stack!Threads, Stack!Holds(u, n)
        PROVE  Stack!Holds(u, n)'
    BY <1>0, <2>1, <2>6 DEF Stack!Holds, Stack!PushLabels, Stack!TypeOK
  <2>7. \A n : Stack!Listed(n)' <=> Stack!Listed(n)
    BY <2>1 DEF Stack!Listed, Stack!Retired
  <2> QED BY <1>0, <2>2, <2>3, <2>4, <2>5, <2>6, <2>7
             DEF Stack!Placed, Stack!Linked
<1> QED BY <1>1, <1>2, <1>3

(* retireNode puts the node of a pop into the list of its thread.          *)
LEMMA PopRetirePlaces ==
  ASSUME Stack!IInv, Stack!Defined, Stack!Placed, NEW t \in Stack!Threads,
         Stack!PopRetire(t)
  PROVE  Stack!Placed'
<1>1. /\ Stack!TypeOK /\ Stack!Scheme(StackChecking)
      /\ \A u \in Stack!Threads : Stack!ThreadInv(u)
      /\ pc[t] = "retire.era" /\ pc' = [pc EXCEPT ![t] = "retire.check"]
      /\ UNCHANGED <<status, next, top, main, node, ptr>>
  BY DEF Stack!IInv, StackChecking, Stack!PopRetire, Stack!RetirePush,
         Stack!Goto, Stack!heapVars, Stack!locals
<1>2. Stack!Popped(t) /\ Stack!PoppedByOne(t)
  BY <1>1 DEF Stack!ThreadInv, Stack!Popped
<1>3. \A m : Stack!Listed(m)' <=> Stack!Listed(m) \/ m = ptr[t]
  <2>1. /\ Stack!HETypeOK /\ pc \in [Stack!Threads -> Stack!Labels]
        /\ ptr[t] \in Nodes /\ status[ptr[t]] = "retired" /\ ~Stack!Listed(ptr[t])
    BY <1>1, <1>2 DEF Stack!TypeOK, Stack!PoppedByOne
  <2>2. UNCHANGED main /\ Stack!Scheme(StackChecking)
    BY <1>1
  <2>3. Stack!RetirePush(t, ptr[t], "retire.era", "retire.check")
    BY DEF Stack!PopRetire
  <2> HIDE DEF StackChecking
  <2> QED BY <2>1, <2>2, <2>3, StackPushEffect
<1>4. ASSUME NEW m \in Nodes, NEW u \in Stack!Threads, Stack!Holds(u, m), m # ptr[t]
      PROVE  Stack!Holds(u, m)'
  BY <1>1, <1>4 DEF Stack!Holds, Stack!PushLabels, Stack!TypeOK
<1>5. ASSUME NEW m \in Nodes, NEW u \in Stack!Threads, Stack!Holds(u, m),
             status[m] = "private"
      PROVE  Stack!Holds(u, m)'
  BY <1>1, <1>2, <1>5
     DEF Stack!Holds, Stack!PushLabels, Stack!TypeOK, Stack!PoppedByOne
<1>6. Stack!Linked' = Stack!Linked /\ \A n \in Stack!Linked : next'[n] = next[n]
  BY <1>1 DEF Stack!Linked
<1> QED BY <1>1, <1>3, <1>4, <1>5, <1>6, StackKeeps
           DEF Stack!Placed, Stack!Destroyed

(* A sweep deletes a node with its entry.                                  *)
LEMMA PopSweepPlaces ==
  ASSUME Stack!IInv, Stack!Defined, Stack!Placed, NEW t \in Stack!Threads,
         Stack!PopSweep(t)
  PROVE  Stack!Placed'
<1>1. /\ Stack!TypeOK /\ Stack!Scheme(StackChecking) /\ Stack!MainAlone
      /\ UNCHANGED <<top, main, node, ptr>>
      /\ pc[t] \in {"retire.check", "retire.add"}
      /\ pc' = [pc EXCEPT ![t] = pc'[t]]
      /\ pc'[t] \in {"retire.add", "clear"}
  BY DEF Stack!IInv, StackChecking, Stack!PopSweep, Stack!RetireCheck,
         Stack!RetireAdd, Stack!Goto, Stack!locals, Stack!TypeOK
<1>2. \A m \in Nodes, u \in Stack!Threads : Stack!Holds(u, m) => Stack!Holds(u, m)'
  BY <1>1 DEF Stack!Holds, Stack!PushLabels, Stack!TypeOK
<1>3. CASE UNCHANGED <<Stack!heapVars, retiredPtrList>>
  BY <1>1, <1>2, <1>3, StackStays DEF Stack!heapVars, Stack!Destroyed
<1>4. CASE /\ Stack!Sweep(t) /\ globalEraClock' \in {globalEraClock, globalEraClock + 1}
           /\ UNCHANGED <<hazardErasList, ptr, slot>>
  <2>1. /\ \A n \in Stack!Removed(t) : n \in Nodes /\ Stack!Listed(n)
             /\ status[n] = "retired"
        /\ \A n : Stack!Listed(n)' <=> Stack!Listed(n) /\ n \notin Stack!Removed(t)
        /\ \A n \in Nodes :
             IF n \in Stack!Removed(t) THEN status'[n] = "free"
             ELSE status'[n] = status[n] /\ next'[n] = next[n]
    <3>1. \A u \in Stack!Threads : pc'[u] \in StackChecking => u # t
            /\ pc[u] \in StackChecking
      BY <1>1 DEF StackChecking, Stack!TypeOK
    <3>2. ~Stack!Destroyed /\ Stack!HETypeOK /\ UNCHANGED main
      BY <1>1 DEF Stack!MainAlone, Stack!Destroyed, Stack!TypeOK
    <3> HIDE DEF StackChecking
    <3> QED BY <1>1, <1>4, <3>1, <3>2, StackSweepEffect
  <2>2. Stack!Linked' = Stack!Linked /\ \A n \in Stack!Linked : next'[n] = next[n]
    BY <2>1 DEF Stack!Linked
  <2> QED BY <1>1, <1>2, <2>1, <2>2, StackKeeps
             DEF Stack!Placed, Stack!Destroyed
<1> QED BY <1>1, <1>3, <1>4
           DEF Stack!PopSweep, Stack!RetireCheck, Stack!RetireAdd

(* The destructor deletes the node at the top and those of the lists.      *)
LEMMA StackDestroyPlaces ==
  ASSUME Stack!IInv, Stack!Defined, Stack!Placed, Stack!Destroy
  PROVE  Stack!Placed'
<1>1. /\ main = "deleting" /\ Stack!Destroyed' /\ UNCHANGED <<pc, node, ptr>>
      /\ Stack!Delete({n \in Nodes : n = top \/ \E t \in Stack!Threads : n \in Stack!Retired(t)})
      /\ Stack!TypeOK /\ Stack!MainAlone
  BY DEF Stack!Destroy, Stack!DeleteStructure, Stack!DeleteInEra,
         Stack!Destroyed, Stack!heLocals, Stack!locals, Stack!IInv
<1>2. \A t \in Stack!Threads, n \in Nodes : ~Stack!Holds(t, n)
  BY <1>1 DEF Stack!Holds, Stack!MainAlone, Stack!PushLabels
<1>3. \A n \in Nodes : status'[n] \notin {"private", "retired"}
  BY <1>1, <1>2
     DEF Stack!Delete, Stack!Placed, Stack!Listed, Stack!TypeOK,
         Stack!HeapTypeOK
<1> QED BY <1>1, <1>3 DEF Stack!Placed

(* Every step keeps every node in its place.                               *)
LEMMA StackNextPlaces == Stack!IInv /\ Stack!Placed /\ [Stack!Next]_(Stack!vars)
                           => Stack!Placed'
<1> SUFFICES ASSUME Stack!IInv, Stack!Placed, [Stack!Next]_(Stack!vars)
             PROVE Stack!Placed'
  OBVIOUS
<1>1. ASSUME Stack!Defined, NEW t \in Stack!Threads, Stack!ThreadStep(t)
      PROVE Stack!Placed'
  BY <1>1, StackMovesPlace, PushCallPlaces, PushCasPlaces, PopCasPlaces,
     PopRetirePlaces, PopSweepPlaces
     DEF Stack!ThreadStep, Stack!PushStep, Stack!PopStep
<1>2. ASSUME Stack!Defined, Stack!Quit \/ Stack!Join PROVE Stack!Placed'
  <2>1. /\ UNCHANGED <<status, retiredPtrList, top, next>>
        /\ Stack!Destroyed => Stack!Destroyed'
    BY <1>2
       DEF Stack!Quit, Stack!Join, Stack!QuitSignal, Stack!JoinThreads,
           Stack!heapVars, Stack!heVars, Stack!Destroyed
  <2>2. Stack!TypeOK
    BY DEF Stack!IInv
  <2>3. \A n \in Nodes, t \in Stack!Threads : Stack!Holds(t, n) => Stack!Holds(t, n)'
    BY <1>2, <2>2
       DEF Stack!Quit, Stack!Join, Stack!QuitSignal, Stack!JoinThreads,
           Stack!heLocals, Stack!locals, Stack!Holds, Stack!PushLabels,
           Stack!TypeOK
  <2> QED BY <1>2, <2>1, <2>3, StackStays
<1>3. ASSUME UNCHANGED Stack!vars PROVE Stack!Placed'
  BY <1>3
     DEF Stack!vars, Stack!heapVars, Stack!heVars, Stack!heLocals,
         Stack!locals, Stack!Placed, Stack!Defined, Stack!Destroyed,
         Stack!Reaches, Stack!Closed, Stack!Linked, Stack!Listed,
         Stack!Retired, Stack!Holds
<1> QED BY <1>1, <1>2, <1>3, StackDestroyPlaces
           DEF Stack!Next, Stack!MainStep, Stack!Finished

(* The constructor links the sentinel.                                     *)
LEMMA StackInitPlaced == Stack!Init => Stack!Placed
<1> SUFFICES ASSUME Stack!Init PROVE Stack!Placed
  OBVIOUS
<1>1. PICK s \in Nodes : Stack!HeapWithSentinel(s) /\ top = s
  BY DEF Stack!Init
<1>2. Stack!Linked = {s} /\ \A n \in Nodes : status[n] \in {"linked", "free"}
  BY <1>1 DEF Stack!HeapWithSentinel, Stack!Linked
<1>3. Stack!Reaches(top, next, Stack!Linked)
  BY <1>1, <1>2, HeapAssumption DEF Stack!Reaches, Stack!Closed
<1> QED BY <1>2, <1>3 DEF Stack!Placed

(* Nobody shares a node, and none is lost.                                 *)
LEMMA StackOwned == Stack!IInv /\ Stack!Placed => Stack!OneOwner
<1> SUFFICES ASSUME Stack!IInv, Stack!Placed, Stack!Defined, ~Stack!Destroyed
             PROVE Stack!OneOwner
  BY DEF Stack!OneOwner
<1>0. Stack!TypeOK /\ Stack!Scheme(StackChecking) /\ Stack!StackShape
        /\ \A u \in Stack!Threads : Stack!ThreadInv(u)
  BY DEF Stack!IInv, StackChecking
<1>1. Stack!ChainSet(top) = Stack!Linked
  BY StackChainIsLinked, StackWithin DEF Stack!Placed
<1>2. ASSUME NEW n \in Nodes
      PROVE  Stack!InOnePlace(n, Stack!Linked, Stack!EntriesOf(retiredPtrList, n),
                        {t \in Stack!Threads : Stack!Holds(t, n)})
  <2> DEFINE entries == Stack!EntriesOf(retiredPtrList, n)
             holders == {t \in Stack!Threads : Stack!Holds(t, n)}
  <2>1. /\ ~Stack!Listed(n) => entries = {}
        /\ Stack!Listed(n) => status[n] = "retired" /\ \E x : entries = {x}
    BY <1>0, StackOneEntry, StackWithin DEF Stack!Scheme
  <2>2. ASSUME NEW t \in Stack!Threads, Stack!Holds(t, n)
        PROVE  /\ holders = {t} /\ ~Stack!Listed(n)
               /\ status[n] \in {"private", "retired"}
    <3>1. CASE pc[t] \in Stack!PushLabels /\ node[t] = n
      <4>1. status[n] = "private" /\ \A u \in Stack!Threads : Stack!Holds(u, n) => u = t
        BY <1>0, <3>1
           DEF Stack!Holds, Stack!ThreadInv, Stack!OwnsNode, Stack!PoppedByOne,
               Stack!Popped
      <4> QED BY <2>1, <2>2, <4>1
    <3>2. CASE Stack!Popped(t) /\ ptr[t] = n
      <4>1. /\ status[n] = "retired" /\ ~Stack!Listed(n)
            /\ \A u \in Stack!Threads : Stack!Holds(u, n) => u = t
        BY <1>0, <3>2
           DEF Stack!Holds, Stack!ThreadInv, Stack!OwnsNode, Stack!PoppedByOne,
               Stack!Popped
      <4> QED BY <2>2, <4>1
    <3> QED BY <2>2, <3>1, <3>2 DEF Stack!Holds, Stack!Popped
  <2>3. /\ status[n] \in Stack!Statuses
        /\ status[n] = "private" => \E t \in Stack!Threads : Stack!Holds(t, n)
        /\ status[n] = "retired" =>
             Stack!Listed(n) \/ \E t \in Stack!Threads : Stack!Holds(t, n)
    BY <1>0 DEF Stack!Placed, Stack!TypeOK, Stack!HeapTypeOK
  <2>4. n \in Stack!Linked <=> status[n] = "linked"
    BY DEF Stack!Linked
  <2>5. holders = {} \/ \E t \in Stack!Threads : Stack!Holds(t, n)
    OBVIOUS
  <2> HIDE DEF entries, holders
  <2>6. /\ status[n] \in {"linked", "free"} => entries = {} /\ holders = {}
        /\ status[n] \in {"private", "retired"} =>
             \/ entries = {} /\ \E x : holders = {x}
             \/ holders = {} /\ \E x : entries = {x}
    BY <2>1, <2>2, <2>3, <2>5
  <2>7. Stack!InOnePlace(n, Stack!Linked, entries, holders)
    BY <2>3, <2>4, <2>6, StackPlacedOnce
  <2> QED BY <2>7 DEF entries, holders
<1>3. \A t \in Stack!Threads : retiredNodesCount[t] = Len(retiredPtrList[t])
  BY <1>0 DEF Stack!Scheme, Stack!CountsRetired
<1> QED BY <1>1, <1>2, <1>3 DEF Stack!OneOwner

-----------------------------------------------------------------------------
(* The scheme, as the queue uses it.                                       *)

(* The scheme of the queue and that of ListHEProofs are the same.          *)
LEMMA QueueScheme ==
  /\ Queue!Threads = P!Threads
  /\ Queue!Slots = P!Slots
  /\ Queue!NodeOrNull = P!NodeOrNull
  /\ Queue!Destroyed <=> P!Destroyed
  /\ Queue!HEInit <=> P!HEInit
  /\ Queue!HETypeOK <=> P!HETypeOK
  /\ \A t : Queue!Retired(t) = P!Retired(t)
  /\ \A n : Queue!Listed(n) <=> P!Listed(n)
  /\ \A n, e : Queue!WithinLife(n, e) <=> P!WithinLife(n, e)
  /\ \A t, s, n : Queue!EraFits(t, s, n) <=> P!EraFits(t, s, n)
  /\ Queue!RetiredOnce <=> P!RetiredOnce
  /\ \A S : Queue!Scheme(S) <=> P!Scheme(S)
  /\ \A t : Queue!Removed(t) = P!Removed(t)
  /\ \A t : Queue!Sweep(t) <=> P!Sweep(t)
  /\ \A t, n, from, to : Queue!RetirePush(t, n, from, to)
       <=> P!RetirePush(t, n, from, to)
  /\ \A t, from, done : Queue!ClearSlot(t, from, done) <=> P!ClearSlot(t, from, done)
  /\ \A lists, n : Queue!EntriesOf(lists, n) = P!EntriesOf(lists, n)
  /\ Queue!Destroyed' <=> P!Destroyed'
  /\ Queue!HETypeOK' <=> P!HETypeOK'
  /\ \A S : Queue!Scheme(S)' <=> P!Scheme(S)'
  /\ \A n : Queue!Listed(n)' <=> P!Listed(n)'
  /\ \A n, e : Queue!WithinLife(n, e)' <=> P!WithinLife(n, e)'
<1>1. /\ Queue!Threads = P!Threads
      /\ Queue!Slots = P!Slots
      /\ Queue!NodeOrNull = P!NodeOrNull
      /\ Queue!Destroyed <=> P!Destroyed
      /\ Queue!HEInit <=> P!HEInit
      /\ Queue!HETypeOK <=> P!HETypeOK
  BY DEF Queue!Threads, P!Threads, Queue!Slots, P!Slots,
     Queue!NodeOrNull, P!NodeOrNull, Queue!Destroyed, P!Destroyed,
     Queue!emptyEra, P!emptyEra, Queue!HEInit, P!HEInit, Queue!HETypeOK,
     P!HETypeOK
<1>2. /\ \A t : Queue!Retired(t) = P!Retired(t)
      /\ \A n : Queue!Listed(n) <=> P!Listed(n)
      /\ \A n, e : Queue!WithinLife(n, e) <=> P!WithinLife(n, e)
      /\ \A t, s, n : Queue!EraFits(t, s, n) <=> P!EraFits(t, s, n)
      /\ Queue!RetiredOnce <=> P!RetiredOnce
      /\ \A S : Queue!Scheme(S) <=> P!Scheme(S)
  BY DEF Queue!Members, P!Members, Queue!Retired, P!Retired,
     Queue!Threads, P!Threads, Queue!Listed, P!Listed, Queue!WithinLife,
     P!WithinLife, Queue!EraFits, P!EraFits, Queue!RetiredOnce,
     P!RetiredOnce, Queue!Destroyed, P!Destroyed, Queue!CountsRetired,
     P!CountsRetired, Queue!Slots, P!Slots, Queue!ErasReached,
     P!ErasReached, Queue!RetiredBefore, P!RetiredBefore, Queue!Scheme,
     P!Scheme
<1>3. \A S : Queue!Cardinality(S) = P!Cardinality(S)
  BY DEF Queue!Cardinality, P!Cardinality
<1>4. \A list, S : Queue!Survivors(list, S) = P!Survivors(list, S)
  BY DEF Queue!InOrder, P!InOrder, Queue!Survivors, P!Survivors,
     Queue!Cardinality, P!Cardinality
<1>5. /\ \A t : Queue!Kept(t) = P!Kept(t)
      /\ \A t : Queue!Removed(t) = P!Removed(t)
  BY <1>2, <1>4 DEF Queue!Slots, P!Slots, Queue!emptyEra, P!emptyEra,
     Queue!canRemoveNode, P!canRemoveNode, Queue!Kept, P!Kept,
     Queue!Members, P!Members, Queue!Removed, P!Removed
<1>6. \A t : Queue!Sweep(t) <=> P!Sweep(t)
  BY <1>3, <1>5 DEF Queue!Delete, P!Delete, Queue!ForgetEras,
     P!ForgetEras, Queue!DeleteInEra, P!DeleteInEra, Queue!Sweep, P!Sweep
<1>7. /\ \A t, n, from, to : Queue!RetirePush(t, n, from, to)
           <=> P!RetirePush(t, n, from, to)
      /\ \A t, from, done : Queue!ClearSlot(t, from, done)
           <=> P!ClearSlot(t, from, done)
      /\ \A lists, n : Queue!EntriesOf(lists, n) = P!EntriesOf(lists, n)
  BY DEF Queue!Goto, P!Goto, Queue!heapVars, P!heapVars,
     Queue!RetirePush, P!RetirePush, Queue!emptyEra, P!emptyEra,
     Queue!ClearSlot, P!ClearSlot, Queue!EntriesOf, P!EntriesOf
<1>8. /\ Queue!Destroyed' <=> P!Destroyed'
      /\ Queue!HETypeOK' <=> P!HETypeOK'
      /\ \A S : Queue!Scheme(S)' <=> P!Scheme(S)'
      /\ \A n : Queue!Listed(n)' <=> P!Listed(n)'
      /\ \A n, e : Queue!WithinLife(n, e)' <=> P!WithinLife(n, e)'
  BY DEF Queue!Destroyed, P!Destroyed, Queue!Threads, P!Threads,
     Queue!Slots, P!Slots, Queue!NodeOrNull, P!NodeOrNull, Queue!HETypeOK,
     P!HETypeOK, Queue!RetiredOnce, P!RetiredOnce, Queue!CountsRetired,
     P!CountsRetired, Queue!ErasReached, P!ErasReached, Queue!Members,
     P!Members, Queue!Retired, P!Retired, Queue!RetiredBefore,
     P!RetiredBefore, Queue!Scheme, P!Scheme, Queue!Listed, P!Listed,
     Queue!WithinLife, P!WithinLife
<1> QED BY <1>1, <1>2, <1>5, <1>6, <1>7, <1>8

(* The scheme begins with empty lists in the first era.                    *)
LEMMA QueueInitEffect ==
  ASSUME NEW S, Queue!HEInit
  PROVE  Queue!Scheme(S) /\ Queue!HETypeOK
BY P!InitEffect, QueueScheme

(* A step that leaves the lists and the clock alone, keeps the retired     *)
(* nodes with their eras, stores no later era than the clock's and lets    *)
(* nobody begin to check.                                                  *)
LEMMA QueueSchemeKept ==
  ASSUME NEW S, Queue!Scheme(S), retiredPtrList \in [Queue!Threads -> Seq(Nodes)],
         UNCHANGED <<globalEraClock, retiredPtrList, retiredNodesCount>>,
         \A n \in Nodes : status[n] = "retired" =>
           status'[n] = "retired" /\ delEra'[n] = delEra[n],
         \A n \in Nodes : newEra'[n] <= globalEraClock /\ delEra'[n] <= globalEraClock,
         \A u \in Queue!Threads : /\ currEra'[u] <= globalEraClock
                            /\ \A s \in Queue!Slots : hazardErasList'[u][s] <= globalEraClock,
         \A u \in Queue!Threads : pc'[u] \in S => pc[u] \in S
           /\ currEra'[u] = currEra[u],
         Queue!Destroyed => Queue!Destroyed'
  PROVE  /\ Queue!Scheme(S)'
         /\ \A n : Queue!Listed(n)' <=> Queue!Listed(n)
BY P!SchemeKept, QueueScheme
   DEF Queue!heapVars, P!heapVars, Queue!eraFields, P!eraFields

(* A node that is in no list is appended to that of t, in the era of the   *)
(* clock: no era that has been published is later than its life.           *)
LEMMA QueuePushEffect ==
  ASSUME NEW S, Queue!Scheme(S), Queue!HETypeOK,
         NEW t \in Queue!Threads, NEW n \in Nodes, NEW from, NEW to,
         Queue!RetirePush(t, n, from, to), NEW L, pc \in [Queue!Threads -> L],
         status[n] = "retired", ~Queue!Listed(n), UNCHANGED main
  PROVE  /\ Queue!Scheme(S)' /\ Queue!HETypeOK'
         /\ \A m : Queue!Listed(m)' <=> Queue!Listed(m) \/ m = n
         /\ \A m, e : e <= globalEraClock /\ Queue!WithinLife(m, e)
              => Queue!WithinLife(m, e)'
BY P!PushEffect, QueueScheme
   DEF Queue!heapVars, P!heapVars, Queue!eraFields, P!eraFields

(* A sweep of t takes the nodes it deletes out of the list of t, and       *)
(* leaves all others as they are.                                          *)
LEMMA QueueSweepEffect ==
  ASSUME NEW S, Queue!Scheme(S), Queue!HETypeOK, NEW t \in Queue!Threads,
         Queue!Sweep(t),
         UNCHANGED <<hazardErasList, ptr, slot, main>>, ~Queue!Destroyed,
         globalEraClock' \in {globalEraClock, globalEraClock + 1},
         \A u \in Queue!Threads : pc'[u] \in S => u # t /\ pc[u] \in S
  PROVE  /\ Queue!Scheme(S)' /\ Queue!HETypeOK'
         /\ \A n \in Queue!Removed(t) : n \in Nodes /\ Queue!Listed(n)
              /\ status[n] = "retired"
         /\ \A n : Queue!Listed(n)' <=> Queue!Listed(n) /\ n \notin Queue!Removed(t)
         /\ \A n \in Nodes :
              IF n \in Queue!Removed(t) THEN status'[n] = "free"
              ELSE /\ status'[n] = status[n] /\ next'[n] = next[n]
                   /\ item'[n] = item[n]
                   /\ newEra'[n] = newEra[n] /\ delEra'[n] = delEra[n]
BY P!SweepEffect, QueueScheme
   DEF Queue!heapVars, P!heapVars, Queue!eraFields, P!eraFields

(* When a sweep comes, the clock has moved since the nodes it can delete   *)
(* were retired: a clock that still shows the published era vouches for    *)
(* a node that stays.                                                      *)
LEMMA QueueSweepSpares ==
  ASSUME NEW S, Queue!Scheme(S), Queue!HETypeOK, NEW t \in Queue!Threads,
         NEW u \in Queue!Threads, NEW s \in Queue!Slots, NEW n,
         \/ /\ globalEraClock' = globalEraClock + 1
         \/ /\ pc[t] \in S /\ globalEraClock # currEra[t]
            /\ UNCHANGED globalEraClock,
         globalEraClock' = hazardErasList[u][s], Queue!EraFits(u, s, n)
  PROVE  n \notin Queue!Removed(t)
BY P!SweepSpares, QueueScheme

LEMMA QueueFirstSlot == 0 \in Queue!Slots
BY P!FirstSlot, QueueScheme

(* A step of get_protected: what is loaded goes to the locals of t, and no *)
(* era later than the clock's is published.                                *)
QueueProtects(t, atom, s) ==
  \/ \E from, clock : Queue!ProtectLoad(t, from, clock, atom)
  \/ \E from, publish, done : Queue!ProtectClock(t, from, publish, done, s)
  \/ \E from, load : Queue!ProtectPublish(t, from, load, s)

(* The same of it.                                                         *)
LEMMA QueueProtectsSame ==
  \A t, atom, s : QueueProtects(t, atom, s) <=> P!Protects(t, atom, s)
BY DEF QueueProtects, P!Protects, Queue!Goto, P!Goto, Queue!heapVars,
   P!heapVars, Queue!heVars, P!heVars, Queue!eraFields, P!eraFields,
   Queue!ProtectLoad, P!ProtectLoad, Queue!EraPublished, P!EraPublished,
   Queue!ProtectClock, P!ProtectClock, Queue!ProtectPublish, P!ProtectPublish

LEMMA QueueProtectEffect ==
  ASSUME NEW S, Queue!Scheme(S), Queue!HETypeOK, NEW t \in Queue!Threads,
         NEW s \in Queue!Slots,
         NEW atom \in Queue!NodeOrNull, QueueProtects(t, atom, s)
  PROVE  /\ Queue!HETypeOK'
         /\ UNCHANGED <<Queue!heapVars, globalEraClock, retiredPtrList,
                        retiredNodesCount, Queue!eraFields>>
         /\ currEra'[t] <= globalEraClock
         /\ \A i \in Queue!Slots : hazardErasList'[t][i] <= globalEraClock
         /\ \A u \in Queue!Threads : u # t =>
              /\ ptr'[u] = ptr[u] /\ hazardErasList'[u] = hazardErasList[u]
              /\ currEra'[u] = currEra[u]
BY P!ProtectEffect, QueueScheme, QueueProtectsSame
   DEF Queue!heapVars, P!heapVars, Queue!eraFields, P!eraFields

(* clear stores the empty era in a slot of t.                              *)
LEMMA QueueClearEffect ==
  ASSUME NEW S, Queue!Scheme(S), Queue!HETypeOK, NEW t \in Queue!Threads,
         NEW from, NEW done,
         Queue!ClearSlot(t, from, done), ptr' \in [Queue!Threads -> Queue!NodeOrNull],
         UNCHANGED <<globalEraClock, retiredPtrList, retiredNodesCount,
                     Queue!eraFields, currEra>>
  PROVE  /\ Queue!HETypeOK'
         /\ currEra'[t] <= globalEraClock
         /\ \A i \in Queue!Slots : hazardErasList'[t][i] <= globalEraClock
         /\ \A u \in Queue!Threads : u # t => hazardErasList'[u] = hazardErasList[u]
BY P!ClearEffect, QueueScheme
   DEF Queue!heapVars, P!heapVars, Queue!eraFields, P!eraFields

(* A listed node has one entry, one that is not listed has none.           *)
LEMMA QueueOneEntry ==
  ASSUME retiredPtrList \in [Queue!Threads -> Seq(Nodes)], Queue!RetiredOnce, NEW n
  PROVE  IF Queue!Listed(n)
         THEN /\ n \in Nodes /\ status[n] = "retired"
              /\ \E x : Queue!EntriesOf(retiredPtrList, n) = {x}
         ELSE Queue!EntriesOf(retiredPtrList, n) = {}
BY P!OneEntry, QueueScheme

(* The links of the nodes.                                                 *)
LEMMA QueueLinks ==
  /\ \A p, f, L : Queue!Reaches(p, f, L) <=> Reaches(p, f, L)
  /\ \A p : Queue!ChainSet(p) = ChainSet(p)
  /\ Queue!Linked = Linked /\ Queue!Statuses = Statuses
  /\ \A n, l, e, h : Queue!InOnePlace(n, l, e, h) <=> InOnePlace(n, l, e, h)
<1>1. \A S : Queue!Cardinality(S) = Cardinality(S)
  BY DEF Queue!Cardinality, Cardinality
<1> QED
  BY <1>1
     DEF Queue!Reaches, Reaches, Queue!Closed, Closed, Queue!ChainSet, ChainSet,
         Queue!Linked, Linked, Queue!Statuses, Statuses, Queue!Allocated, Allocated,
         Queue!InOnePlace, InOnePlace

(* What other nodes do is irrelevant to what is reached within L.          *)
LEMMA QueueReachesWithin ==
  ASSUME NEW p, NEW f, NEW g, NEW L \in SUBSET Nodes, Queue!Reaches(p, f, L),
         Within(f, L), p # NULL => p \in L, \A n \in L : g[n] = f[n]
  PROVE  Queue!Reaches(p, g, L)
BY ReachesWithin, QueueLinks

(* The first node is taken out.                                            *)
LEMMA QueueReachesPopped ==
  ASSUME NEW p, NEW f, NEW g, NEW L \in SUBSET Nodes, Queue!Reaches(p, f, L),
         Within(f, L), p \in L, \A m \in L : g[m] = f[m]
  PROVE  Queue!Reaches(f[p], g, L \ {p})
BY ReachesPopped, QueueLinks

(* A node n is put behind the node m, at the end or not.                   *)
LEMMA QueueReachesInserted ==
  ASSUME NEW p, NEW f, NEW g, NEW L \in SUBSET Nodes, Queue!Reaches(p, f, L),
         Within(f, L), p # NULL => p \in L,
         NEW m \in L, NEW n \in Nodes, n \notin L,
         g[m] = n, g[n] = f[m], \A k \in L : k # m => g[k] = f[k]
  PROVE  Queue!Reaches(p, g, L \cup {n})
BY ReachesInserted, QueueLinks

(* When links reach every linked node and no other, the list is that of    *)
(* the linked nodes.                                                       *)
LEMMA QueueChainIsLinked ==
  ASSUME NEW p, Queue!Reaches(p, next, Queue!Linked), Within(next, Queue!Linked),
         p # NULL => p \in Queue!Linked
  PROVE  Queue!ChainSet(p) = Queue!Linked
BY ChainIsLinked, QueueLinks

(* A node is in one place when it is linked and nobody's, or not linked    *)
(* and in one entry or in one thread's hands, or free and nowhere.         *)
LEMMA QueuePlacedOnce ==
  ASSUME NEW n \in Nodes, NEW list, NEW entries, NEW holders,
         status[n] \in Queue!Statuses,
         n \in list <=> status[n] = "linked",
         status[n] \in {"linked", "free"} => entries = {} /\ holders = {},
         status[n] \in {"private", "retired"} =>
           \/ entries = {} /\ \E x : holders = {x}
           \/ holders = {} /\ \E x : entries = {x}
  PROVE  Queue!InOnePlace(n, list, entries, holders)
BY PlacedOnce, QueueLinks

-----------------------------------------------------------------------------
(* The steps of the queue.                                                 *)

(* Where the retired lists are swept.                                      *)
QueueChecking == {"retire.check"}

(* A step of another thread.                                               *)
QueueSame(u) ==
  /\ pc'[u] = pc[u] /\ node'[u] = node[u] /\ nxt'[u] = nxt[u]
  /\ ptr'[u] = ptr[u] /\ hazardErasList'[u] = hazardErasList[u]
  /\ currEra'[u] = currEra[u] /\ (u \in dangling => u \in dangling')

(* What a thread guards depends on its own variables.                      *)
LEMMA QueueGuardsSame ==
  ASSUME NEW u, QueueSame(u)
  PROVE  Queue!Guards(u)' = Queue!Guards(u)
           /\ \A n : Queue!SlotOf(u, n)' = Queue!SlotOf(u, n)
BY DEF QueueSame, Queue!Guards, Queue!SlotOf

(* What a guarding thread knows of its node is what EraCovers says.        *)
LEMMA QueueCovers ==
  ASSUME \A t \in Queue!Threads : Queue!GuardedLives(t)
  PROVE  Queue!EraCovers
BY DEF Queue!GuardedLives, Queue!EraCovers, Queue!Covers, Queue!WithinLife,
       Queue!Listed

(* The constructors establish the invariant.                               *)
LEMMA QueueInitInv == Queue!Init => Queue!IInv
<1> SUFFICES ASSUME Queue!Init PROVE Queue!IInv
  OBVIOUS
<1>0. PICK s \in Nodes : Queue!HeapWithSentinel(s) /\ head = s /\ tail = s
  BY DEF Queue!Init
<1> USE HeapAssumption, ErasAssumption, ThreadsAssumption
        DEF Queue!Init, Queue!BenchmarkInit, Queue!HeapWithSentinel
<1>1. Queue!Scheme(QueueChecking) /\ Queue!TypeOK
  <2>1. Queue!Scheme(QueueChecking) /\ Queue!HETypeOK
    BY QueueInitEffect
  <2>2. Queue!HeapTypeOK
    BY <1>0 DEF Queue!HeapTypeOK, Queue!NodeOrNull, Queue!Statuses
  <2> QED BY <1>0, <2>1, <2>2
             DEF Queue!TypeOK, Queue!MainStates, Queue!NodeOrNull, Queue!Labels
<1>2. Queue!QueueShape /\ Queue!MainAlone
  BY <1>0 DEF Queue!QueueShape, Queue!MainAlone
<1>3. \A t \in Queue!Threads : Queue!ThreadInv(t)
  BY DEF Queue!ThreadInv, Queue!OwnsNode, Queue!Enqueuing, Queue!DequeuedByOne,
         Queue!Dequeued, Queue!LoadedLives, Queue!GuardedLives, Queue!Guards,
         Queue!FoundTail, Queue!FoundHead, Queue!NextCovered, Queue!EnqLabels
<1>4. Queue!EraCovers
  BY <1>3, QueueCovers DEF Queue!ThreadInv
<1> QED BY <1>1, <1>2, <1>3, <1>4 DEF Queue!IInv, QueueChecking

(* What t does to the nodes leaves what another thread knows of its own,   *)
(* those that are gone aside.                                              *)
LEMMA QueueOtherInv ==
  ASSUME Queue!TypeOK, Queue!QueueShape, Queue!ErasReached, Queue!EnoughSlots,
         NEW u \in Queue!Threads, Queue!ThreadInv(u), QueueSame(u), NEW Gone,
         \A n \in Queue!Guards(u) : n \in Gone => u \in dangling',
         pc[u] \in {"enq.clock", "deq.clock"}
           /\ globalEraClock' = hazardErasList[u][0] =>
             globalEraClock' = globalEraClock /\ ptr[u] \notin Gone,
         \A n \in Nodes : Queue!Live(n) /\ n \notin Gone =>
           /\ Queue!Live(n)' /\ newEra'[n] = newEra[n]
           /\ \A e : e <= globalEraClock /\ Queue!WithinLife(n, e)
                => Queue!WithinLife(n, e)'
           /\ status[n] = "retired" => status'[n] = "retired"
           /\ next[n] # NULL => next'[n] = next[n]
           /\ n # next[tail] => n # next'[tail'],
         head' = head \/ status'[head] = "retired",
         head' = head /\ tail # head => tail' # head,
         \A n \in Gone : status[n] = "retired"
  PROVE  Queue!LoadedLives(u)' /\ Queue!GuardedLives(u)' /\ Queue!NextCovered(u)'
<1>1. \A s \in Queue!Slots : hazardErasList[u][s] <= globalEraClock
  BY DEF Queue!ErasReached
<1>2. 0 \in Queue!Slots /\ 1 \in Queue!Slots
        /\ \A n : Queue!SlotOf(u, n) \in Queue!Slots
  BY ErasAssumption DEF Queue!Slots, Queue!EnoughSlots, Queue!SlotOf
<1>3. Queue!LoadedLives(u)'
  <2>1. CASE pc[u] \in {"enq.clock", "deq.clock"}
    <3>1. ptr[u] \in Nodes /\ pc'[u] = pc[u] /\ ptr'[u] = ptr[u]
          /\ hazardErasList'[u] = hazardErasList[u]
      BY <2>1 DEF Queue!ThreadInv, Queue!LoadedLives, QueueSame
    <3>2. ASSUME globalEraClock' = hazardErasList[u][0]
          PROVE  /\ Queue!Live(ptr[u])' /\ Queue!WithinLife(ptr[u], globalEraClock)'
                 /\ pc[u] = "deq.clock" => ptr[u] = head' \/ status'[ptr[u]] = "retired"
      <4>1. /\ globalEraClock' = globalEraClock /\ ptr[u] \notin Gone
            /\ globalEraClock = hazardErasList[u][0]
        BY <2>1, <3>2
      <4>2. /\ Queue!Live(ptr[u]) /\ Queue!WithinLife(ptr[u], globalEraClock)
            /\ pc[u] = "deq.clock" => ptr[u] = head \/ status[ptr[u]] = "retired"
        BY <2>1, <4>1 DEF Queue!ThreadInv, Queue!LoadedLives, Queue!EraFits
      <4>3. globalEraClock <= globalEraClock
        BY DEF Queue!TypeOK, Queue!HETypeOK
      <4>4. Queue!Live(ptr[u])' /\ Queue!WithinLife(ptr[u], globalEraClock)'
        BY <3>1, <4>1, <4>2, <4>3 DEF Queue!WithinLife
      <4>5. pc[u] = "deq.clock" => ptr[u] = head' \/ status'[ptr[u]] = "retired"
        BY <3>1, <4>1, <4>2
      <4> QED BY <4>4, <4>5
    <3> QED BY <3>1, <3>2
               DEF Queue!LoadedLives, Queue!EraFits, Queue!Live,
                   Queue!WithinLife
  <2>2. CASE pc[u] \notin {"enq.clock", "deq.clock"}
    BY <2>2 DEF Queue!LoadedLives, QueueSame
  <2> QED BY <2>1, <2>2
<1>4. Queue!Guards(u)' = Queue!Guards(u)
        /\ \A n : Queue!SlotOf(u, n)' = Queue!SlotOf(u, n)
  BY QueueGuardsSame
<1>5. ASSUME NEW n \in Queue!Guards(u), u \notin dangling'
      PROVE  /\ n \in Nodes /\ n \notin Gone /\ Queue!Live(n) /\ Queue!Live(n)'
             /\ Queue!Covers(u, Queue!SlotOf(u, n), n)'
  <2>1. n \in Nodes /\ Queue!Live(n)
          /\ Queue!WithinLife(n, hazardErasList[u][Queue!SlotOf(u, n)])
    BY <1>5 DEF Queue!ThreadInv, Queue!GuardedLives, QueueSame, Queue!Covers
  <2>2. n \notin Gone
    BY <1>5
  <2>3. Queue!WithinLife(n, hazardErasList[u][Queue!SlotOf(u, n)])'
    <3>1. hazardErasList[u][Queue!SlotOf(u, n)] <= globalEraClock
      BY <1>1, <1>2
    <3>2. hazardErasList'[u] = hazardErasList[u]
            /\ Queue!SlotOf(u, n)' = Queue!SlotOf(u, n)
      BY <1>4 DEF QueueSame
    <3> QED BY <2>1, <2>2, <3>1, <3>2 DEF Queue!WithinLife
  <2> QED BY <1>5, <2>1, <2>2, <2>3 DEF Queue!Covers
<1>6. Queue!FoundTail(u) \/ pc[u] = "deq.tail" => ptr[u] \in Queue!Guards(u)
  BY DEF Queue!FoundTail, Queue!Guards
<1>7. Queue!FoundHead(u) => node[u] \in Queue!Guards(u)
  BY DEF Queue!FoundHead, Queue!Guards
<1>8. Queue!FoundTail(u)' = Queue!FoundTail(u)
        /\ Queue!FoundHead(u)' = Queue!FoundHead(u)
  BY DEF Queue!FoundTail, Queue!FoundHead, QueueSame
<1>9. ASSUME u \notin dangling'
      PROVE  /\ Queue!FoundTail(u) => ptr[u] # next'[tail']
             /\ pc[u] = "enq.swing" => node[u] \in Nodes /\ next'[ptr[u]] = node[u]
             /\ pc[u] = "enq.help" => nxt[u] \in Nodes /\ next'[ptr[u]] = nxt[u]
             /\ pc[u] = "deq.tail" => ptr[u] = head' \/ status'[ptr[u]] = "retired"
  <2>0. u \notin dangling
    BY <1>9 DEF QueueSame
  <2>1. Queue!FoundTail(u) => ptr[u] # next'[tail']
    BY <1>5, <1>6, <1>9, <2>0 DEF Queue!ThreadInv, Queue!GuardedLives
  <2>2. pc[u] = "enq.swing" => node[u] \in Nodes /\ next'[ptr[u]] = node[u]
    BY <1>5, <1>6, <1>9, <2>0, HeapAssumption
       DEF Queue!ThreadInv, Queue!GuardedLives, Queue!FoundTail
  <2>3. pc[u] = "enq.help" => nxt[u] \in Nodes /\ next'[ptr[u]] = nxt[u]
    BY <1>5, <1>6, <1>9, <2>0, HeapAssumption
       DEF Queue!ThreadInv, Queue!GuardedLives, Queue!FoundTail
  <2>4. pc[u] = "deq.tail" => ptr[u] = head' \/ status'[ptr[u]] = "retired"
    BY <1>5, <1>6, <1>9, <2>0 DEF Queue!ThreadInv, Queue!GuardedLives
  <2> QED BY <2>1, <2>2, <2>3, <2>4
<1>10. ASSUME u \notin dangling', Queue!FoundHead(u)
       PROVE  /\ (node[u] = head' /\ tail' # head') \/ status'[node[u]] = "retired"
              /\ pc[u] \in {"deq.clockNext", "deq.publishNext", "deq.cas"} =>
                   ptr[u] = next'[node[u]]
              /\ pc[u] = "deq.cas" /\ status'[node[u]] = "linked" =>
                   newEra'[ptr[u]] <= hazardErasList[u][1]
  <2>0. /\ u \notin dangling /\ node[u] \in Nodes /\ node[u] \notin Gone
        /\ Queue!Live(node[u])
    BY <1>5, <1>7, <1>10 DEF QueueSame
  <2>1. (node[u] = head /\ tail # head) \/ status[node[u]] = "retired"
    BY <1>10, <2>0 DEF Queue!ThreadInv, Queue!GuardedLives
  <2>2. (node[u] = head' /\ tail' # head') \/ status'[node[u]] = "retired"
    BY <2>0, <2>1
  <2>3. next[node[u]] # NULL /\ next'[node[u]] = next[node[u]]
    BY <2>0, <2>1, HeapAssumption DEF Queue!QueueShape
  <2>4. pc[u] \in {"deq.clockNext", "deq.publishNext", "deq.cas"} =>
          ptr[u] = next'[node[u]]
    BY <1>10, <2>0, <2>3 DEF Queue!ThreadInv, Queue!GuardedLives
  <2>5. ASSUME pc[u] = "deq.cas", status'[node[u]] = "linked"
        PROVE  newEra'[ptr[u]] <= hazardErasList[u][1]
    <3>1. status[node[u]] = "linked" /\ ptr[u] = next[node[u]]
      BY <2>0, <2>3, <2>4, <2>5 DEF Queue!Live
    <3>2. ptr[u] \in Nodes /\ status[ptr[u]] = "linked"
      BY <2>0, <2>3, <3>1
         DEF Queue!QueueShape, Queue!TypeOK, Queue!HeapTypeOK, Queue!NodeOrNull
    <3>3. newEra'[ptr[u]] = newEra[ptr[u]]
      BY <3>2 DEF Queue!Live
    <3> QED BY <2>0, <2>5, <3>1, <3>3 DEF Queue!ThreadInv, Queue!NextCovered
  <2> QED BY <2>2, <2>4, <2>5
<1>11. Queue!GuardedLives(u)'
  <2>1. \A n \in Queue!Guards(u) : n \in Nodes
    BY DEF Queue!ThreadInv, Queue!GuardedLives
  <2>3. pc[u] \in {"deq.clockNext", "deq.publishNext", "deq.cas"} => Queue!FoundHead(u)
    BY DEF Queue!FoundHead
  <2> QED BY <1>4, <1>5, <1>8, <1>9, <1>10, <2>1, <2>3
             DEF Queue!GuardedLives, QueueSame
<1>12. Queue!NextCovered(u)'
  <2>1. pc[u] = "deq.cas" => Queue!FoundHead(u)
    BY DEF Queue!FoundHead
  <2> QED BY <1>10, <2>1 DEF Queue!NextCovered, QueueSame
<1> QED BY <1>3, <1>11, <1>12

(* A thread that changes neither the nodes nor their lists nor the clock.  *)
LEMMA QueueLocalInv ==
  ASSUME Queue!IInv, Queue!Defined, Queue!EnoughSlots, NEW t \in Queue!Threads,
         Queue!TypeOK',
         UNCHANGED <<Queue!heapVars, head, tail, globalEraClock, retiredPtrList,
                     retiredNodesCount, Queue!eraFields>>,
         \A u \in Queue!Threads : u # t => QueueSame(u),
         currEra'[t] <= globalEraClock,
         \A s \in Queue!Slots : hazardErasList'[t][s] <= globalEraClock,
         pc'[t] # "retire.check",
         Queue!Enqueuing(t)' => Queue!Enqueuing(t) /\ node'[t] = node[t],
         Queue!Dequeued(t)' => Queue!Dequeued(t) /\ node'[t] = node[t],
         Queue!LoadedLives(t)', Queue!GuardedLives(t)', Queue!NextCovered(t)',
         Queue!MainAlone',
         Queue!Destroyed => Queue!Destroyed'
  PROVE  Queue!IInv'
<1>1. /\ Queue!TypeOK /\ Queue!Scheme(QueueChecking)
      /\ (~Queue!Destroyed => Queue!QueueShape)
      /\ \A u \in Queue!Threads : Queue!ThreadInv(u)
  BY DEF Queue!IInv, QueueChecking
<1>2. Queue!Scheme(QueueChecking)' /\ \A n : Queue!Listed(n)' <=> Queue!Listed(n)
  <2>1. \A u \in Queue!Threads : /\ currEra'[u] <= globalEraClock
                                 /\ \A s \in Queue!Slots : hazardErasList'[u][s] <= globalEraClock
    BY <1>1 DEF Queue!Scheme, Queue!ErasReached, QueueSame
  <2>2. \A n \in Nodes : newEra'[n] <= globalEraClock /\ delEra'[n] <= globalEraClock
    BY <1>1 DEF Queue!Scheme, Queue!ErasReached, Queue!eraFields
  <2>3. \A u \in Queue!Threads : pc'[u] \in QueueChecking =>
          pc[u] \in QueueChecking /\ currEra'[u] = currEra[u]
    BY DEF QueueSame, QueueChecking
  <2>4. retiredPtrList \in [Queue!Threads -> Seq(Nodes)]
    BY <1>1 DEF Queue!TypeOK, Queue!HETypeOK
  <2>5. UNCHANGED <<status, delEra>>
    BY DEF Queue!heapVars, Queue!eraFields
  <2> QED BY <1>1, <2>1, <2>2, <2>3, <2>4, <2>5, QueueSchemeKept
<1>3. ~Queue!Destroyed' => Queue!QueueShape'
  BY <1>1 DEF Queue!QueueShape, Queue!heapVars
<1>4. ASSUME NEW u \in Queue!Threads PROVE Queue!OwnsNode(u)'
  <2>1. \A v \in Queue!Threads : Queue!Enqueuing(v)' => Queue!Enqueuing(v)
          /\ node'[v] = node[v]
    BY DEF Queue!Enqueuing, QueueSame
  <2> QED BY <1>1, <2>1 DEF Queue!ThreadInv, Queue!OwnsNode, Queue!heapVars
<1>5. ASSUME NEW u \in Queue!Threads PROVE Queue!DequeuedByOne(u)'
  <2>1. \A v \in Queue!Threads : Queue!Dequeued(v)' => Queue!Dequeued(v)
          /\ node'[v] = node[v]
    BY DEF Queue!Dequeued, QueueSame
  <2> QED BY <1>1, <1>2, <2>1
             DEF Queue!ThreadInv, Queue!DequeuedByOne, Queue!heapVars
<1>6. ASSUME NEW u \in Queue!Threads
      PROVE  Queue!LoadedLives(u)' /\ Queue!GuardedLives(u)' /\ Queue!NextCovered(u)'
  <2>1. CASE u # t
    <3>1. Queue!ThreadInv(u) /\ QueueSame(u)
      BY <1>1, <2>1
    <3>2. Queue!Guards(u)' = Queue!Guards(u)
            /\ \A n : Queue!SlotOf(u, n)' = Queue!SlotOf(u, n)
      BY <3>1, QueueGuardsSame
    <3>3. /\ \A n : Queue!Live(n)' <=> Queue!Live(n)
          /\ \A n, e : Queue!WithinLife(n, e)' <=> Queue!WithinLife(n, e)
      BY <1>2 DEF Queue!Live, Queue!WithinLife, Queue!heapVars, Queue!eraFields
    <3>4. Queue!LoadedLives(u)'
      BY <3>1, <3>3
         DEF Queue!ThreadInv, Queue!LoadedLives, QueueSame, Queue!EraFits,
             Queue!heapVars
    <3>5. Queue!GuardedLives(u)'
      BY <3>1, <3>2, <3>3
         DEF Queue!ThreadInv, Queue!GuardedLives, Queue!FoundTail,
             Queue!FoundHead, QueueSame, Queue!Covers, Queue!heapVars
    <3>6. Queue!NextCovered(u)'
      BY <3>1
         DEF Queue!ThreadInv, Queue!NextCovered, QueueSame, Queue!heapVars,
             Queue!eraFields
    <3> QED BY <3>4, <3>5, <3>6
  <2> QED BY <2>1
<1>7. Queue!EraCovers'
  <2>1. \A u \in Queue!Threads : Queue!GuardedLives(u)'
    BY <1>6
  <2> QED BY <2>1
             DEF Queue!GuardedLives, Queue!EraCovers, Queue!Covers,
                 Queue!WithinLife, Queue!Listed
<1> QED BY <1>2, <1>3, <1>4, <1>5, <1>6, <1>7
           DEF Queue!IInv, Queue!ThreadInv, QueueChecking

(* A thread that has used a deleted node is not followed further.          *)
LEMMA QueueStrays ==
  ASSUME Queue!IInv, NEW t \in Queue!Threads, Queue!TypeOK', pc'[t] = "undefined",
         UNCHANGED <<hazardErasList, retiredPtrList, Queue!eraFields, dangling>>,
         \A u \in Queue!Threads : u # t =>
           pc'[u] = pc[u] /\ ptr'[u] = ptr[u] /\ node'[u] = node[u]
  PROVE  Queue!IInv'
<1>1. ~Queue!Defined'
  BY DEF Queue!Defined
<1>2. Queue!Guards(t)' = {}
  BY DEF Queue!Guards
<1>3. ASSUME NEW u \in Queue!Threads, u # t
      PROVE  Queue!Guards(u)' = Queue!Guards(u)
               /\ \A n : Queue!SlotOf(u, n)' = Queue!SlotOf(u, n)
  BY <1>3 DEF Queue!Guards, Queue!SlotOf
<1>4. Queue!EraCovers'
  BY <1>2, <1>3 DEF Queue!IInv, Queue!EraCovers, Queue!Retired, Queue!eraFields
<1> QED BY <1>1, <1>4 DEF Queue!IInv

(* The era that get_protected publishes is one of the life of the node at  *)
(* the tail, unless the clock moves.                                       *)
LEMMA EnqProtectInv ==
  ASSUME Queue!IInv, Queue!Defined, Queue!EnoughSlots, NEW t \in Queue!Threads,
         Queue!EnqProtect(t)
  PROVE  Queue!IInv'
<1>1. /\ Queue!TypeOK /\ Queue!Scheme(QueueChecking) /\ Queue!MainAlone
      /\ Queue!ThreadInv(t)
      /\ ~Queue!Destroyed => Queue!QueueShape
  BY DEF Queue!IInv, QueueChecking
<1>2. /\ Queue!HETypeOK'
      /\ UNCHANGED <<Queue!heapVars, globalEraClock, retiredPtrList,
                     retiredNodesCount, Queue!eraFields>>
      /\ currEra'[t] <= globalEraClock
      /\ \A s \in Queue!Slots : hazardErasList'[t][s] <= globalEraClock
      /\ \A u \in Queue!Threads : u # t =>
           /\ ptr'[u] = ptr[u] /\ hazardErasList'[u] = hazardErasList[u]
           /\ currEra'[u] = currEra[u]
  <2>1. QueueProtects(t, tail, 0)
    BY DEF Queue!EnqProtect, QueueProtects
  <2>2. tail \in Queue!NodeOrNull /\ Queue!HETypeOK /\ 0 \in Queue!Slots
    BY <1>1, QueueFirstSlot, ErasAssumption
       DEF Queue!TypeOK, Queue!EnoughSlots, Queue!Slots
  <2> QED BY <1>1, <2>1, <2>2, QueueProtectEffect
<1> USE DEF Queue!EnqProtect, Queue!ProtectLoad, Queue!ProtectClock,
            Queue!ProtectPublish, Queue!EraPublished, Queue!Goto,
            Queue!heapVars, Queue!heVars, Queue!eraFields, Queue!heLocals,
            Queue!ends, Queue!locals
<1>3. Queue!TypeOK'
  <2>1. Queue!HeapTypeOK'
    BY <1>1 DEF Queue!TypeOK, Queue!HeapTypeOK
  <2>2. pc' \in [Queue!Threads -> Queue!Labels]
    BY <1>1 DEF Queue!TypeOK, Queue!Labels, Queue!EnqLabels, Queue!DeqLabels
  <2>3. /\ head' \in Queue!NodeOrNull /\ tail' \in Queue!NodeOrNull
        /\ node' \in [Queue!Threads -> Queue!NodeOrNull]
        /\ nxt' \in [Queue!Threads -> Queue!NodeOrNull]
        /\ retData' \in [Queue!Threads -> Items \cup {NULL}]
        /\ dangling' \subseteq Queue!Threads /\ main' \in Queue!MainStates
    BY <1>1, ErasAssumption DEF Queue!TypeOK, Queue!NodeOrNull
  <2> QED BY <1>2, <2>1, <2>2, <2>3 DEF Queue!TypeOK
<1>4. \A u \in Queue!Threads : u # t => QueueSame(u)
  BY <1>1, <1>2 DEF QueueSame, Queue!TypeOK
<1>5. /\ UNCHANGED <<head, tail>> /\ pc'[t] # "retire.check"
      /\ Queue!Enqueuing(t)' => Queue!Enqueuing(t) /\ node'[t] = node[t]
      /\ Queue!Dequeued(t)' => Queue!Dequeued(t) /\ node'[t] = node[t]
  BY <1>1 DEF Queue!TypeOK, Queue!Enqueuing, Queue!Dequeued, Queue!EnqLabels
<1>6. Queue!LoadedLives(t)' /\ Queue!GuardedLives(t)' /\ Queue!NextCovered(t)'
  <2>1. /\ tail \in Nodes /\ Queue!Live(tail) /\ Queue!WithinLife(tail, globalEraClock)
    <3>1. Queue!QueueShape
      BY <1>1 DEF Queue!MainAlone, Queue!Destroyed
    <3>2. tail \in Nodes /\ status[tail] = "linked"
      BY <3>1 DEF Queue!QueueShape
    <3>3. ~Queue!Listed(tail)
      BY <1>1, <3>2
         DEF Queue!Listed, Queue!Retired, Queue!Members, Queue!Scheme,
             Queue!RetiredOnce
    <3> QED BY <1>1, <3>2, <3>3
               DEF Queue!Live, Queue!WithinLife, Queue!Scheme,
                   Queue!ErasReached
  <2>2. \A n, e : Queue!WithinLife(n, e)' <=> Queue!WithinLife(n, e)
    BY <1>2 DEF Queue!WithinLife, Queue!Listed, Queue!Retired
  <2>3. \A n : Queue!Live(n)' <=> Queue!Live(n)
    BY <1>2 DEF Queue!Live
  <2>4. CASE Queue!ProtectLoad(t, "enq.get", "enq.clock", tail)
    BY <1>1, <1>2, <2>1, <2>2, <2>3, <2>4
       DEF Queue!TypeOK, Queue!HETypeOK, Queue!LoadedLives, Queue!GuardedLives,
           Queue!Guards, Queue!FoundTail, Queue!FoundHead, Queue!NextCovered,
           Queue!EraFits
  <2>5. CASE Queue!ProtectClock(t, "enq.clock", "enq.publish", "enq.check", 0)
    <3>1. pc[t] = "enq.clock" /\ pc'[t] \in {"enq.publish", "enq.check"} /\ ptr' = ptr
      BY <1>1, <2>5 DEF Queue!TypeOK
    <3>2. ptr[t] \in Nodes
      BY <1>1, <3>1 DEF Queue!ThreadInv, Queue!LoadedLives
    <3>3. pc'[t] = "enq.check" =>
            /\ Queue!Live(ptr[t]) /\ Queue!Covers(t, 0, ptr[t])'
      BY <1>1, <1>2, <2>2, <2>5, <3>1
         DEF Queue!TypeOK, Queue!ThreadInv, Queue!LoadedLives, Queue!EraFits,
             Queue!Covers
    <3> QED BY <1>2, <2>3, <3>1, <3>2, <3>3
               DEF Queue!LoadedLives, Queue!GuardedLives, Queue!Guards,
                   Queue!SlotOf, Queue!FoundTail, Queue!FoundHead,
                   Queue!NextCovered
  <2>6. CASE Queue!ProtectPublish(t, "enq.publish", "enq.get", 0)
    BY <1>1, <2>6
       DEF Queue!TypeOK, Queue!LoadedLives, Queue!GuardedLives, Queue!Guards,
           Queue!FoundTail, Queue!FoundHead, Queue!NextCovered
  <2> QED BY <2>4, <2>5, <2>6
<1>7. Queue!MainAlone' /\ (Queue!Destroyed => Queue!Destroyed')
  BY <1>1, ThreadsAssumption
     DEF Queue!TypeOK, Queue!MainAlone, Queue!EnqLabels, Queue!Destroyed,
         Queue!Threads
<1> QED BY <1>2, <1>3, <1>4, <1>5, <1>6, <1>7, QueueLocalInv

(* The same for the node at the head, which stays there until it is        *)
(* retired.                                                                *)
LEMMA DeqProtectInv ==
  ASSUME Queue!IInv, Queue!Defined, Queue!EnoughSlots, NEW t \in Queue!Threads,
         Queue!DeqProtect(t)
  PROVE  Queue!IInv'
<1>1. /\ Queue!TypeOK /\ Queue!Scheme(QueueChecking) /\ Queue!MainAlone
      /\ Queue!ThreadInv(t)
      /\ ~Queue!Destroyed => Queue!QueueShape
  BY DEF Queue!IInv, QueueChecking
<1>2. /\ Queue!HETypeOK'
      /\ UNCHANGED <<Queue!heapVars, globalEraClock, retiredPtrList,
                     retiredNodesCount, Queue!eraFields>>
      /\ currEra'[t] <= globalEraClock
      /\ \A s \in Queue!Slots : hazardErasList'[t][s] <= globalEraClock
      /\ \A u \in Queue!Threads : u # t =>
           /\ ptr'[u] = ptr[u] /\ hazardErasList'[u] = hazardErasList[u]
           /\ currEra'[u] = currEra[u]
  <2>1. QueueProtects(t, head, 0)
    BY DEF Queue!DeqProtect, QueueProtects
  <2>2. head \in Queue!NodeOrNull /\ Queue!HETypeOK /\ 0 \in Queue!Slots
    BY <1>1, QueueFirstSlot, ErasAssumption
       DEF Queue!TypeOK, Queue!EnoughSlots, Queue!Slots
  <2> QED BY <1>1, <2>1, <2>2, QueueProtectEffect
<1> USE DEF Queue!DeqProtect, Queue!ProtectLoad, Queue!ProtectClock,
            Queue!ProtectPublish, Queue!EraPublished, Queue!Goto,
            Queue!heapVars, Queue!heVars, Queue!eraFields, Queue!heLocals,
            Queue!ends, Queue!locals
<1>3. Queue!TypeOK'
  <2>1. Queue!HeapTypeOK'
    BY <1>1 DEF Queue!TypeOK, Queue!HeapTypeOK
  <2>2. pc' \in [Queue!Threads -> Queue!Labels]
    BY <1>1 DEF Queue!TypeOK, Queue!Labels, Queue!EnqLabels, Queue!DeqLabels
  <2>3. /\ head' \in Queue!NodeOrNull /\ tail' \in Queue!NodeOrNull
        /\ node' \in [Queue!Threads -> Queue!NodeOrNull]
        /\ nxt' \in [Queue!Threads -> Queue!NodeOrNull]
        /\ retData' \in [Queue!Threads -> Items \cup {NULL}]
        /\ dangling' \subseteq Queue!Threads /\ main' \in Queue!MainStates
    BY <1>1, ErasAssumption DEF Queue!TypeOK, Queue!NodeOrNull
  <2> QED BY <1>2, <2>1, <2>2, <2>3 DEF Queue!TypeOK
<1>4. \A u \in Queue!Threads : u # t => QueueSame(u)
  BY <1>1, <1>2 DEF QueueSame, Queue!TypeOK
<1>5. /\ UNCHANGED <<head, tail>> /\ pc'[t] # "retire.check"
      /\ Queue!Enqueuing(t)' => Queue!Enqueuing(t) /\ node'[t] = node[t]
      /\ Queue!Dequeued(t)' => Queue!Dequeued(t) /\ node'[t] = node[t]
  BY <1>1 DEF Queue!TypeOK, Queue!Enqueuing, Queue!Dequeued, Queue!EnqLabels
<1>6. Queue!LoadedLives(t)' /\ Queue!GuardedLives(t)' /\ Queue!NextCovered(t)'
  <2>1. /\ head \in Nodes /\ Queue!Live(head) /\ Queue!WithinLife(head, globalEraClock)
    <3>1. Queue!QueueShape
      BY <1>1 DEF Queue!MainAlone, Queue!Destroyed
    <3>2. head \in Nodes /\ status[head] = "linked"
      BY <3>1 DEF Queue!QueueShape
    <3>3. ~Queue!Listed(head)
      BY <1>1, <3>2
         DEF Queue!Listed, Queue!Retired, Queue!Members, Queue!Scheme,
             Queue!RetiredOnce
    <3> QED BY <1>1, <3>2, <3>3
               DEF Queue!Live, Queue!WithinLife, Queue!Scheme,
                   Queue!ErasReached
  <2>2. \A n, e : Queue!WithinLife(n, e)' <=> Queue!WithinLife(n, e)
    BY <1>2 DEF Queue!WithinLife, Queue!Listed, Queue!Retired
  <2>3. \A n : Queue!Live(n)' <=> Queue!Live(n)
    BY <1>2 DEF Queue!Live
  <2>4. CASE Queue!ProtectLoad(t, "deq.get", "deq.clock", head)
    BY <1>1, <1>2, <2>1, <2>2, <2>3, <2>4
       DEF Queue!TypeOK, Queue!HETypeOK, Queue!LoadedLives, Queue!GuardedLives,
           Queue!Guards, Queue!FoundTail, Queue!FoundHead, Queue!NextCovered,
           Queue!EraFits
  <2>5. CASE Queue!ProtectClock(t, "deq.clock", "deq.publish", "deq.tail", 0)
    <3>1. pc[t] = "deq.clock" /\ pc'[t] \in {"deq.publish", "deq.tail"} /\ ptr' = ptr
      BY <1>1, <2>5 DEF Queue!TypeOK
    <3>2. ptr[t] \in Nodes
      BY <1>1, <3>1 DEF Queue!ThreadInv, Queue!LoadedLives
    <3>3. pc'[t] = "deq.tail" =>
            /\ Queue!Live(ptr[t]) /\ Queue!Covers(t, 0, ptr[t])'
            /\ ptr[t] = head \/ status[ptr[t]] = "retired"
      BY <1>1, <1>2, <2>2, <2>5, <3>1
         DEF Queue!TypeOK, Queue!ThreadInv, Queue!LoadedLives, Queue!EraFits,
             Queue!Covers
    <3> QED BY <1>2, <2>3, <3>1, <3>2, <3>3
               DEF Queue!LoadedLives, Queue!GuardedLives, Queue!Guards,
                   Queue!SlotOf, Queue!FoundTail, Queue!FoundHead,
                   Queue!NextCovered
  <2>6. CASE Queue!ProtectPublish(t, "deq.publish", "deq.get", 0)
    BY <1>1, <2>6
       DEF Queue!TypeOK, Queue!LoadedLives, Queue!GuardedLives, Queue!Guards,
           Queue!FoundTail, Queue!FoundHead, Queue!NextCovered
  <2> QED BY <2>4, <2>5, <2>6
<1>7. Queue!MainAlone' /\ (Queue!Destroyed => Queue!Destroyed')
  BY <1>1, ThreadsAssumption
     DEF Queue!TypeOK, Queue!MainAlone, Queue!EnqLabels, Queue!Destroyed,
         Queue!Threads
<1> QED BY <1>2, <1>3, <1>4, <1>5, <1>6, <1>7, QueueLocalInv

(* A dequeue that begins relies on nothing.                                *)
LEMMA DeqCallInv ==
  ASSUME Queue!IInv, Queue!Defined, Queue!EnoughSlots, NEW t \in Queue!Threads,
         Queue!DeqCall(t)
  PROVE  Queue!IInv'
<1>1. /\ Queue!TypeOK /\ Queue!Scheme(QueueChecking) /\ Queue!MainAlone
      /\ Queue!ThreadInv(t)
      /\ ~Queue!Destroyed => Queue!QueueShape
  BY DEF Queue!IInv, QueueChecking
<1>2. /\ Queue!HETypeOK'
      /\ UNCHANGED <<Queue!heapVars, globalEraClock, retiredPtrList,
                     retiredNodesCount, Queue!eraFields>>
      /\ currEra'[t] <= globalEraClock
      /\ \A s \in Queue!Slots : hazardErasList'[t][s] <= globalEraClock
      /\ \A u \in Queue!Threads : u # t =>
           /\ ptr'[u] = ptr[u] /\ hazardErasList'[u] = hazardErasList[u]
           /\ currEra'[u] = currEra[u]
  BY <1>1
     DEF Queue!TypeOK, Queue!HETypeOK, Queue!Scheme, Queue!ErasReached,
         Queue!DeqCall, Queue!Calling, Queue!DrainingAs, Queue!heapVars,
         Queue!heVars, Queue!eraFields, Queue!heLocals
<1> USE DEF Queue!DeqCall, Queue!Calling, Queue!DrainingAs, Queue!Goto,
            Queue!heapVars, Queue!heVars, Queue!eraFields, Queue!heLocals,
            Queue!ends, Queue!locals
<1>3. Queue!TypeOK'
  <2>1. Queue!HeapTypeOK'
    BY <1>1 DEF Queue!TypeOK, Queue!HeapTypeOK
  <2>2. pc' \in [Queue!Threads -> Queue!Labels]
    BY <1>1 DEF Queue!TypeOK, Queue!Labels, Queue!EnqLabels, Queue!DeqLabels
  <2>3. /\ head' \in Queue!NodeOrNull /\ tail' \in Queue!NodeOrNull
        /\ node' \in [Queue!Threads -> Queue!NodeOrNull]
        /\ nxt' \in [Queue!Threads -> Queue!NodeOrNull]
        /\ retData' \in [Queue!Threads -> Items \cup {NULL}]
        /\ dangling' \subseteq Queue!Threads /\ main' \in Queue!MainStates
    BY <1>1, ErasAssumption DEF Queue!TypeOK, Queue!NodeOrNull
  <2> QED BY <1>2, <2>1, <2>2, <2>3 DEF Queue!TypeOK
<1>4. \A u \in Queue!Threads : u # t => QueueSame(u)
  BY <1>1, <1>2 DEF QueueSame, Queue!TypeOK
<1>5. /\ UNCHANGED <<head, tail>> /\ pc'[t] # "retire.check"
      /\ Queue!Enqueuing(t)' => Queue!Enqueuing(t) /\ node'[t] = node[t]
      /\ Queue!Dequeued(t)' => Queue!Dequeued(t) /\ node'[t] = node[t]
  BY <1>1 DEF Queue!TypeOK, Queue!Enqueuing, Queue!Dequeued, Queue!EnqLabels
<1>6. Queue!LoadedLives(t)' /\ Queue!GuardedLives(t)' /\ Queue!NextCovered(t)'
  BY <1>1
     DEF Queue!TypeOK, Queue!LoadedLives, Queue!GuardedLives, Queue!Guards,
         Queue!FoundTail, Queue!FoundHead, Queue!NextCovered
<1>7. Queue!MainAlone' /\ (Queue!Destroyed => Queue!Destroyed')
  BY <1>1, ThreadsAssumption
     DEF Queue!TypeOK, Queue!MainAlone, Queue!EnqLabels, Queue!Destroyed,
         Queue!Threads
<1> QED BY <1>2, <1>3, <1>4, <1>5, <1>6, <1>7, QueueLocalInv

(* What is at the tail is not what is behind it.                           *)
LEMMA EnqCheckInv ==
  ASSUME Queue!IInv, Queue!Defined, Queue!EnoughSlots, NEW t \in Queue!Threads,
         Queue!EnqCheck(t)
  PROVE  Queue!IInv'
<1>1. /\ Queue!TypeOK /\ Queue!Scheme(QueueChecking) /\ Queue!MainAlone
      /\ Queue!ThreadInv(t)
      /\ ~Queue!Destroyed => Queue!QueueShape
  BY DEF Queue!IInv, QueueChecking
<1>2. /\ Queue!HETypeOK'
      /\ UNCHANGED <<Queue!heapVars, globalEraClock, retiredPtrList,
                     retiredNodesCount, Queue!eraFields>>
      /\ currEra'[t] <= globalEraClock
      /\ \A s \in Queue!Slots : hazardErasList'[t][s] <= globalEraClock
      /\ \A u \in Queue!Threads : u # t =>
           /\ ptr'[u] = ptr[u] /\ hazardErasList'[u] = hazardErasList[u]
           /\ currEra'[u] = currEra[u]
  BY <1>1
     DEF Queue!TypeOK, Queue!HETypeOK, Queue!Scheme, Queue!ErasReached,
         Queue!EnqCheck, Queue!heapVars, Queue!heVars, Queue!eraFields,
         Queue!heLocals
<1> USE DEF Queue!EnqCheck, Queue!Goto, Queue!heapVars, Queue!heVars,
            Queue!eraFields, Queue!heLocals, Queue!ends, Queue!locals
<1>3. Queue!TypeOK'
  <2>1. Queue!HeapTypeOK'
    BY <1>1 DEF Queue!TypeOK, Queue!HeapTypeOK
  <2>2. pc' \in [Queue!Threads -> Queue!Labels]
    BY <1>1 DEF Queue!TypeOK, Queue!Labels, Queue!EnqLabels, Queue!DeqLabels
  <2>3. /\ head' \in Queue!NodeOrNull /\ tail' \in Queue!NodeOrNull
        /\ node' \in [Queue!Threads -> Queue!NodeOrNull]
        /\ nxt' \in [Queue!Threads -> Queue!NodeOrNull]
        /\ retData' \in [Queue!Threads -> Items \cup {NULL}]
        /\ dangling' \subseteq Queue!Threads /\ main' \in Queue!MainStates
    BY <1>1, ErasAssumption DEF Queue!TypeOK, Queue!NodeOrNull
  <2> QED BY <1>2, <2>1, <2>2, <2>3 DEF Queue!TypeOK
<1>4. \A u \in Queue!Threads : u # t => QueueSame(u)
  BY <1>1, <1>2 DEF QueueSame, Queue!TypeOK
<1>5. /\ UNCHANGED <<head, tail>> /\ pc'[t] # "retire.check"
      /\ Queue!Enqueuing(t)' => Queue!Enqueuing(t) /\ node'[t] = node[t]
      /\ Queue!Dequeued(t)' => Queue!Dequeued(t) /\ node'[t] = node[t]
  BY <1>1 DEF Queue!TypeOK, Queue!Enqueuing, Queue!Dequeued, Queue!EnqLabels
<1>6. Queue!LoadedLives(t)' /\ Queue!GuardedLives(t)' /\ Queue!NextCovered(t)'
  <2>1. \A n, e : Queue!WithinLife(n, e)' <=> Queue!WithinLife(n, e)
    BY <1>2 DEF Queue!WithinLife, Queue!Listed, Queue!Retired
  <2>2. \A n : Queue!Live(n)' <=> Queue!Live(n)
    BY <1>2 DEF Queue!Live
  <2>3. Queue!LoadedLives(t)' /\ Queue!NextCovered(t)'
    BY <1>1 DEF Queue!TypeOK, Queue!LoadedLives, Queue!NextCovered
  <2>4. Queue!GuardedLives(t)'
    <3>1. /\ pc[t] = "enq.check" /\ pc'[t] \in {"enq.get", "enq.next"}
          /\ pc'[t] = "enq.next" => tail = ptr[t]
          /\ UNCHANGED <<ptr, hazardErasList, dangling, next, tail>>
      BY <1>1 DEF Queue!TypeOK
    <3>2. Queue!Guards(t) = {ptr[t]} /\ Queue!Guards(t)' \subseteq {ptr[t]}
      BY <3>1 DEF Queue!Guards
    <3>3. tail # next[tail]
      BY <1>1, <3>1, HeapAssumption
         DEF Queue!QueueShape, Queue!MainAlone, Queue!EnqLabels,
             Queue!Destroyed, Queue!Threads
    <3>4. /\ ptr[t] \in Nodes
          /\ t \notin dangling => Queue!Live(ptr[t]) /\ Queue!Covers(t, 0, ptr[t])
      BY <1>1, <3>1, <3>2 DEF Queue!ThreadInv, Queue!GuardedLives, Queue!SlotOf
    <3>5. Queue!Covers(t, 0, ptr[t])' <=> Queue!Covers(t, 0, ptr[t])
      BY <2>1, <3>1 DEF Queue!Covers
    <3> QED BY <2>2, <3>1, <3>2, <3>3, <3>4, <3>5
               DEF Queue!GuardedLives, Queue!SlotOf, Queue!FoundTail,
                   Queue!FoundHead
  <2> QED BY <2>3, <2>4
<1>7. Queue!MainAlone' /\ (Queue!Destroyed => Queue!Destroyed')
  BY <1>1, ThreadsAssumption
     DEF Queue!TypeOK, Queue!MainAlone, Queue!EnqLabels, Queue!Destroyed,
         Queue!Threads
<1> QED BY <1>2, <1>3, <1>4, <1>5, <1>6, <1>7, QueueLocalInv

(* The link an enqueue reads is that of a node that lives on.              *)
LEMMA EnqNextInv ==
  ASSUME Queue!IInv, Queue!Defined, Queue!EnoughSlots, NEW t \in Queue!Threads,
         Queue!EnqNext(t)
  PROVE  Queue!IInv'
<1>1. /\ Queue!TypeOK /\ Queue!Scheme(QueueChecking) /\ Queue!MainAlone
      /\ Queue!ThreadInv(t)
      /\ ~Queue!Destroyed => Queue!QueueShape
  BY DEF Queue!IInv, QueueChecking
<1>2. /\ Queue!HETypeOK'
      /\ UNCHANGED <<Queue!heapVars, globalEraClock, retiredPtrList,
                     retiredNodesCount, Queue!eraFields>>
      /\ currEra'[t] <= globalEraClock
      /\ \A s \in Queue!Slots : hazardErasList'[t][s] <= globalEraClock
      /\ \A u \in Queue!Threads : u # t =>
           /\ ptr'[u] = ptr[u] /\ hazardErasList'[u] = hazardErasList[u]
           /\ currEra'[u] = currEra[u]
  BY <1>1
     DEF Queue!TypeOK, Queue!HETypeOK, Queue!Scheme, Queue!ErasReached,
         Queue!EnqNext, Queue!GotoUsing, Queue!heapVars, Queue!heVars,
         Queue!eraFields, Queue!heLocals
<1> USE DEF Queue!EnqNext, Queue!GotoUsing, Queue!Goto, Queue!heapVars,
            Queue!heVars, Queue!eraFields, Queue!heLocals, Queue!ends,
            Queue!locals
<1>3. Queue!TypeOK'
  <2>1. Queue!HeapTypeOK'
    BY <1>1 DEF Queue!TypeOK, Queue!HeapTypeOK
  <2>2. pc' \in [Queue!Threads -> Queue!Labels]
    BY <1>1 DEF Queue!TypeOK, Queue!Labels, Queue!EnqLabels, Queue!DeqLabels
  <2>3. /\ head' \in Queue!NodeOrNull /\ tail' \in Queue!NodeOrNull
        /\ node' \in [Queue!Threads -> Queue!NodeOrNull]
        /\ nxt' \in [Queue!Threads -> Queue!NodeOrNull]
        /\ retData' \in [Queue!Threads -> Items \cup {NULL}]
        /\ dangling' \subseteq Queue!Threads /\ main' \in Queue!MainStates
    <3>1. ptr[t] \in Nodes
      BY <1>1 DEF Queue!ThreadInv, Queue!GuardedLives, Queue!Guards
    <3>2. next[ptr[t]] \in Queue!NodeOrNull
      BY <1>1, <3>1 DEF Queue!TypeOK, Queue!HeapTypeOK
    <3> QED BY <1>1, <3>2, ErasAssumption DEF Queue!TypeOK, Queue!NodeOrNull
  <2> QED BY <1>2, <2>1, <2>2, <2>3 DEF Queue!TypeOK
<1>4. \A u \in Queue!Threads : u # t => QueueSame(u)
  BY <1>1, <1>2 DEF QueueSame, Queue!TypeOK
<1>5. /\ UNCHANGED <<head, tail>> /\ pc'[t] # "retire.check"
      /\ Queue!Enqueuing(t)' => Queue!Enqueuing(t) /\ node'[t] = node[t]
      /\ Queue!Dequeued(t)' => Queue!Dequeued(t) /\ node'[t] = node[t]
  BY <1>1 DEF Queue!TypeOK, Queue!Enqueuing, Queue!Dequeued, Queue!EnqLabels
<1>6. Queue!LoadedLives(t)' /\ Queue!GuardedLives(t)' /\ Queue!NextCovered(t)'
  <2>1. \A n, e : Queue!WithinLife(n, e)' <=> Queue!WithinLife(n, e)
    BY <1>2 DEF Queue!WithinLife, Queue!Listed, Queue!Retired
  <2>2. \A n : Queue!Live(n)' <=> Queue!Live(n)
    BY <1>2 DEF Queue!Live
  <2>3. Queue!LoadedLives(t)' /\ Queue!NextCovered(t)'
    BY <1>1 DEF Queue!TypeOK, Queue!LoadedLives, Queue!NextCovered
  <2>4. Queue!GuardedLives(t)'
    <3>1. /\ pc[t] = "enq.next" /\ pc'[t] \in {"enq.link", "enq.help", "undefined"}
          /\ pc'[t] = "enq.help" => next[ptr[t]] # NULL
          /\ nxt'[t] = next[ptr[t]]
          /\ UNCHANGED <<ptr, hazardErasList, dangling, next, tail>>
      BY <1>1 DEF Queue!TypeOK
    <3>2. Queue!Guards(t) = {ptr[t]} /\ Queue!Guards(t)' \subseteq {ptr[t]}
      BY <3>1 DEF Queue!Guards
    <3>4. /\ ptr[t] \in Nodes /\ next[ptr[t]] \in Queue!NodeOrNull
          /\ t \notin dangling => Queue!Live(ptr[t])
               /\ Queue!Covers(t, 0, ptr[t]) /\ ptr[t] # next[tail]
      BY <1>1, <3>1, <3>2
         DEF Queue!TypeOK, Queue!HeapTypeOK, Queue!ThreadInv,
             Queue!GuardedLives, Queue!SlotOf, Queue!FoundTail
    <3>5. Queue!Covers(t, 0, ptr[t])' <=> Queue!Covers(t, 0, ptr[t])
      BY <2>1, <3>1 DEF Queue!Covers
    <3> QED BY <2>2, <3>1, <3>2, <3>4, <3>5
               DEF Queue!GuardedLives, Queue!SlotOf, Queue!FoundTail,
                   Queue!FoundHead, Queue!NodeOrNull
  <2> QED BY <2>3, <2>4
<1>7. Queue!MainAlone' /\ (Queue!Destroyed => Queue!Destroyed')
  BY <1>1, ThreadsAssumption
     DEF Queue!TypeOK, Queue!MainAlone, Queue!EnqLabels, Queue!Destroyed,
         Queue!Threads
<1> QED BY <1>2, <1>3, <1>4, <1>5, <1>6, <1>7, QueueLocalInv

(* A head that is not the tail has a successor.                            *)
LEMMA DeqTailInv ==
  ASSUME Queue!IInv, Queue!Defined, Queue!EnoughSlots, NEW t \in Queue!Threads,
         Queue!DeqTail(t)
  PROVE  Queue!IInv'
<1>1. /\ Queue!TypeOK /\ Queue!Scheme(QueueChecking) /\ Queue!MainAlone
      /\ Queue!ThreadInv(t)
      /\ ~Queue!Destroyed => Queue!QueueShape
  BY DEF Queue!IInv, QueueChecking
<1>2. /\ Queue!HETypeOK'
      /\ UNCHANGED <<Queue!heapVars, globalEraClock, retiredPtrList,
                     retiredNodesCount, Queue!eraFields>>
      /\ currEra'[t] <= globalEraClock
      /\ \A s \in Queue!Slots : hazardErasList'[t][s] <= globalEraClock
      /\ \A u \in Queue!Threads : u # t =>
           /\ ptr'[u] = ptr[u] /\ hazardErasList'[u] = hazardErasList[u]
           /\ currEra'[u] = currEra[u]
  <2>1. ptr' \in [Queue!Threads -> Queue!NodeOrNull]
          /\ \A u \in Queue!Threads : u # t => ptr'[u] = ptr[u]
    BY <1>1 DEF Queue!TypeOK, Queue!HETypeOK, Queue!NodeOrNull, Queue!DeqTail
  <2> QED BY <1>1, <2>1
             DEF Queue!TypeOK, Queue!HETypeOK, Queue!Scheme, Queue!ErasReached,
                 Queue!DeqTail, Queue!heapVars, Queue!heVars, Queue!eraFields
<1> USE DEF Queue!DeqTail, Queue!Goto, Queue!heapVars, Queue!heVars,
            Queue!eraFields, Queue!heLocals, Queue!ends, Queue!locals
<1>3. Queue!TypeOK'
  <2>1. Queue!HeapTypeOK'
    BY <1>1 DEF Queue!TypeOK, Queue!HeapTypeOK
  <2>2. pc' \in [Queue!Threads -> Queue!Labels]
    BY <1>1 DEF Queue!TypeOK, Queue!Labels, Queue!EnqLabels, Queue!DeqLabels
  <2>3. /\ head' \in Queue!NodeOrNull /\ tail' \in Queue!NodeOrNull
        /\ node' \in [Queue!Threads -> Queue!NodeOrNull]
        /\ nxt' \in [Queue!Threads -> Queue!NodeOrNull]
        /\ retData' \in [Queue!Threads -> Items \cup {NULL}]
        /\ dangling' \subseteq Queue!Threads /\ main' \in Queue!MainStates
    BY <1>1, ErasAssumption DEF Queue!TypeOK, Queue!HETypeOK, Queue!NodeOrNull
  <2> QED BY <1>2, <2>1, <2>2, <2>3 DEF Queue!TypeOK
<1>4. \A u \in Queue!Threads : u # t => QueueSame(u)
  BY <1>1, <1>2 DEF QueueSame, Queue!TypeOK
<1>5. /\ UNCHANGED <<head, tail>> /\ pc'[t] # "retire.check"
      /\ Queue!Enqueuing(t)' => Queue!Enqueuing(t) /\ node'[t] = node[t]
      /\ Queue!Dequeued(t)' => Queue!Dequeued(t) /\ node'[t] = node[t]
  BY <1>1 DEF Queue!TypeOK, Queue!Enqueuing, Queue!Dequeued, Queue!EnqLabels
<1>6. Queue!LoadedLives(t)' /\ Queue!GuardedLives(t)' /\ Queue!NextCovered(t)'
  <2>1. \A n, e : Queue!WithinLife(n, e)' <=> Queue!WithinLife(n, e)
    BY <1>2 DEF Queue!WithinLife, Queue!Listed, Queue!Retired
  <2>2. \A n : Queue!Live(n)' <=> Queue!Live(n)
    BY <1>2 DEF Queue!Live
  <2>3. Queue!LoadedLives(t)' /\ Queue!NextCovered(t)'
    BY <1>1 DEF Queue!TypeOK, Queue!LoadedLives, Queue!NextCovered
  <2>4. Queue!GuardedLives(t)'
    <3>1. /\ pc[t] = "deq.tail" /\ pc'[t] \in {"clear", "deq.getNext"}
          /\ pc'[t] = "deq.getNext" => tail # ptr[t] /\ node'[t] = ptr[t]
          /\ UNCHANGED <<hazardErasList, dangling, next, tail, head, status>>
      BY <1>1 DEF Queue!TypeOK
    <3>2. Queue!Guards(t) = {ptr[t]} /\ Queue!Guards(t)' \subseteq {ptr[t]}
      BY <3>1 DEF Queue!Guards
    <3>4. /\ ptr[t] \in Nodes
          /\ t \notin dangling =>
               /\ Queue!Live(ptr[t]) /\ Queue!Covers(t, 0, ptr[t])
               /\ ptr[t] = head \/ status[ptr[t]] = "retired"
      BY <1>1, <3>1, <3>2 DEF Queue!ThreadInv, Queue!GuardedLives, Queue!SlotOf
    <3>5. \A n : Queue!Covers(t, 0, n)' <=> Queue!Covers(t, 0, n)
      BY <2>1, <3>1 DEF Queue!Covers
    <3> QED BY <2>2, <3>1, <3>2, <3>4, <3>5
               DEF Queue!GuardedLives, Queue!SlotOf, Queue!FoundTail,
                   Queue!FoundHead
  <2> QED BY <2>3, <2>4
<1>7. Queue!MainAlone' /\ (Queue!Destroyed => Queue!Destroyed')
  BY <1>1, ThreadsAssumption
     DEF Queue!TypeOK, Queue!MainAlone, Queue!EnqLabels, Queue!Destroyed,
         Queue!Threads
<1> QED BY <1>2, <1>3, <1>4, <1>5, <1>6, <1>7, QueueLocalInv

(* The successor of a node that lives on.                                  *)
LEMMA DeqGetNextInv ==
  ASSUME Queue!IInv, Queue!Defined, Queue!EnoughSlots, NEW t \in Queue!Threads,
         Queue!DeqGetNext(t)
  PROVE  Queue!IInv'
<1>1. /\ Queue!TypeOK /\ Queue!Scheme(QueueChecking) /\ Queue!MainAlone
      /\ Queue!ThreadInv(t)
      /\ ~Queue!Destroyed => Queue!QueueShape
  BY DEF Queue!IInv, QueueChecking
<1>2. /\ Queue!HETypeOK'
      /\ UNCHANGED <<Queue!heapVars, globalEraClock, retiredPtrList,
                     retiredNodesCount, Queue!eraFields>>
      /\ currEra'[t] <= globalEraClock
      /\ \A s \in Queue!Slots : hazardErasList'[t][s] <= globalEraClock
      /\ \A u \in Queue!Threads : u # t =>
           /\ ptr'[u] = ptr[u] /\ hazardErasList'[u] = hazardErasList[u]
           /\ currEra'[u] = currEra[u]
  <2>1. node[t] \in Nodes
    BY <1>1
       DEF Queue!DeqGetNext, Queue!GotoUsing, Queue!Goto, Queue!ThreadInv,
           Queue!GuardedLives, Queue!Guards
  <2>2. next[node[t]] \in Queue!NodeOrNull
    BY <1>1, <2>1 DEF Queue!TypeOK, Queue!HeapTypeOK
  <2>3. ptr' \in [Queue!Threads -> Queue!NodeOrNull]
          /\ \A u \in Queue!Threads : u # t => ptr'[u] = ptr[u]
    BY <1>1, <2>2 DEF Queue!TypeOK, Queue!HETypeOK, Queue!DeqGetNext
  <2> QED BY <1>1, <2>3
             DEF Queue!TypeOK, Queue!HETypeOK, Queue!Scheme, Queue!ErasReached,
                 Queue!DeqGetNext, Queue!heapVars, Queue!heVars,
                 Queue!eraFields
<1> USE DEF Queue!DeqGetNext, Queue!GotoUsing, Queue!Goto, Queue!heapVars,
            Queue!heVars, Queue!eraFields, Queue!heLocals, Queue!ends,
            Queue!locals
<1>3. Queue!TypeOK'
  <2>1. Queue!HeapTypeOK'
    BY <1>1 DEF Queue!TypeOK, Queue!HeapTypeOK
  <2>2. pc' \in [Queue!Threads -> Queue!Labels]
    BY <1>1 DEF Queue!TypeOK, Queue!Labels, Queue!EnqLabels, Queue!DeqLabels
  <2>3. /\ head' \in Queue!NodeOrNull /\ tail' \in Queue!NodeOrNull
        /\ node' \in [Queue!Threads -> Queue!NodeOrNull]
        /\ nxt' \in [Queue!Threads -> Queue!NodeOrNull]
        /\ retData' \in [Queue!Threads -> Items \cup {NULL}]
        /\ dangling' \subseteq Queue!Threads /\ main' \in Queue!MainStates
    BY <1>1, ErasAssumption DEF Queue!TypeOK, Queue!NodeOrNull
  <2> QED BY <1>2, <2>1, <2>2, <2>3 DEF Queue!TypeOK
<1>4. \A u \in Queue!Threads : u # t => QueueSame(u)
  BY <1>1, <1>2 DEF QueueSame, Queue!TypeOK
<1>5. /\ UNCHANGED <<head, tail>> /\ pc'[t] # "retire.check"
      /\ Queue!Enqueuing(t)' => Queue!Enqueuing(t) /\ node'[t] = node[t]
      /\ Queue!Dequeued(t)' => Queue!Dequeued(t) /\ node'[t] = node[t]
  BY <1>1 DEF Queue!TypeOK, Queue!Enqueuing, Queue!Dequeued, Queue!EnqLabels
<1>6. Queue!LoadedLives(t)' /\ Queue!GuardedLives(t)' /\ Queue!NextCovered(t)'
  <2>1. \A n, e : Queue!WithinLife(n, e)' <=> Queue!WithinLife(n, e)
    BY <1>2 DEF Queue!WithinLife, Queue!Listed, Queue!Retired
  <2>2. \A n : Queue!Live(n)' <=> Queue!Live(n)
    BY <1>2 DEF Queue!Live
  <2>3. Queue!LoadedLives(t)' /\ Queue!NextCovered(t)'
    BY <1>1 DEF Queue!TypeOK, Queue!LoadedLives, Queue!NextCovered
  <2>4. Queue!GuardedLives(t)'
    <3>1. /\ pc[t] = "deq.getNext" /\ pc'[t] \in {"undefined", "deq.clockNext"}
          /\ ptr'[t] = next[node[t]]
          /\ UNCHANGED <<node, hazardErasList, dangling, next, tail, head, status>>
      BY <1>1 DEF Queue!TypeOK, Queue!HETypeOK
    <3>2. Queue!Guards(t) = {node[t]} /\ Queue!Guards(t)' \subseteq {node[t]}
      BY <3>1 DEF Queue!Guards
    <3>4. /\ node[t] \in Nodes
          /\ t \notin dangling =>
               /\ Queue!Live(node[t]) /\ Queue!Covers(t, 0, node[t])
               /\ (node[t] = head /\ tail # head) \/ status[node[t]] = "retired"
      BY <1>1, <3>1, <3>2
         DEF Queue!ThreadInv, Queue!GuardedLives, Queue!SlotOf, Queue!FoundHead
    <3>5. \A n : Queue!Covers(t, 0, n)' <=> Queue!Covers(t, 0, n)
      BY <2>1, <3>1 DEF Queue!Covers
    <3> QED BY <2>2, <3>1, <3>2, <3>4, <3>5
               DEF Queue!GuardedLives, Queue!SlotOf, Queue!FoundTail,
                   Queue!FoundHead
  <2> QED BY <2>3, <2>4
<1>7. Queue!MainAlone' /\ (Queue!Destroyed => Queue!Destroyed')
  BY <1>1, ThreadsAssumption
     DEF Queue!TypeOK, Queue!MainAlone, Queue!EnqLabels, Queue!Destroyed,
         Queue!Threads
<1> QED BY <1>2, <1>3, <1>4, <1>5, <1>6, <1>7, QueueLocalInv

(* The clock has reached the era of every node, that of the successor too; *)
(* slot 0 keeps its era.                                                   *)
LEMMA DeqProtectNextInv ==
  ASSUME Queue!IInv, Queue!Defined, Queue!EnoughSlots, NEW t \in Queue!Threads,
         Queue!DeqProtectNext(t)
  PROVE  Queue!IInv'
<1>1. /\ Queue!TypeOK /\ Queue!Scheme(QueueChecking) /\ Queue!MainAlone
      /\ Queue!ThreadInv(t)
      /\ ~Queue!Destroyed => Queue!QueueShape
  BY DEF Queue!IInv, QueueChecking
<1>2. /\ Queue!HETypeOK'
      /\ UNCHANGED <<Queue!heapVars, globalEraClock, retiredPtrList,
                     retiredNodesCount, Queue!eraFields>>
      /\ currEra'[t] <= globalEraClock
      /\ \A s \in Queue!Slots : hazardErasList'[t][s] <= globalEraClock
      /\ \A u \in Queue!Threads : u # t =>
           /\ ptr'[u] = ptr[u] /\ hazardErasList'[u] = hazardErasList[u]
           /\ currEra'[u] = currEra[u]
  <2>1. QueueProtects(t, head, 1)
    BY DEF Queue!DeqProtectNext, QueueProtects
  <2>2. head \in Queue!NodeOrNull /\ Queue!HETypeOK /\ 1 \in Queue!Slots
    BY <1>1, QueueFirstSlot, ErasAssumption
       DEF Queue!TypeOK, Queue!EnoughSlots, Queue!Slots
  <2> QED BY <1>1, <2>1, <2>2, QueueProtectEffect
<1> USE DEF Queue!DeqProtectNext, Queue!ProtectClock, Queue!ProtectPublish,
            Queue!EraPublished, Queue!Goto, Queue!heapVars, Queue!heVars,
            Queue!eraFields, Queue!heLocals, Queue!ends, Queue!locals
<1>3. Queue!TypeOK'
  <2>1. Queue!HeapTypeOK'
    BY <1>1 DEF Queue!TypeOK, Queue!HeapTypeOK
  <2>2. pc' \in [Queue!Threads -> Queue!Labels]
    BY <1>1 DEF Queue!TypeOK, Queue!Labels, Queue!EnqLabels, Queue!DeqLabels
  <2>3. /\ head' \in Queue!NodeOrNull /\ tail' \in Queue!NodeOrNull
        /\ node' \in [Queue!Threads -> Queue!NodeOrNull]
        /\ nxt' \in [Queue!Threads -> Queue!NodeOrNull]
        /\ retData' \in [Queue!Threads -> Items \cup {NULL}]
        /\ dangling' \subseteq Queue!Threads /\ main' \in Queue!MainStates
    BY <1>1, ErasAssumption DEF Queue!TypeOK, Queue!NodeOrNull
  <2> QED BY <1>2, <2>1, <2>2, <2>3 DEF Queue!TypeOK
<1>4. \A u \in Queue!Threads : u # t => QueueSame(u)
  BY <1>1, <1>2 DEF QueueSame, Queue!TypeOK
<1>5. /\ UNCHANGED <<head, tail>> /\ pc'[t] # "retire.check"
      /\ Queue!Enqueuing(t)' => Queue!Enqueuing(t) /\ node'[t] = node[t]
      /\ Queue!Dequeued(t)' => Queue!Dequeued(t) /\ node'[t] = node[t]
  BY <1>1 DEF Queue!TypeOK, Queue!Enqueuing, Queue!Dequeued, Queue!EnqLabels
<1>6. Queue!LoadedLives(t)' /\ Queue!GuardedLives(t)' /\ Queue!NextCovered(t)'
  <2>1. \A n, e : Queue!WithinLife(n, e)' <=> Queue!WithinLife(n, e)
    BY <1>2 DEF Queue!WithinLife, Queue!Listed, Queue!Retired
  <2>2. \A n : Queue!Live(n)' <=> Queue!Live(n)
    BY <1>2 DEF Queue!Live
  <2>3. /\ pc[t] \in {"deq.clockNext", "deq.publishNext"}
        /\ pc'[t] \in {"deq.publishNext", "deq.cas", "deq.getNext"}
        /\ pc'[t] # "deq.getNext" => pc[t] = "deq.clockNext"
        /\ pc'[t] = "deq.cas" => globalEraClock = hazardErasList[t][1]
             /\ UNCHANGED hazardErasList
        /\ UNCHANGED <<ptr, node, dangling, next, tail, head, status, newEra>>
    BY <1>1 DEF Queue!TypeOK
  <2>4. hazardErasList'[t][0] = hazardErasList[t][0]
    <3>1. hazardErasList[t] \in [Queue!Slots -> Nat]
            /\ hazardErasList \in [Queue!Threads -> [Queue!Slots -> Nat]]
      BY <1>1 DEF Queue!TypeOK, Queue!HETypeOK
    <3>2. CASE hazardErasList' = hazardErasList
      BY <3>2
    <3>3. CASE hazardErasList' = [hazardErasList EXCEPT ![t][1] = currEra[t]]
      BY <3>1, <3>3, QueueFirstSlot
    <3> QED BY <3>2, <3>3
  <2>5. Queue!Guards(t) = {node[t]} /\ Queue!Guards(t)' = {node[t]}
    BY <2>3 DEF Queue!Guards
  <2>6. /\ node[t] \in Nodes
        /\ t \notin dangling =>
             /\ Queue!Live(node[t]) /\ Queue!Covers(t, 0, node[t])
             /\ (node[t] = head /\ tail # head) \/ status[node[t]] = "retired"
             /\ pc[t] = "deq.clockNext" => ptr[t] = next[node[t]]
    BY <1>1, <2>3, <2>5
       DEF Queue!ThreadInv, Queue!GuardedLives, Queue!SlotOf, Queue!FoundHead
  <2>7. \A n : Queue!Covers(t, 0, n)' <=> Queue!Covers(t, 0, n)
    BY <2>1, <2>4 DEF Queue!Covers
  <2>8. Queue!LoadedLives(t)' /\ Queue!GuardedLives(t)'
    BY <2>2, <2>3, <2>5, <2>6, <2>7
       DEF Queue!LoadedLives, Queue!GuardedLives, Queue!SlotOf,
           Queue!FoundTail, Queue!FoundHead
  <2>9. ASSUME pc'[t] = "deq.cas", t \notin dangling, status[node[t]] = "linked"
        PROVE  newEra[ptr[t]] <= hazardErasList[t][1]
    <3>1. Queue!QueueShape
      BY <1>1, <2>3 DEF Queue!MainAlone, Queue!Destroyed
    <3>2. node[t] = head /\ tail # head /\ ptr[t] = next[head]
      BY <2>3, <2>6, <2>9
    <3>3. next[head] \in Nodes
      BY <1>1, <3>1, <3>2, HeapAssumption
         DEF Queue!QueueShape, Queue!TypeOK, Queue!HeapTypeOK, Queue!NodeOrNull
    <3> QED BY <1>1, <2>3, <2>9, <3>2, <3>3 DEF Queue!Scheme, Queue!ErasReached
  <2>10. Queue!NextCovered(t)'
    BY <2>3, <2>9 DEF Queue!NextCovered
  <2> QED BY <2>8, <2>10
<1>7. Queue!MainAlone' /\ (Queue!Destroyed => Queue!Destroyed')
  BY <1>1, ThreadsAssumption
     DEF Queue!TypeOK, Queue!MainAlone, Queue!EnqLabels, Queue!Destroyed,
         Queue!Threads
<1> QED BY <1>2, <1>3, <1>4, <1>5, <1>6, <1>7, QueueLocalInv

(* A dequeued node stays its dequeuer's.                                   *)
LEMMA DeqItemInv ==
  ASSUME Queue!IInv, Queue!Defined, Queue!EnoughSlots, NEW t \in Queue!Threads,
         Queue!DeqItem(t)
  PROVE  Queue!IInv'
<1>1. /\ Queue!TypeOK /\ Queue!Scheme(QueueChecking) /\ Queue!MainAlone
      /\ Queue!ThreadInv(t)
      /\ ~Queue!Destroyed => Queue!QueueShape
  BY DEF Queue!IInv, QueueChecking
<1>2. /\ Queue!HETypeOK'
      /\ UNCHANGED <<Queue!heapVars, globalEraClock, retiredPtrList,
                     retiredNodesCount, Queue!eraFields>>
      /\ currEra'[t] <= globalEraClock
      /\ \A s \in Queue!Slots : hazardErasList'[t][s] <= globalEraClock
      /\ \A u \in Queue!Threads : u # t =>
           /\ ptr'[u] = ptr[u] /\ hazardErasList'[u] = hazardErasList[u]
           /\ currEra'[u] = currEra[u]
  BY <1>1
     DEF Queue!TypeOK, Queue!HETypeOK, Queue!Scheme, Queue!ErasReached,
         Queue!DeqItem, Queue!GotoUsing, Queue!heapVars, Queue!heVars,
         Queue!eraFields, Queue!heLocals
<1> USE DEF Queue!DeqItem, Queue!GotoUsing, Queue!Goto, Queue!heapVars,
            Queue!heVars, Queue!eraFields, Queue!heLocals, Queue!ends,
            Queue!locals
<1>3. Queue!TypeOK'
  <2>1. Queue!HeapTypeOK'
    BY <1>1 DEF Queue!TypeOK, Queue!HeapTypeOK
  <2>2. pc' \in [Queue!Threads -> Queue!Labels]
    BY <1>1 DEF Queue!TypeOK, Queue!Labels, Queue!EnqLabels, Queue!DeqLabels
  <2>3. /\ head' \in Queue!NodeOrNull /\ tail' \in Queue!NodeOrNull
        /\ node' \in [Queue!Threads -> Queue!NodeOrNull]
        /\ nxt' \in [Queue!Threads -> Queue!NodeOrNull]
        /\ retData' \in [Queue!Threads -> Items \cup {NULL}]
        /\ dangling' \subseteq Queue!Threads /\ main' \in Queue!MainStates
    BY <1>1, ErasAssumption DEF Queue!TypeOK, Queue!NodeOrNull
  <2> QED BY <1>2, <2>1, <2>2, <2>3 DEF Queue!TypeOK
<1>4. \A u \in Queue!Threads : u # t => QueueSame(u)
  BY <1>1, <1>2 DEF QueueSame, Queue!TypeOK
<1>5. /\ UNCHANGED <<head, tail>> /\ pc'[t] # "retire.check"
      /\ Queue!Enqueuing(t)' => Queue!Enqueuing(t) /\ node'[t] = node[t]
      /\ Queue!Dequeued(t)' => Queue!Dequeued(t) /\ node'[t] = node[t]
  BY <1>1 DEF Queue!TypeOK, Queue!Enqueuing, Queue!Dequeued, Queue!EnqLabels
<1>6. Queue!LoadedLives(t)' /\ Queue!GuardedLives(t)' /\ Queue!NextCovered(t)'
  BY <1>1
     DEF Queue!TypeOK, Queue!LoadedLives, Queue!GuardedLives, Queue!Guards,
         Queue!FoundTail, Queue!FoundHead, Queue!NextCovered
<1>7. Queue!MainAlone' /\ (Queue!Destroyed => Queue!Destroyed')
  BY <1>1, ThreadsAssumption
     DEF Queue!TypeOK, Queue!MainAlone, Queue!EnqLabels, Queue!Destroyed,
         Queue!Threads
<1> QED BY <1>2, <1>3, <1>4, <1>5, <1>6, <1>7, QueueLocalInv

(* clear gives up what was published, and with its last store the call     *)
(* returns.                                                                *)
LEMMA QueueReturnInv ==
  ASSUME Queue!IInv, Queue!Defined, Queue!EnoughSlots, NEW t \in Queue!Threads,
         Queue!Return(t)
  PROVE  Queue!IInv'
<1>1. /\ Queue!TypeOK /\ Queue!Scheme(QueueChecking) /\ Queue!MainAlone
  BY DEF Queue!IInv, QueueChecking
<1>2. /\ UNCHANGED <<Queue!heapVars, globalEraClock, retiredPtrList,
                     retiredNodesCount, Queue!eraFields, currEra>>
      /\ ptr' \in [Queue!Threads -> Queue!NodeOrNull]
      /\ \A u \in Queue!Threads : u # t => ptr'[u] = ptr[u] /\ currEra'[u] = currEra[u]
  BY <1>1 DEF Queue!Return, Queue!TypeOK, Queue!HETypeOK, Queue!NodeOrNull
<1>3. /\ Queue!HETypeOK'
      /\ currEra'[t] <= globalEraClock
      /\ \A s \in Queue!Slots : hazardErasList'[t][s] <= globalEraClock
      /\ \A u \in Queue!Threads : u # t => hazardErasList'[u] = hazardErasList[u]
  <2>1. Queue!HETypeOK /\ Queue!ClearSlot(t, "clear", "idle")
    BY <1>1 DEF Queue!TypeOK, Queue!Return
  <2> QED BY <1>1, <1>2, <2>1, QueueClearEffect
<1> USE DEF Queue!Return, Queue!ClearSlot, Queue!ReturnItem, Queue!Goto,
            Queue!ends
<1>4. Queue!TypeOK'
  <2>1. Queue!HeapTypeOK'
    BY <1>1 DEF Queue!TypeOK, Queue!HeapTypeOK, Queue!heapVars
  <2>2. pc' \in [Queue!Threads -> Queue!Labels]
    BY <1>1 DEF Queue!TypeOK, Queue!Labels
  <2>3. /\ head' \in Queue!NodeOrNull /\ tail' \in Queue!NodeOrNull
        /\ node' \in [Queue!Threads -> Queue!NodeOrNull]
        /\ nxt' \in [Queue!Threads -> Queue!NodeOrNull]
        /\ retData' \in [Queue!Threads -> Items \cup {NULL}]
        /\ dangling' \subseteq Queue!Threads /\ main' \in Queue!MainStates
    BY <1>1 DEF Queue!TypeOK, Queue!NodeOrNull, Queue!MainStates
  <2> QED BY <1>3, <2>1, <2>2, <2>3 DEF Queue!TypeOK
<1>5. \A u \in Queue!Threads : u # t => QueueSame(u)
  BY <1>1, <1>2, <1>3 DEF QueueSame, Queue!TypeOK
<1>6. /\ UNCHANGED <<head, tail>> /\ pc'[t] \in {"clear", "idle"}
      /\ pc'[t] # "retire.check" /\ ~Queue!Enqueuing(t)' /\ ~Queue!Dequeued(t)'
      /\ Queue!LoadedLives(t)' /\ Queue!GuardedLives(t)' /\ Queue!NextCovered(t)'
  BY <1>1
     DEF Queue!TypeOK, Queue!EnqLabels, Queue!Enqueuing, Queue!Dequeued,
         Queue!LoadedLives, Queue!GuardedLives, Queue!Guards, Queue!FoundTail,
         Queue!FoundHead, Queue!NextCovered
<1>7. Queue!MainAlone' /\ (Queue!Destroyed => Queue!Destroyed')
  BY <1>1, ThreadsAssumption
     DEF Queue!TypeOK, Queue!MainAlone, Queue!EnqLabels, Queue!Destroyed,
         Queue!Threads
<1> QED BY <1>2, <1>3, <1>4, <1>5, <1>6, <1>7, QueueLocalInv

(* main, and the threads that it waits for, change no node.                *)
LEMMA QueueMainInv ==
  ASSUME Queue!IInv, Queue!Defined, Queue!EnoughSlots, NEW t \in Queue!Threads,
         Queue!ThreadExit(t) \/ ((Queue!Quit \/ Queue!Join) /\ t = 0)
  PROVE  Queue!IInv'
<1>1. /\ Queue!TypeOK /\ Queue!Scheme(QueueChecking) /\ Queue!MainAlone
      /\ Queue!ThreadInv(t)
  BY DEF Queue!IInv, QueueChecking
<1> USE DEF Queue!ThreadExit, Queue!Quit, Queue!Join, Queue!LeaveLoop,
            Queue!QuitSignal, Queue!JoinThreads, Queue!Goto, Queue!heapVars,
            Queue!heVars, Queue!eraFields, Queue!heLocals, Queue!ends,
            Queue!locals
<1>2. Queue!TypeOK'
  <2>1. Queue!HeapTypeOK' /\ Queue!HETypeOK'
    BY <1>1 DEF Queue!TypeOK, Queue!HeapTypeOK, Queue!HETypeOK
  <2>2. pc' \in [Queue!Threads -> Queue!Labels]
    BY <1>1 DEF Queue!TypeOK, Queue!Labels
  <2>3. main' \in Queue!MainStates
    BY DEF Queue!MainStates
  <2> QED BY <1>1, <2>1, <2>2, <2>3 DEF Queue!TypeOK
<1>3. \A u \in Queue!Threads : u # t => QueueSame(u)
  BY <1>1 DEF QueueSame, Queue!TypeOK
<1>4. /\ UNCHANGED <<Queue!heapVars, head, tail, globalEraClock, retiredPtrList,
                     retiredNodesCount, Queue!eraFields>>
      /\ currEra'[t] <= globalEraClock
      /\ \A s \in Queue!Slots : hazardErasList'[t][s] <= globalEraClock
  BY <1>1 DEF Queue!Scheme, Queue!ErasReached
<1>5. CASE pc'[t] \in {"exited", "idle"}
  <2>1. /\ Queue!LoadedLives(t)' /\ Queue!GuardedLives(t)' /\ Queue!NextCovered(t)'
        /\ ~Queue!Enqueuing(t)' /\ ~Queue!Dequeued(t)'
    BY <1>5
       DEF Queue!EnqLabels, Queue!Enqueuing, Queue!Dequeued, Queue!LoadedLives,
           Queue!GuardedLives, Queue!Guards, Queue!FoundTail, Queue!FoundHead,
           Queue!NextCovered
  <2>2. Queue!MainAlone' /\ (Queue!Destroyed => Queue!Destroyed')
    BY <1>1, ThreadsAssumption
       DEF Queue!TypeOK, Queue!MainAlone, Queue!EnqLabels, Queue!Destroyed,
           Queue!Threads
  <2> QED BY <1>2, <1>3, <1>4, <1>5, <2>1, <2>2, QueueLocalInv
<1>6. CASE Queue!Quit
  <2>1. \A u \in Queue!Threads : Queue!ThreadInv(u)'
    <3>1. ASSUME NEW u \in Queue!Threads
          PROVE  Queue!OwnsNode(u)' /\ Queue!DequeuedByOne(u)'
                   /\ Queue!LoadedLives(u)' /\ Queue!NextCovered(u)'
      BY <1>6
         DEF Queue!IInv, Queue!ThreadInv, Queue!OwnsNode, Queue!Enqueuing,
             Queue!DequeuedByOne, Queue!Dequeued, Queue!LoadedLives,
             Queue!NextCovered, Queue!Live, Queue!EraFits, Queue!WithinLife,
             Queue!Listed, Queue!Retired
    <3>2. ASSUME NEW u \in Queue!Threads PROVE Queue!GuardedLives(u)'
      <4>1. Queue!Guards(u)' = Queue!Guards(u)
              /\ \A n : Queue!SlotOf(u, n)' = Queue!SlotOf(u, n)
        BY <1>6 DEF Queue!Guards, Queue!SlotOf
      <4> QED BY <1>6, <4>1
                 DEF Queue!IInv, Queue!ThreadInv, Queue!GuardedLives,
                     Queue!FoundTail, Queue!FoundHead, Queue!Live,
                     Queue!Covers, Queue!WithinLife, Queue!Listed,
                     Queue!Retired
    <3> QED BY <3>1, <3>2 DEF Queue!ThreadInv
  <2>2. Queue!Scheme(QueueChecking)'
    BY <1>1, <1>6
       DEF Queue!Scheme, Queue!RetiredOnce, Queue!CountsRetired,
           Queue!ErasReached, Queue!RetiredBefore, Queue!Retired,
           Queue!Destroyed
  <2>3. Queue!MainAlone' /\ (~Queue!Destroyed' => Queue!QueueShape')
    BY <1>6 DEF Queue!IInv, Queue!QueueShape, Queue!MainAlone, Queue!Destroyed
  <2>4. Queue!EraCovers'
    <3>1. \A u \in Queue!Threads : Queue!GuardedLives(u)'
      BY <2>1 DEF Queue!ThreadInv
    <3> QED BY <3>1
               DEF Queue!GuardedLives, Queue!EraCovers, Queue!Covers,
                   Queue!WithinLife, Queue!Listed
  <2> QED BY <1>2, <2>1, <2>2, <2>3, <2>4 DEF Queue!IInv, QueueChecking
<1>7. Queue!ThreadExit(t) => pc'[t] = "exited"
  BY <1>1 DEF Queue!TypeOK
<1>8. Queue!Join /\ t = 0 => pc'[t] = "idle"
  BY <1>1, ThreadsAssumption DEF Queue!TypeOK, Queue!Threads
<1> QED BY <1>5, <1>6, <1>7, <1>8

(* A step that enters nothing in a list and publishes no era.              *)
LEMMA QueueNothingEntered ==
  ASSUME Queue!IInv, Queue!Defined,
         UNCHANGED <<globalEraClock, hazardErasList, retiredPtrList,
                     retiredNodesCount, currEra, main>>,
         \A n \in Nodes : status[n] = "retired" =>
           status'[n] = "retired" /\ delEra'[n] = delEra[n],
         \A n \in Nodes : newEra'[n] <= globalEraClock /\ delEra'[n] <= globalEraClock,
         \A u \in Queue!Threads : pc'[u] = "retire.check" => pc[u] = "retire.check"
  PROVE  Queue!Scheme(QueueChecking)' /\ \A n : Queue!Listed(n)' <=> Queue!Listed(n)
<1>1. Queue!TypeOK /\ Queue!Scheme(QueueChecking)
  BY DEF Queue!IInv, QueueChecking
<1>2. \A u \in Queue!Threads : /\ currEra'[u] <= globalEraClock
                               /\ \A s \in Queue!Slots : hazardErasList'[u][s] <= globalEraClock
  BY <1>1 DEF Queue!Scheme, Queue!ErasReached
<1>3. \A u \in Queue!Threads : pc'[u] \in QueueChecking =>
        pc[u] \in QueueChecking /\ currEra'[u] = currEra[u]
  BY DEF QueueChecking
<1>4. /\ retiredPtrList \in [Queue!Threads -> Seq(Nodes)]
      /\ Queue!Destroyed => Queue!Destroyed'
  BY <1>1 DEF Queue!TypeOK, Queue!HETypeOK, Queue!Destroyed
<1> HIDE DEF QueueChecking
<1> QED BY <1>1, <1>2, <1>3, <1>4, QueueSchemeKept

(* A listed node is retired.                                               *)
LEMMA QueueListed ==
  ASSUME Queue!IInv, Queue!Defined
  PROVE  /\ retiredPtrList \in [Queue!Threads -> Seq(Nodes)]
         /\ \A n : Queue!Listed(n) => n \in Nodes /\ status[n] = "retired"
<1>1. retiredPtrList \in [Queue!Threads -> Seq(Nodes)] /\ Queue!RetiredOnce
  BY DEF Queue!IInv, Queue!TypeOK, Queue!HETypeOK, Queue!Scheme
<1> QED BY <1>1, QueueOneEntry

(* What the parts of the invariant make of each other.                     *)
LEMMA QueueAgain ==
  ASSUME Queue!TypeOK', Queue!Scheme(QueueChecking)', Queue!MainAlone',
         ~Queue!Destroyed' => Queue!QueueShape',
         \A u \in Queue!Threads :
           /\ Queue!OwnsNode(u)' /\ Queue!DequeuedByOne(u)' /\ Queue!LoadedLives(u)'
           /\ Queue!GuardedLives(u)' /\ Queue!NextCovered(u)'
  PROVE  Queue!IInv'
<1>1. Queue!EraCovers'
  <2>1. \A u \in Queue!Threads : Queue!GuardedLives(u)'
    OBVIOUS
  <2> QED BY <2>1
             DEF Queue!GuardedLives, Queue!EraCovers, Queue!Covers,
                 Queue!WithinLife, Queue!Listed
<1> QED BY <1>1 DEF Queue!IInv, Queue!ThreadInv, QueueChecking

(* What t does to the nodes when it deletes none of them.                  *)
LEMMA QueueOtherSame ==
  ASSUME Queue!TypeOK, Queue!QueueShape, Queue!ErasReached, Queue!EnoughSlots,
         NEW u \in Queue!Threads, Queue!ThreadInv(u), QueueSame(u),
         globalEraClock' = globalEraClock,
         \A n \in Nodes : Queue!Live(n) =>
           /\ Queue!Live(n)' /\ newEra'[n] = newEra[n]
           /\ \A e : e <= globalEraClock /\ Queue!WithinLife(n, e)
                => Queue!WithinLife(n, e)'
           /\ status[n] = "retired" => status'[n] = "retired"
           /\ next[n] # NULL => next'[n] = next[n]
           /\ n # next[tail] => n # next'[tail'],
         head' = head \/ status'[head] = "retired",
         head' = head /\ tail # head => tail' # head
  PROVE  Queue!LoadedLives(u)' /\ Queue!GuardedLives(u)' /\ Queue!NextCovered(u)'
<1> DEFINE Gone == {}
<1>1. \A n : n \notin Gone
  OBVIOUS
<1> HIDE DEF Gone
<1>2. \A n \in Queue!Guards(u) : n \in Gone => u \in dangling'
  BY <1>1
<1>3. pc[u] \in {"enq.clock", "deq.clock"}
        /\ globalEraClock' = hazardErasList[u][0] =>
          globalEraClock' = globalEraClock /\ ptr[u] \notin Gone
  BY <1>1
<1>4. \A n \in Nodes : Queue!Live(n) /\ n \notin Gone =>
        /\ Queue!Live(n)' /\ newEra'[n] = newEra[n]
        /\ \A e : e <= globalEraClock /\ Queue!WithinLife(n, e)
             => Queue!WithinLife(n, e)'
        /\ status[n] = "retired" => status'[n] = "retired"
        /\ next[n] # NULL => next'[n] = next[n]
        /\ n # next[tail] => n # next'[tail']
  OBVIOUS
<1>5. \A n \in Gone : status[n] = "retired"
  BY <1>1
<1> QED BY <1>2, <1>3, <1>4, <1>5, QueueOtherInv

(* An enqueue that begins owns a node nobody else knows, born in the era   *)
(* of the clock.                                                           *)
LEMMA EnqCallInv ==
  ASSUME Queue!IInv, Queue!Defined, Queue!EnoughSlots, NEW t \in Queue!Threads,
         Queue!EnqCall(t)
  PROVE  Queue!IInv'
<1>0. /\ Queue!TypeOK /\ Queue!Scheme(QueueChecking)
      /\ (~Queue!Destroyed => Queue!QueueShape)
      /\ \A u \in Queue!Threads : Queue!ThreadInv(u)
  BY DEF Queue!IInv, QueueChecking
<1>1. PICK n \in Nodes, i \in Items :
        Queue!NewInEra(n, i) /\ node' = [node EXCEPT ![t] = n]
  BY DEF Queue!EnqCall
<1>2. /\ status[n] = "free" /\ status' = [status EXCEPT ![n] = "private"]
      /\ next' = [next EXCEPT ![n] = NULL] /\ item' = [item EXCEPT ![n] = i]
      /\ newEra' = [newEra EXCEPT ![n] = globalEraClock]
      /\ delEra' = [delEra EXCEPT ![n] = 0]
      /\ UNCHANGED <<globalEraClock, hazardErasList, retiredPtrList,
                     retiredNodesCount, ptr, currEra, slot, head, tail, nxt,
                     retData, dangling, main>>
      /\ main = "sleeping" /\ pc[t] = "idle"
      /\ pc' = [pc EXCEPT ![t] = "enq.get"]
  BY <1>1
     DEF Queue!EnqCall, Queue!NewInEra, Queue!New, Queue!BornNow,
         Queue!Calling, Queue!Goto, Queue!heVars, Queue!heLocals, Queue!ends
<1>3. Queue!TypeOK'
  <2>1. Queue!HeapTypeOK'
    BY <1>0, <1>2
       DEF Queue!TypeOK, Queue!HeapTypeOK, Queue!NodeOrNull, Queue!Statuses
  <2>2. Queue!HETypeOK'
    BY <1>0, <1>2 DEF Queue!TypeOK, Queue!HETypeOK
  <2>3. pc' \in [Queue!Threads -> Queue!Labels]
          /\ node' \in [Queue!Threads -> Queue!NodeOrNull]
    BY <1>0, <1>1, <1>2
       DEF Queue!TypeOK, Queue!Labels, Queue!EnqLabels, Queue!NodeOrNull
  <2> QED BY <1>0, <1>2, <2>1, <2>2, <2>3 DEF Queue!TypeOK
<1>4. /\ \A m \in Nodes : m # n =>
           /\ status'[m] = status[m] /\ next'[m] = next[m]
           /\ newEra'[m] = newEra[m] /\ delEra'[m] = delEra[m]
      /\ status'[n] = "private" /\ next'[n] = NULL
      /\ \A u \in Queue!Threads : u # t => pc'[u] = pc[u] /\ node'[u] = node[u]
      /\ pc'[t] = "enq.get" /\ node'[t] = n
  BY <1>0, <1>1, <1>2 DEF Queue!TypeOK, Queue!HeapTypeOK, Queue!HETypeOK
<1>5. Queue!Scheme(QueueChecking)' /\ \A m : Queue!Listed(m)' <=> Queue!Listed(m)
  <2>1. \A m \in Nodes : status[m] = "retired" =>
          status'[m] = "retired" /\ delEra'[m] = delEra[m]
    BY <1>2, <1>4
  <2>2. \A m \in Nodes : newEra'[m] <= globalEraClock /\ delEra'[m] <= globalEraClock
    BY <1>0, <1>2
       DEF Queue!TypeOK, Queue!HETypeOK, Queue!Scheme, Queue!ErasReached
  <2>3. \A u \in Queue!Threads : pc'[u] = "retire.check" => pc[u] = "retire.check"
    BY <1>4
  <2> QED BY <1>2, <2>1, <2>2, <2>3, QueueNothingEntered
<1>6. Queue!QueueShape /\ Queue!QueueShape'
  <2>1. Queue!QueueShape /\ head # n /\ tail # n
    BY <1>0, <1>2 DEF Queue!Destroyed, Queue!QueueShape
  <2>2. /\ UNCHANGED <<head, tail>> /\ n # NULL
        /\ \A m \in Nodes : next[m] \in Queue!NodeOrNull
        /\ \A m \in Nodes : status[m] = "linked" /\ next[m] # NULL => next[m] # n
    BY <1>0, <1>2, <2>1, HeapAssumption
       DEF Queue!TypeOK, Queue!HeapTypeOK, Queue!QueueShape
  <2> QED BY <1>2, <1>4, <2>1, <2>2 DEF Queue!QueueShape, Queue!NodeOrNull
<1>7. Queue!MainAlone'
  BY <1>2 DEF Queue!MainAlone
<1>8. ASSUME NEW u \in Queue!Threads
      PROVE  /\ Queue!OwnsNode(u)' /\ Queue!DequeuedByOne(u)' /\ Queue!LoadedLives(u)'
             /\ Queue!GuardedLives(u)' /\ Queue!NextCovered(u)'
  <2>1. Queue!OwnsNode(u)'
    <3>1. \A v \in Queue!Threads : v # t /\ Queue!Enqueuing(v)' =>
            /\ node[v] \in Nodes /\ status[node[v]] = "private"
            /\ next[node[v]] = NULL /\ Queue!Enqueuing(v) /\ node'[v] = node[v]
      BY <1>0, <1>4 DEF Queue!ThreadInv, Queue!OwnsNode, Queue!Enqueuing
    <3>2. CASE u = t
      BY <1>2, <1>4, <3>1, <3>2 DEF Queue!OwnsNode
    <3>3. CASE u # t
      BY <1>0, <1>2, <1>4, <3>1, <3>3 DEF Queue!ThreadInv, Queue!OwnsNode
    <3> QED BY <3>2, <3>3
  <2>2. Queue!DequeuedByOne(u)'
    BY <1>0, <1>2, <1>4, <1>5
       DEF Queue!ThreadInv, Queue!DequeuedByOne, Queue!Dequeued
  <2>3. CASE u = t
    BY <1>4, <2>1, <2>2, <2>3
       DEF Queue!LoadedLives, Queue!GuardedLives, Queue!Guards,
           Queue!FoundTail, Queue!FoundHead, Queue!NextCovered
  <2>4. CASE u # t
    <3>1. /\ Queue!TypeOK /\ Queue!ErasReached /\ Queue!ThreadInv(u) /\ QueueSame(u)
          /\ globalEraClock' = globalEraClock
          /\ head' = head /\ tail' = tail /\ tail \in Nodes /\ tail # n
      BY <1>0, <1>2, <1>4, <1>6, <2>4
         DEF Queue!Scheme, QueueSame, Queue!QueueShape
    <3>2. \A m \in Nodes : Queue!Live(m) =>
           /\ Queue!Live(m)' /\ newEra'[m] = newEra[m]
           /\ \A e : e <= globalEraClock /\ Queue!WithinLife(m, e)
                => Queue!WithinLife(m, e)'
           /\ status[m] = "retired" => status'[m] = "retired"
           /\ next[m] # NULL => next'[m] = next[m]
           /\ m # next[tail] => m # next'[tail']
      BY <1>2, <1>4, <1>5, <3>1 DEF Queue!Live, Queue!WithinLife
    <3>3. Queue!LoadedLives(u)' /\ Queue!GuardedLives(u)' /\ Queue!NextCovered(u)'
      BY <1>6, <3>1, <3>2, QueueOtherSame
    <3> QED BY <2>1, <2>2, <3>3
  <2> QED BY <2>3, <2>4
<1> QED BY <1>3, <1>5, <1>6, <1>7, <1>8, QueueAgain

(* The tail is moved to the node behind it, which is the last.             *)
LEMMA QueueAdvances ==
  ASSUME Queue!IInv, Queue!Defined, Queue!EnoughSlots, NEW t \in Queue!Threads,
         Queue!TypeOK',
         ~Queue!Destroyed, tail' = next[tail], next[tail] \in Nodes,
         UNCHANGED <<Queue!heapVars, head, globalEraClock, hazardErasList,
                     retiredPtrList, retiredNodesCount, Queue!eraFields, currEra, ptr,
                     node, main, dangling>>,
         \A u \in Queue!Threads : u # t => QueueSame(u),
         pc[t] \in Queue!EnqLabels, pc'[t] \in {"enq.get", "clear"},
         Queue!Enqueuing(t)' => Queue!Enqueuing(t)
  PROVE  Queue!IInv'
<1>0. /\ Queue!TypeOK /\ Queue!Scheme(QueueChecking) /\ Queue!QueueShape
      /\ Queue!MainAlone
      /\ \A u \in Queue!Threads : Queue!ThreadInv(u)
  BY DEF Queue!IInv, QueueChecking
<1>1. Queue!Scheme(QueueChecking)' /\ \A m : Queue!Listed(m)' <=> Queue!Listed(m)
  <2>1. \A m \in Nodes : status[m] = "retired" =>
          status'[m] = "retired" /\ delEra'[m] = delEra[m]
    BY DEF Queue!heapVars, Queue!eraFields
  <2>2. \A m \in Nodes : newEra'[m] <= globalEraClock /\ delEra'[m] <= globalEraClock
    BY <1>0 DEF Queue!Scheme, Queue!ErasReached, Queue!eraFields
  <2>3. \A u \in Queue!Threads : pc'[u] = "retire.check" => pc[u] = "retire.check"
    BY DEF QueueSame
  <2> QED BY <2>1, <2>2, <2>3, QueueNothingEntered
<1>2. /\ status[next[tail]] = "linked" /\ next[tail] # head
      /\ next[next[tail]] = NULL
  BY <1>0, HeapAssumption DEF Queue!QueueShape
<1>3. Queue!QueueShape'
  BY <1>0, <1>2, HeapAssumption DEF Queue!QueueShape, Queue!heapVars
<1>4. Queue!MainAlone'
  BY <1>0, ThreadsAssumption
     DEF Queue!MainAlone, QueueSame, Queue!EnqLabels, Queue!Threads
<1>5. ASSUME NEW u \in Queue!Threads
      PROVE  /\ Queue!OwnsNode(u)' /\ Queue!DequeuedByOne(u)' /\ Queue!LoadedLives(u)'
             /\ Queue!GuardedLives(u)' /\ Queue!NextCovered(u)'
  <2>1. Queue!OwnsNode(u)'
    <3>1. \A v \in Queue!Threads : Queue!Enqueuing(v)' => Queue!Enqueuing(v)
      BY DEF Queue!Enqueuing, QueueSame
    <3> QED BY <1>0, <3>1 DEF Queue!ThreadInv, Queue!OwnsNode, Queue!heapVars
  <2>2. Queue!DequeuedByOne(u)'
    <3>1. \A v \in Queue!Threads : Queue!Dequeued(v)' => Queue!Dequeued(v)
      BY DEF Queue!Dequeued, QueueSame
    <3> QED BY <1>0, <1>1, <3>1
               DEF Queue!ThreadInv, Queue!DequeuedByOne, Queue!heapVars
  <2>3. CASE u = t
    BY <2>1, <2>2, <2>3
       DEF Queue!LoadedLives, Queue!GuardedLives, Queue!Guards,
           Queue!FoundTail, Queue!FoundHead, Queue!NextCovered
  <2>4. CASE u # t
    <3>1. Queue!ThreadInv(u) /\ QueueSame(u) /\ Queue!ErasReached
      BY <1>0, <2>4 DEF Queue!Scheme
    <3>2. \A m \in Nodes : Queue!Live(m) =>
           /\ Queue!Live(m)' /\ newEra'[m] = newEra[m]
           /\ \A e : e <= globalEraClock /\ Queue!WithinLife(m, e)
                => Queue!WithinLife(m, e)'
           /\ status[m] = "retired" => status'[m] = "retired"
           /\ next[m] # NULL => next'[m] = next[m]
           /\ m # next[tail] => m # next'[tail']
      BY <1>1, <1>2, HeapAssumption
         DEF Queue!Live, Queue!WithinLife, Queue!heapVars, Queue!eraFields
    <3>3. Queue!LoadedLives(u)' /\ Queue!GuardedLives(u)' /\ Queue!NextCovered(u)'
      BY <1>0, <1>2, <3>1, <3>2, QueueOtherSame
    <3> QED BY <2>1, <2>2, <3>3
  <2> QED BY <2>3, <2>4
<1> QED BY <1>1, <1>3, <1>4, <1>5, QueueAgain

(* An enqueue helps another one, or comes to its own last exchange.        *)
LEMMA EnqSwingInv ==
  ASSUME Queue!IInv, Queue!Defined, Queue!EnoughSlots, NEW t \in Queue!Threads,
         Queue!EnqHelp(t) \/ Queue!EnqSwing(t)
  PROVE  Queue!IInv'
<1>1. /\ Queue!TypeOK /\ Queue!Scheme(QueueChecking) /\ Queue!MainAlone
      /\ Queue!ThreadInv(t)
  BY DEF Queue!IInv, QueueChecking
<1>2. /\ pc[t] \in {"enq.help", "enq.swing"}
      /\ UNCHANGED <<Queue!heapVars, head, Queue!heVars, Queue!eraFields, ptr, currEra, slot, node,
                     retData, dangling, main>>
      /\ \A u \in Queue!Threads : u # t => nxt'[u] = nxt[u] /\ pc'[u] = pc[u]
      /\ nxt' \in [Queue!Threads -> Queue!NodeOrNull]
      /\ pc' \in [Queue!Threads -> Queue!Labels]
      /\ pc'[t] \in {"enq.get", "clear", "undefined"}
      /\ IF tail = ptr[t] THEN tail' = IF pc[t] = "enq.help" THEN nxt[t] ELSE node[t]
                          ELSE tail' = tail /\ pc'[t] # "undefined"
      /\ tail = ptr[t] /\ pc'[t] # "undefined" => t \notin dangling
      /\ pc'[t] = "enq.get" => pc[t] = "enq.help"
  BY <1>1
     DEF Queue!EnqHelp, Queue!EnqSwing, Queue!GotoUsing, Queue!Goto,
         Queue!TypeOK, Queue!Labels, Queue!EnqLabels, Queue!NodeOrNull,
         Queue!locals, Queue!heLocals, Queue!ends
<1>3. Queue!TypeOK'
  <2>1. Queue!HeapTypeOK' /\ Queue!HETypeOK'
    BY <1>1, <1>2
       DEF Queue!TypeOK, Queue!HeapTypeOK, Queue!HETypeOK, Queue!heapVars,
           Queue!heVars, Queue!eraFields
  <2>2. tail' \in Queue!NodeOrNull
    BY <1>1, <1>2 DEF Queue!TypeOK
  <2> QED BY <1>1, <1>2, <2>1, <2>2 DEF Queue!TypeOK
<1>4. \A u \in Queue!Threads : u # t => QueueSame(u)
  BY <1>2 DEF QueueSame, Queue!heVars
<1>5. CASE pc'[t] = "undefined"
  BY <1>2, <1>3, <1>5, QueueStrays DEF Queue!heVars
<1>6. CASE pc'[t] # "undefined" /\ tail # ptr[t]
  <2>1. /\ UNCHANGED <<Queue!heapVars, head, tail, globalEraClock, retiredPtrList,
                       retiredNodesCount, Queue!eraFields>>
        /\ currEra'[t] <= globalEraClock
        /\ \A s \in Queue!Slots : hazardErasList'[t][s] <= globalEraClock
    BY <1>1, <1>2, <1>6 DEF Queue!heVars, Queue!Scheme, Queue!ErasReached
  <2>2. /\ pc'[t] # "retire.check"
        /\ Queue!Enqueuing(t)' => Queue!Enqueuing(t) /\ node'[t] = node[t]
        /\ ~Queue!Dequeued(t)' /\ Queue!LoadedLives(t)'
        /\ Queue!GuardedLives(t)' /\ Queue!NextCovered(t)'
    BY <1>2, <1>6
       DEF Queue!Enqueuing, Queue!EnqLabels, Queue!Dequeued, Queue!LoadedLives,
           Queue!GuardedLives, Queue!Guards, Queue!FoundTail, Queue!FoundHead,
           Queue!NextCovered
  <2>3. Queue!MainAlone' /\ (Queue!Destroyed => Queue!Destroyed')
    BY <1>1, <1>2, ThreadsAssumption
       DEF Queue!MainAlone, Queue!EnqLabels, Queue!Destroyed, Queue!Threads
  <2> QED BY <1>3, <1>4, <2>1, <2>2, <2>3, QueueLocalInv
<1>7. CASE pc'[t] # "undefined" /\ tail = ptr[t]
  <2>1. tail' = next[tail] /\ next[tail] \in Nodes
    BY <1>1, <1>2, <1>7 DEF Queue!ThreadInv, Queue!GuardedLives
  <2>2. ~Queue!Destroyed
    BY <1>1, <1>2, ThreadsAssumption
       DEF Queue!MainAlone, Queue!EnqLabels, Queue!Destroyed, Queue!Threads
  <2>3. pc[t] \in Queue!EnqLabels /\ (Queue!Enqueuing(t)' => Queue!Enqueuing(t))
    BY <1>2, <1>7 DEF Queue!EnqLabels, Queue!Enqueuing
  <2> QED BY <1>2, <1>3, <1>4, <1>7, <2>1, <2>2, <2>3, QueueAdvances
             DEF Queue!heVars
<1> QED BY <1>5, <1>6, <1>7

(* The exchange of a last node's link: it links the node of the enqueue    *)
(* behind the tail.                                                        *)
LEMMA EnqLinkInv ==
  ASSUME Queue!IInv, Queue!Defined, Queue!EnoughSlots, NEW t \in Queue!Threads,
         Queue!EnqLink(t)
  PROVE  Queue!IInv'
<1>0. /\ Queue!TypeOK /\ Queue!Scheme(QueueChecking) /\ Queue!MainAlone
      /\ (~Queue!Destroyed => Queue!QueueShape)
      /\ \A u \in Queue!Threads : Queue!ThreadInv(u)
  BY DEF Queue!IInv, QueueChecking
<1>1. /\ pc[t] = "enq.link"
      /\ UNCHANGED <<item, Queue!heVars, Queue!eraFields, Queue!heLocals, head, tail, Queue!locals,
                     dangling, main>>
      /\ pc' \in [Queue!Threads -> Queue!Labels]
      /\ \A u \in Queue!Threads : u # t => pc'[u] = pc[u]
      /\ pc'[t] = IF t \in dangling THEN "undefined"
                  ELSE IF next[ptr[t]] = NULL THEN "enq.swing" ELSE "enq.get"
      /\ IF next[ptr[t]] = NULL
         THEN /\ next' = [next EXCEPT ![ptr[t]] = node[t]]
              /\ status' = [status EXCEPT ![node[t]] = "linked"]
         ELSE UNCHANGED <<next, status>>
  BY <1>0
     DEF Queue!EnqLink, Queue!GotoUsing, Queue!Goto, Queue!TypeOK,
         Queue!Labels, Queue!EnqLabels, Queue!ends
<1>2. /\ ptr[t] \in Nodes /\ Queue!Enqueuing(t) /\ node[t] \in Nodes
      /\ status[node[t]] = "private" /\ next[node[t]] = NULL
      /\ \A u \in Queue!Threads : Queue!Enqueuing(u) /\ node[u] = node[t] => u = t
      /\ t \notin dangling =>
           Queue!Live(ptr[t]) /\ Queue!Covers(t, 0, ptr[t]) /\ ptr[t] # next[tail]
  <2>1. Queue!Guards(t) = {ptr[t]} /\ Queue!SlotOf(t, ptr[t]) = 0
          /\ Queue!Enqueuing(t) /\ Queue!FoundTail(t)
    BY <1>1
       DEF Queue!Guards, Queue!SlotOf, Queue!Enqueuing, Queue!EnqLabels,
           Queue!FoundTail
  <2>2. Queue!ThreadInv(t)
    BY <1>0
  <2> QED BY <2>1, <2>2 DEF Queue!ThreadInv, Queue!GuardedLives, Queue!OwnsNode
<1>3. Queue!TypeOK'
  <2>1. Queue!HeapTypeOK'
    BY <1>0, <1>1, <1>2
       DEF Queue!TypeOK, Queue!HeapTypeOK, Queue!NodeOrNull, Queue!Statuses
  <2>2. Queue!HETypeOK'
    BY <1>0, <1>1
       DEF Queue!TypeOK, Queue!HETypeOK, Queue!heVars, Queue!eraFields,
           Queue!heLocals
  <2> QED BY <1>0, <1>1, <2>1, <2>2 DEF Queue!TypeOK, Queue!locals
<1>4. \A u \in Queue!Threads : u # t => QueueSame(u)
  BY <1>1 DEF QueueSame, Queue!heVars, Queue!heLocals, Queue!locals
<1>5. CASE t \in dangling
  BY <1>1, <1>3, <1>5, QueueStrays
     DEF Queue!heVars, Queue!heLocals, Queue!locals
<1>6. CASE t \notin dangling /\ next[ptr[t]] # NULL
  <2>1. /\ UNCHANGED <<Queue!heapVars, head, tail, globalEraClock, retiredPtrList,
                       retiredNodesCount, Queue!eraFields>>
        /\ currEra'[t] <= globalEraClock
        /\ \A s \in Queue!Slots : hazardErasList'[t][s] <= globalEraClock
    BY <1>0, <1>1, <1>6
       DEF Queue!heapVars, Queue!heVars, Queue!heLocals, Queue!Scheme,
           Queue!ErasReached
  <2>2. /\ pc'[t] # "retire.check"
        /\ Queue!Enqueuing(t)' => Queue!Enqueuing(t) /\ node'[t] = node[t]
        /\ ~Queue!Dequeued(t)' /\ Queue!LoadedLives(t)'
        /\ Queue!GuardedLives(t)' /\ Queue!NextCovered(t)'
    BY <1>1, <1>6
       DEF Queue!Enqueuing, Queue!EnqLabels, Queue!Dequeued, Queue!LoadedLives,
           Queue!GuardedLives, Queue!Guards, Queue!FoundTail, Queue!FoundHead,
           Queue!NextCovered, Queue!locals
  <2>3. Queue!MainAlone' /\ (Queue!Destroyed => Queue!Destroyed')
    BY <1>0, <1>1, ThreadsAssumption
       DEF Queue!MainAlone, Queue!EnqLabels, Queue!Destroyed, Queue!Threads
  <2> QED BY <1>3, <1>4, <2>1, <2>2, <2>3, QueueLocalInv
<1>7. CASE t \notin dangling /\ next[ptr[t]] = NULL
  <2>1. Queue!QueueShape /\ ~Queue!Destroyed
    BY <1>0, <1>1, ThreadsAssumption
       DEF Queue!MainAlone, Queue!EnqLabels, Queue!Destroyed, Queue!Threads
  <2>2. ptr[t] = tail
    BY <1>2, <1>7, <2>1 DEF Queue!QueueShape, Queue!Live
  <2> DEFINE n == node[t]
  <2>3. /\ n \in Nodes /\ status[n] = "private" /\ next[n] = NULL /\ n # tail
        /\ \A m \in Nodes : m # n => status'[m] = status[m]
        /\ \A m \in Nodes : m # tail => next'[m] = next[m]
        /\ status'[n] = "linked" /\ next'[tail] = n /\ tail \in Nodes
        /\ UNCHANGED <<head, tail, globalEraClock, hazardErasList, retiredPtrList,
                       retiredNodesCount, newEra, delEra, currEra, main, ptr,
                       node, nxt, dangling>>
        /\ pc'[t] = "enq.swing" /\ next[tail] = NULL
    BY <1>0, <1>1, <1>2, <1>7, <2>1, <2>2
       DEF Queue!TypeOK, Queue!HeapTypeOK, Queue!heVars, Queue!eraFields,
           Queue!heLocals, Queue!locals, Queue!QueueShape
  <2>4. Queue!Scheme(QueueChecking)' /\ \A m : Queue!Listed(m)' <=> Queue!Listed(m)
    <3>1. \A m \in Nodes : status[m] = "retired" =>
            status'[m] = "retired" /\ delEra'[m] = delEra[m]
      BY <2>3
    <3>2. \A m \in Nodes : newEra'[m] <= globalEraClock /\ delEra'[m] <= globalEraClock
      BY <1>0, <2>3 DEF Queue!Scheme, Queue!ErasReached
    <3>3. \A u \in Queue!Threads : pc'[u] = "retire.check" => pc[u] = "retire.check"
      BY <1>1, <2>3
    <3> HIDE DEF n
    <3> QED BY <2>3, <3>1, <3>2, <3>3, QueueNothingEntered
  <2> HIDE DEF n
  <2>5. Queue!QueueShape'
    <3>1. /\ head \in Nodes /\ status[head] = "linked" /\ status[tail] = "linked"
          /\ n # head /\ n # NULL
          /\ \A m \in Nodes : next[m] \in Queue!NodeOrNull
      BY <1>0, <2>1, <2>3, HeapAssumption
         DEF Queue!QueueShape, Queue!TypeOK, Queue!HeapTypeOK
    <3>2. \A m \in Nodes : status[m] = "linked" /\ next[m] # NULL => next[m] # n
            /\ m # tail
      BY <2>1, <2>3 DEF Queue!QueueShape
    <3>3. \A m \in Nodes : status'[m] = "linked" => m = n \/ status[m] = "linked"
      BY <2>3
    <3>4. ASSUME NEW m \in Nodes, status'[m] = "linked", next'[m] # NULL
          PROVE  /\ status'[next'[m]] = "linked" /\ next'[m] # head
                 /\ \A k \in Nodes : status'[k] = "linked"
                      /\ next'[k] = next'[m] => k = m
      <4>1. CASE m = tail
        BY <2>3, <3>1, <3>2, <3>3, <4>1
      <4>2. CASE m # tail
        <5>1. status[m] = "linked" /\ next[m] # NULL /\ next'[m] = next[m]
          BY <2>3, <3>3, <3>4, <4>2
        <5>2. status[next[m]] = "linked" /\ next[m] # head /\ next[m] \in Nodes
                /\ next[m] # n
          BY <2>1, <3>1, <3>2, <5>1 DEF Queue!QueueShape, Queue!NodeOrNull
        <5>3. \A k \in Nodes : status'[k] = "linked" /\ next'[k] = next'[m] =>
                k # tail /\ k # n /\ status[k] = "linked" /\ next[k] = next[m]
          BY <2>3, <3>3, <5>1, <5>2
        <5> QED BY <2>1, <2>3, <5>1, <5>2, <5>3 DEF Queue!QueueShape
      <4> QED BY <4>1, <4>2
    <3>5. \A m \in Nodes : status'[m] = "linked" /\ next'[m] = NULL => m = n
      BY <2>1, <2>3, <3>1, <3>3, HeapAssumption DEF Queue!QueueShape
    <3>6. \A m \in Nodes : status'[m] = "retired" => next'[m] # NULL
      BY <2>1, <2>3, <3>1 DEF Queue!QueueShape
    <3>7. /\ status'[head] = "linked" /\ status'[tail] = "linked"
          /\ next'[n] = NULL
      BY <2>3, <3>1
    <3> QED BY <2>3, <3>1, <3>4, <3>5, <3>6, <3>7 DEF Queue!QueueShape
  <2>6. Queue!MainAlone'
    BY <1>0, <1>1, <2>3, ThreadsAssumption
       DEF Queue!MainAlone, Queue!EnqLabels, Queue!Threads
  <2>7. ASSUME NEW u \in Queue!Threads
        PROVE  /\ Queue!OwnsNode(u)' /\ Queue!DequeuedByOne(u)' /\ Queue!LoadedLives(u)'
               /\ Queue!GuardedLives(u)' /\ Queue!NextCovered(u)'
    <3>1. Queue!OwnsNode(u)'
      <4>1. \A v \in Queue!Threads : Queue!Enqueuing(v)' => v # t /\ Queue!Enqueuing(v)
        BY <1>1, <2>3 DEF Queue!Enqueuing
      <4>2. Queue!Enqueuing(u) /\ u # t => node[u] # n /\ node[u] # tail
        BY <1>0, <1>2, <2>1
           DEF Queue!ThreadInv, Queue!OwnsNode, n, Queue!QueueShape
      <4> QED BY <1>0, <2>3, <4>1, <4>2 DEF Queue!ThreadInv, Queue!OwnsNode
    <3>2. Queue!DequeuedByOne(u)'
      <4>1. \A v \in Queue!Threads : Queue!Dequeued(v)' => Queue!Dequeued(v)
        BY <1>1, <2>3 DEF Queue!Dequeued
      <4> QED BY <1>0, <2>3, <2>4, <4>1
                 DEF Queue!ThreadInv, Queue!DequeuedByOne
    <3>3. /\ \A m \in Nodes : Queue!Live(m) =>
             /\ Queue!Live(m)' /\ newEra'[m] = newEra[m]
             /\ \A e : e <= globalEraClock /\ Queue!WithinLife(m, e)
                  => Queue!WithinLife(m, e)'
             /\ status[m] = "retired" => status'[m] = "retired"
             /\ next[m] # NULL => next'[m] = next[m]
             /\ m # next[tail] => m # next'[tail']
      BY <2>3, <2>4 DEF Queue!Live, Queue!WithinLife
    <3>4. CASE u # t
      <4>1. Queue!ThreadInv(u) /\ QueueSame(u) /\ Queue!ErasReached
        BY <1>0, <1>4, <3>4 DEF Queue!Scheme
      <4>2. Queue!LoadedLives(u)' /\ Queue!GuardedLives(u)' /\ Queue!NextCovered(u)'
        BY <1>0, <2>1, <2>3, <3>3, <4>1, QueueOtherSame
      <4> QED BY <3>1, <3>2, <4>2
    <3>5. CASE u = t
      <4>1. Queue!LoadedLives(t)' /\ Queue!NextCovered(t)'
        BY <2>3 DEF Queue!LoadedLives, Queue!NextCovered
      <4>2. Queue!Guards(t)' = {ptr[t]} /\ Queue!SlotOf(t, ptr[t])' = 0
        BY <2>3 DEF Queue!Guards, Queue!SlotOf
      <4>3. Queue!Live(ptr[t])' /\ Queue!Covers(t, 0, ptr[t])'
        BY <1>2, <1>7, <2>3, <2>4, <3>3 DEF Queue!Covers, Queue!WithinLife
      <4>4. Queue!GuardedLives(t)'
        BY <1>2, <2>2, <2>3, <4>2, <4>3
           DEF Queue!GuardedLives, Queue!FoundHead, n, Queue!SlotOf
      <4> QED BY <3>1, <3>2, <3>5, <4>1, <4>4
    <3> QED BY <3>4, <3>5
  <2> QED BY <1>3, <2>4, <2>5, <2>6, <2>7, QueueAgain
<1> QED BY <1>5, <1>6, <1>7

(* The exchange of a dequeue takes the node at the head out of the queue.  *)
LEMMA DeqCasInv ==
  ASSUME Queue!IInv, Queue!Defined, Queue!EnoughSlots, NEW t \in Queue!Threads,
         Queue!DeqCas(t)
  PROVE  Queue!IInv'
<1>0. /\ Queue!TypeOK /\ Queue!Scheme(QueueChecking) /\ Queue!MainAlone
      /\ (~Queue!Destroyed => Queue!QueueShape)
      /\ \A u \in Queue!Threads : Queue!ThreadInv(u)
  BY DEF Queue!IInv, QueueChecking
<1>1. /\ pc[t] = "deq.cas"
      /\ UNCHANGED <<next, item, Queue!heVars, Queue!eraFields, currEra, slot, tail, nxt,
                     retData, dangling, main>>
      /\ pc' \in [Queue!Threads -> Queue!Labels]
      /\ ptr' \in [Queue!Threads -> Queue!NodeOrNull]
      /\ node' \in [Queue!Threads -> Queue!NodeOrNull]
      /\ \A u \in Queue!Threads : u # t =>
           pc'[u] = pc[u] /\ ptr'[u] = ptr[u] /\ node'[u] = node[u]
      /\ IF head = node[t]
         THEN /\ head' = ptr[t] /\ UNCHANGED <<node, ptr>>
              /\ status' = [status EXCEPT ![node[t]] = "retired"]
              /\ pc'[t] = IF t \in dangling THEN "undefined" ELSE "deq.item"
         ELSE UNCHANGED <<head, status>> /\ pc'[t] = "deq.get"
  <2>1. /\ pc \in [Queue!Threads -> Queue!Labels] /\ "deq.get" \in Queue!Labels
        /\ "deq.item" \in Queue!Labels /\ "undefined" \in Queue!Labels
    BY <1>0 DEF Queue!TypeOK, Queue!Labels, Queue!DeqLabels
  <2>2. /\ ptr \in [Queue!Threads -> Queue!NodeOrNull]
        /\ node \in [Queue!Threads -> Queue!NodeOrNull]
        /\ NULL \in Queue!NodeOrNull
    BY <1>0 DEF Queue!TypeOK, Queue!HETypeOK, Queue!NodeOrNull
  <2>3. CASE head = node[t]
    BY <2>1, <2>2, <2>3 DEF Queue!DeqCas, Queue!GotoUsing, Queue!Goto
  <2>4. CASE head # node[t]
    BY <2>1, <2>2, <2>4 DEF Queue!DeqCas, Queue!Goto
  <2> QED BY <2>3, <2>4
<1>2. /\ node[t] \in Nodes
      /\ t \notin dangling =>
           /\ Queue!Live(node[t]) /\ ptr[t] = next[node[t]]
           /\ (node[t] = head /\ tail # head) \/ status[node[t]] = "retired"
           /\ status[node[t]] = "linked" => newEra[ptr[t]] <= hazardErasList[t][1]
  <2>1. Queue!Guards(t) = {node[t]} /\ Queue!FoundHead(t)
    BY <1>1 DEF Queue!Guards, Queue!FoundHead
  <2> QED BY <1>0, <1>1, <2>1
             DEF Queue!ThreadInv, Queue!GuardedLives, Queue!NextCovered
<1>3. Queue!TypeOK'
  <2>1. Queue!HeapTypeOK'
    BY <1>0, <1>1, <1>2 DEF Queue!TypeOK, Queue!HeapTypeOK, Queue!Statuses
  <2>2. Queue!HETypeOK'
    BY <1>0, <1>1
       DEF Queue!TypeOK, Queue!HETypeOK, Queue!heVars, Queue!eraFields
  <2>3. head' \in Queue!NodeOrNull
    BY <1>0, <1>1 DEF Queue!TypeOK, Queue!HETypeOK
  <2> QED BY <1>0, <1>1, <2>1, <2>2, <2>3 DEF Queue!TypeOK
<1>4. \A u \in Queue!Threads : u # t => QueueSame(u)
  BY <1>1 DEF QueueSame, Queue!heVars
<1>5. CASE head = node[t] /\ t \in dangling
  BY <1>1, <1>3, <1>5, QueueStrays DEF Queue!heVars
<1>6. CASE head # node[t]
  <2>1. /\ UNCHANGED <<Queue!heapVars, head, tail, globalEraClock, retiredPtrList,
                       retiredNodesCount, Queue!eraFields>>
        /\ currEra'[t] <= globalEraClock
        /\ \A s \in Queue!Slots : hazardErasList'[t][s] <= globalEraClock
    BY <1>0, <1>1, <1>6
       DEF Queue!heapVars, Queue!heVars, Queue!Scheme, Queue!ErasReached
  <2>2. /\ pc'[t] # "retire.check" /\ ~Queue!Enqueuing(t)' /\ ~Queue!Dequeued(t)'
        /\ Queue!LoadedLives(t)' /\ Queue!GuardedLives(t)' /\ Queue!NextCovered(t)'
    BY <1>1, <1>6
       DEF Queue!Enqueuing, Queue!EnqLabels, Queue!Dequeued, Queue!LoadedLives,
           Queue!GuardedLives, Queue!Guards, Queue!FoundTail, Queue!FoundHead,
           Queue!NextCovered
  <2>3. Queue!MainAlone' /\ (Queue!Destroyed => Queue!Destroyed')
    BY <1>0, <1>1, <1>6, ThreadsAssumption
       DEF Queue!MainAlone, Queue!EnqLabels, Queue!Destroyed, Queue!Threads
  <2> QED BY <1>3, <1>4, <2>1, <2>2, <2>3, QueueLocalInv
<1>7. CASE head = node[t] /\ t \notin dangling
  <2>1. Queue!QueueShape /\ ~Queue!Destroyed
    BY <1>0, <1>1, ThreadsAssumption
       DEF Queue!MainAlone, Queue!Destroyed, Queue!Threads
  <2>2. /\ head \in Nodes /\ status[head] = "linked" /\ tail # head
        /\ head' = next[head] /\ next[head] # NULL
        /\ newEra[next[head]] <= hazardErasList[t][1]
    <3>1. /\ head \in Nodes /\ status[head] = "linked"
          /\ tail \in Nodes /\ status[tail] = "linked"
      BY <2>1 DEF Queue!QueueShape
    <3>2. tail # head
      BY <1>2, <1>7, <3>1
    <3>3. next[head] # NULL
      BY <2>1, <3>1, <3>2, HeapAssumption DEF Queue!QueueShape
    <3> QED BY <1>1, <1>2, <1>7, <3>1, <3>2, <3>3
  <2>3. /\ next[head] \in Nodes /\ status[next[head]] = "linked"
        /\ next[head] # head
    BY <1>0, <2>1, <2>2
       DEF Queue!QueueShape, Queue!TypeOK, Queue!HeapTypeOK, Queue!NodeOrNull
  <2>4. /\ status'[head] = "retired"
        /\ \A m \in Nodes : m # head => status'[m] = status[m]
        /\ UNCHANGED <<next, tail, globalEraClock, hazardErasList, retiredPtrList,
                       retiredNodesCount, newEra, delEra, currEra, main, ptr,
                       node, nxt, dangling>>
        /\ pc'[t] = "deq.item" /\ node[t] = head /\ ptr[t] = next[head]
    <3>1. status \in [Nodes -> Queue!Statuses]
      BY <1>0 DEF Queue!TypeOK, Queue!HeapTypeOK
    <3>2. node[t] = head /\ ptr[t] = next[head]
      BY <1>2, <1>7
    <3>3. status' = [status EXCEPT ![head] = "retired"] /\ pc'[t] = "deq.item"
      BY <1>1, <1>7
    <3>4. UNCHANGED <<next, tail, globalEraClock, hazardErasList, retiredPtrList,
                      retiredNodesCount, newEra, delEra, currEra, main, ptr,
                      node, nxt, dangling>>
      BY <1>1, <1>7 DEF Queue!heVars, Queue!eraFields
    <3> QED BY <2>2, <3>1, <3>2, <3>3, <3>4
  <2>5. Queue!Scheme(QueueChecking)' /\ \A m : Queue!Listed(m)' <=> Queue!Listed(m)
    <3>1. \A m \in Nodes : status[m] = "retired" =>
            status'[m] = "retired" /\ delEra'[m] = delEra[m]
      BY <2>2, <2>4
    <3>2. \A m \in Nodes : newEra'[m] <= globalEraClock /\ delEra'[m] <= globalEraClock
      BY <1>0, <2>4 DEF Queue!Scheme, Queue!ErasReached
    <3>3. \A u \in Queue!Threads : pc'[u] = "retire.check" => pc[u] = "retire.check"
      BY <1>1, <2>4
    <3> QED BY <2>4, <3>1, <3>2, <3>3, QueueNothingEntered
  <2>6. Queue!QueueShape'
    <3>1. \A m \in Nodes : status'[m] = "linked" => m # head /\ status[m] = "linked"
      BY <2>4
    <3>2. tail \in Nodes /\ status'[tail] = "linked" /\ status'[next[head]] = "linked"
      BY <2>1, <2>2, <2>3, <2>4 DEF Queue!QueueShape
    <3>3. ASSUME NEW m \in Nodes, status'[m] = "linked", next[m] # NULL
          PROVE  /\ status'[next[m]] = "linked" /\ next[m] # next[head]
                 /\ \A k \in Nodes : status'[k] = "linked" /\ next[k] = next[m] => k = m
      <4>1. status[m] = "linked" /\ m # head
        BY <3>1, <3>3
      <4>2. status[next[m]] = "linked" /\ next[m] # head /\ next[m] \in Nodes
        BY <1>0, <2>1, <3>3, <4>1
           DEF Queue!QueueShape, Queue!TypeOK, Queue!HeapTypeOK,
               Queue!NodeOrNull
      <4>3. next[m] # next[head]
        BY <2>1, <2>2, <3>3, <4>1 DEF Queue!QueueShape
      <4> QED BY <2>1, <2>4, <3>1, <3>3, <4>1, <4>2, <4>3 DEF Queue!QueueShape
    <3>4. \A m \in Nodes : status'[m] = "linked" /\ next[m] = NULL =>
            m = tail \/ m = next[tail]
      BY <2>1, <3>1 DEF Queue!QueueShape
    <3>5. \A m \in Nodes : status'[m] = "retired" => next[m] # NULL
      BY <2>1, <2>2, <2>4 DEF Queue!QueueShape
    <3>6. next[tail] # NULL => next[next[tail]] = NULL
      BY <2>1 DEF Queue!QueueShape
    <3>7. \A m \in Nodes : status'[m] = "linked" /\ next'[m] # NULL =>
            /\ status'[next'[m]] = "linked" /\ next'[m] # head'
            /\ \A k \in Nodes : status'[k] = "linked" /\ next'[k] = next'[m] => k = m
      BY <2>2, <2>4, <3>3
    <3>8. head' = next[head] /\ next' = next /\ tail' = tail
      BY <2>2, <2>4
    <3> QED BY <2>3, <3>2, <3>4, <3>5, <3>6, <3>7, <3>8 DEF Queue!QueueShape
  <2>7. Queue!MainAlone'
    BY <1>0, <1>1, <2>4, ThreadsAssumption
       DEF Queue!MainAlone, Queue!EnqLabels, Queue!Threads
  <2>8. ASSUME NEW u \in Queue!Threads
        PROVE  /\ Queue!OwnsNode(u)' /\ Queue!DequeuedByOne(u)' /\ Queue!LoadedLives(u)'
               /\ Queue!GuardedLives(u)' /\ Queue!NextCovered(u)'
    <3>0. \A m : Queue!Listed(m) => m \in Nodes /\ status[m] = "retired"
      BY QueueListed
    <3>1. Queue!OwnsNode(u)'
      <4>1. \A v \in Queue!Threads : Queue!Enqueuing(v)' => Queue!Enqueuing(v)
        BY <1>1, <2>4 DEF Queue!Enqueuing, Queue!EnqLabels
      <4> QED BY <1>0, <2>2, <2>4, <4>1 DEF Queue!ThreadInv, Queue!OwnsNode
    <3>2. Queue!DequeuedByOne(u)'
      <4>1. \A v \in Queue!Threads : Queue!Dequeued(v)' => v = t \/ Queue!Dequeued(v)
        BY <1>1 DEF Queue!Dequeued
      <4>2. \A v \in Queue!Threads : Queue!Dequeued(v) => node[v] # head
        BY <1>0, <2>2 DEF Queue!ThreadInv, Queue!DequeuedByOne
      <4> QED BY <1>0, <2>2, <2>4, <2>5, <3>0, <4>1, <4>2
                 DEF Queue!ThreadInv, Queue!DequeuedByOne
    <3>3. \A m \in Nodes : Queue!Live(m) =>
           /\ Queue!Live(m)' /\ newEra'[m] = newEra[m]
           /\ \A e : e <= globalEraClock /\ Queue!WithinLife(m, e)
                => Queue!WithinLife(m, e)'
           /\ status[m] = "retired" => status'[m] = "retired"
           /\ next[m] # NULL => next'[m] = next[m]
           /\ m # next[tail] => m # next'[tail']
      BY <2>2, <2>4, <2>5 DEF Queue!Live, Queue!WithinLife
    <3>4. CASE u # t
      <4>1. Queue!ThreadInv(u) /\ QueueSame(u) /\ Queue!ErasReached
        BY <1>0, <1>4, <3>4 DEF Queue!Scheme
      <4>2. Queue!LoadedLives(u)' /\ Queue!GuardedLives(u)' /\ Queue!NextCovered(u)'
        BY <1>0, <2>1, <2>2, <2>3, <2>4, <3>3, <4>1, QueueOtherSame
      <4> QED BY <3>1, <3>2, <4>2
    <3>5. CASE u = t
      <4>1. Queue!LoadedLives(t)' /\ Queue!NextCovered(t)'
        BY <2>4 DEF Queue!LoadedLives, Queue!NextCovered
      <4>2. Queue!Guards(t)' = {ptr[t]} /\ Queue!SlotOf(t, ptr[t])' = 1
        BY <2>4 DEF Queue!Guards, Queue!SlotOf
      <4>3. Queue!Live(ptr[t])' /\ Queue!Covers(t, 1, ptr[t])'
        BY <2>2, <2>3, <2>4, <2>5, <3>0
           DEF Queue!Live, Queue!Covers, Queue!WithinLife
      <4>4. Queue!GuardedLives(t)'
        BY <2>3, <2>4, <4>2, <4>3
           DEF Queue!GuardedLives, Queue!FoundTail, Queue!FoundHead,
               Queue!SlotOf
      <4> QED BY <3>1, <3>2, <3>5, <4>1, <4>4
    <3> QED BY <3>4, <3>5
  <2> QED BY <1>3, <2>5, <2>6, <2>7, <2>8, QueueAgain
<1> QED BY <1>5, <1>6, <1>7

(* retireNode enters the dequeued node with the era of the clock.          *)
LEMMA DeqRetireInv ==
  ASSUME Queue!IInv, Queue!Defined, Queue!EnoughSlots, NEW t \in Queue!Threads,
         Queue!DeqRetire(t)
  PROVE  Queue!IInv'
<1>0. /\ Queue!TypeOK /\ Queue!Scheme(QueueChecking) /\ Queue!MainAlone
      /\ (~Queue!Destroyed => Queue!QueueShape)
      /\ \A u \in Queue!Threads : Queue!ThreadInv(u)
  BY DEF Queue!IInv, QueueChecking
<1>1. /\ pc[t] = "retire.era" /\ pc' = [pc EXCEPT ![t] = "retire.check"]
      /\ UNCHANGED <<status, next, item, globalEraClock, hazardErasList,
                     newEra, ptr, head, tail, node, nxt, retData, dangling, main>>
      /\ Queue!RetirePush(t, node[t], "retire.era", "retire.check")
      /\ currEra' = [currEra EXCEPT ![t] = globalEraClock]
  BY DEF Queue!DeqRetire, Queue!RetirePush, Queue!Goto, Queue!heapVars,
         Queue!locals, Queue!ends
<1>2. Queue!Dequeued(t) /\ Queue!DequeuedByOne(t)
  BY <1>0, <1>1 DEF Queue!ThreadInv, Queue!Dequeued
<1>3. /\ Queue!Scheme(QueueChecking)' /\ Queue!HETypeOK'
      /\ \A m : Queue!Listed(m)' <=> Queue!Listed(m) \/ m = node[t]
      /\ \A m, e : e <= globalEraClock /\ Queue!WithinLife(m, e)
           => Queue!WithinLife(m, e)'
  <2>1. /\ Queue!HETypeOK /\ pc \in [Queue!Threads -> Queue!Labels]
        /\ node[t] \in Nodes /\ status[node[t]] = "retired" /\ ~Queue!Listed(node[t])
    BY <1>0, <1>2 DEF Queue!TypeOK, Queue!DequeuedByOne
  <2>2. UNCHANGED main /\ Queue!Scheme(QueueChecking)
    BY <1>0, <1>1
  <2>3. Queue!RetirePush(t, node[t], "retire.era", "retire.check")
    BY <1>1
  <2> HIDE DEF QueueChecking
  <2> QED BY <2>1, <2>2, <2>3, QueuePushEffect
<1>4. Queue!TypeOK'
  <2>1. pc' \in [Queue!Threads -> Queue!Labels] /\ Queue!HeapTypeOK'
    BY <1>0, <1>1
       DEF Queue!TypeOK, Queue!HeapTypeOK, Queue!Labels, Queue!DeqLabels
  <2> QED BY <1>0, <1>1, <1>3, <2>1 DEF Queue!TypeOK
<1>5. Queue!MainAlone' /\ ~Queue!Destroyed
  BY <1>0, <1>1, ThreadsAssumption
     DEF Queue!TypeOK, Queue!MainAlone, Queue!EnqLabels, Queue!Destroyed,
         Queue!Threads
<1>6. Queue!QueueShape /\ Queue!QueueShape'
  BY <1>0, <1>1, <1>5 DEF Queue!QueueShape
<1>7. \A u \in Queue!Threads : /\ pc'[u] = IF u = t THEN "retire.check" ELSE pc[u]
                               /\ u # t => QueueSame(u)
  BY <1>0, <1>1 DEF Queue!TypeOK, Queue!HETypeOK, QueueSame
<1>8. ASSUME NEW u \in Queue!Threads
      PROVE  /\ Queue!OwnsNode(u)' /\ Queue!DequeuedByOne(u)' /\ Queue!LoadedLives(u)'
             /\ Queue!GuardedLives(u)' /\ Queue!NextCovered(u)'
  <2>1. Queue!OwnsNode(u)'
    <3>1. \A v \in Queue!Threads : Queue!Enqueuing(v)' => Queue!Enqueuing(v)
      BY <1>7 DEF Queue!Enqueuing, Queue!EnqLabels
    <3> QED BY <1>0, <1>1, <3>1 DEF Queue!ThreadInv, Queue!OwnsNode
  <2>2. Queue!DequeuedByOne(u)'
    <3>1. \A v \in Queue!Threads : Queue!Dequeued(v)' => Queue!Dequeued(v) /\ v # t
      BY <1>7 DEF Queue!Dequeued
    <3> QED BY <1>0, <1>1, <1>2, <1>3, <3>1
               DEF Queue!ThreadInv, Queue!DequeuedByOne
  <2>3. CASE u = t
    BY <1>7, <2>1, <2>2, <2>3
       DEF Queue!LoadedLives, Queue!GuardedLives, Queue!Guards,
           Queue!FoundTail, Queue!FoundHead, Queue!NextCovered
  <2>4. CASE u # t
    <3>1. Queue!ThreadInv(u) /\ QueueSame(u) /\ Queue!ErasReached
      BY <1>0, <1>7, <2>4 DEF Queue!Scheme
    <3>2. \A m \in Nodes : Queue!Live(m) =>
           /\ Queue!Live(m)' /\ newEra'[m] = newEra[m]
           /\ \A e : e <= globalEraClock /\ Queue!WithinLife(m, e)
                => Queue!WithinLife(m, e)'
           /\ status[m] = "retired" => status'[m] = "retired"
           /\ next[m] # NULL => next'[m] = next[m]
           /\ m # next[tail] => m # next'[tail']
      BY <1>1, <1>3 DEF Queue!Live
    <3>3. Queue!LoadedLives(u)' /\ Queue!GuardedLives(u)' /\ Queue!NextCovered(u)'
      BY <1>0, <1>1, <1>6, <3>1, <3>2, QueueOtherSame
    <3> QED BY <2>1, <2>2, <3>3
  <2> QED BY <2>3, <2>4
<1> QED BY <1>3, <1>4, <1>5, <1>6, <1>8, QueueAgain

(* What a sweep changes of the queue: nothing but the nodes it deletes,    *)
(* which are retired, listed, and not what a thread that may still find    *)
(* the clock in its era has loaded.                                        *)
LEMMA QueueSweepInv ==
  ASSUME Queue!IInv, Queue!Defined, Queue!EnoughSlots, NEW t \in Queue!Threads,
         Queue!Sweep(t), Queue!DeqSweep(t),
         UNCHANGED <<hazardErasList, ptr, slot, head, tail, node, nxt, retData, main>>,
         \/ globalEraClock' = globalEraClock + 1
         \/ /\ pc[t] = "retire.check" /\ globalEraClock # currEra[t]
            /\ UNCHANGED globalEraClock,
         pc[t] \in {"retire.check", "retire.add"},
         pc' = [pc EXCEPT ![t] = "clear"]
  PROVE  Queue!IInv'
<1>0. /\ Queue!TypeOK /\ Queue!Scheme(QueueChecking) /\ Queue!MainAlone
      /\ (~Queue!Destroyed => Queue!QueueShape)
      /\ \A u \in Queue!Threads : Queue!ThreadInv(u)
  BY DEF Queue!IInv, QueueChecking
<1>1. \A u \in Queue!Threads : pc'[u] = IF u = t THEN "clear" ELSE pc[u]
  BY <1>0 DEF Queue!TypeOK
<1>2. ~Queue!Destroyed /\ Queue!QueueShape
  BY <1>0, ThreadsAssumption
     DEF Queue!MainAlone, Queue!Destroyed, Queue!Threads
<1>3. /\ Queue!Scheme(QueueChecking)' /\ Queue!HETypeOK'
      /\ \A n \in Queue!Removed(t) : n \in Nodes /\ Queue!Listed(n)
           /\ status[n] = "retired"
      /\ \A n : Queue!Listed(n)' <=> Queue!Listed(n) /\ n \notin Queue!Removed(t)
      /\ \A n \in Nodes :
           IF n \in Queue!Removed(t) THEN status'[n] = "free"
           ELSE /\ status'[n] = status[n] /\ next'[n] = next[n]
                /\ item'[n] = item[n]
                /\ newEra'[n] = newEra[n] /\ delEra'[n] = delEra[n]
  <2>1. \A u \in Queue!Threads : pc'[u] \in QueueChecking => u # t
          /\ pc[u] \in QueueChecking
    BY <1>1 DEF QueueChecking
  <2>2. Queue!HETypeOK /\ globalEraClock' \in {globalEraClock, globalEraClock + 1}
    BY <1>0 DEF Queue!TypeOK
  <2> HIDE DEF QueueChecking
  <2> QED BY <1>0, <1>2, <2>1, <2>2, QueueSweepEffect
<1>4. dangling' = dangling \cup {u \in Queue!Threads : \E n \in Queue!Guards(u) :
                                 status[n] # "free" /\ status'[n] = "free"}
  BY DEF Queue!DeqSweep
<1>5. Queue!TypeOK'
  <2>1. Queue!HeapTypeOK'
    BY <1>0
       DEF Queue!Sweep, Queue!DeleteInEra, Queue!Delete, Queue!TypeOK,
           Queue!HeapTypeOK, Queue!NodeOrNull, Queue!Statuses
  <2>2. pc' \in [Queue!Threads -> Queue!Labels] /\ dangling' \subseteq Queue!Threads
    BY <1>0, <1>4 DEF Queue!TypeOK, Queue!Labels
  <2> QED BY <1>0, <1>3, <2>1, <2>2 DEF Queue!TypeOK
<1>6. Queue!QueueShape'
  <2>1. \A n \in Nodes : status'[n] \in {"linked", "retired"} =>
          n \notin Queue!Removed(t) /\ status[n] = status'[n] /\ next'[n] = next[n]
    BY <1>3
  <2>2. \A n \in Nodes : status[n] = "linked" =>
          status'[n] = "linked" /\ next'[n] = next[n]
    BY <1>3
  <2>3. \A n \in Nodes : next[n] \in Queue!NodeOrNull
    BY <1>0 DEF Queue!TypeOK, Queue!HeapTypeOK
  <2>4. next[tail] # NULL => status[next[tail]] = "linked" /\ next[tail] \in Nodes
    BY <1>2, <2>3 DEF Queue!QueueShape, Queue!NodeOrNull
  <2> QED BY <1>2, <2>1, <2>2, <2>3, <2>4
             DEF Queue!QueueShape, Queue!NodeOrNull
<1>7. Queue!MainAlone'
  BY <1>0, <1>1 DEF Queue!MainAlone, Queue!EnqLabels
<1>8. ASSUME NEW u \in Queue!Threads
      PROVE  /\ Queue!OwnsNode(u)' /\ Queue!DequeuedByOne(u)' /\ Queue!LoadedLives(u)'
             /\ Queue!GuardedLives(u)' /\ Queue!NextCovered(u)'
  <2>1. Queue!OwnsNode(u)'
    <3>1. \A v \in Queue!Threads : Queue!Enqueuing(v)' => Queue!Enqueuing(v)
      BY <1>1 DEF Queue!Enqueuing, Queue!EnqLabels
    <3> QED BY <1>0, <1>3, <3>1 DEF Queue!ThreadInv, Queue!OwnsNode
  <2>2. Queue!DequeuedByOne(u)'
    <3>1. \A v \in Queue!Threads : Queue!Dequeued(v)' => Queue!Dequeued(v)
      BY <1>1 DEF Queue!Dequeued
    <3> QED BY <1>0, <1>3, <3>1 DEF Queue!ThreadInv, Queue!DequeuedByOne
  <2>3. CASE u = t
    BY <1>1, <2>1, <2>2, <2>3
       DEF Queue!LoadedLives, Queue!GuardedLives, Queue!Guards,
           Queue!FoundTail, Queue!FoundHead, Queue!NextCovered
  <2>4. CASE u # t
    <3>1. Queue!ThreadInv(u) /\ QueueSame(u) /\ Queue!ErasReached /\ Queue!HETypeOK
      <4>1. currEra'[u] = currEra[u]
        BY <1>0, <2>4 DEF Queue!Sweep, Queue!TypeOK, Queue!HETypeOK
      <4> QED BY <1>0, <1>1, <1>4, <2>4, <4>1
                 DEF Queue!Scheme, QueueSame, Queue!TypeOK
    <3>2. \A n \in Queue!Guards(u) : n \in Queue!Removed(t) => u \in dangling'
      BY <1>3, <1>4
    <3>3. ASSUME pc[u] \in {"enq.clock", "deq.clock"},
                 globalEraClock' = hazardErasList[u][0]
          PROVE  globalEraClock' = globalEraClock /\ ptr[u] \notin Queue!Removed(t)
      <4>1. globalEraClock' = globalEraClock
        BY <1>0, <3>1, <3>3, QueueFirstSlot
           DEF Queue!HETypeOK, Queue!ErasReached
      <4>2. Queue!EraFits(u, 0, ptr[u])
        BY <3>1, <3>3, <4>1 DEF Queue!ThreadInv, Queue!LoadedLives
      <4> QED BY <1>0, <3>1, <3>3, <4>1, <4>2, QueueFirstSlot, QueueSweepSpares
                 DEF QueueChecking
    <3>4. \A m \in Nodes : Queue!Live(m) /\ m \notin Queue!Removed(t) =>
           /\ Queue!Live(m)' /\ newEra'[m] = newEra[m]
           /\ \A e : e <= globalEraClock /\ Queue!WithinLife(m, e)
                => Queue!WithinLife(m, e)'
           /\ status[m] = "retired" => status'[m] = "retired"
           /\ next[m] # NULL => next'[m] = next[m]
           /\ m # next[tail] => m # next'[tail']
      <4>1. tail \in Nodes /\ next'[tail] = next[tail]
        BY <1>2, <1>3 DEF Queue!QueueShape
      <4> QED BY <1>3, <4>1 DEF Queue!Live, Queue!WithinLife
    <3>5. \A n \in Queue!Removed(t) : status[n] = "retired"
      BY <1>3
    <3>6. Queue!LoadedLives(u)' /\ Queue!GuardedLives(u)' /\ Queue!NextCovered(u)'
      BY <1>0, <1>2, <3>1, <3>2, <3>3, <3>4, <3>5, QueueOtherInv
    <3> QED BY <2>1, <2>2, <3>6
  <2> QED BY <2>3, <2>4
<1> QED BY <1>3, <1>5, <1>6, <1>7, <1>8, QueueAgain

(* The second look at the clock, which decides whether it is advanced      *)
(* before the sweep.                                                       *)
LEMMA DeqSweepInv ==
  ASSUME Queue!IInv, Queue!Defined, Queue!EnoughSlots, NEW t \in Queue!Threads,
         Queue!DeqSweep(t)
  PROVE  Queue!IInv'
<1>1. /\ Queue!TypeOK /\ Queue!Scheme(QueueChecking) /\ Queue!MainAlone
      /\ Queue!ThreadInv(t)
  BY DEF Queue!IInv, QueueChecking
<1>2. CASE Queue!RetireAdd(t, "retire.add", "clear")
  BY <1>2, QueueSweepInv
     DEF Queue!RetireAdd, Queue!DeqSweep, Queue!Goto, Queue!locals, Queue!ends
<1>3. CASE Queue!RetireCheck(t, "retire.check", "retire.add", "clear")
             /\ globalEraClock # currEra[t]
  BY <1>3, QueueSweepInv
     DEF Queue!RetireCheck, Queue!DeqSweep, Queue!Goto, Queue!locals,
         Queue!ends
<1>4. CASE Queue!RetireCheck(t, "retire.check", "retire.add", "clear")
             /\ globalEraClock = currEra[t]
  <2>1. /\ UNCHANGED <<Queue!heapVars, head, tail, globalEraClock, retiredPtrList,
                       retiredNodesCount, Queue!eraFields, currEra, hazardErasList,
                       ptr, slot, node, nxt, retData, main>>
        /\ pc[t] = "retire.check" /\ pc' = [pc EXCEPT ![t] = "retire.add"]
    BY <1>4
       DEF Queue!DeqSweep, Queue!RetireCheck, Queue!Goto, Queue!locals,
           Queue!ends
  <2>2. dangling' = dangling
    BY <2>1 DEF Queue!DeqSweep, Queue!heapVars
  <2>3. Queue!TypeOK'
    <3>1. Queue!HeapTypeOK' /\ Queue!HETypeOK'
      BY <1>1, <2>1
         DEF Queue!TypeOK, Queue!HeapTypeOK, Queue!HETypeOK, Queue!heapVars,
             Queue!eraFields
    <3>2. pc' \in [Queue!Threads -> Queue!Labels]
      BY <1>1, <2>1 DEF Queue!TypeOK, Queue!Labels, Queue!DeqLabels
    <3> QED BY <1>1, <2>1, <2>2, <3>1, <3>2 DEF Queue!TypeOK
  <2>4. \A u \in Queue!Threads : u # t => QueueSame(u)
    BY <1>1, <2>1, <2>2 DEF QueueSame, Queue!TypeOK
  <2>5. /\ currEra'[t] <= globalEraClock
        /\ \A s \in Queue!Slots : hazardErasList'[t][s] <= globalEraClock
    BY <1>1, <2>1 DEF Queue!Scheme, Queue!ErasReached
  <2>6. /\ pc'[t] = "retire.add" /\ ~Queue!Enqueuing(t)' /\ ~Queue!Dequeued(t)'
        /\ Queue!LoadedLives(t)' /\ Queue!GuardedLives(t)' /\ Queue!NextCovered(t)'
    BY <1>1, <2>1
       DEF Queue!TypeOK, Queue!EnqLabels, Queue!Enqueuing, Queue!Dequeued,
           Queue!LoadedLives, Queue!GuardedLives, Queue!Guards,
           Queue!FoundTail, Queue!FoundHead, Queue!NextCovered
  <2>7. Queue!MainAlone' /\ (Queue!Destroyed => Queue!Destroyed')
    BY <1>1, <2>1, <2>6, ThreadsAssumption
       DEF Queue!TypeOK, Queue!MainAlone, Queue!EnqLabels, Queue!Destroyed,
           Queue!Threads
  <2> QED BY <2>1, <2>3, <2>4, <2>5, <2>6, <2>7, QueueLocalInv
<1> QED BY <1>2, <1>3, <1>4 DEF Queue!DeqSweep

(* The destructors run alone.                                              *)
LEMMA QueueDestroyInv ==
  ASSUME Queue!IInv, Queue!Defined, Queue!Destroy
  PROVE  Queue!IInv'
<1>1. /\ Queue!TypeOK /\ Queue!Scheme(QueueChecking) /\ Queue!MainAlone
  BY DEF Queue!IInv, QueueChecking
<1> DEFINE Dead == {n \in Nodes : n = head \/ \E t \in Queue!Threads : n \in Queue!Retired(t)}
<1>2. /\ main = "deleting" /\ main' = "destroyed" /\ head' = NULL /\ tail' = NULL
      /\ retiredPtrList' = [t \in Queue!Threads |-> <<>>]
      /\ UNCHANGED <<pc, globalEraClock, hazardErasList, retiredNodesCount, ptr,
                     currEra, slot, node, nxt, retData, dangling>>
      /\ Queue!DeleteInEra(Dead)
  BY DEF Queue!Destroy, Queue!DeleteStructure, Queue!heLocals, Queue!locals
<1>3. \A u \in Queue!Threads : pc'[u] \in {"idle", "exited"} /\ pc'[u] = pc[u]
  BY <1>1, <1>2 DEF Queue!MainAlone
<1> HIDE DEF Dead
<1>4. Queue!TypeOK'
  <2>1. Queue!HeapTypeOK'
    BY <1>1, <1>2
       DEF Queue!DeleteInEra, Queue!Delete, Queue!TypeOK, Queue!HeapTypeOK,
           Queue!NodeOrNull, Queue!Statuses
  <2>2. Queue!HETypeOK'
    BY <1>1, <1>2
       DEF Queue!DeleteInEra, Queue!ForgetEras, Queue!TypeOK, Queue!HETypeOK
  <2> QED BY <1>1, <1>2, <2>1, <2>2
             DEF Queue!TypeOK, Queue!NodeOrNull, Queue!MainStates
<1>5. Queue!Scheme(QueueChecking)'
  <2>1. Queue!RetiredOnce' /\ Queue!CountsRetired'
    BY <1>2 DEF Queue!RetiredOnce, Queue!CountsRetired, Queue!Destroyed
  <2>2. Queue!ErasReached'
    BY <1>1, <1>2
       DEF Queue!DeleteInEra, Queue!ForgetEras, Queue!TypeOK, Queue!HETypeOK,
           Queue!Scheme, Queue!ErasReached
  <2>3. Queue!RetiredBefore(QueueChecking)'
    BY <1>3 DEF Queue!RetiredBefore, QueueChecking
  <2> QED BY <2>1, <2>2, <2>3 DEF Queue!Scheme
<1>6. Queue!Destroyed'
  BY <1>2 DEF Queue!Destroyed
<1>7. Queue!MainAlone'
  BY <1>1, <1>2 DEF Queue!MainAlone
<1>8. ASSUME NEW u \in Queue!Threads
      PROVE  /\ Queue!OwnsNode(u)' /\ Queue!DequeuedByOne(u)' /\ Queue!LoadedLives(u)'
             /\ Queue!GuardedLives(u)' /\ Queue!NextCovered(u)'
  BY <1>3
     DEF Queue!OwnsNode, Queue!Enqueuing, Queue!EnqLabels, Queue!DequeuedByOne,
         Queue!Dequeued, Queue!LoadedLives, Queue!GuardedLives, Queue!Guards,
         Queue!FoundTail, Queue!FoundHead, Queue!NextCovered
<1> QED BY <1>4, <1>5, <1>6, <1>7, <1>8, QueueAgain

(* A system that has stopped stays as it is.                               *)
LEMMA QueueStutters == Queue!IInv /\ UNCHANGED Queue!vars => Queue!IInv'
<1> SUFFICES ASSUME Queue!IInv, UNCHANGED Queue!vars PROVE Queue!IInv'
  OBVIOUS
<1> USE DEF Queue!vars, Queue!heapVars, Queue!heVars, Queue!eraFields,
            Queue!heLocals, Queue!ends, Queue!locals
<1>0. \A u \in Queue!Threads : Queue!Guards(u)' = Queue!Guards(u)
        /\ \A n : Queue!SlotOf(u, n)' = Queue!SlotOf(u, n)
  BY DEF Queue!Guards, Queue!SlotOf
<1>1. Queue!TypeOK' /\ Queue!EraCovers'
  BY <1>0
     DEF Queue!IInv, Queue!TypeOK, Queue!HeapTypeOK, Queue!HETypeOK,
         Queue!EraCovers, Queue!Retired
<1>2. Queue!Defined' <=> Queue!Defined
  BY DEF Queue!Defined
<1>3. ASSUME Queue!Defined
      PROVE  /\ Queue!Scheme({"retire.check"})' /\ Queue!MainAlone'
             /\ ~Queue!Destroyed' => Queue!QueueShape'
  BY <1>3
     DEF Queue!IInv, Queue!Scheme, Queue!RetiredOnce, Queue!CountsRetired,
         Queue!Destroyed, Queue!ErasReached, Queue!RetiredBefore,
         Queue!Retired, Queue!QueueShape, Queue!MainAlone
<1>4. ASSUME Queue!Defined, NEW u \in Queue!Threads PROVE Queue!ThreadInv(u)'
  <2>1. Queue!OwnsNode(u)' /\ Queue!DequeuedByOne(u)' /\ Queue!LoadedLives(u)'
          /\ Queue!NextCovered(u)'
    BY <1>4
       DEF Queue!IInv, Queue!ThreadInv, Queue!OwnsNode, Queue!Enqueuing,
           Queue!DequeuedByOne, Queue!Dequeued, Queue!LoadedLives,
           Queue!NextCovered, Queue!Live, Queue!EraFits, Queue!WithinLife,
           Queue!Listed, Queue!Retired
  <2>2. Queue!GuardedLives(u)'
    BY <1>0, <1>4
       DEF Queue!IInv, Queue!ThreadInv, Queue!GuardedLives, Queue!FoundTail,
           Queue!FoundHead, Queue!Live, Queue!Covers, Queue!WithinLife,
           Queue!Listed, Queue!Retired
  <2> QED BY <2>1, <2>2 DEF Queue!ThreadInv
<1> QED BY <1>1, <1>2, <1>3, <1>4 DEF Queue!IInv

(* Every step keeps the invariant.                                         *)
LEMMA QueueNextInv == Queue!EnoughSlots /\ Queue!IInv
                        /\ [Queue!Next]_(Queue!vars) => Queue!IInv'
<1> SUFFICES ASSUME Queue!EnoughSlots, Queue!IInv, [Queue!Next]_(Queue!vars)
             PROVE Queue!IInv'
  OBVIOUS
<1>1. ASSUME Queue!Defined, NEW t \in Queue!Threads, Queue!ThreadStep(t)
      PROVE Queue!IInv'
  BY <1>1, EnqCallInv, EnqProtectInv, EnqCheckInv, EnqNextInv, EnqLinkInv,
     EnqSwingInv, DeqCallInv, DeqProtectInv, DeqTailInv, DeqGetNextInv,
     DeqProtectNextInv, DeqCasInv, DeqItemInv, DeqRetireInv, DeqSweepInv,
     QueueReturnInv, QueueMainInv
     DEF Queue!ThreadStep, Queue!EnqStep, Queue!DeqStep
<1>2. ASSUME Queue!Defined, Queue!Quit \/ Queue!Join PROVE Queue!IInv'
  <2>1. 0 \in Queue!Threads
    BY ThreadsAssumption DEF Queue!Threads
  <2> QED BY <1>2, <2>1, QueueMainInv
<1> QED BY <1>1, <1>2, QueueDestroyInv, QueueStutters
           DEF Queue!Next, Queue!MainStep, Queue!Finished

(* The shape of the queue as lemmas about links know it.                   *)
LEMMA QueueWithin ==
  ASSUME Queue!IInv, Queue!Defined
  PROVE  /\ Queue!Linked \in SUBSET Nodes
         /\ ~Queue!Destroyed => Within(next, Queue!Linked)
              /\ head \in Queue!Linked /\ tail \in Queue!Linked
         /\ retiredPtrList \in [Queue!Threads -> Seq(Nodes)]
         /\ \A n : Queue!Listed(n) => n \in Nodes /\ status[n] = "retired"
<1>1. Queue!TypeOK /\ (~Queue!Destroyed => Queue!QueueShape)
        /\ Queue!Scheme(QueueChecking)
  BY DEF Queue!IInv, QueueChecking
<1>2. ~Queue!Destroyed => Within(next, Queue!Linked) /\ head \in Queue!Linked
        /\ tail \in Queue!Linked
  BY <1>1
     DEF Queue!TypeOK, Queue!HeapTypeOK, Queue!NodeOrNull, Queue!QueueShape,
         Within, Queue!Linked
<1>3. retiredPtrList \in [Queue!Threads -> Seq(Nodes)] /\ Queue!RetiredOnce
  BY <1>1 DEF Queue!TypeOK, Queue!HETypeOK, Queue!Scheme
<1>4. \A n : Queue!Listed(n) => n \in Nodes /\ status[n] = "retired"
  BY <1>3, QueueOneEntry
<1> QED BY <1>2, <1>3, <1>4 DEF Queue!Linked

(* A step that links no node anew and takes none out of the queue.         *)
LEMMA QueueKeeps ==
  ASSUME Queue!IInv, Queue!Defined, Queue!Placed,
         Queue!Destroyed => Queue!Destroyed', head' = head,
         Queue!Linked' = Queue!Linked, \A n \in Queue!Linked : next'[n] = next[n],
         \A n \in Nodes : status'[n] = "private"
           => \E t \in Queue!Threads : Queue!Holds(t, n)',
         \A n \in Nodes : status'[n] = "retired" =>
           Queue!Listed(n)' \/ \E t \in Queue!Threads : Queue!Holds(t, n)'
  PROVE  Queue!Placed'
<1>1. ASSUME ~Queue!Destroyed' PROVE Queue!Reaches(head, next, Queue!Linked)'
  <2>1. Queue!Reaches(head, next, Queue!Linked) /\ ~Queue!Destroyed
    BY <1>1 DEF Queue!Placed
  <2>2. Queue!Reaches(head, next', Queue!Linked)
    BY <2>1, QueueReachesWithin, QueueWithin
  <2> QED BY <2>2 DEF Queue!Reaches, Queue!Closed
<1> QED BY <1>1 DEF Queue!Placed

(* A step that leaves what is held with who holds it.                      *)
LEMMA QueueStays ==
  ASSUME Queue!IInv, Queue!Defined, Queue!Placed,
         UNCHANGED <<status, next, retiredPtrList, head>>,
         Queue!Destroyed => Queue!Destroyed',
         \A n \in Nodes, t \in Queue!Threads : Queue!Holds(t, n) => Queue!Holds(t, n)'
  PROVE  Queue!Placed'
<1>1. Queue!Linked' = Queue!Linked /\ \A n \in Queue!Linked : next'[n] = next[n]
  BY DEF Queue!Linked
<1>2. \A n : Queue!Listed(n)' <=> Queue!Listed(n)
  BY DEF Queue!Listed, Queue!Retired
<1> QED BY <1>1, <1>2, QueueKeeps DEF Queue!Placed

(* After the use of a deleted node nothing is promised.                    *)
LEMMA QueueStrayPlaces ==
  ASSUME NEW t \in Queue!Threads, pc'[t] = "undefined"
  PROVE  Queue!Placed'
BY DEF Queue!Placed, Queue!Defined

(* Most steps of an operation are of that kind.                            *)
LEMMA QueueMovesPlace ==
  ASSUME Queue!IInv, Queue!Defined, Queue!Placed, NEW t \in Queue!Threads,
         \/ Queue!EnqProtect(t) \/ Queue!EnqCheck(t) \/ Queue!EnqNext(t)
              \/ Queue!EnqHelp(t) \/ Queue!EnqSwing(t)
         \/ Queue!DeqCall(t) \/ Queue!DeqProtect(t) \/ Queue!DeqTail(t)
              \/ Queue!DeqGetNext(t)
         \/ Queue!DeqProtectNext(t) \/ Queue!DeqItem(t) \/ Queue!Return(t)
              \/ Queue!ThreadExit(t)
  PROVE  Queue!Placed'
<1>1. Queue!TypeOK
  BY DEF Queue!IInv
<1>2. /\ UNCHANGED <<status, next, retiredPtrList, head>>
      /\ Queue!Destroyed => Queue!Destroyed'
  BY DEF Queue!EnqProtect, Queue!EnqCheck, Queue!EnqNext, Queue!EnqHelp,
         Queue!EnqSwing, Queue!DeqCall, Queue!DeqProtect, Queue!DeqTail,
         Queue!DeqGetNext, Queue!DeqProtectNext, Queue!DeqItem,
         Queue!ProtectLoad, Queue!ProtectClock, Queue!ProtectPublish,
         Queue!Return, Queue!ReturnItem, Queue!ThreadExit, Queue!LeaveLoop,
         Queue!Destroyed, Queue!heapVars, Queue!heVars, Queue!ends, Queue!Goto
<1>3. CASE pc'[t] = "undefined"
  BY <1>3, QueueStrayPlaces
<1>4. ASSUME pc'[t] # "undefined", NEW n \in Nodes, NEW u \in Queue!Threads,
             Queue!Holds(u, n)
      PROVE  Queue!Holds(u, n)'
  <2>1. CASE Queue!EnqProtect(t) \/ Queue!DeqProtect(t) \/ Queue!DeqProtectNext(t)
    BY <1>1, <1>4, <2>1
       DEF Queue!Holds, Queue!TypeOK, Queue!EnqLabels, Queue!EnqProtect,
           Queue!DeqProtect, Queue!DeqProtectNext, Queue!ProtectLoad,
           Queue!ProtectClock, Queue!ProtectPublish, Queue!locals, Queue!Goto
  <2>2. CASE Queue!EnqCheck(t) \/ Queue!EnqNext(t) \/ Queue!EnqHelp(t)
               \/ Queue!EnqSwing(t)
    BY <1>1, <1>4, <2>2
       DEF Queue!Holds, Queue!TypeOK, Queue!EnqLabels, Queue!EnqCheck,
           Queue!EnqNext, Queue!EnqHelp, Queue!EnqSwing, Queue!locals,
           Queue!Goto, Queue!GotoUsing
  <2>3. CASE Queue!DeqCall(t) \/ Queue!DeqTail(t) \/ Queue!DeqGetNext(t)
               \/ Queue!DeqItem(t)
    BY <1>1, <1>4, <2>3
       DEF Queue!Holds, Queue!TypeOK, Queue!EnqLabels, Queue!DeqCall,
           Queue!DeqTail, Queue!DeqGetNext, Queue!DeqItem, Queue!locals,
           Queue!Goto, Queue!GotoUsing
  <2>4. CASE Queue!Return(t) \/ Queue!ThreadExit(t)
    BY <1>1, <1>4, <2>4
       DEF Queue!Holds, Queue!TypeOK, Queue!EnqLabels, Queue!Return,
           Queue!ClearSlot, Queue!ThreadExit, Queue!LeaveLoop, Queue!locals,
           Queue!Goto
  <2> QED BY <2>1, <2>2, <2>3, <2>4
<1> QED BY <1>2, <1>3, <1>4, QueueStays

(* A new node is in the hands of its enqueue.                              *)
LEMMA EnqCallPlaces ==
  ASSUME Queue!IInv, Queue!Defined, Queue!Placed, NEW t \in Queue!Threads,
         Queue!EnqCall(t)
  PROVE  Queue!Placed'
<1>1. PICK n \in Nodes, i \in Items :
        Queue!NewInEra(n, i) /\ node' = [node EXCEPT ![t] = n]
  BY DEF Queue!EnqCall
<1>2. /\ UNCHANGED <<head, retiredPtrList, main>> /\ pc[t] = "idle"
      /\ pc' = [pc EXCEPT ![t] = "enq.get"] /\ Queue!TypeOK
  BY DEF Queue!EnqCall, Queue!Goto, Queue!heVars, Queue!ends, Queue!IInv
<1>3. /\ status[n] = "free" /\ status' = [status EXCEPT ![n] = "private"]
      /\ \A m \in Nodes : m # n => status'[m] = status[m] /\ next'[m] = next[m]
  BY <1>1, <1>2 DEF Queue!NewInEra, Queue!New, Queue!TypeOK, Queue!HeapTypeOK
<1>4. Queue!Linked' = Queue!Linked /\ \A m \in Queue!Linked : next'[m] = next[m]
  BY <1>2, <1>3 DEF Queue!Linked, Queue!TypeOK, Queue!HeapTypeOK
<1>5. Queue!Holds(t, n)'
  BY <1>1, <1>2 DEF Queue!Holds, Queue!EnqLabels, Queue!TypeOK
<1>6. ASSUME NEW m \in Nodes, NEW u \in Queue!Threads, Queue!Holds(u, m)
      PROVE  Queue!Holds(u, m)'
  BY <1>1, <1>2, <1>6 DEF Queue!Holds, Queue!EnqLabels, Queue!TypeOK
<1>7. \A m : Queue!Listed(m)' <=> Queue!Listed(m)
  BY <1>2 DEF Queue!Listed, Queue!Retired
<1>8. status'[n] = "private"
  BY <1>2, <1>3 DEF Queue!TypeOK, Queue!HeapTypeOK
<1> QED BY <1>2, <1>3, <1>4, <1>5, <1>6, <1>7, <1>8, QueueKeeps
           DEF Queue!Placed, Queue!Destroyed

(* The exchange of an enqueue hands its node over to the queue.            *)
LEMMA EnqLinkPlaces ==
  ASSUME Queue!IInv, Queue!Defined, Queue!Placed, NEW t \in Queue!Threads,
         Queue!EnqLink(t)
  PROVE  Queue!Placed'
<1>0. /\ Queue!TypeOK /\ Queue!OwnsNode(t) /\ Queue!GuardedLives(t)
      /\ pc[t] = "enq.link"
      /\ (~Queue!Destroyed => Queue!QueueShape) /\ Queue!MainAlone
  BY DEF Queue!IInv, Queue!ThreadInv, Queue!EnqLink, Queue!GotoUsing,
         Queue!Goto
<1>1. CASE t \in dangling
  <2>1. pc'[t] = "undefined"
    BY <1>0, <1>1 DEF Queue!EnqLink, Queue!GotoUsing, Queue!Goto, Queue!TypeOK
  <2> QED BY <2>1, QueueStrayPlaces
<1>2. CASE t \notin dangling /\ next[ptr[t]] # NULL
  <2>1. /\ UNCHANGED <<status, next, retiredPtrList, head>>
        /\ Queue!Destroyed => Queue!Destroyed'
    BY <1>2 DEF Queue!EnqLink, Queue!heVars, Queue!ends, Queue!Destroyed
  <2>2. ASSUME NEW n \in Nodes, NEW u \in Queue!Threads, Queue!Holds(u, n)
        PROVE  Queue!Holds(u, n)'
    BY <1>0, <1>2, <2>2
       DEF Queue!EnqLink, Queue!Holds, Queue!EnqLabels, Queue!Goto,
           Queue!GotoUsing, Queue!locals, Queue!TypeOK
  <2> QED BY <2>1, <2>2, QueueStays
<1>3. CASE t \notin dangling /\ next[ptr[t]] = NULL
  <2> DEFINE n == node[t]
  <2>1. Queue!QueueShape /\ ~Queue!Destroyed
    BY <1>0, ThreadsAssumption
       DEF Queue!MainAlone, Queue!EnqLabels, Queue!Destroyed, Queue!Threads
  <2>2. ptr[t] = tail /\ tail \in Queue!Linked
    <3>1. ptr[t] \in Nodes /\ Queue!Live(ptr[t]) /\ ptr[t] # next[tail]
      BY <1>0, <1>3 DEF Queue!GuardedLives, Queue!Guards, Queue!FoundTail
    <3> QED BY <1>3, <2>1, <3>1 DEF Queue!QueueShape, Queue!Live, Queue!Linked
  <2>3. /\ UNCHANGED <<retiredPtrList, main, node, head>>
        /\ pc' = [pc EXCEPT ![t] = "enq.swing"]
        /\ status' = [status EXCEPT ![n] = "linked"]
        /\ next' = [next EXCEPT ![tail] = n]
    BY <1>3, <2>2
       DEF Queue!EnqLink, Queue!Goto, Queue!GotoUsing, Queue!heVars,
           Queue!ends, Queue!locals
  <2>4. n \in Nodes /\ status[n] = "private" /\ next[n] = NULL /\ n \notin Queue!Linked
    BY <1>0 DEF Queue!OwnsNode, Queue!Enqueuing, Queue!EnqLabels, Queue!Linked
  <2>5. /\ Queue!Linked' = Queue!Linked \cup {n} /\ status'[n] = "linked"
        /\ \A m \in Nodes : m # n => status'[m] = status[m]
    BY <1>0, <2>3, <2>4 DEF Queue!Linked, Queue!TypeOK, Queue!HeapTypeOK
  <2>6. /\ next'[tail] = n /\ next'[n] = next[tail] /\ n # tail
        /\ \A k \in Queue!Linked : k # tail => next'[k] = next[k]
    BY <1>0, <1>3, <2>2, <2>3, <2>4
       DEF Queue!TypeOK, Queue!HeapTypeOK, Queue!Linked
  <2>7. Queue!Reaches(head, next', Queue!Linked \cup {n})
    <3>1. Queue!Reaches(head, next, Queue!Linked)
      BY <2>1 DEF Queue!Placed
    <3> HIDE DEF n
    <3> QED BY <2>1, <2>2, <2>4, <2>6, <3>1, QueueReachesInserted, QueueWithin
  <2>8. Queue!Reaches(head, next, Queue!Linked)'
    BY <2>3, <2>5, <2>7 DEF Queue!Reaches, Queue!Closed
  <2>9. ASSUME NEW m \in Nodes, NEW u \in Queue!Threads, Queue!Holds(u, m), m # n
        PROVE  Queue!Holds(u, m)'
    BY <1>0, <2>3, <2>9 DEF Queue!Holds, Queue!EnqLabels, Queue!TypeOK
  <2>10. \A m : Queue!Listed(m)' <=> Queue!Listed(m)
    BY <2>3 DEF Queue!Listed, Queue!Retired
  <2> QED BY <2>4, <2>5, <2>8, <2>9, <2>10 DEF Queue!Placed
<1> QED BY <1>1, <1>2, <1>3

(* The exchange of a dequeue takes the first node into its hands.          *)
LEMMA DeqCasPlaces ==
  ASSUME Queue!IInv, Queue!Defined, Queue!Placed, NEW t \in Queue!Threads,
         Queue!DeqCas(t)
  PROVE  Queue!Placed'
<1>0. /\ Queue!TypeOK /\ Queue!GuardedLives(t) /\ pc[t] = "deq.cas"
      /\ (~Queue!Destroyed => Queue!QueueShape) /\ Queue!MainAlone
  BY DEF Queue!IInv, Queue!ThreadInv, Queue!DeqCas, Queue!GotoUsing, Queue!Goto
<1>1. CASE head # node[t]
  <2>1. /\ UNCHANGED <<status, next, retiredPtrList, head>>
        /\ Queue!Destroyed => Queue!Destroyed'
    BY <1>1 DEF Queue!DeqCas, Queue!heVars, Queue!Destroyed
  <2>2. ASSUME NEW n \in Nodes, NEW u \in Queue!Threads, Queue!Holds(u, n)
        PROVE  Queue!Holds(u, n)'
    BY <1>0, <1>1, <2>2
       DEF Queue!DeqCas, Queue!Holds, Queue!EnqLabels, Queue!Goto, Queue!TypeOK
  <2> QED BY <2>1, <2>2, QueueStays
<1>2. CASE head = node[t] /\ t \in dangling
  <2>1. pc'[t] = "undefined"
    BY <1>0, <1>2 DEF Queue!DeqCas, Queue!GotoUsing, Queue!Goto, Queue!TypeOK
  <2> QED BY <2>1, QueueStrayPlaces
<1>3. CASE head = node[t] /\ t \notin dangling
  <2>1. /\ UNCHANGED <<next, retiredPtrList, main, node, ptr>>
        /\ pc' = [pc EXCEPT ![t] = "deq.item"]
        /\ head' = ptr[t] /\ status' = [status EXCEPT ![head] = "retired"]
    BY <1>3 DEF Queue!DeqCas, Queue!GotoUsing, Queue!Goto, Queue!heVars
  <2>2. /\ ~Queue!Destroyed /\ head \in Queue!Linked /\ head \in Nodes
        /\ ptr[t] = next[head]
    <3>1. ~Queue!Destroyed /\ Queue!QueueShape
      BY <1>0, ThreadsAssumption
         DEF Queue!MainAlone, Queue!Destroyed, Queue!Threads
    <3> QED BY <1>0, <1>3, <3>1
               DEF Queue!GuardedLives, Queue!QueueShape, Queue!Linked
  <2>3. /\ Queue!Linked' = Queue!Linked \ {head} /\ status'[head] = "retired"
        /\ \A m \in Nodes : m # head => status'[m] = status[m]
    BY <1>0, <2>1, <2>2 DEF Queue!Linked, Queue!TypeOK, Queue!HeapTypeOK
  <2>4. Queue!Reaches(head, next, Queue!Linked)'
    <3>1. Queue!Reaches(head, next, Queue!Linked)
      BY <2>2 DEF Queue!Placed
    <3>2. Queue!Reaches(next[head], next, Queue!Linked \ {head})
      BY <2>2, <3>1, QueueReachesPopped, QueueWithin
    <3> QED BY <2>1, <2>2, <2>3, <3>2 DEF Queue!Reaches, Queue!Closed
  <2>5. /\ pc'[t] = "deq.item"
        /\ \A n : n = head => Queue!Holds(t, n)'
    BY <1>0, <1>3, <2>1 DEF Queue!Holds, Queue!TypeOK
  <2>6. ASSUME NEW n \in Nodes, NEW u \in Queue!Threads, Queue!Holds(u, n)
        PROVE  Queue!Holds(u, n)'
    BY <1>0, <2>1, <2>6 DEF Queue!Holds, Queue!EnqLabels, Queue!TypeOK
  <2>7. \A n : Queue!Listed(n)' <=> Queue!Listed(n)
    BY <2>1 DEF Queue!Listed, Queue!Retired
  <2> QED BY <1>0, <2>2, <2>3, <2>4, <2>5, <2>6, <2>7
             DEF Queue!Placed, Queue!Linked
<1> QED BY <1>1, <1>2, <1>3

(* retireNode puts the node of a dequeue into the list of its thread.      *)
LEMMA DeqRetirePlaces ==
  ASSUME Queue!IInv, Queue!Defined, Queue!Placed, NEW t \in Queue!Threads,
         Queue!DeqRetire(t)
  PROVE  Queue!Placed'
<1>1. /\ Queue!TypeOK /\ Queue!Scheme(QueueChecking)
      /\ \A u \in Queue!Threads : Queue!ThreadInv(u)
      /\ pc[t] = "retire.era" /\ pc' = [pc EXCEPT ![t] = "retire.check"]
      /\ UNCHANGED <<status, next, head, main, node>>
  BY DEF Queue!IInv, QueueChecking, Queue!DeqRetire, Queue!RetirePush,
         Queue!Goto, Queue!heapVars, Queue!locals, Queue!ends
<1>2. Queue!Dequeued(t) /\ Queue!DequeuedByOne(t)
  BY <1>1 DEF Queue!ThreadInv, Queue!Dequeued
<1>3. \A m : Queue!Listed(m)' <=> Queue!Listed(m) \/ m = node[t]
  <2>1. /\ Queue!HETypeOK /\ pc \in [Queue!Threads -> Queue!Labels]
        /\ node[t] \in Nodes /\ status[node[t]] = "retired" /\ ~Queue!Listed(node[t])
    BY <1>1, <1>2 DEF Queue!TypeOK, Queue!DequeuedByOne
  <2>2. UNCHANGED main /\ Queue!Scheme(QueueChecking)
    BY <1>1
  <2>3. Queue!RetirePush(t, node[t], "retire.era", "retire.check")
    BY DEF Queue!DeqRetire
  <2> HIDE DEF QueueChecking
  <2> QED BY <2>1, <2>2, <2>3, QueuePushEffect
<1>4. ASSUME NEW m \in Nodes, NEW u \in Queue!Threads, Queue!Holds(u, m), m # node[t]
      PROVE  Queue!Holds(u, m)'
  BY <1>1, <1>4 DEF Queue!Holds, Queue!EnqLabels, Queue!TypeOK
<1>5. ASSUME NEW m \in Nodes, NEW u \in Queue!Threads, Queue!Holds(u, m),
             status[m] = "private"
      PROVE  Queue!Holds(u, m)'
  BY <1>1, <1>2, <1>5
     DEF Queue!Holds, Queue!EnqLabels, Queue!TypeOK, Queue!DequeuedByOne
<1>6. Queue!Linked' = Queue!Linked /\ \A n \in Queue!Linked : next'[n] = next[n]
  BY <1>1 DEF Queue!Linked
<1> QED BY <1>1, <1>3, <1>4, <1>5, <1>6, QueueKeeps
           DEF Queue!Placed, Queue!Destroyed

(* A sweep deletes a node with its entry.                                  *)
LEMMA DeqSweepPlaces ==
  ASSUME Queue!IInv, Queue!Defined, Queue!Placed, NEW t \in Queue!Threads,
         Queue!DeqSweep(t)
  PROVE  Queue!Placed'
<1>1. /\ Queue!TypeOK /\ Queue!Scheme(QueueChecking) /\ Queue!MainAlone
      /\ UNCHANGED <<head, main, node>>
      /\ pc[t] \in {"retire.check", "retire.add"}
      /\ pc' = [pc EXCEPT ![t] = pc'[t]]
      /\ pc'[t] \in {"retire.add", "clear"}
  BY DEF Queue!IInv, QueueChecking, Queue!DeqSweep, Queue!RetireCheck,
         Queue!RetireAdd, Queue!Goto, Queue!locals, Queue!ends, Queue!TypeOK
<1>2. \A m \in Nodes, u \in Queue!Threads : Queue!Holds(u, m) => Queue!Holds(u, m)'
  BY <1>1 DEF Queue!Holds, Queue!EnqLabels, Queue!TypeOK
<1>3. CASE UNCHANGED <<Queue!heapVars, retiredPtrList>>
  BY <1>1, <1>2, <1>3, QueueStays DEF Queue!heapVars, Queue!Destroyed
<1>4. CASE /\ Queue!Sweep(t) /\ globalEraClock' \in {globalEraClock, globalEraClock + 1}
           /\ UNCHANGED <<hazardErasList, ptr, slot>>
  <2>1. /\ \A n \in Queue!Removed(t) : n \in Nodes /\ Queue!Listed(n)
             /\ status[n] = "retired"
        /\ \A n : Queue!Listed(n)' <=> Queue!Listed(n) /\ n \notin Queue!Removed(t)
        /\ \A n \in Nodes :
             IF n \in Queue!Removed(t) THEN status'[n] = "free"
             ELSE status'[n] = status[n] /\ next'[n] = next[n]
    <3>1. \A u \in Queue!Threads : pc'[u] \in QueueChecking => u # t
            /\ pc[u] \in QueueChecking
      BY <1>1 DEF QueueChecking, Queue!TypeOK
    <3>2. ~Queue!Destroyed /\ Queue!HETypeOK /\ UNCHANGED main
      BY <1>1, ThreadsAssumption
         DEF Queue!MainAlone, Queue!Destroyed, Queue!TypeOK, Queue!Threads
    <3> HIDE DEF QueueChecking
    <3> QED BY <1>1, <1>4, <3>1, <3>2, QueueSweepEffect
  <2>2. Queue!Linked' = Queue!Linked /\ \A n \in Queue!Linked : next'[n] = next[n]
    BY <2>1 DEF Queue!Linked
  <2> QED BY <1>1, <1>2, <2>1, <2>2, QueueKeeps
             DEF Queue!Placed, Queue!Destroyed
<1> QED BY <1>1, <1>3, <1>4
           DEF Queue!DeqSweep, Queue!RetireCheck, Queue!RetireAdd

(* The destructor deletes the node at the head and those of the lists.     *)
LEMMA QueueDestroyPlaces ==
  ASSUME Queue!IInv, Queue!Defined, Queue!Placed, Queue!Destroy
  PROVE  Queue!Placed'
<1>1. /\ main = "deleting" /\ Queue!Destroyed' /\ UNCHANGED <<pc, node>>
      /\ Queue!Delete({n \in Nodes : n = head \/ \E t \in Queue!Threads : n \in Queue!Retired(t)})
      /\ Queue!TypeOK /\ Queue!MainAlone
  BY DEF Queue!Destroy, Queue!DeleteStructure, Queue!DeleteInEra,
         Queue!Destroyed, Queue!heLocals, Queue!locals, Queue!IInv
<1>2. \A t \in Queue!Threads, n \in Nodes : ~Queue!Holds(t, n)
  BY <1>1 DEF Queue!Holds, Queue!MainAlone, Queue!EnqLabels
<1>3. \A n \in Nodes : status'[n] \notin {"private", "retired"}
  BY <1>1, <1>2
     DEF Queue!Delete, Queue!Placed, Queue!Listed, Queue!TypeOK,
         Queue!HeapTypeOK
<1> QED BY <1>1, <1>3 DEF Queue!Placed

(* Every step keeps every node in its place.                               *)
LEMMA QueueNextPlaces == Queue!IInv /\ Queue!Placed /\ [Queue!Next]_(Queue!vars)
                           => Queue!Placed'
<1> SUFFICES ASSUME Queue!IInv, Queue!Placed, [Queue!Next]_(Queue!vars)
             PROVE Queue!Placed'
  OBVIOUS
<1>1. ASSUME Queue!Defined, NEW t \in Queue!Threads, Queue!ThreadStep(t)
      PROVE Queue!Placed'
  BY <1>1, QueueMovesPlace, EnqCallPlaces, EnqLinkPlaces, DeqCasPlaces,
     DeqRetirePlaces, DeqSweepPlaces
     DEF Queue!ThreadStep, Queue!EnqStep, Queue!DeqStep
<1>2. ASSUME Queue!Defined, Queue!Quit \/ Queue!Join PROVE Queue!Placed'
  <2>1. /\ UNCHANGED <<status, retiredPtrList, head, next>>
        /\ Queue!Destroyed => Queue!Destroyed'
    BY <1>2
       DEF Queue!Quit, Queue!Join, Queue!QuitSignal, Queue!JoinThreads,
           Queue!heapVars, Queue!heVars, Queue!ends, Queue!Destroyed
  <2>2. Queue!TypeOK
    BY DEF Queue!IInv
  <2>3. \A n \in Nodes, t \in Queue!Threads : Queue!Holds(t, n) => Queue!Holds(t, n)'
    BY <1>2, <2>2
       DEF Queue!Quit, Queue!Join, Queue!QuitSignal, Queue!JoinThreads,
           Queue!locals, Queue!Holds, Queue!EnqLabels, Queue!TypeOK
  <2> QED BY <1>2, <2>1, <2>3, QueueStays
<1>3. ASSUME UNCHANGED Queue!vars PROVE Queue!Placed'
  BY <1>3
     DEF Queue!vars, Queue!heapVars, Queue!heVars, Queue!ends, Queue!locals,
         Queue!Placed, Queue!Defined, Queue!Destroyed, Queue!Reaches,
         Queue!Closed, Queue!Linked, Queue!Listed, Queue!Retired, Queue!Holds
<1> QED BY <1>1, <1>2, <1>3, QueueDestroyPlaces
           DEF Queue!Next, Queue!MainStep, Queue!Finished

(* The constructor links the sentinel.                                     *)
LEMMA QueueInitPlaced == Queue!Init => Queue!Placed
<1> SUFFICES ASSUME Queue!Init PROVE Queue!Placed
  OBVIOUS
<1>1. PICK s \in Nodes : Queue!HeapWithSentinel(s) /\ head = s
  BY DEF Queue!Init
<1>2. Queue!Linked = {s} /\ \A n \in Nodes : status[n] \in {"linked", "free"}
  BY <1>1 DEF Queue!HeapWithSentinel, Queue!Linked
<1>3. Queue!Reaches(head, next, Queue!Linked)
  BY <1>1, <1>2, HeapAssumption DEF Queue!Reaches, Queue!Closed
<1> QED BY <1>2, <1>3 DEF Queue!Placed

(* Nobody shares a node, and none is lost.                                 *)
LEMMA QueueOwned == Queue!IInv /\ Queue!Placed => Queue!OneOwner
<1> SUFFICES ASSUME Queue!IInv, Queue!Placed, Queue!Defined, ~Queue!Destroyed
             PROVE Queue!OneOwner
  BY DEF Queue!OneOwner
<1>0. Queue!TypeOK /\ Queue!Scheme(QueueChecking)
        /\ \A u \in Queue!Threads : Queue!ThreadInv(u)
  BY DEF Queue!IInv, QueueChecking
<1>1. Queue!ChainSet(head) = Queue!Linked
  BY QueueChainIsLinked, QueueWithin DEF Queue!Placed
<1>2. ASSUME NEW n \in Nodes
      PROVE  Queue!InOnePlace(n, Queue!Linked, Queue!EntriesOf(retiredPtrList, n),
                        {t \in Queue!Threads : Queue!Holds(t, n)})
  <2> DEFINE entries == Queue!EntriesOf(retiredPtrList, n)
             holders == {t \in Queue!Threads : Queue!Holds(t, n)}
  <2>1. /\ ~Queue!Listed(n) => entries = {}
        /\ Queue!Listed(n) => status[n] = "retired" /\ \E x : entries = {x}
    BY <1>0, QueueOneEntry, QueueWithin DEF Queue!Scheme
  <2>2. ASSUME NEW t \in Queue!Threads, Queue!Holds(t, n)
        PROVE  /\ holders = {t} /\ ~Queue!Listed(n)
               /\ status[n] \in {"private", "retired"}
    <3>1. CASE Queue!Enqueuing(t) /\ node[t] = n
      <4>1. status[n] = "private" /\ \A u \in Queue!Threads : Queue!Holds(u, n) => u = t
        BY <1>0, <3>1
           DEF Queue!Holds, Queue!ThreadInv, Queue!OwnsNode, Queue!Enqueuing,
               Queue!DequeuedByOne, Queue!Dequeued
      <4> QED BY <2>1, <2>2, <4>1
    <3>2. CASE Queue!Dequeued(t) /\ node[t] = n
      <4>1. /\ status[n] = "retired" /\ ~Queue!Listed(n)
            /\ \A u \in Queue!Threads : Queue!Holds(u, n) => u = t
        BY <1>0, <3>2
           DEF Queue!Holds, Queue!ThreadInv, Queue!OwnsNode, Queue!Enqueuing,
               Queue!DequeuedByOne, Queue!Dequeued
      <4> QED BY <2>2, <4>1
    <3> QED BY <2>2, <3>1, <3>2
               DEF Queue!Holds, Queue!Dequeued, Queue!Enqueuing
  <2>3. /\ status[n] \in Queue!Statuses
        /\ status[n] = "private" => \E t \in Queue!Threads : Queue!Holds(t, n)
        /\ status[n] = "retired" =>
             Queue!Listed(n) \/ \E t \in Queue!Threads : Queue!Holds(t, n)
    BY <1>0 DEF Queue!Placed, Queue!TypeOK, Queue!HeapTypeOK
  <2>4. n \in Queue!Linked <=> status[n] = "linked"
    BY DEF Queue!Linked
  <2>5. holders = {} \/ \E t \in Queue!Threads : Queue!Holds(t, n)
    OBVIOUS
  <2> HIDE DEF entries, holders
  <2>6. /\ status[n] \in {"linked", "free"} => entries = {} /\ holders = {}
        /\ status[n] \in {"private", "retired"} =>
             \/ entries = {} /\ \E x : holders = {x}
             \/ holders = {} /\ \E x : entries = {x}
    BY <2>1, <2>2, <2>3, <2>5
  <2>7. Queue!InOnePlace(n, Queue!Linked, entries, holders)
    BY <2>3, <2>4, <2>6, QueuePlacedOnce
  <2> QED BY <2>7 DEF entries, holders
<1>3. \A t \in Queue!Threads : retiredNodesCount[t] = Len(retiredPtrList[t])
  BY <1>0 DEF Queue!Scheme, Queue!CountsRetired
<1> QED BY <1>1, <1>2, <1>3 DEF Queue!OneOwner

(* tail is one of the last two nodes of the queue.                         *)
LEMMA QueueTailFollows == Queue!IInv /\ Queue!Placed => Queue!TailFollows
<1> SUFFICES ASSUME Queue!IInv, Queue!Placed, Queue!Defined, ~Queue!Destroyed
             PROVE Queue!TailFollows
  BY DEF Queue!TailFollows
<1>1. Queue!ChainSet(head) = Queue!Linked /\ tail \in Queue!Linked
  BY QueueChainIsLinked, QueueWithin DEF Queue!Placed
<1>2. next[tail] # NULL => next[next[tail]] = NULL
  BY DEF Queue!IInv, Queue!QueueShape
<1> QED BY <1>1, <1>2 DEF Queue!TailFollows

-----------------------------------------------------------------------------
(* The list of ListHEProofs is that of the program.                        *)
LEMMA SameList ==
  /\ List!Init <=> P!Init
  /\ List!Next <=> P!Next
  /\ List!vars = P!vars
  /\ List!EnoughSlots <=> P!EnoughSlots
  /\ List!IInv <=> P!IInv
  /\ List!TypeOK <=> P!TypeOK
  /\ List!EraCovers <=> P!EraCovers
  /\ List!Placed <=> P!Placed
  /\ List!OneOwner <=> P!OneOwner
  /\ List!IInv' <=> P!IInv'
  /\ List!Placed' <=> P!Placed'
<1>1. \A S : List!Cardinality(S) = P!Cardinality(S)
  BY DEF List!Cardinality, P!Cardinality
<1>2. \A list, S : List!Survivors(list, S) = P!Survivors(list, S)
  BY DEF List!Cardinality, P!Cardinality, List!InOrder, P!InOrder,
         List!Survivors, P!Survivors
<1>3. /\ \A t : List!Kept(t) = P!Kept(t)
      /\ \A t : List!Removed(t) = P!Removed(t)
  BY <1>2
     DEF List!Members, P!Members, List!Retired, P!Retired, List!Slots, P!Slots,
         List!emptyEra, P!emptyEra, List!canRemoveNode, P!canRemoveNode,
         List!Kept, P!Kept, List!Removed, P!Removed
<1>4. \A t : List!Sweep(t) <=> P!Sweep(t)
  BY <1>1, <1>3
     DEF List!Delete, P!Delete, List!ForgetEras, P!ForgetEras,
         List!DeleteInEra, P!DeleteInEra, List!Sweep, P!Sweep
<1>5. /\ \A t : List!Strays(t) <=> P!Strays(t)
      /\ \A t : List!Stray(t) <=> P!Stray(t)
      /\ \A t : List!Exits(t) <=> P!Exits(t)
  BY DEF List!Link, P!Link, List!PredLink, P!PredLink, List!PredIsCurr,
         P!PredIsCurr, List!getUnmarked, P!getUnmarked, List!Uses, P!Uses,
         List!Strays, P!Strays, List!Stray, P!Stray, List!Goto, P!Goto,
         List!LeaveLoop, P!LeaveLoop, List!heapVars, P!heapVars, List!callVars,
         P!callVars, List!findLocals, P!findLocals, List!listVars, P!listVars,
         List!loopedVars, P!loopedVars, List!Exits, P!Exits
<1>6. /\ \A t : List!FindHead(t) <=> P!FindHead(t)
      /\ \A t : List!FindProtect(t) <=> P!FindProtect(t)
      /\ \A t : List!FindNext(t) <=> P!FindNext(t)
      /\ \A t : List!FindProtectNext(t) <=> P!FindProtectNext(t)
  BY DEF List!Goto, P!Goto, List!NoLink, P!NoLink, List!Follow, P!Follow,
         List!callVars, P!callVars, List!heapVars, P!heapVars, List!LoadsHead,
         P!LoadsHead, List!eraFields, P!eraFields, List!heLocals, P!heLocals,
         List!heVars, P!heVars, List!ofScheme, P!ofScheme, List!FindHead,
         P!FindHead, List!EraPublished, P!EraPublished, List!ProtectClock,
         P!ProtectClock, List!ProtectPublish, P!ProtectPublish,
         List!findLocals, P!findLocals, List!listVars, P!listVars,
         List!loopedVars, P!loopedVars, List!FindProtect, P!FindProtect,
         List!Link, P!Link, List!LoadsNext, P!LoadsNext, List!Misread,
         P!Misread, List!FindNext, P!FindNext, List!ProtectNext, P!ProtectNext,
         List!FindProtectNext, P!FindProtectNext
<1>7. /\ \A t, again, advance : List!Compares(t, again, advance) <=> P!Compares(t, again, advance)
      /\ \A t, found, to : List!Ends(t, found, to) <=> P!Ends(t, found, to)
  BY DEF List!EndsAtCurr, P!EndsAtCurr, List!Goto, P!Goto, List!NoLink,
         P!NoLink, List!Follow, P!Follow, List!callVars, P!callVars,
         List!getUnmarked, P!getUnmarked, List!heapVars, P!heapVars,
         List!MovesTo, P!MovesTo, List!Link, P!Link, List!PredLink, P!PredLink,
         List!PredIsCurr, P!PredIsCurr, List!Forget, P!Forget, List!TryAgain,
         P!TryAgain, List!isMarked, P!isMarked, List!findLocals, P!findLocals,
         List!listVars, P!listVars, List!loopedVars, P!loopedVars,
         List!Compares, P!Compares, List!DecidedBy, P!DecidedBy,
         List!FindReturns, P!FindReturns, List!Ends, P!Ends
<1>8. \A t, again : List!Validates(t, again) <=> P!Validates(t, again)
  BY DEF List!Goto, P!Goto, List!Link, P!Link, List!NoLink, P!NoLink,
         List!Forget, P!Forget, List!callVars, P!callVars, List!heapVars,
         P!heapVars, List!TryAgain, P!TryAgain, List!getUnmarked,
         P!getUnmarked, List!findLocals, P!findLocals, List!listVars,
         P!listVars, List!loopedVars, P!loopedVars, List!Validates, P!Validates
<1>9. /\ \A t : List!AtTail(t) <=> P!AtTail(t)
      /\ \A t : List!AtKey(t) <=> P!AtKey(t)
      /\ \A t : List!FoundAtCurr(t) = P!FoundAtCurr(t)
      /\ \A t : List!Done(t) = P!Done(t)
  BY DEF List!Link, P!Link, List!getUnmarked, P!getUnmarked, List!AtTail,
         P!AtTail, List!EndsAtCurr, P!EndsAtCurr, List!PredLink, P!PredLink,
         List!PredIsCurr, P!PredIsCurr, List!isMarked, P!isMarked, List!AtKey,
         P!AtKey, List!FoundAtCurr, P!FoundAtCurr, List!Done, P!Done
<1>10. \A t, found, done : List!AfterFind(t, found, done) = P!AfterFind(t, found, done)
  BY DEF List!AfterFind, P!AfterFind
<1>11. \A t : List!FindCompare(t) <=> P!FindCompare(t)
  BY <1>7, <1>8, <1>9, <1>10
     DEF List!eraFields, P!eraFields, List!heLocals, P!heLocals, List!heVars,
         P!heVars, List!ofScheme, P!ofScheme, List!FindCompare, P!FindCompare
<1>12. /\ \A t : List!FindSlots(t) <=> P!FindSlots(t)
       /\ \A t : List!FindHelp(t) <=> P!FindHelp(t)
       /\ \A t : List!HelpSlot1(t) <=> P!HelpSlot1(t)
  BY DEF List!Goto, P!Goto, List!heLocals, P!heLocals, List!ProtectEraRelease,
         P!ProtectEraRelease, List!eraFields, P!eraFields, List!heapVars,
         P!heapVars, List!callVars, P!callVars, List!findLocals, P!findLocals,
         List!listVars, P!listVars, List!loopedVars, P!loopedVars,
         List!FindSlots, P!FindSlots, List!Link, P!Link, List!PredLink,
         P!PredLink, List!PredIsCurr, P!PredIsCurr, List!NoLink, P!NoLink,
         List!Forget, P!Forget, List!TryAgain, P!TryAgain, List!StorePred,
         P!StorePred, List!getUnmarked, P!getUnmarked, List!Unlinks, P!Unlinks,
         List!heVars, P!heVars, List!ofScheme, P!ofScheme, List!FindHelp,
         P!FindHelp, List!Follow, P!Follow, List!MovesTo, P!MovesTo,
         List!HelpSlot1, P!HelpSlot1
<1>13. \A t : List!FindStep(t) <=> P!FindStep(t)
  BY <1>6, <1>11, <1>12
     DEF List!FindStep, P!FindStep
<1>14. /\ \A t, to : List!CallAdd(t, to) <=> P!CallAdd(t, to)
       /\ \A t, to : List!CallOther(t, to) <=> P!CallOther(t, to)
  BY DEF List!Calling, P!Calling, List!Filling, P!Filling, List!MayCall,
         P!MayCall, List!BeginCall, P!BeginCall, List!Goto, P!Goto, List!New,
         P!New, List!Linked, P!Linked, List!Present, P!Present,
         List!findLocals, P!findLocals, List!CallAdd, P!CallAdd, List!heapVars,
         P!heapVars, List!CallOther, P!CallOther
<1>15. /\ \A t : List!Call(t) <=> P!Call(t)
       /\ \A t : List!AddDiscard(t) <=> P!AddDiscard(t)
  BY <1>14
     DEF List!BornNow, P!BornNow, List!eraFields, P!eraFields, List!heLocals,
         P!heLocals, List!heVars, P!heVars, List!Call, P!Call, List!Delete,
         P!Delete, List!Goto, P!Goto, List!findLocals, P!findLocals,
         List!Discards, P!Discards, List!ForgetEras, P!ForgetEras,
         List!AddDiscard, P!AddDiscard
<1>16. /\ \A t : List!AddCas(t) <=> P!AddCas(t)
       /\ \A t : List!RemoveMark(t) <=> P!RemoveMark(t)
       /\ \A t : List!RemoveCas(t) <=> P!RemoveCas(t)
  BY DEF List!Threads, P!Threads, List!Decides, P!Decides, List!NoLink,
         P!NoLink, List!Forget, P!Forget, List!Goto, P!Goto, List!Link, P!Link,
         List!PredLink, P!PredLink, List!PredIsCurr, P!PredIsCurr,
         List!StorePred, P!StorePred, List!callVars, P!callVars, List!heapVars,
         P!heapVars, List!TryAgain, P!TryAgain, List!Adds, P!Adds,
         List!eraFields, P!eraFields, List!heLocals, P!heLocals, List!heVars,
         P!heVars, List!ofScheme, P!ofScheme, List!AddCas, P!AddCas,
         List!findLocals, P!findLocals, List!getUnmarked, P!getUnmarked,
         List!Marks, P!Marks, List!RemoveMark, P!RemoveMark, List!Unlinks,
         P!Unlinks, List!listVars, P!listVars, List!loopedVars, P!loopedVars,
         List!Removes, P!Removes, List!RemoveCas, P!RemoveCas
<1>17. /\ \A t : List!Retires(t) <=> P!Retires(t)
       /\ \A t : List!Sweeps(t) <=> P!Sweeps(t)
  BY <1>4
     DEF List!Goto, P!Goto, List!heapVars, P!heapVars, List!RetirePush,
         P!RetirePush, List!callVars, P!callVars, List!findLocals,
         P!findLocals, List!listVars, P!listVars, List!loopedVars,
         P!loopedVars, List!Retires, P!Retires, List!getUnmarked,
         P!getUnmarked, List!Named, P!Named, List!Roles, P!Roles, List!Threads,
         P!Threads, List!Dangles, P!Dangles, List!Freed, P!Freed,
         List!AfterDeletion, P!AfterDeletion, List!RetireAdd, P!RetireAdd,
         List!eraFields, P!eraFields, List!RetireCheck, P!RetireCheck,
         List!Sweeps, P!Sweeps
<1>18. /\ \A t : List!Clear(t) <=> P!Clear(t)
       /\ \A t : List!Return(t) <=> P!Return(t)
  BY DEF List!Goto, P!Goto, List!emptyEra, P!emptyEra, List!ClearSlot,
         P!ClearSlot, List!NoLink, P!NoLink, List!Forget, P!Forget,
         List!heapVars, P!heapVars, List!Returns, P!Returns, List!eraFields,
         P!eraFields, List!callVars, P!callVars, List!findLocals, P!findLocals,
         List!listVars, P!listVars, List!loopedVars, P!loopedVars, List!Clear,
         P!Clear, List!heLocals, P!heLocals, List!heVars, P!heVars,
         List!ofScheme, P!ofScheme, List!Return, P!Return
<1>19. \A t : List!CallStep(t) <=> P!CallStep(t)
  BY <1>15, <1>16, <1>17, <1>18
     DEF List!CallStep, P!CallStep
<1>20. /\ List!MainStep <=> P!MainStep
       /\ List!Finished <=> P!Finished
  BY <1>1
     DEF List!getUnmarked, P!getUnmarked, List!Named, P!Named, List!Roles,
         P!Roles, List!Threads, P!Threads, List!Dangles, P!Dangles, List!Freed,
         P!Freed, List!AfterDeletion, P!AfterDeletion, List!Delete, P!Delete,
         List!ForgetEras, P!ForgetEras, List!DeleteInEra, P!DeleteInEra,
         List!DeleteStructure, P!DeleteStructure, List!Members, P!Members,
         List!Retired, P!Retired, List!callVars, P!callVars, List!findLocals,
         P!findLocals, List!heLocals, P!heLocals, List!Destroy, P!Destroy,
         List!JoinUndrained, P!JoinUndrained, List!heapVars, P!heapVars,
         List!listVars, P!listVars, List!loopedVars, P!loopedVars, List!Joins,
         P!Joins, List!QuitSignal, P!QuitSignal, List!Quits, P!Quits,
         List!Filling, P!Filling, List!StartThreads, P!StartThreads,
         List!Starts, P!Starts, List!eraFields, P!eraFields, List!heVars,
         P!heVars, List!ofScheme, P!ofScheme, List!MainStep, P!MainStep,
         List!Defined, P!Defined, List!Destroyed, P!Destroyed, List!vars,
         P!vars, List!Finished, P!Finished
<1>21. List!Next <=> P!Next
  BY <1>5, <1>13, <1>19, <1>20
     DEF List!Threads, P!Threads, List!Defined, P!Defined, List!heapVars,
         P!heapVars, List!callVars, P!callVars, List!findLocals, P!findLocals,
         List!listVars, P!listVars, List!loopedVars, P!loopedVars,
         List!eraFields, P!eraFields, List!heLocals, P!heLocals, List!heVars,
         P!heVars, List!ofScheme, P!ofScheme, List!ThreadStep, P!ThreadStep,
         List!Next, P!Next
<1>22. List!TypeOK <=> P!TypeOK
  BY DEF List!NodeOrNull, P!NodeOrNull, List!Slots, P!Slots, List!Threads,
         P!Threads, List!HETypeOK, P!HETypeOK, List!CallLabels, P!CallLabels,
         List!FindLabels, P!FindLabels, List!HelpLabels, P!HelpLabels,
         List!Labels, P!Labels, List!Operations, P!Operations, List!Results,
         P!Results, List!Statuses, P!Statuses, List!ListTypeOK, P!ListTypeOK,
         List!Roles, P!Roles, List!LoopedTypeOK, P!LoopedTypeOK,
         List!MainStates, P!MainStates, List!TypeOK, P!TypeOK
<1>23. List!ListInv <=> P!ListInv
  BY DEF List!Live, P!Live, List!ListShape, P!ListShape, List!NodeOrNull,
         P!NodeOrNull, List!Operations, P!Operations, List!Results, P!Results,
         List!Statuses, P!Statuses, List!Threads, P!Threads, List!ListTypeOK,
         P!ListTypeOK, List!Roles, P!Roles, List!LoopedTypeOK, P!LoopedTypeOK,
         List!OwnsNode, P!OwnsNode, List!HelpingLabels, P!HelpingLabels,
         List!NoCurrLabels, P!NoCurrLabels, List!PassedLabels, P!PassedLabels,
         List!getUnmarked, P!getUnmarked, List!isMarked, P!isMarked,
         List!Traverses, P!Traverses, List!ListInv, P!ListInv
<1>24. \A checking : List!Scheme(checking) <=> P!Scheme(checking)
  BY DEF List!Destroyed, P!Destroyed, List!Threads, P!Threads,
         List!CountsRetired, P!CountsRetired, List!Slots, P!Slots,
         List!ErasReached, P!ErasReached, List!Members, P!Members,
         List!Retired, P!Retired, List!RetiredBefore, P!RetiredBefore,
         List!RetiredOnce, P!RetiredOnce, List!Scheme, P!Scheme
<1>25. \A t : List!ThreadInv(t) <=> P!ThreadInv(t)
  BY DEF List!Members, P!Members, List!Retired, P!Retired, List!Threads,
         P!Threads, List!Listed, P!Listed, List!WithinLife, P!WithinLife,
         List!Covers, P!Covers, List!Live, P!Live, List!getUnmarked,
         P!getUnmarked, List!Named, P!Named, List!FindLabels, P!FindLabels,
         List!Roles, P!Roles, List!Protected, P!Protected, List!SlotOf,
         P!SlotOf, List!Covered, P!Covered, List!EraFits, P!EraFits,
         List!Misread, P!Misread, List!NextSeen, P!NextSeen, List!LoadedFits,
         P!LoadedFits, List!Removing, P!Removing, List!RemovedByOne,
         P!RemovedByOne, List!ThreadInv, P!ThreadInv
<1>26. List!IInv <=> P!IInv
  BY <1>22, <1>23, <1>24, <1>25
     DEF List!Threads, P!Threads, List!MainAlone, P!MainAlone, List!IInv,
         P!IInv
<1>27. List!EraCovers <=> P!EraCovers
  BY DEF List!getUnmarked, P!getUnmarked, List!Named, P!Named, List!FindLabels,
         P!FindLabels, List!Roles, P!Roles, List!Protected, P!Protected,
         List!Members, P!Members, List!Retired, P!Retired, List!SlotOf,
         P!SlotOf, List!Threads, P!Threads, List!EraCovers, P!EraCovers
<1>28. \A n, list, entries, holders : List!InOnePlace(n, list, entries, holders) <=> P!InOnePlace(n, list, entries, holders)
  BY <1>1
     DEF List!Allocated, P!Allocated, List!InOnePlace, P!InOnePlace
<1>29. List!OneOwner <=> P!OneOwner
  BY <1>28
     DEF List!Closed, P!Closed, List!ChainSet, P!ChainSet, List!Threads,
         P!Threads, List!Defined, P!Defined, List!Destroyed, P!Destroyed,
         List!EntriesOf, P!EntriesOf, List!Holds, P!Holds, List!Linked,
         P!Linked, List!OneOwner, P!OneOwner
<1>30. List!Placed <=> P!Placed
  BY DEF List!Linked, P!Linked, List!QuietLabels, P!QuietLabels, List!Closed,
         P!Closed, List!Reaches, P!Reaches, List!Threads, P!Threads,
         List!ListPlaced, P!ListPlaced, List!Members, P!Members, List!Retired,
         P!Retired, List!Listed, P!Listed, List!Removing, P!Removing,
         List!Placed, P!Placed
<1>31. /\ List!Init <=> P!Init
       /\ List!vars = P!vars
       /\ List!EnoughSlots <=> P!EnoughSlots
  BY DEF List!Slots, P!Slots, List!Threads, P!Threads, List!emptyEra,
         P!emptyEra, List!HEInit, P!HEInit, List!NoLink, P!NoLink,
         List!ListInit, P!ListInit, List!LoopedInit, P!LoopedInit, List!Init,
         P!Init, List!eraFields, P!eraFields, List!heLocals, P!heLocals,
         List!heVars, P!heVars, List!heapVars, P!heapVars, List!callVars,
         P!callVars, List!findLocals, P!findLocals, List!listVars, P!listVars,
         List!loopedVars, P!loopedVars, List!vars, P!vars, List!EnoughSlots,
         P!EnoughSlots
<1>32. List!IInv' <=> P!IInv'
  BY <1>26, PTL
<1>33. List!Placed' <=> P!Placed'
  BY <1>30, PTL
<1> QED BY <1>21, <1>22, <1>26, <1>27, <1>29, <1>30, <1>31, <1>32, <1>33

-----------------------------------------------------------------------------
(* The program.                                                            *)

(* Each constructor establishes the invariant of its structure.            *)
LEMMA InitInv == Init => IInv
BY StackInitInv, QueueInitInv, P!InitInv, SameList DEF Init, IInv, Of

(* A step of the program is one of the structure it runs.                  *)
LEMMA StepOfStructure ==
  ASSUME IInv, [Next]_vars
  PROVE  /\ structure' = structure
         /\ \/ /\ structure = "stack" /\ Stack!IInv
               /\ [Stack!Next]_(Stack!vars)
            \/ /\ structure = "queue" /\ Queue!IInv
               /\ [Queue!Next]_(Queue!vars)
            \/ /\ structure = "list" /\ P!IInv /\ P!EnoughSlots
               /\ [P!Next]_(P!vars)
<1>1. structure \in {"stack", "queue", "list"} /\ structure' = structure
  BY DEF IInv, Next, vars
<1>2. /\ structure = "stack" => Stack!IInv
      /\ structure = "queue" => Queue!IInv
      /\ structure = "list" => P!IInv /\ P!EnoughSlots
  BY SlotsAssumption, SameList DEF IInv, Of
<1>3. CASE UNCHANGED vars
  <2>1. UNCHANGED Stack!vars /\ UNCHANGED Queue!vars
    BY <1>3
       DEF vars, heapVars, heVars, eraFields, heLocals,
           Stack!vars, Stack!heapVars, Stack!heVars, Stack!eraFields,
           Stack!heLocals, Stack!locals,
           Queue!vars, Queue!heapVars, Queue!heVars, Queue!eraFields,
           Queue!heLocals, Queue!ends, Queue!locals
  <2>2. UNCHANGED P!vars
    BY <1>3
       DEF vars, ofListOnly, heapVars, heVars, eraFields, heLocals,
           P!vars, P!loopedVars, P!heapVars, P!listVars, P!findLocals,
           P!callVars, P!heVars, P!eraFields, P!heLocals
  <2> QED BY <1>1, <1>2, <2>1, <2>2
<1>4. CASE Next
  BY <1>1, <1>2, <1>4, SameList DEF Next
<1> QED BY <1>3, <1>4

(* Every step of the program preserves the invariant.                      *)
LEMMA NextInv == IInv /\ [Next]_vars => IInv'
<1> SUFFICES ASSUME IInv, [Next]_vars PROVE IInv'
  OBVIOUS
<1>1. structure' = structure /\ structure \in {"stack", "queue", "list"}
  BY StepOfStructure DEF IInv
<1>2. CASE structure = "stack"
  <2>1. Stack!IInv'
    BY <1>2, StepOfStructure, StackNextInv
  <2> QED BY <1>1, <1>2, <2>1 DEF IInv, Of
<1>3. CASE structure = "queue"
  <2>1. Queue!IInv'
    BY <1>3, StepOfStructure, SlotsAssumption, QueueNextInv
  <2> QED BY <1>1, <1>3, <2>1 DEF IInv, Of
<1>4. CASE structure = "list"
  <2>1. P!IInv'
    BY <1>4, StepOfStructure, P!NextInv
  <2> QED BY <1>1, <1>4, <2>1, SameList DEF IInv, Of
<1> QED BY <1>1, <1>2, <1>3, <1>4

(* The invariant of whichever structure the program runs holds in every    *)
(* reachable state (hazarderas/Benchmark.cpp, main).                       *)
THEOREM Invariance == Spec => []IInv
BY InitInv, NextInv, PTL DEF Spec

(* What the invariant of each structure says of types and of eras.         *)
LEMMA InvCovers == IInv => TypeOK /\ EraCovers
<1> SUFFICES ASSUME IInv PROVE TypeOK /\ EraCovers
  OBVIOUS
<1>1. CASE structure = "stack"
  BY <1>1 DEF IInv, Of, TypeOK, EraCovers, Stack!IInv
<1>2. CASE structure = "queue"
  BY <1>2 DEF IInv, Of, TypeOK, EraCovers, Queue!IInv
<1>3. CASE structure = "list"
  BY <1>3, P!ListCovers, SameList DEF IInv, Of, TypeOK, EraCovers
<1> QED BY <1>1, <1>2, <1>3 DEF IInv

(* Every variable keeps its type, whichever structure main runs.           *)
THEOREM TypeCorrectness == Spec => []TypeOK
BY Invariance, InvCovers, PTL

(* What get_protected promises, and protectEraRelease preserves: the era   *)
(* in the slot of a node lies between the node's newEra and, once it is in *)
(* a retired list, its delEra.                                             *)
THEOREM ErasCover == Spec => []EraCovers
BY Invariance, InvCovers, PTL

-----------------------------------------------------------------------------
(* The nodes are in their places when the structure has been constructed.  *)
LEMMA InitPlaced == Init => Placed
BY StackInitPlaced, QueueInitPlaced, P!InitPlaced, SameList
   DEF Init, Placed, Of

(* Every step of the program keeps the places of its structure.            *)
LEMMA NextPlaced ==
  ASSUME IInv, Placed, [Next]_vars
  PROVE  Placed'
<1>1. structure' = structure /\ structure \in {"stack", "queue", "list"}
  BY StepOfStructure DEF IInv
<1>2. CASE structure = "stack"
  <2>1. Stack!Placed'
    BY <1>2, StepOfStructure, StackNextPlaces DEF Placed, Of
  <2> QED BY <1>1, <1>2, <2>1 DEF Placed, Of
<1>3. CASE structure = "queue"
  <2>1. Queue!Placed'
    BY <1>3, StepOfStructure, SlotsAssumption, QueueNextPlaces DEF Placed, Of
  <2> QED BY <1>1, <1>3, <2>1 DEF Placed, Of
<1>4. CASE structure = "list"
  <2>1. P!Placed
    BY <1>4, SameList DEF Placed, Of
  <2>2. P!Placed'
    BY <1>4, <2>1, StepOfStructure, P!NextPlaces
  <2> QED BY <1>1, <1>4, <2>2, SameList DEF Placed, Of
<1> QED BY <1>1, <1>2, <1>3, <1>4

(* What the places are for.                                                *)
LEMMA PlacedOwned ==
  ASSUME IInv, Placed
  PROVE  OneOwner /\ TailFollows
<1>1. CASE structure = "stack"
  BY <1>1, StackOwned DEF IInv, Placed, Of, OneOwner, TailFollows
<1>2. CASE structure = "queue"
  BY <1>2, QueueOwned, QueueTailFollows
     DEF IInv, Placed, Of, OneOwner, TailFollows
<1>3. CASE structure = "list"
  BY <1>3, P!PlacedOwned, SameList DEF IInv, Placed, Of, OneOwner, TailFollows
<1> QED BY <1>1, <1>2, <1>3 DEF IInv

(* The places of the nodes, in every reachable state.                      *)
LEMMA PlacesInvariant == Spec => []Placed
<1>1. IInv /\ Placed /\ [Next]_vars => Placed'
  BY NextPlaced
<1>2. Spec => [](IInv /\ Placed)
  BY <1>1, InitInv, InitPlaced, NextInv, PTL DEF Spec
<1> QED BY <1>2, PTL

(* Until a deleted node has been used or the destructor has run, every     *)
(* allocated node is in the structure, in one entry of a retired list or   *)
(* in the hands of one operation, and the retired nodes are counted right. *)
THEOREM OwnedOnce == Spec => []OneOwner
<1>1. IInv /\ Placed => OneOwner
  BY PlacedOwned
<1> QED BY <1>1, Invariance, PlacesInvariant, PTL

(* The tail of the queue stays at one of its last two nodes and is never   *)
(* overtaken by head, until a deleted node has been used                   *)
(* (QueueHazardEras.hpp, enqueue and dequeue).                             *)
THEOREM TailStaysClose == Spec => []TailFollows
<1>1. IInv /\ Placed => TailFollows
  BY PlacedOwned
<1> QED BY <1>1, Invariance, PlacesInvariant, PTL

=============================================================================
