------------------------- MODULE ProgramURCUProofs -------------------------
(***************************************************************************)
(* What is proved of ProgramURCU, for any number of threads, addresses,    *)
(* items, keys and grace periods and for each of the three structures: its *)
(* invariant is inductive, so that every variable keeps its type, grace    *)
(* periods are right, memory is safe, every node is reclaimed safely, has  *)
(* one owner and is never left unreclaimed by a thread that has returned.  *)
(*                                                                         *)
(* First each step of the scheme is shown to keep Grace, and so does every *)
(* step of a structure that is not the scheme's (GraceKept), for any set   *)
(* of section labels; then the steps of the stack, the queue and the list  *)
(* keep the rest of their invariants and are steps of SafeReclamation;     *)
(* then the program takes these steps.                                     *)
(*                                                                         *)
(* Three more parts follow, each for one structure after the other: where  *)
(* the nodes are (Placed: what is linked is the structure, and every other *)
(* allocated node is in one place), how far the version counter gets       *)
(* (VersionBounded: the calls that are under way and the nodes that are    *)
(* left pay for each advance), and the types. The theorems come last.      *)
(***************************************************************************)
EXTENDS ProgramURCU, HeapProofs

-----------------------------------------------------------------------------
(* The scheme.                                                             *)

(* Where an updater waits for readers of its grace period.                 *)
Waiting == {"sync.cas", "sync.spin"}

(* The labels of sections are none of those of the scheme.                 *)
Apart(section) ==
  section \cap (LockLabels \cup SyncLabels) = {}

(* At such a label a thread neither waits nor holds a version.             *)
Quiet(label) ==
  label \notin Waiting \cup {"lock.store", "lock.check", "lock.fix"}

(* Where a thread goes on when its section or its wait has ended.          *)
Outside(label, section) == Quiet(label) /\ label \notin section

(* A step of a structure that is one of the scheme's.                      *)
SchemeStep(section) ==
  \E t \in Threads :
    \/ \E done \in section : ReadLock(t, done)
    \/ \E to : /\ ReadUnlock(t) /\ pc[t] \in section
              /\ Outside(to, section) /\ pc' = [pc EXCEPT ![t] = to]
    \/ \E done :
         /\ Outside(done, section)
         /\ SynchronizeRCU(t, {r \in Threads : pc[r] \in section}, done)

(* A step of a structure that is none of the scheme's: no thread begins or *)
(* ends a wait, nor begins a section.                                      *)
Elsewhere(section) ==
  /\ UNCHANGED urcuVars
  /\ pc' = [t \in Threads |-> pc'[t]]
  /\ \A t \in Threads :
       \/ pc'[t] = pc[t]
       \/ /\ pc[t] \notin Waiting
          /\ pc'[t] \in section => pc[t] \in section
          /\ Quiet(pc'[t])

(* A step that leaves the versions alone.                                  *)
LEMMA ElsewhereGrace ==
  ASSUME NEW section, Apart(section), Grace(section), Elsewhere(section)
  PROVE  Grace(section)'
BY DEF Apart, Grace, GraceTypes, LoopAtStart, Elsewhere, Announced,
       OldReadersHeld, Waiting, Quiet, Outside, LockLabels, SyncLabels,
       urcuVars, versionVars, syncLocals

(* readLock: the version loaded is the one that has been reached.          *)
LEMMA LockLoadGrace ==
  ASSUME NEW section, Apart(section), Grace(section),
         NEW t \in Threads, LockLoad(t)
  PROVE  Grace(section)'
<1> USE DEF Apart, Grace, GraceTypes, LoopAtStart, LockLoad, Goto,
            LockLabels, SyncLabels, versionVars, syncLocals
<1>1. GraceTypes'
  OBVIOUS
<1>2. ASSUME NEW u \in Threads PROVE Announced(u, section)'
  BY DEF Announced
<1>3. ASSUME NEW u \in Threads PROVE OldReadersHeld(u)'
  BY DEF OldReadersHeld, Announced
<1>4. ASSUME NEW u \in Threads PROVE LoopAtStart(u)'
  BY DEF OldReadersHeld
<1> QED BY <1>1, <1>2, <1>3, <1>4

(* Announcing it ends the section a thread may have left open, in which    *)
(* updaters may have waited for it.                                        *)
LEMMA LockStoreGrace ==
  ASSUME NEW section, Apart(section), Grace(section),
         NEW t \in Threads, LockStore(t)
  PROVE  Grace(section)'
<1> USE DEF Apart, Grace, GraceTypes, LoopAtStart, LockStore, Goto,
            LockLabels, SyncLabels, versionVars, syncLocals
<1>1. GraceTypes'
  OBVIOUS
<1>2. ASSUME NEW u \in Threads PROVE Announced(u, section)'
  BY DEF Announced
<1>3. ASSUME NEW u \in Threads PROVE OldReadersHeld(u)'
  BY DEF OldReadersHeld, Announced
<1>4. ASSUME NEW u \in Threads PROVE LoopAtStart(u)'
  BY DEF OldReadersHeld
<1> QED BY <1>1, <1>2, <1>3, <1>4

(* The second look at the version.                                         *)
LEMMA LockCheckGrace ==
  ASSUME NEW section, Apart(section), Grace(section),
         NEW t \in Threads, NEW done \in section, LockCheck(t, done)
  PROVE  Grace(section)'
<1> USE DEF Apart, Grace, GraceTypes, LoopAtStart, LockCheck, Goto,
            LockLabels, SyncLabels, versionVars, syncLocals
<1>1. GraceTypes'
  OBVIOUS
<1>2. ASSUME NEW u \in Threads PROVE Announced(u, section)'
  BY DEF Announced
<1>3. ASSUME NEW u \in Threads PROVE OldReadersHeld(u)'
  BY DEF OldReadersHeld, Announced
<1>4. ASSUME NEW u \in Threads PROVE LoopAtStart(u)'
  BY DEF OldReadersHeld
<1> QED BY <1>1, <1>2, <1>3, <1>4

(* A reader that announces a newer version is waited for by nobody.        *)
LEMMA LockFixGrace ==
  ASSUME NEW section, Apart(section), Grace(section),
         NEW t \in Threads, NEW done \in section, LockFix(t, done)
  PROVE  Grace(section)'
<1> USE DEF Apart, Grace, GraceTypes, LoopAtStart, LockFix, Goto,
            LockLabels, SyncLabels, versionVars, syncLocals
<1>1. GraceTypes'
  OBVIOUS
<1>2. ASSUME NEW u \in Threads PROVE Announced(u, section)'
  BY DEF Announced
<1>3. ASSUME NEW u \in Threads PROVE OldReadersHeld(u)'
  BY DEF OldReadersHeld, Announced
<1>4. ASSUME NEW u \in Threads PROVE LoopAtStart(u)'
  BY DEF OldReadersHeld
<1> QED BY <1>1, <1>2, <1>3, <1>4

(* readUnlock ends the section.                                            *)
LEMMA UnlockGrace ==
  ASSUME NEW section, Apart(section), Grace(section),
         NEW t \in Threads, ReadUnlock(t),
         pc[t] \in section,
         NEW to, Outside(to, section),
         pc' = [pc EXCEPT ![t] = to]
  PROVE  Grace(section)'
<1> USE VersionAssumption
       DEF Apart, Grace, GraceTypes, LoopAtStart, ReadUnlock, LockLabels,
           SyncLabels, Waiting, Quiet, Outside, versionVars, syncLocals
<1>1. GraceTypes'
  OBVIOUS
<1>2. ASSUME NEW u \in Threads PROVE Announced(u, section)'
  BY DEF Announced
<1>3. ASSUME NEW u \in Threads PROVE OldReadersHeld(u)'
  BY DEF OldReadersHeld, Announced
<1>4. ASSUME NEW u \in Threads PROVE LoopAtStart(u)'
  BY DEF OldReadersHeld
<1> QED BY <1>1, <1>2, <1>3, <1>4

(* The readers that are inside their section have announced versions that  *)
(* are not newer than the one loaded here.                                 *)
LEMMA SyncLoadGrace ==
  ASSUME NEW section, Apart(section), Grace(section), NEW t \in Threads,
         SyncLoad(t, {r \in Threads : pc[r] \in section})
  PROVE  Grace(section)'
<1> USE DEF Apart, Grace, GraceTypes, LoopAtStart, SyncLoad, Goto,
            LockLabels, SyncLabels, versionVars, syncLocals
<1>1. GraceTypes'
  OBVIOUS
<1>2. ASSUME NEW u \in Threads PROVE Announced(u, section)'
  BY DEF Announced
<1>3. ASSUME NEW u \in Threads PROVE OldReadersHeld(u)'
  <2>1. CASE u = t
    <3>1. ASSUME NEW r \in oldReaders'[t]
          PROVE  /\ r \in Threads /\ r # t /\ pc[r] \in section
                 /\ readersVersion[r] <= updaterVersion
      BY DEF Announced
    <3>2. waitFor'[t] = updaterVersion /\ idx'[t] = 0 /\ pc'[t] = "sync.cas"
      OBVIOUS
    <3> QED BY <2>1, <3>1, <3>2 DEF OldReadersHeld, Threads
  <2>2. CASE u # t
    BY <2>2 DEF OldReadersHeld
  <2> QED BY <2>1, <2>2
<1>4. ASSUME NEW u \in Threads PROVE LoopAtStart(u)'
  BY DEF OldReadersHeld
<1> QED BY <1>1, <1>2, <1>3, <1>4

(* The version only grows.                                                 *)
LEMMA SyncCasGrace ==
  ASSUME NEW section, Apart(section), Grace(section), NEW t \in Threads,
         SyncCas(t)
  PROVE  Grace(section)'
<1> USE DEF Apart, Grace, GraceTypes, LoopAtStart, SyncCas, Goto,
            LockLabels, SyncLabels, versionVars, syncLocals
<1>0. updaterVersion' \in Nat /\ updaterVersion <= updaterVersion'
  OBVIOUS
<1>1. GraceTypes'
  BY <1>0
<1>2. ASSUME NEW u \in Threads PROVE Announced(u, section)'
  BY <1>0 DEF Announced
<1>3. ASSUME NEW u \in Threads PROVE OldReadersHeld(u)'
  BY DEF OldReadersHeld
<1>4. ASSUME NEW u \in Threads PROVE LoopAtStart(u)'
  OBVIOUS
<1> QED BY <1>1, <1>2, <1>3, <1>4

(* The threads behind the one that the loop has just looked at.            *)
LEMMA NextIndex ==
  ASSUME NEW i \in Threads, NEW r \in Threads, i <= r, r # i
  PROVE  i + 1 <= r
BY ThreadsAssumption DEF Threads

(* The loop passes a thread when it announces a newer version, so that it  *)
(* is no old reader, and when it has passed all there is none.             *)
LEMMA SyncSpinGrace ==
  ASSUME NEW section, Apart(section), Grace(section), NEW t \in Threads,
         NEW done, Outside(done, section),
         SyncSpin(t, done)
  PROVE  Grace(section)'
<1> USE DEF Apart, Grace, GraceTypes, LoopAtStart, SyncSpin,
            ReaderIsOld, Goto, LockLabels, SyncLabels, versionVars, Waiting,
            Quiet, Outside
<1>1. CASE ReaderIsOld(t)
  BY <1>1 DEF syncLocals, Announced, OldReadersHeld
<1>2. CASE ~ReaderIsOld(t) /\ idx[t] + 1 < NumThreads
  <2>1. idx[t] + 1 \in Threads
    BY <1>2, ThreadsAssumption DEF Threads
  <2>2. /\ idx' = [idx EXCEPT ![t] = idx[t] + 1]
        /\ UNCHANGED <<pc, waitFor, updaterVersion, readersVersion,
                       rv, oldReaders>>
    BY <1>2
  <2>3. \A r \in oldReaders[t] : r # idx[t]
    BY <1>2 DEF OldReadersHeld
  <2>4. ASSUME NEW u \in Threads PROVE OldReadersHeld(u)'
    <3>1. CASE u = t
      <4> SUFFICES ASSUME NEW r \in oldReaders[t]
                   PROVE  /\ pc[r] \notin {"lock.check", "lock.fix"}
                          /\ pc[t] \in {"sync.cas", "sync.spin"}
                          /\ readersVersion[r] <= waitFor[t]
                          /\ idx[t] + 1 <= r
        BY <2>2, <3>1 DEF OldReadersHeld
      <4>1. /\ pc[r] \notin {"lock.check", "lock.fix"}
            /\ pc[t] \in {"sync.cas", "sync.spin"}
            /\ readersVersion[r] <= waitFor[t]
            /\ idx[t] <= r
        BY DEF OldReadersHeld
      <4>2. r \in Threads /\ idx[t] \in Threads
        OBVIOUS
      <4>3. r # idx[t]
        BY <2>3
      <4> QED BY <4>1, <4>2, <4>3, NextIndex
    <3>2. CASE u # t
      BY <2>2, <3>2 DEF OldReadersHeld
    <3> QED BY <3>1, <3>2
  <2>5. ASSUME NEW u \in Threads PROVE Announced(u, section)'
    BY <2>2 DEF Announced
  <2> QED BY <2>1, <2>2, <2>4, <2>5
<1>3. CASE ~ReaderIsOld(t) /\ ~(idx[t] + 1 < NumThreads)
  <2>1. /\ pc[t] = "sync.spin" /\ pc' = [pc EXCEPT ![t] = done]
        /\ idx' = [idx EXCEPT ![t] = 0]
        /\ waitFor' = [waitFor EXCEPT ![t] = 0]
        /\ UNCHANGED <<updaterVersion, readersVersion, rv, oldReaders>>
    BY <1>3
  <2>2. oldReaders[t] = {}
    <3> SUFFICES ASSUME NEW r \in oldReaders[t] PROVE FALSE
      OBVIOUS
    <3>1. r \in Threads /\ idx[t] \in Threads
      OBVIOUS
    <3>2. idx[t] <= r /\ readersVersion[r] <= waitFor[t]
      BY DEF OldReadersHeld
    <3>3. r # idx[t]
      BY <1>3, <3>2
    <3> QED BY <1>3, <3>1, <3>2, <3>3, ThreadsAssumption DEF Threads
  <2>3. 0 \in Threads
    BY ThreadsAssumption DEF Threads
  <2>4. ASSUME NEW u \in Threads
        PROVE  (/\ Announced(u, section) /\ OldReadersHeld(u)
                /\ LoopAtStart(u))'
    BY <2>1, <2>2 DEF Announced, OldReadersHeld
  <2> QED BY <2>1, <2>3, <2>4
<1> QED BY <1>1, <1>2, <1>3

(* Every step keeps Grace.                                                 *)
LEMMA GraceKept ==
  ASSUME NEW section, Apart(section), Grace(section),
         SchemeStep(section) \/ Elsewhere(section)
  PROVE  Grace(section)'
<1>1. CASE Elsewhere(section)
  BY <1>1, ElsewhereGrace
<1>2. CASE SchemeStep(section)
  <2> PICK t \in Threads :
        \/ \E done \in section : ReadLock(t, done)
        \/ \E to : /\ ReadUnlock(t) /\ pc[t] \in section
                  /\ Outside(to, section) /\ pc' = [pc EXCEPT ![t] = to]
        \/ \E done :
             /\ Outside(done, section)
             /\ SynchronizeRCU(t, {r \in Threads : pc[r] \in section}, done)
    BY <1>2 DEF SchemeStep
  <2>1. ASSUME NEW done \in section, ReadLock(t, done)
        PROVE  Grace(section)'
    BY <2>1, LockLoadGrace, LockStoreGrace, LockCheckGrace, LockFixGrace
       DEF ReadLock
  <2>2. ASSUME NEW to, ReadUnlock(t), pc[t] \in section,
               Outside(to, section), pc' = [pc EXCEPT ![t] = to]
        PROVE  Grace(section)'
    BY <2>2, UnlockGrace
  <2>3. ASSUME NEW done, Outside(done, section),
               SynchronizeRCU(t, {r \in Threads : pc[r] \in section}, done)
        PROVE  Grace(section)'
    BY <2>3, SyncLoadGrace, SyncCasGrace, SyncSpinGrace DEF SynchronizeRCU
  <2> QED BY <2>1, <2>2, <2>3
<1> QED BY <1>1, <1>2

-----------------------------------------------------------------------------
(* The refinement of SafeReclamation: which changes of the life cycles and *)
(* the guards are steps of it.                                             *)

(* Every thread goes on relying on the nodes it relied on.                 *)
GuardsUnchanged == \A u \in Threads : Guards(u)' = Guards(u)

(* Thread t relies on the nodes of S from now on; for the others nothing   *)
(* changes.                                                                *)
OnlyGuards(t, S) ==
  \A u \in Threads : Guards(u)' = IF u = t THEN S ELSE Guards(u)

(* A step that leaves life cycles and guards alone is a stutter.           *)
LEMMA StutterMaps ==
  ASSUME UNCHANGED status, GuardsUnchanged
  PROVE  UNCHANGED SMR!vars
BY DEF GuardsUnchanged, SMR!vars

(* A thread that keeps some of its guards takes a Release step, or one     *)
(* that changes nothing.                                                   *)
LEMMA ReleaseMaps ==
  ASSUME NEW t \in Threads, NEW S, OnlyGuards(t, S), S \subseteq Guards(t),
         UNCHANGED status
  PROVE  [SMR!Next]_(SMR!vars)
<1> DEFINE g == [u \in Threads |-> Guards(u)]
<1>1. CASE Guards(t) = S
  BY <1>1, StutterMaps DEF OnlyGuards, GuardsUnchanged
<1>2. CASE Guards(t) # S
  <2>1. g' = [g EXCEPT ![t] = g[t] \cap g'[t]] /\ g'[t] # g[t]
    BY <1>2 DEF OnlyGuards
  <2>2. SMR!Release(t)
    BY <2>1 DEF SMR!Release
  <2> QED BY <2>1, <2>2 DEF SMR!Next
<1> QED BY <1>1, <1>2

(* A thread that comes to rely on a linked node takes a Guard step.        *)
LEMMA GuardMaps ==
  ASSUME NEW t \in Threads, NEW n \in Nodes, status[n] = "linked",
         OnlyGuards(t, Guards(t) \cup {n}), UNCHANGED status
  PROVE  [SMR!Next]_(SMR!vars)
<1> DEFINE g == [u \in Threads |-> Guards(u)]
<1>1. CASE n \in Guards(t)
  BY <1>1, StutterMaps DEF OnlyGuards, GuardsUnchanged
<1>2. CASE n \notin Guards(t)
  <2>1. g' = [g EXCEPT ![t] = g[t] \cup {n}]
    BY DEF OnlyGuards
  <2>2. n \in g'[t] /\ g'[t] # g[t]
    BY <1>2 DEF OnlyGuards
  <2>3. SMR!Guard(t, n)
    BY <2>1 DEF SMR!Guard
  <2> QED BY <2>2, <2>3 DEF SMR!Next
<1> QED BY <1>1, <1>2

(* One node that changes its life cycle, with the guards as they were, is  *)
(* a Move.                                                                 *)
LEMMA MoveMaps ==
  ASSUME NEW n \in Nodes, NEW from, NEW to, status[n] = from,
         NEW S, status \in [Nodes -> S],
         status' = [status EXCEPT ![n] = to], GuardsUnchanged
  PROVE  SMR!Move({n}, from, to)
BY DEF SMR!Move, GuardsUnchanged

-----------------------------------------------------------------------------
(* The stack.                                                              *)

(* readLock returns at a label of the section, not one of its own.         *)
LEMMA StackApart == Apart(Stack!SectionLabels)
BY DEF Apart, Stack!SectionLabels, Stack!PushLabels, Stack!GuardLabels,
       LockLabels, SyncLabels

(* The steps of the stack: those of the scheme, those that end a section,  *)
(* and all others.                                                         *)
LEMMA StackStep ==
  ASSUME Grace(Stack!SectionLabels), Stack!Next
  PROVE  SchemeStep(Stack!SectionLabels) \/ Elsewhere(Stack!SectionLabels)
<1> DEFINE section == Stack!SectionLabels
<1> USE DEF Stack!Goto, Stack!SectionLabels, Stack!PushLabels,
            Stack!GuardLabels, Waiting, Quiet, Outside
<1>0. pc = [u \in Threads |-> pc[u]] /\ Stack!Threads = Threads
  BY DEF Grace, GraceTypes, LoopAtStart, Stack!Threads, Threads
<1>1. ASSUME NEW t \in Threads, Stack!LockStep(t)
      PROVE  SchemeStep(section)
  <2>1. PICK done \in section : Stack!ReadLock(t, done)
    BY <1>1 DEF Stack!LockStep
  <2>2. ReadLock(t, done)
    BY <2>1, <1>0
       DEF ReadLock, Stack!ReadLock, LockLoad, Stack!LockLoad, LockStore,
           Stack!LockStore, LockCheck, Stack!LockCheck, LockFix, Stack!LockFix,
           Goto, Stack!urcuVars, urcuVars, Stack!versionVars, versionVars,
           Stack!syncLocals, syncLocals
  <2> QED BY <2>2 DEF SchemeStep
<1>2. ASSUME NEW t \in Threads, Stack!PopSync(t)
      PROVE  SchemeStep(section)
  <2>1. PICK done : /\ Outside(done, section)
                    /\ Stack!SynchronizeRCU(t, Stack!Readers, done)
    BY <1>2 DEF Stack!PopSync
  <2>2. Stack!Readers = {r \in Threads : pc[r] \in section}
    BY <1>0 DEF Stack!Readers
  <2>3. SynchronizeRCU(t, Stack!Readers, done)
    BY <2>1
       DEF SynchronizeRCU, Stack!SynchronizeRCU, SyncLoad, Stack!SyncLoad,
           SyncCas, Stack!SyncCas, SyncSpin, Stack!SyncSpin, ReaderIsOld,
           Stack!ReaderIsOld, Goto, Stack!urcuVars, urcuVars,
           Stack!versionVars, versionVars, Stack!syncLocals, syncLocals
  <2> QED BY <2>1, <2>2, <2>3 DEF SchemeStep
<1>3. ASSUME NEW t \in Threads, Stack!ReadUnlock(t), pc[t] \in section,
             NEW to, Outside(to, section), pc' = [pc EXCEPT ![t] = to]
      PROVE  SchemeStep(section)
  <2>1. ReadUnlock(t)
    BY <1>3, <1>0
       DEF ReadUnlock, Stack!ReadUnlock, Stack!urcuVars, urcuVars,
           Stack!versionVars, versionVars, Stack!syncLocals, syncLocals
  <2> QED BY <1>3, <2>1 DEF SchemeStep
<1>4. ASSUME NEW t \in Threads, Stack!PushUnlock(t)
      PROVE  SchemeStep(section)
  BY <1>3, <1>4 DEF Stack!PushUnlock
<1>5. ASSUME NEW t \in Threads, Stack!PopEmpty(t)
      PROVE  SchemeStep(section)
  BY <1>3, <1>5 DEF Stack!PopEmpty
<1>6. ASSUME NEW t \in Threads, Stack!PopRetry(t)
      PROVE  SchemeStep(section)
  BY <1>3, <1>6 DEF Stack!PopRetry
<1>7. ASSUME NEW t \in Threads, Stack!PopUnlock(t)
      PROVE  SchemeStep(section)
  BY <1>3, <1>7 DEF Stack!PopUnlock
<1>8. ASSUME NEW t \in Threads,
             Stack!PushCall(t) \/ Stack!PopCall(t)
      PROVE  Elsewhere(section)
  BY <1>0, <1>8
     DEF Elsewhere, Stack!PushCall, Stack!PopCall, Stack!urcuVars,
         urcuVars, Stack!versionVars, versionVars, Stack!syncLocals, syncLocals
<1>9. ASSUME NEW t \in Threads,
             Stack!PushLoad(t) \/ Stack!PushCas(t)
      PROVE  Elsewhere(section)
  BY <1>0, <1>9
     DEF Elsewhere, Stack!PushLoad, Stack!PushCas, Stack!urcuVars,
         urcuVars, Stack!versionVars, versionVars, Stack!syncLocals, syncLocals
<1>10. ASSUME NEW t \in Threads,
             Stack!PopLoad(t) \/ Stack!PopCheck(t) \/ Stack!PopNext(t) \/
             Stack!PopCas(t) \/ Stack!PopItem(t)
      PROVE  Elsewhere(section)
  BY <1>0, <1>10
     DEF Elsewhere, Stack!PopLoad, Stack!PopCheck, Stack!PopNext,
         Stack!PopCas, Stack!PopItem, Stack!urcuVars, urcuVars,
         Stack!versionVars, versionVars, Stack!syncLocals, syncLocals
<1>11. ASSUME NEW t \in Threads,
             Stack!PopFree(t) \/ Stack!ThreadExit(t)
      PROVE  Elsewhere(section)
  BY <1>0, <1>11
     DEF Elsewhere, Stack!PopFree, Stack!ThreadExit, Stack!LeaveLoop,
         Stack!urcuVars, urcuVars, Stack!versionVars, versionVars,
         Stack!syncLocals, syncLocals
<1>12. ASSUME Stack!MainStep \/ Stack!Finished
      PROVE  Elsewhere(section)
  BY <1>0, <1>12, ThreadsAssumption
     DEF Elsewhere, Stack!MainStep, Stack!Quit, Stack!QuitSignal,
         Stack!Join, Stack!JoinThreads, Stack!Destroy, Stack!DeleteStructure,
         Stack!Finished, Stack!vars, Stack!urcuVars, urcuVars,
         Stack!versionVars, versionVars, Stack!syncLocals, syncLocals, Threads
<1> QED
  BY <1>0, <1>1, <1>2, <1>4, <1>5, <1>6, <1>7, <1>8, <1>9, <1>10, <1>11,
     <1>12
     DEF Stack!Next, Stack!ThreadStep, Stack!PushStep, Stack!PopStep

(* The scheme's part of the invariant is kept.                             *)
LEMMA StackKeepsGrace ==
  ASSUME Stack!Grace(Stack!SectionLabels), [Stack!Next]_(Stack!vars)
  PROVE  Stack!Grace(Stack!SectionLabels)'
<1> USE DEF Stack!Grace, Stack!GraceTypes, Stack!LoopAtStart, Stack!OldReadersHeld,
            Stack!Announced, Stack!Threads, Grace, GraceTypes, LoopAtStart,
            OldReadersHeld, Announced, Threads
<1>1. Grace(Stack!SectionLabels)
  OBVIOUS
<1>2. CASE Stack!Next
  <2> HIDE DEF Stack!Grace, Grace
  <2>1. Grace(Stack!SectionLabels)'
    BY <1>1, <1>2, StackStep, StackApart, GraceKept
  <2> QED BY <2>1 DEF Stack!Grace, Grace
<1>3. CASE UNCHANGED Stack!vars
  BY <1>3 DEF Stack!vars, Stack!urcuVars, Stack!versionVars, Stack!syncLocals
<1> QED BY <1>2, <1>3

(* The constructor establishes the invariant.                              *)
LEMMA StackInitInv == Stack!Init => Stack!IInv
<1> SUFFICES ASSUME Stack!Init PROVE Stack!IInv
  OBVIOUS
<1> USE HeapAssumption, ThreadsAssumption
    DEF Stack!Init, Stack!URCUInit, Stack!BenchmarkInit, Stack!HeapWithSentinel
<1>1. Stack!StackTypes
  BY DEF Stack!StackTypes, Stack!MainStates, Stack!HeapTypeOK, Stack!NodeOrNull,
         Stack!Statuses, Stack!Labels
<1>2. Stack!Grace(Stack!SectionLabels)
  BY VersionAssumption
     DEF Stack!Grace, Stack!GraceTypes, Stack!LoopAtStart, Stack!Announced,
         Stack!OldReadersHeld, Stack!Threads,
         Stack!SectionLabels, Stack!PushLabels, Stack!GuardLabels
<1>3. Stack!StackShape /\ Stack!MainAlone
  BY DEF Stack!StackShape, Stack!MainAlone
<1>4. Stack!PushOwnsNode /\ Stack!PoppedByOne /\ Stack!ReaderKeepsNode
  BY DEF Stack!PushOwnsNode, Stack!Pushing, Stack!PushLabels, Stack!PoppedByOne,
         Stack!Popped, Stack!SyncLabels,
         Stack!ReaderKeepsNode
<1> QED BY <1>1, <1>2, <1>3, <1>4 DEF Stack!IInv

(* A push that begins owns a node nobody else knows.                       *)
LEMMA PushCallInv ==
  ASSUME Stack!IInv, NEW t \in Stack!Threads, Stack!PushCall(t)
  PROVE  Stack!IInv'
<1> USE HeapAssumption DEF Stack!IInv, Stack!PushCall, Stack!Calling, Stack!Goto
<1>0. PICK n \in Nodes, i \in Items :
        Stack!New(n, i) /\ node' = [node EXCEPT ![t] = n]
  OBVIOUS
<1>1. Stack!StackTypes'
  BY <1>0 DEF Stack!StackTypes, Stack!New, Stack!HeapTypeOK, Stack!NodeOrNull,
              Stack!Statuses, Stack!Labels,
         Stack!LockLabels
<1>2. Stack!Grace(Stack!SectionLabels)'
  BY StackKeepsGrace DEF Stack!Next, Stack!ThreadStep
<1>3. Stack!StackShape' /\ Stack!MainAlone'
  BY <1>0 DEF Stack!StackTypes, Stack!New, Stack!HeapTypeOK, Stack!StackShape,
              Stack!MainAlone
<1>4. Stack!PushOwnsNode'
  BY <1>0 DEF Stack!StackTypes, Stack!New, Stack!HeapTypeOK, Stack!NodeOrNull,
              Stack!PushOwnsNode, Stack!Pushing,
     Stack!PushLabels
<1>5. Stack!PoppedByOne' /\ Stack!ReaderKeepsNode'
  BY <1>0 DEF Stack!StackTypes, Stack!New, Stack!HeapTypeOK, Stack!PoppedByOne,
              Stack!Popped, Stack!SyncLabels,
     Stack!ReaderKeepsNode, Stack!urcuVars
<1> QED BY <1>1, <1>2, <1>3, <1>4, <1>5

(* A thread that locks relies on no node, and leaves no section in which   *)
(* an updater waits for it that still relies on one.                       *)
LEMMA StackLockStepInv ==
  ASSUME Stack!IInv, NEW t \in Stack!Threads, Stack!LockStep(t)
  PROVE  Stack!IInv'
<1> USE HeapAssumption DEF Stack!IInv, Stack!LockStep, Stack!ReadLock, Stack!LockLoad,
                           Stack!LockStore,
    Stack!LockCheck, Stack!LockFix, Stack!heapVars, Stack!urcuVars, Stack!versionVars,
    Stack!syncLocals, Stack!locals, Stack!Goto
<1>1. Stack!StackTypes'
  BY DEF Stack!StackTypes, Stack!HeapTypeOK, Stack!NodeOrNull, Stack!Statuses,
         Stack!Labels, Stack!MainStates,
         Stack!LockLabels, Stack!SyncLabels, Stack!PushLabels, Stack!PopLabels,
         Stack!GuardLabels
<1>2. Stack!Grace(Stack!SectionLabels)'
  BY StackKeepsGrace DEF Stack!Next, Stack!ThreadStep, Stack!PushStep, Stack!PopStep
<1>3. Stack!StackShape' /\ Stack!MainAlone'
  BY DEF Stack!StackTypes, Stack!HeapTypeOK, Stack!StackShape, Stack!MainAlone
<1>4. Stack!PushOwnsNode'
  BY DEF Stack!StackTypes, Stack!HeapTypeOK, Stack!NodeOrNull, Stack!PushOwnsNode,
         Stack!Pushing, Stack!PushLabels
<1>5. Stack!PoppedByOne'
  BY DEF Stack!StackTypes, Stack!HeapTypeOK, Stack!PoppedByOne, Stack!Popped,
         Stack!SyncLabels
<1>6. Stack!ReaderKeepsNode'
  BY DEF Stack!StackTypes, Stack!HeapTypeOK, Stack!ReaderKeepsNode, Stack!Popped,
         Stack!SyncLabels
<1> QED BY <1>1, <1>2, <1>3, <1>4, <1>5, <1>6

(* The steps of an operation that change neither a node nor top: loads,    *)
(* comparisons and the ends of sections.                                   *)
StackLocalStep(t) ==
  \/ Stack!PushLoad(t) \/ Stack!PushUnlock(t) \/ Stack!PopLoad(t) \/ Stack!PopEmpty(t)
  \/ Stack!PopCheck(t) \/ Stack!PopRetry(t) \/ Stack!PopNext(t) \/ Stack!PopItem(t)
  \/ Stack!PopUnlock(t)

(* They keep the invariant.  A pop comes to rely on a node when it finds   *)
(* it at the top still: that node is linked, so that no thread has popped  *)
(* it yet.  Its link is read while the node is allocated, and the section  *)
(* has ended before the wait begins.                                       *)
LEMMA StackLocalInv ==
  ASSUME Stack!IInv, NEW t \in Stack!Threads, StackLocalStep(t)
  PROVE  Stack!IInv'
<1> USE HeapAssumption
    DEF Stack!IInv, StackLocalStep, Stack!PushLoad, Stack!PushUnlock, Stack!PopLoad,
        Stack!PopEmpty, Stack!PopCheck, Stack!PopRetry, Stack!PopNext, Stack!PopItem,
        Stack!PopUnlock, Stack!ReadUnlock, Stack!ReturnItem, Stack!heapVars,
        Stack!urcuVars, Stack!versionVars, Stack!syncLocals, Stack!locals, Stack!Goto
<1>1. Stack!StackTypes'
  BY DEF Stack!StackTypes, Stack!HeapTypeOK, Stack!NodeOrNull, Stack!Statuses,
         Stack!Labels, Stack!MainStates, Stack!LockLabels, Stack!SyncLabels,
         Stack!PushLabels, Stack!PopLabels, Stack!GuardLabels, Stack!ReaderKeepsNode
<1>2. Stack!Grace(Stack!SectionLabels)'
  BY StackKeepsGrace DEF Stack!Next, Stack!ThreadStep, Stack!PushStep, Stack!PopStep
<1>3. Stack!StackShape' /\ Stack!MainAlone'
  BY DEF Stack!StackTypes, Stack!HeapTypeOK, Stack!StackShape, Stack!MainAlone,
         Stack!PushOwnsNode, Stack!Pushing, Stack!PushLabels
<1>4. Stack!PushOwnsNode'
  BY DEF Stack!StackTypes, Stack!HeapTypeOK, Stack!NodeOrNull, Stack!PushOwnsNode,
         Stack!Pushing, Stack!PushLabels
<1>5. Stack!PoppedByOne'
  BY DEF Stack!StackTypes, Stack!HeapTypeOK, Stack!PoppedByOne, Stack!Popped,
         Stack!SyncLabels
<1>6. Stack!ReaderKeepsNode'
  BY DEF Stack!StackTypes, Stack!HeapTypeOK, Stack!ReaderKeepsNode, Stack!Popped,
         Stack!SyncLabels, Stack!StackShape, Stack!PoppedByOne, Stack!NodeOrNull,
         Stack!PushOwnsNode, Stack!Pushing, Stack!PushLabels
<1> QED BY <1>1, <1>2, <1>3, <1>4, <1>5, <1>6

(* The exchange of a push makes its node the new top, in front of the old  *)
(* one.                                                                    *)
LEMMA PushCasInv ==
  ASSUME Stack!IInv, NEW t \in Stack!Threads, Stack!PushCas(t)
  PROVE  Stack!IInv'
<1> USE HeapAssumption DEF Stack!IInv, Stack!PushCas, Stack!heapVars, Stack!urcuVars,
                           Stack!versionVars, Stack!syncLocals, Stack!locals,
                           Stack!Goto
<1>1. Stack!StackTypes'
  BY DEF Stack!StackTypes, Stack!HeapTypeOK, Stack!NodeOrNull, Stack!Statuses,
         Stack!Labels, Stack!MainStates,
         Stack!LockLabels, Stack!SyncLabels, Stack!PushLabels, Stack!PopLabels,
         Stack!GuardLabels
<1>2. Stack!Grace(Stack!SectionLabels)'
  BY StackKeepsGrace DEF Stack!Next, Stack!ThreadStep, Stack!PushStep, Stack!PopStep
<1>3. Stack!StackShape' /\ Stack!MainAlone'
  <2>1. CASE top # temp[t]
    BY <2>1 DEF Stack!StackTypes, Stack!HeapTypeOK, Stack!StackShape, Stack!MainAlone
  <2>2. CASE top = temp[t]
    <3>1. /\ top' = node[t] /\ status' = [status EXCEPT ![node[t]] = "linked"]
          /\ next' = next /\ node[t] \in Nodes /\ status[node[t]] = "private"
          /\ next[node[t]] = top
      BY <2>2 DEF Stack!StackTypes, Stack!NodeOrNull, Stack!PushOwnsNode,
                  Stack!Pushing, Stack!PushLabels
    <3>2. \A m \in Nodes :
            status'[m] = "linked" <=> m = node[t] \/ status[m] = "linked"
      BY <3>1 DEF Stack!StackTypes, Stack!HeapTypeOK
    <3>3. Stack!StackShape'
      BY <3>1, <3>2 DEF Stack!StackTypes, Stack!HeapTypeOK, Stack!NodeOrNull,
                        Stack!StackShape
    <3> QED BY <3>3 DEF Stack!StackTypes, Stack!MainAlone
  <2> QED BY <2>1, <2>2
<1>4. Stack!PushOwnsNode'
  BY DEF Stack!StackTypes, Stack!HeapTypeOK, Stack!NodeOrNull, Stack!PushOwnsNode,
         Stack!Pushing, Stack!PushLabels
<1>5. Stack!PoppedByOne'
  BY DEF Stack!StackTypes, Stack!HeapTypeOK, Stack!PoppedByOne, Stack!Popped,
         Stack!SyncLabels,
         Stack!PushOwnsNode, Stack!Pushing, Stack!PushLabels
<1>6. Stack!ReaderKeepsNode'
  BY DEF Stack!StackTypes, Stack!HeapTypeOK, Stack!ReaderKeepsNode, Stack!Popped,
         Stack!SyncLabels
<1> QED BY <1>1, <1>2, <1>3, <1>4, <1>5, <1>6

(* A pop that begins holds nothing, also when the main thread drains.      *)
LEMMA PopCallInv ==
  ASSUME Stack!IInv, NEW t \in Stack!Threads, Stack!PopCall(t)
  PROVE  Stack!IInv'
<1> USE HeapAssumption DEF Stack!IInv, Stack!PopCall, Stack!Calling, Stack!DrainingAs,
                           Stack!heapVars, Stack!urcuVars, Stack!versionVars,
                           Stack!syncLocals, Stack!locals, Stack!Goto
<1>1. Stack!StackTypes'
  BY DEF Stack!StackTypes, Stack!HeapTypeOK, Stack!NodeOrNull, Stack!Statuses,
         Stack!Labels, Stack!MainStates,
         Stack!LockLabels, Stack!SyncLabels, Stack!PushLabels, Stack!PopLabels,
         Stack!GuardLabels
<1>2. Stack!Grace(Stack!SectionLabels)'
  BY StackKeepsGrace DEF Stack!Next, Stack!ThreadStep, Stack!PushStep, Stack!PopStep
<1>3. Stack!StackShape' /\ Stack!MainAlone'
  BY DEF Stack!StackTypes, Stack!HeapTypeOK, Stack!StackShape, Stack!MainAlone
<1>4. Stack!PushOwnsNode'
  BY DEF Stack!StackTypes, Stack!HeapTypeOK, Stack!NodeOrNull, Stack!PushOwnsNode,
         Stack!Pushing, Stack!PushLabels
<1>5. Stack!PoppedByOne'
  BY DEF Stack!StackTypes, Stack!HeapTypeOK, Stack!PoppedByOne, Stack!Popped,
         Stack!SyncLabels
<1>6. Stack!ReaderKeepsNode'
  BY DEF Stack!StackTypes, Stack!HeapTypeOK, Stack!ReaderKeepsNode, Stack!Popped,
         Stack!SyncLabels
<1> QED BY <1>1, <1>2, <1>3, <1>4, <1>5, <1>6

(* The exchange takes the top off: its successor is linked, and this       *)
(* thread alone has popped it.                                             *)
LEMMA PopCasInv ==
  ASSUME Stack!IInv, NEW t \in Stack!Threads, Stack!PopCas(t)
  PROVE  Stack!IInv'
<1> USE HeapAssumption DEF Stack!IInv, Stack!PopCas, Stack!heapVars, Stack!urcuVars,
                           Stack!versionVars, Stack!syncLocals, Stack!locals,
                           Stack!Goto
<1>1. Stack!StackTypes'
  BY DEF Stack!StackTypes, Stack!HeapTypeOK, Stack!NodeOrNull, Stack!Statuses,
         Stack!Labels, Stack!MainStates,
         Stack!LockLabels, Stack!SyncLabels, Stack!PushLabels, Stack!PopLabels,
         Stack!GuardLabels
<1>2. Stack!Grace(Stack!SectionLabels)'
  BY StackKeepsGrace DEF Stack!Next, Stack!ThreadStep, Stack!PushStep, Stack!PopStep
<1>3. Stack!StackShape' /\ Stack!MainAlone'
  <2>1. CASE top # temp[t]
    BY <2>1 DEF Stack!StackTypes, Stack!HeapTypeOK, Stack!StackShape, Stack!MainAlone
  <2>2. CASE top = temp[t]
    <3>1. /\ top \in Nodes /\ status[top] = "linked"
          /\ top' = next[top] /\ next' = next
          /\ status' = [status EXCEPT ![top] = "retired"]
      BY <2>2 DEF Stack!ReaderKeepsNode, Stack!StackShape
    <3>2. \A m \in Nodes :
            status'[m] = "linked" <=> m # top /\ status[m] = "linked"
      BY <3>1 DEF Stack!StackTypes, Stack!HeapTypeOK
    <3>3. Stack!StackShape'
      BY <3>1, <3>2 DEF Stack!StackTypes, Stack!HeapTypeOK, Stack!NodeOrNull,
                        Stack!StackShape
    <3> QED BY <3>3 DEF Stack!StackTypes, Stack!MainAlone
  <2> QED BY <2>1, <2>2
<1>4. Stack!PushOwnsNode'
  BY DEF Stack!StackTypes, Stack!HeapTypeOK, Stack!NodeOrNull, Stack!PushOwnsNode,
         Stack!Pushing, Stack!PushLabels,
         Stack!StackShape, Stack!ReaderKeepsNode
<1>5. Stack!PoppedByOne'
  BY DEF Stack!StackTypes, Stack!HeapTypeOK, Stack!PoppedByOne, Stack!Popped,
         Stack!SyncLabels,
         Stack!StackShape, Stack!ReaderKeepsNode
<1>6. Stack!ReaderKeepsNode'
  BY DEF Stack!StackTypes, Stack!HeapTypeOK, Stack!ReaderKeepsNode, Stack!Popped,
         Stack!SyncLabels
<1> QED BY <1>1, <1>2, <1>3, <1>4, <1>5, <1>6

(* A thread that begins to wait does so for every reader that may hold its *)
(* node; one that returns has waited for all of them.                      *)
LEMMA PopSyncInv ==
  ASSUME Stack!IInv, NEW t \in Stack!Threads, Stack!PopSync(t)
  PROVE  Stack!IInv'
<1> USE HeapAssumption DEF Stack!IInv, Stack!PopSync, Stack!SynchronizeRCU,
                           Stack!SyncLoad, Stack!SyncCas,
    Stack!SyncSpin, Stack!Readers, Stack!heapVars, Stack!urcuVars, Stack!versionVars,
    Stack!syncLocals, Stack!locals, Stack!Goto
<1>1. Stack!StackTypes'
  BY DEF Stack!StackTypes, Stack!HeapTypeOK, Stack!NodeOrNull, Stack!Statuses,
         Stack!Labels, Stack!MainStates,
         Stack!LockLabels, Stack!SyncLabels, Stack!PushLabels, Stack!PopLabels,
         Stack!GuardLabels
<1>2. Stack!Grace(Stack!SectionLabels)'
  BY StackKeepsGrace DEF Stack!Next, Stack!ThreadStep, Stack!PushStep, Stack!PopStep
<1>3. Stack!StackShape' /\ Stack!MainAlone'
  BY DEF Stack!StackTypes, Stack!HeapTypeOK, Stack!StackShape, Stack!MainAlone
<1>4. Stack!PushOwnsNode'
  BY DEF Stack!StackTypes, Stack!HeapTypeOK, Stack!NodeOrNull, Stack!PushOwnsNode,
         Stack!Pushing, Stack!PushLabels
<1>5. Stack!PoppedByOne'
  BY DEF Stack!StackTypes, Stack!HeapTypeOK, Stack!PoppedByOne, Stack!Popped,
         Stack!SyncLabels
<1>6. Stack!ReaderKeepsNode'
  <2> USE DEF Stack!StackTypes, Stack!ReaderKeepsNode, Stack!Popped, Stack!SyncLabels
  <2>1. CASE Stack!SyncLoad(t, Stack!Readers)
    BY <2>1 DEF Stack!SectionLabels, Stack!GuardLabels, Stack!Grace, Stack!GraceTypes
  <2>2. CASE Stack!SyncCas(t)
    BY <2>2
  <2>3. CASE Stack!SyncSpin(t, "pop.free")
    BY <2>3
  <2> QED BY <2>1, <2>2, <2>3
<1> QED BY <1>1, <1>2, <1>3, <1>4, <1>5, <1>6

(* After the grace period no reader is left that relies on the node.       *)
LEMMA PopFreeInv ==
  ASSUME Stack!IInv, NEW t \in Stack!Threads, Stack!PopFree(t)
  PROVE  Stack!IInv'
<1> USE HeapAssumption DEF Stack!IInv, Stack!PopFree, Stack!Delete, Stack!ReturnItem,
                           Stack!heapVars, Stack!urcuVars, Stack!versionVars,
                           Stack!syncLocals, Stack!locals, Stack!Goto
<1>1. Stack!StackTypes'
  BY DEF Stack!StackTypes, Stack!HeapTypeOK, Stack!NodeOrNull, Stack!Statuses,
         Stack!Labels, Stack!MainStates,
         Stack!LockLabels, Stack!SyncLabels, Stack!PushLabels, Stack!PopLabels,
         Stack!GuardLabels
<1>2. Stack!Grace(Stack!SectionLabels)'
  BY StackKeepsGrace DEF Stack!Next, Stack!ThreadStep, Stack!PushStep, Stack!PopStep
<1>3. Stack!StackShape' /\ Stack!MainAlone'
  <2>1. Stack!StackShape'
    BY DEF Stack!StackTypes, Stack!HeapTypeOK, Stack!NodeOrNull, Stack!StackShape,
           Stack!PoppedByOne, Stack!Popped
  <2>2. Stack!MainAlone'
    BY DEF Stack!StackTypes, Stack!MainAlone
  <2> QED BY <2>1, <2>2
<1>4. Stack!PushOwnsNode'
  BY DEF Stack!StackTypes, Stack!HeapTypeOK, Stack!NodeOrNull, Stack!PushOwnsNode,
         Stack!Pushing, Stack!PushLabels,
         Stack!PoppedByOne, Stack!Popped
<1>5. Stack!PoppedByOne'
  BY DEF Stack!StackTypes, Stack!HeapTypeOK, Stack!PoppedByOne, Stack!Popped,
         Stack!SyncLabels
<1>6. Stack!ReaderKeepsNode'
  <2>1. oldReaders[t] = {}
    BY DEF Stack!Grace, Stack!OldReadersHeld
  <2>2. temp[t] \in Nodes /\ status[temp[t]] = "retired" /\ Stack!Popped(t)
    BY DEF Stack!PoppedByOne, Stack!Popped
  <2>3. \A u \in Stack!Threads : pc[u] \in {"pop.next", "pop.cas"} =>
          temp[u] # temp[t]
    BY <2>1, <2>2 DEF Stack!ReaderKeepsNode
  <2> QED
    BY <2>2, <2>3 DEF Stack!StackTypes, Stack!HeapTypeOK, Stack!ReaderKeepsNode,
                      Stack!Popped,
                      Stack!SyncLabels
<1> QED BY <1>1, <1>2, <1>3, <1>4, <1>5, <1>6

(* A thread leaves the loop with nothing in its hands.                     *)
LEMMA StackThreadExitInv ==
  ASSUME Stack!IInv, NEW t \in Stack!Threads, Stack!ThreadExit(t)
  PROVE  Stack!IInv'
<1> USE HeapAssumption DEF Stack!IInv, Stack!ThreadExit, Stack!LeaveLoop,
                           Stack!heapVars, Stack!urcuVars, Stack!versionVars,
                           Stack!syncLocals, Stack!locals, Stack!Goto
<1>1. Stack!StackTypes'
  BY DEF Stack!StackTypes, Stack!HeapTypeOK, Stack!NodeOrNull, Stack!Statuses,
         Stack!Labels, Stack!MainStates,
         Stack!LockLabels, Stack!SyncLabels, Stack!PushLabels, Stack!PopLabels,
         Stack!GuardLabels
<1>2. Stack!Grace(Stack!SectionLabels)'
  BY StackKeepsGrace DEF Stack!Next, Stack!ThreadStep, Stack!PushStep, Stack!PopStep
<1>3. Stack!StackShape' /\ Stack!MainAlone'
  BY DEF Stack!StackTypes, Stack!HeapTypeOK, Stack!StackShape, Stack!MainAlone
<1>4. Stack!PushOwnsNode'
  BY DEF Stack!StackTypes, Stack!HeapTypeOK, Stack!NodeOrNull, Stack!PushOwnsNode,
         Stack!Pushing, Stack!PushLabels
<1>5. Stack!PoppedByOne'
  BY DEF Stack!StackTypes, Stack!HeapTypeOK, Stack!PoppedByOne, Stack!Popped,
         Stack!SyncLabels
<1>6. Stack!ReaderKeepsNode'
  BY DEF Stack!StackTypes, Stack!HeapTypeOK, Stack!ReaderKeepsNode, Stack!Popped,
         Stack!SyncLabels
<1> QED BY <1>1, <1>2, <1>3, <1>4, <1>5, <1>6

(* Quitting changes what the threads do next, and nothing else.            *)
LEMMA StackQuitInv ==
  ASSUME Stack!IInv, Stack!Quit
  PROVE  Stack!IInv'
<1> USE DEF Stack!IInv, Stack!Quit, Stack!QuitSignal, Stack!heapVars, Stack!urcuVars,
            Stack!versionVars,
    Stack!syncLocals, Stack!locals
<1>1. Stack!StackTypes' /\ Stack!StackShape' /\ Stack!MainAlone'
  BY DEF Stack!StackTypes, Stack!HeapTypeOK, Stack!MainStates, Stack!StackShape,
         Stack!MainAlone
<1>2. Stack!Grace(Stack!SectionLabels)'
  BY StackKeepsGrace DEF Stack!Next, Stack!MainStep
<1>3. Stack!PushOwnsNode' /\ Stack!PoppedByOne' /\ Stack!ReaderKeepsNode'
  BY DEF Stack!PushOwnsNode, Stack!Pushing, Stack!PoppedByOne, Stack!Popped,
         Stack!ReaderKeepsNode
<1> QED BY <1>1, <1>2, <1>3

(* After the join the main thread goes on as thread 0.                     *)
LEMMA StackJoinInv ==
  ASSUME Stack!IInv, Stack!Join
  PROVE  Stack!IInv'
<1> USE ThreadsAssumption
    DEF Stack!IInv, Stack!Join, Stack!JoinThreads, Stack!heapVars, Stack!urcuVars,
        Stack!versionVars, Stack!syncLocals,
        Stack!locals, Stack!Threads, Stack!StackTypes
<1>1. Stack!StackTypes' /\ Stack!StackShape' /\ Stack!MainAlone'
  BY DEF Stack!HeapTypeOK, Stack!Labels, Stack!MainStates, Stack!StackShape,
         Stack!MainAlone
<1>2. Stack!Grace(Stack!SectionLabels)'
  BY StackKeepsGrace DEF Stack!Next, Stack!MainStep
<1>3. Stack!PushOwnsNode' /\ Stack!PoppedByOne' /\ Stack!ReaderKeepsNode'
  BY DEF Stack!PushOwnsNode, Stack!Pushing, Stack!PushLabels, Stack!PoppedByOne,
         Stack!Popped, Stack!SyncLabels,
         Stack!ReaderKeepsNode
<1> QED BY <1>1, <1>2, <1>3

(* The destructor deletes the last node when no thread is left that could  *)
(* use it.                                                                 *)
LEMMA StackDestroyInv ==
  ASSUME Stack!IInv, Stack!Destroy
  PROVE  Stack!IInv'
<1> USE HeapAssumption, ThreadsAssumption
    DEF Stack!IInv, Stack!Destroy, Stack!DeleteStructure, Stack!Delete,
        Stack!urcuVars, Stack!versionVars,
        Stack!syncLocals, Stack!locals, Stack!StackTypes, Stack!HeapTypeOK,
        Stack!NodeOrNull
<1>1. Stack!StackTypes'
  BY DEF Stack!Statuses, Stack!MainStates
<1>2. Stack!Grace(Stack!SectionLabels)'
  BY StackKeepsGrace DEF Stack!Next, Stack!MainStep
<1>3. Stack!StackShape'
  BY DEF Stack!StackShape
<1>4. \A t \in Stack!Threads : pc[t] \in {"idle", "exited"}
  BY DEF Stack!MainAlone
<1>5. Stack!MainAlone'
  BY DEF Stack!MainAlone
<1>6. Stack!PushOwnsNode'
  BY DEF Stack!PushOwnsNode, Stack!Pushing, Stack!PushLabels, Stack!StackShape
<1>7. Stack!PoppedByOne' /\ Stack!ReaderKeepsNode'
  BY <1>4 DEF Stack!PoppedByOne, Stack!Popped, Stack!SyncLabels, Stack!ReaderKeepsNode
<1> QED BY <1>1, <1>2, <1>3, <1>5, <1>6, <1>7

(* Every step preserves the invariant.                                     *)
LEMMA StackNextInv == Stack!IInv /\ [Stack!Next]_(Stack!vars) => Stack!IInv'
<1> SUFFICES ASSUME Stack!IInv, [Stack!Next]_(Stack!vars) PROVE Stack!IInv'
  OBVIOUS
<1>1. ASSUME NEW t \in Stack!Threads, Stack!ThreadStep(t) PROVE Stack!IInv'
  <2>1. CASE Stack!PushCall(t) \/ Stack!LockStep(t) \/ Stack!PushStep(t)
    BY <2>1, PushCallInv, StackLockStepInv, StackLocalInv, PushCasInv
       DEF Stack!PushStep, StackLocalStep
  <2>2. CASE Stack!PopCall(t) \/ Stack!PopStep(t)
    BY <2>2, PopCallInv, StackLocalInv, PopCasInv, PopSyncInv, PopFreeInv
       DEF Stack!PopStep, StackLocalStep
  <2>3. CASE Stack!ThreadExit(t)
    BY <2>3, StackThreadExitInv
  <2> QED BY <1>1, <2>1, <2>2, <2>3 DEF Stack!ThreadStep
<1>2. ASSUME Stack!MainStep PROVE Stack!IInv'
  BY <1>2, StackQuitInv, StackJoinInv, StackDestroyInv DEF Stack!MainStep
<1>3. ASSUME UNCHANGED Stack!vars PROVE Stack!IInv'
  <2> USE <1>3 DEF Stack!vars, Stack!heapVars, Stack!locals, Stack!IInv
  <2>1. Stack!StackTypes' /\ Stack!StackShape' /\ Stack!MainAlone'
    BY DEF Stack!StackTypes, Stack!HeapTypeOK, Stack!StackShape, Stack!MainAlone
  <2>2. Stack!Grace(Stack!SectionLabels)'
    BY StackKeepsGrace
  <2>3. Stack!PushOwnsNode' /\ Stack!PoppedByOne' /\ Stack!ReaderKeepsNode'
    BY DEF Stack!PushOwnsNode, Stack!Pushing, Stack!PoppedByOne, Stack!Popped,
           Stack!ReaderKeepsNode, Stack!urcuVars
  <2> QED BY <2>1, <2>2, <2>3
<1> QED BY <1>1, <1>2, <1>3 DEF Stack!Next, Stack!Finished

(* What the program accesses is allocated.                                 *)
LEMMA StackIsMemorySafe == Stack!IInv => Stack!MemorySafe
BY DEF Stack!IInv, Stack!StackTypes, Stack!HeapTypeOK, Stack!MemorySafe,
       Stack!Allocated, Stack!ReaderKeepsNode,
       Stack!PoppedByOne, Stack!Popped

(* The start of a push is an Allocate.                                     *)
LEMMA PushCallMaps ==
  ASSUME structure = "stack", structure' = structure, Stack!Threads = Threads,
         Stack!IInv, NEW t \in Threads, Stack!PushCall(t)
  PROVE  SMR!Next
<1>1. PICK n \in Nodes :
        status[n] = "free" /\ status' = [status EXCEPT ![n] = "private"]
  BY DEF Stack!PushCall, Stack!New
<1>2. GuardsUnchanged
  BY DEF Stack!PushCall, Stack!Goto, GuardsUnchanged, Guards, Of, Stack!Guards,
         Stack!GuardLabels, Stack!IInv, Stack!StackTypes
<1>3. SMR!Allocate(n)
  BY <1>1, <1>2, MoveMaps DEF SMR!Allocate, Stack!IInv, Stack!StackTypes, Stack!HeapTypeOK
<1> QED
  BY <1>1, <1>3 DEF SMR!Next, SMR!Change, Stack!IInv, Stack!StackTypes, Stack!HeapTypeOK

(* The exchange of a push is a Link, or a stutter when it fails.           *)
LEMMA PushCasMaps ==
  ASSUME structure = "stack", structure' = structure, Stack!Threads = Threads,
         Stack!IInv, NEW t \in Threads, Stack!PushCas(t)
  PROVE  [SMR!Next]_(SMR!vars)
<1>1. GuardsUnchanged
  BY DEF Stack!PushCas, Stack!Goto, GuardsUnchanged, Guards, Of, Stack!Guards,
         Stack!GuardLabels, Stack!IInv, Stack!StackTypes
<1>2. CASE top = temp[t]
  <2>1. /\ node[t] \in Nodes /\ status[node[t]] = "private"
        /\ status' = [status EXCEPT ![node[t]] = "linked"]
    BY <1>2 DEF Stack!PushCas, Stack!Goto, Stack!IInv, Stack!StackTypes,
                Stack!NodeOrNull, Stack!PushOwnsNode,
                Stack!Pushing, Stack!PushLabels
  <2>2. SMR!Link(node[t])
    BY <2>1, <1>1, MoveMaps DEF SMR!Link, Stack!IInv, Stack!StackTypes, Stack!HeapTypeOK
  <2> QED
    BY <2>1, <2>2 DEF SMR!Next, SMR!Change, Stack!IInv, Stack!StackTypes, Stack!HeapTypeOK
<1>3. CASE top # temp[t]
  BY <1>1, <1>3, StutterMaps DEF Stack!PushCas
<1> QED BY <1>2, <1>3

(* A comparison with top that succeeds is a Guard: that node is linked.    *)
LEMMA PopCheckMaps ==
  ASSUME structure = "stack", structure' = structure, Stack!Threads = Threads,
         Stack!IInv, NEW t \in Threads, Stack!PopCheck(t)
  PROVE  [SMR!Next]_(SMR!vars)
<1> DEFINE g == [u \in Threads |-> Guards(u)]
<1> USE DEF Stack!PopCheck, Stack!Goto, Stack!heapVars, Guards, Of, Stack!Guards,
            Stack!GuardLabels, Stack!IInv, Stack!StackTypes
<1>1. CASE top = temp[t]
  <2>1. top \in Nodes /\ status[top] = "linked"
    BY <1>1 DEF Stack!ReaderKeepsNode, Stack!StackShape, Stack!NodeOrNull
  <2>2. Guards(t) = {} /\ OnlyGuards(t, {top}) /\ UNCHANGED status
    BY <1>1 DEF OnlyGuards
  <2> HIDE DEF Guards, Of, Stack!Guards
  <2>3. g' = [g EXCEPT ![t] = g[t] \cup {top}]
    BY <2>2 DEF OnlyGuards
  <2>4. top \in g'[t] /\ g'[t] # g[t]
    BY <2>2 DEF OnlyGuards
  <2>5. SMR!Guard(t, top)
    BY <2>1, <2>2, <2>3 DEF SMR!Guard
  <2> QED BY <2>4, <2>5 DEF SMR!Next
<1>2. CASE top # temp[t]
  <2>1. UNCHANGED status /\ GuardsUnchanged
    BY <1>2 DEF GuardsUnchanged
  <2> QED BY <2>1, StutterMaps
<1> QED BY <1>1, <1>2

(* The exchange of a pop is an Unlink, or a Release when it fails.         *)
LEMMA PopCasMaps ==
  ASSUME structure = "stack", structure' = structure, Stack!Threads = Threads,
         Stack!IInv, NEW t \in Threads, Stack!PopCas(t)
  PROVE  [SMR!Next]_(SMR!vars)
<1> USE DEF Stack!PopCas, Stack!Goto, Guards, Of, Stack!Guards, Stack!GuardLabels,
            Stack!IInv, Stack!StackTypes
<1>1. CASE top = temp[t]
  <2>1. /\ temp[t] \in Nodes /\ status[temp[t]] = "linked"
        /\ status' = [status EXCEPT ![temp[t]] = "retired"]
    BY <1>1, HeapAssumption DEF Stack!ReaderKeepsNode, Stack!StackShape
  <2>2. GuardsUnchanged
    BY <1>1 DEF GuardsUnchanged
  <2>3. SMR!Unlink(temp[t])
    BY <2>1, <2>2, MoveMaps DEF SMR!Unlink, Stack!HeapTypeOK
  <2> QED BY <2>1, <2>3 DEF SMR!Next, SMR!Change, Stack!HeapTypeOK
<1>2. CASE top # temp[t]
  <2>1. UNCHANGED status /\ OnlyGuards(t, {})
    BY <1>2 DEF OnlyGuards
  <2> QED BY <2>1, ReleaseMaps
<1> QED BY <1>1, <1>2

(* After the item has been read the thread relies on the node no more: it  *)
(* only frees it.                                                          *)
LEMMA PopItemMaps ==
  ASSUME structure = "stack", structure' = structure, Stack!Threads = Threads,
         Stack!IInv, NEW t \in Threads, Stack!PopItem(t)
  PROVE  [SMR!Next]_(SMR!vars)
<1>1. OnlyGuards(t, {}) /\ UNCHANGED status
  BY DEF Stack!PopItem, Stack!Goto, Stack!heapVars, Guards, Of, Stack!Guards,
         Stack!GuardLabels, OnlyGuards, Stack!IInv,
         Stack!StackTypes
<1> QED BY <1>1, ReleaseMaps

(* The delete after the grace period is a Reclaim of an unguarded node.    *)
LEMMA PopFreeMaps ==
  ASSUME structure = "stack", structure' = structure, Stack!Threads = Threads,
         Stack!IInv, NEW t \in Threads, Stack!PopFree(t)
  PROVE  SMR!Next
<1> DEFINE n == temp[t]
<1>1. n \in Nodes /\ status[n] = "retired" /\ pc[t] = "pop.free" /\ Stack!Popped(t)
  BY DEF Stack!PopFree, Stack!Goto, Stack!IInv, Stack!PoppedByOne, Stack!Popped
<1>2. oldReaders[t] = {}
  BY <1>1 DEF Stack!IInv, Stack!Grace, Stack!GraceTypes, Stack!OldReadersHeld
<1>3. ASSUME NEW u \in Threads PROVE n \notin Guards(u)
  <2>1. CASE pc[u] \in {"pop.next", "pop.cas"}
    BY <2>1, <1>1, <1>2 DEF Stack!IInv, Stack!ReaderKeepsNode, Guards, Of, Stack!Guards
  <2>2. CASE pc[u] = "pop.item"
    BY <2>2, <1>1 DEF Stack!IInv, Stack!PoppedByOne, Stack!Popped, Guards, Of,
                      Stack!Guards
  <2> QED BY <2>1, <2>2 DEF Guards, Of, Stack!Guards, Stack!GuardLabels
<1>4. GuardsUnchanged
  BY <1>1 DEF Stack!PopFree, Stack!Goto, GuardsUnchanged, Guards, Of, Stack!Guards,
              Stack!GuardLabels, Stack!IInv,
              Stack!StackTypes
<1>5. status' = [status EXCEPT ![n] = "free"]
  BY <1>1 DEF Stack!PopFree, Stack!Delete, Stack!IInv, Stack!StackTypes, Stack!HeapTypeOK
<1> HIDE DEF n
<1>6. SMR!Move({n}, "retired", "free")
  BY <1>1, <1>4, <1>5, MoveMaps DEF Stack!IInv, Stack!StackTypes, Stack!HeapTypeOK
<1>7. SMR!Reclaim(n)
  BY <1>3, <1>6 DEF SMR!Reclaim, SMR!Unguarded
<1> QED
  BY <1>1, <1>5, <1>7 DEF SMR!Next, SMR!Change, Stack!IInv, Stack!StackTypes,
                          Stack!HeapTypeOK

(* The destructor takes the Destroy step.                                  *)
LEMMA StackDestroyMaps ==
  ASSUME structure = "stack", structure' = structure, Stack!Threads = Threads,
         Stack!IInv, Stack!Destroy
  PROVE  SMR!Next
<1>1. status' = [n \in Nodes |-> IF n \in {top} \cap Nodes THEN "free"
                                ELSE status[n]]
  BY DEF Stack!Destroy, Stack!Delete
<1>2. \A t \in Threads : Guards(t) = {}
  BY DEF Stack!Destroy, Stack!DeleteStructure, Stack!IInv, Stack!MainAlone, Guards,
         Of, Stack!Guards, Stack!GuardLabels
<1>3. GuardsUnchanged
  BY DEF Stack!Destroy, Stack!DeleteStructure, Stack!locals, GuardsUnchanged, Guards,
         Of, Stack!Guards
<1>4. SMR!Destroy
  BY <1>1, <1>2, <1>3 DEF SMR!Destroy, GuardsUnchanged
<1> QED BY <1>4 DEF SMR!Next

(* The remaining steps of a thread change neither life cycles nor guards.  *)
LEMMA StackOthersMap ==
  ASSUME structure = "stack", structure' = structure, Stack!Threads = Threads,
         Stack!IInv, NEW t \in Threads,
         \/ Stack!LockStep(t) \/ Stack!PushLoad(t) \/ Stack!PushUnlock(t) \/ Stack!PopCall(t)
         \/ Stack!PopLoad(t) \/ Stack!PopEmpty(t) \/ Stack!PopRetry(t) \/ Stack!PopNext(t)
         \/ Stack!PopUnlock(t) \/ Stack!PopSync(t) \/ Stack!ThreadExit(t)
  PROVE  UNCHANGED SMR!vars
<1> USE DEF Stack!Goto, Stack!heapVars, Stack!locals, Guards, Of, Stack!Guards,
            Stack!GuardLabels, GuardsUnchanged,
            Stack!IInv, Stack!StackTypes
<1>1. CASE Stack!LockStep(t) \/ Stack!PushLoad(t) \/ Stack!PushUnlock(t) \/ Stack!PopCall(t)
  <2>1. UNCHANGED status /\ GuardsUnchanged
    BY <1>1 DEF Stack!LockStep, Stack!ReadLock, Stack!LockLoad, Stack!LockStore,
                Stack!LockCheck, Stack!LockFix,
                Stack!PushLoad, Stack!PushUnlock, Stack!PopCall
  <2> QED BY <2>1, StutterMaps
<1>2. CASE Stack!PopLoad(t) \/ Stack!PopEmpty(t) \/ Stack!PopRetry(t) \/ Stack!PopNext(t)
  <2>1. UNCHANGED status /\ GuardsUnchanged
    BY <1>2 DEF Stack!PopLoad, Stack!PopEmpty, Stack!PopRetry, Stack!PopNext
  <2> QED BY <2>1, StutterMaps
<1>3. CASE Stack!PopUnlock(t) \/ Stack!PopSync(t) \/ Stack!ThreadExit(t)
  <2>1. UNCHANGED status /\ GuardsUnchanged
    BY <1>3 DEF Stack!PopUnlock, Stack!PopSync, Stack!SynchronizeRCU, Stack!SyncLoad,
                Stack!SyncCas,
                Stack!SyncSpin, Stack!ThreadExit, Stack!LeaveLoop
  <2> QED BY <2>1, StutterMaps
<1> QED BY <1>1, <1>2, <1>3

(* Every step of the stack is a step of SafeReclamation or a stutter.      *)
LEMMA StackStepMaps ==
  ASSUME structure = "stack", structure' = structure, Stack!Threads = Threads,
         Stack!IInv, [Stack!Next]_(Stack!vars)
  PROVE  [SMR!Next]_(SMR!vars)
<1>1. ASSUME NEW t \in Threads, Stack!ThreadStep(t) PROVE [SMR!Next]_(SMR!vars)
  BY <1>1, PushCallMaps, PushCasMaps, PopCheckMaps, PopCasMaps, PopItemMaps,
     PopFreeMaps, StackOthersMap DEF Stack!ThreadStep, Stack!PushStep, Stack!PopStep
<1>2. ASSUME Stack!MainStep PROVE [SMR!Next]_(SMR!vars)
  <2>1. CASE Stack!Quit \/ Stack!Join
    <3>1. UNCHANGED status /\ GuardsUnchanged
      BY <2>1, ThreadsAssumption
         DEF Stack!Quit, Stack!Join, Stack!QuitSignal, Stack!JoinThreads,
             Stack!heapVars, Stack!locals, Threads,
             GuardsUnchanged, Guards, Of, Stack!Guards, Stack!GuardLabels, Stack!IInv,
             Stack!StackTypes
    <3> QED BY <3>1, StutterMaps
  <2> QED BY <1>2, <2>1, StackDestroyMaps DEF Stack!MainStep
<1>3. ASSUME UNCHANGED Stack!vars PROVE UNCHANGED SMR!vars
  <2>1. UNCHANGED status /\ GuardsUnchanged
    BY <1>3 DEF Stack!vars, Stack!heapVars, Stack!locals, GuardsUnchanged, Guards, Of,
                Stack!Guards
  <2> QED BY <2>1, StutterMaps
<1> QED BY <1>1, <1>2, <1>3 DEF Stack!Next, Stack!Finished

(* The structure begins as SafeReclamation does.                           *)
LEMMA StackInitMaps ==
  ASSUME structure = "stack", Stack!Threads = Threads, Stack!Init
  PROVE  SMR!Init
BY DEF Stack!Init, Stack!BenchmarkInit, Stack!HeapWithSentinel, SMR!Init, Guards, Of,
       Stack!Guards, Stack!GuardLabels

-----------------------------------------------------------------------------
(* The queue.                                                              *)

(* The same of the queue.                                                  *)
LEMMA QueueApart == Apart(Queue!SectionLabels)
BY DEF Apart, Queue!SectionLabels, Queue!EnqLabels, Queue!DeqLabels,
       LockLabels, SyncLabels

(* The steps of the queue.  An early exit leaves the section without       *)
(* readUnlock: it begins no section, which is all that counts here.        *)
LEMMA QueueStep ==
  ASSUME Grace(Queue!SectionLabels), Queue!Next
  PROVE  SchemeStep(Queue!SectionLabels) \/ Elsewhere(Queue!SectionLabels)
<1> DEFINE section == Queue!SectionLabels
<1> USE DEF Queue!Goto, Queue!SectionLabels, Queue!EnqLabels,
            Queue!DeqLabels, Waiting, Quiet, Outside
<1>0. pc = [u \in Threads |-> pc[u]] /\ Queue!Threads = Threads
  BY DEF Grace, GraceTypes, LoopAtStart, Queue!Threads, Threads
<1>1. ASSUME NEW t \in Threads, Queue!LockStep(t)
      PROVE  SchemeStep(section)
  <2>1. PICK done \in section : Queue!ReadLock(t, done)
    BY <1>1 DEF Queue!LockStep
  <2>2. ReadLock(t, done)
    BY <2>1, <1>0
       DEF ReadLock, Queue!ReadLock, LockLoad, Queue!LockLoad, LockStore,
           Queue!LockStore, LockCheck, Queue!LockCheck, LockFix, Queue!LockFix,
           Goto, Queue!urcuVars, urcuVars, Queue!versionVars, versionVars,
           Queue!syncLocals, syncLocals
  <2> QED BY <2>2 DEF SchemeStep
<1>2. ASSUME NEW t \in Threads, Queue!Sync(t)
      PROVE  SchemeStep(section)
  <2>1. PICK done : /\ Outside(done, section)
                    /\ Queue!SynchronizeRCU(t, Queue!Readers, done)
    BY <1>2 DEF Queue!Sync
  <2>2. Queue!Readers = {r \in Threads : pc[r] \in section}
    BY <1>0 DEF Queue!Readers
  <2>3. SynchronizeRCU(t, Queue!Readers, done)
    BY <2>1
       DEF SynchronizeRCU, Queue!SynchronizeRCU, SyncLoad, Queue!SyncLoad,
           SyncCas, Queue!SyncCas, SyncSpin, Queue!SyncSpin, ReaderIsOld,
           Queue!ReaderIsOld, Goto, Queue!urcuVars, urcuVars,
           Queue!versionVars, versionVars, Queue!syncLocals, syncLocals
  <2> QED BY <2>1, <2>2, <2>3 DEF SchemeStep
<1>3. ASSUME NEW t \in Threads, Queue!ReadUnlock(t), pc[t] \in section,
             NEW to, Outside(to, section), pc' = [pc EXCEPT ![t] = to]
      PROVE  SchemeStep(section)
  <2>1. ReadUnlock(t)
    BY <1>3, <1>0
       DEF ReadUnlock, Queue!ReadUnlock, Queue!urcuVars, urcuVars,
           Queue!versionVars, versionVars, Queue!syncLocals, syncLocals
  <2> QED BY <1>3, <2>1 DEF SchemeStep
<1>4. ASSUME NEW t \in Threads, Queue!EnqRetry(t)
      PROVE  SchemeStep(section)
  BY <1>3, <1>4 DEF Queue!EnqRetry
<1>5. ASSUME NEW t \in Threads, Queue!EnqUnlock(t)
      PROVE  SchemeStep(section)
  BY <1>3, <1>5 DEF Queue!EnqUnlock
<1>6. ASSUME NEW t \in Threads, Queue!DeqRetry(t)
      PROVE  SchemeStep(section)
  BY <1>3, <1>6 DEF Queue!DeqRetry
<1>7. ASSUME NEW t \in Threads, Queue!DeqUnlock(t)
      PROVE  SchemeStep(section)
  BY <1>3, <1>7 DEF Queue!DeqUnlock
<1>8. ASSUME NEW t \in Threads,
             Queue!EnqCall(t) \/ Queue!DeqCall(t)
      PROVE  Elsewhere(section)
  BY <1>0, <1>8
     DEF Elsewhere, Queue!EnqCall, Queue!DeqCall, Queue!urcuVars, urcuVars,
         Queue!versionVars, versionVars, Queue!syncLocals, syncLocals
<1>9. ASSUME NEW t \in Threads,
             Queue!EnqLoad(t) \/ Queue!EnqCheck(t) \/ Queue!EnqNext(t) \/
             Queue!EnqRecheck(t)
      PROVE  Elsewhere(section)
  BY <1>0, <1>9
     DEF Elsewhere, Queue!EnqLoad, Queue!EnqCheck, Queue!EnqNext,
         Queue!EnqRecheck, Queue!urcuVars, urcuVars, Queue!versionVars,
         versionVars, Queue!syncLocals, syncLocals
<1>10. ASSUME NEW t \in Threads,
             Queue!EnqHelp(t) \/ Queue!EnqLink(t) \/ Queue!EnqSwing(t)
      PROVE  Elsewhere(section)
  BY <1>0, <1>10
     DEF Elsewhere, Queue!EnqHelp, Queue!EnqLink, Queue!EnqSwing,
         Queue!urcuVars, urcuVars, Queue!versionVars, versionVars,
         Queue!syncLocals, syncLocals
<1>11. ASSUME NEW t \in Threads,
             Queue!DeqLoad(t) \/ Queue!DeqCheck(t) \/ Queue!DeqTail(t) \/
             Queue!DeqNext(t)
      PROVE  Elsewhere(section)
  BY <1>0, <1>11
     DEF Elsewhere, Queue!DeqLoad, Queue!DeqCheck, Queue!DeqTail,
         Queue!DeqNext, Queue!urcuVars, urcuVars, Queue!versionVars,
         versionVars, Queue!syncLocals, syncLocals
<1>12. ASSUME NEW t \in Threads,
             Queue!DeqRecheck(t) \/ Queue!DeqHelp(t) \/ Queue!DeqCas(t) \/
             Queue!DeqItem(t)
      PROVE  Elsewhere(section)
  BY <1>0, <1>12
     DEF Elsewhere, Queue!DeqRecheck, Queue!DeqHelp, Queue!DeqCas,
         Queue!DeqItem, Queue!DeqAbandon, Queue!urcuVars, urcuVars,
         Queue!versionVars, versionVars, Queue!syncLocals, syncLocals
<1>13. ASSUME NEW t \in Threads,
             Queue!DeqFree(t) \/ Queue!ThreadExit(t)
      PROVE  Elsewhere(section)
  BY <1>0, <1>13
     DEF Elsewhere, Queue!DeqFree, Queue!ThreadExit, Queue!LeaveLoop,
         Queue!urcuVars, urcuVars, Queue!versionVars, versionVars,
         Queue!syncLocals, syncLocals
<1>14. ASSUME Queue!MainStep \/ Queue!Finished
      PROVE  Elsewhere(section)
  BY <1>0, <1>14, ThreadsAssumption
     DEF Elsewhere, Queue!MainStep, Queue!Quit, Queue!QuitSignal,
         Queue!Join, Queue!JoinThreads, Queue!Destroy, Queue!DeleteStructure,
         Queue!Finished, Queue!vars, Queue!urcuVars, urcuVars,
         Queue!versionVars, versionVars, Queue!syncLocals, syncLocals, Threads
<1> QED
  BY <1>0, <1>1, <1>2, <1>4, <1>5, <1>6, <1>7, <1>8, <1>9, <1>10, <1>11,
     <1>12, <1>13, <1>14
     DEF Queue!Next, Queue!ThreadStep, Queue!EnqStep, Queue!DeqStep

(* The scheme's part of the invariant is kept.                             *)
LEMMA QueueKeepsGrace ==
  ASSUME Queue!Grace(Queue!SectionLabels), [Queue!Next]_(Queue!vars)
  PROVE  Queue!Grace(Queue!SectionLabels)'
<1> USE DEF Queue!Grace, Queue!GraceTypes, Queue!LoopAtStart, Queue!OldReadersHeld,
            Queue!Announced, Queue!Threads, Grace, GraceTypes, LoopAtStart,
            OldReadersHeld, Announced, Threads
<1>1. Grace(Queue!SectionLabels)
  OBVIOUS
<1>2. CASE Queue!Next
  <2> HIDE DEF Queue!Grace, Grace
  <2>1. Grace(Queue!SectionLabels)'
    BY <1>1, <1>2, QueueStep, QueueApart, GraceKept
  <2> QED BY <2>1 DEF Queue!Grace, Grace
<1>3. CASE UNCHANGED Queue!vars
  BY <1>3 DEF Queue!vars, Queue!urcuVars, Queue!versionVars, Queue!syncLocals
<1> QED BY <1>2, <1>3

(* The constructor links the sentinel, which is both head and tail: the    *)
(* invariant holds.                                                        *)
LEMMA QueueInitInv == Queue!Init => Queue!IInv
<1> SUFFICES ASSUME Queue!Init PROVE Queue!IInv
  OBVIOUS
<1> USE HeapAssumption, ThreadsAssumption
    DEF Queue!Init, Queue!URCUInit, Queue!BenchmarkInit, Queue!HeapWithSentinel
<1>1. Queue!QueueTypes
  BY DEF Queue!QueueTypes, Queue!HeapTypeOK, Queue!NodeOrNull, Queue!Statuses,
         Queue!Labels, Queue!MainStates
<1>2. Queue!Grace(Queue!SectionLabels)
  BY VersionAssumption
     DEF Queue!Grace, Queue!GraceTypes, Queue!LoopAtStart, Queue!Announced,
         Queue!OldReadersHeld, Queue!Threads,
         Queue!SectionLabels, Queue!EnqLabels, Queue!DeqLabels
<1>3. Queue!QueueShape /\ Queue!MainAlone
  BY DEF Queue!QueueShape, Queue!LeadsTo, Queue!MainAlone
<1>4. Queue!EnqOwnsNode /\ Queue!DequeuedByOne /\ Queue!TailAhead /\ Queue!ReaderKeepsNodes
  BY DEF Queue!EnqOwnsNode, Queue!Enqueuing, Queue!EnqLabels, Queue!DequeuedByOne,
         Queue!Dequeued, Queue!SyncLabels,
         Queue!TailAhead, Queue!ReaderKeepsNodes, Queue!Guards
<1> QED BY <1>1, <1>2, <1>3, <1>4 DEF Queue!IInv

(* A step after which nobody relies on a node more, and nobody has begun   *)
(* to wait, leaves what the readers rely on allocated.                     *)
LEMMA QueueReadersKept ==
  ASSUME Queue!ReaderKeepsNodes, UNCHANGED status,
         \A u \in Queue!Threads : Queue!Guards(u)' \subseteq Queue!Guards(u),
         \A u \in Queue!Threads : Queue!Dequeued(u)' =>
           /\ Queue!Dequeued(u) /\ temp'[u] = temp[u]
           /\ pc'[u] = pc[u] \/ pc'[u] = "deq.unlock",
         \A u, r \in Queue!Threads :
           r \in oldReaders[u] => r \in oldReaders'[u] \/ Queue!Guards(r)' = {}
  PROVE  Queue!ReaderKeepsNodes'
BY DEF Queue!ReaderKeepsNodes

(* A thread that locks relies on no node: the steps of readLock leave the  *)
(* queue and who relies on it alone.                                       *)
LEMMA QueueLockStepInv ==
  ASSUME Queue!IInv, NEW t \in Queue!Threads, Queue!LockStep(t)
  PROVE  Queue!IInv'
<1> USE HeapAssumption
    DEF Queue!IInv, Queue!LockStep, Queue!ReadLock, Queue!LockLoad, Queue!LockStore,
        Queue!LockCheck, Queue!LockFix, Queue!Goto, Queue!heapVars, Queue!urcuVars,
        Queue!versionVars,
        Queue!syncLocals, Queue!ends, Queue!locals
<1>0. /\ Queue!QueueShape /\ Queue!EnqOwnsNode /\ Queue!DequeuedByOne /\ Queue!TailAhead
      /\ Queue!ReaderKeepsNodes
  BY DEF Queue!MainAlone
<1>1. Queue!QueueTypes'
  BY <1>0 DEF Queue!QueueTypes, Queue!HeapTypeOK, Queue!NodeOrNull, Queue!Statuses,
              Queue!Labels, Queue!MainStates,
         Queue!LockLabels, Queue!SyncLabels, Queue!EnqLabels, Queue!DeqLabels
<1>2. Queue!Grace(Queue!SectionLabels)'
  BY QueueKeepsGrace DEF Queue!Next, Queue!ThreadStep, Queue!EnqStep, Queue!DeqStep
<1>3. Queue!MainAlone'
  BY DEF Queue!QueueTypes, Queue!MainAlone
<1>4. Queue!QueueShape'
  BY <1>0 DEF Queue!QueueTypes, Queue!HeapTypeOK, Queue!QueueShape, Queue!LeadsTo
<1>5. Queue!EnqOwnsNode'
  BY <1>0 DEF Queue!QueueTypes, Queue!HeapTypeOK, Queue!NodeOrNull, Queue!EnqOwnsNode,
              Queue!Enqueuing, Queue!EnqLabels
<1>6. Queue!DequeuedByOne'
  BY <1>0 DEF Queue!QueueTypes, Queue!HeapTypeOK, Queue!DequeuedByOne, Queue!Dequeued,
              Queue!SyncLabels
<1>7. Queue!TailAhead'
  BY <1>0 DEF Queue!QueueTypes, Queue!HeapTypeOK, Queue!TailAhead
<1>8. Queue!ReaderKeepsNodes'
  <2>1. UNCHANGED status /\ \A u \in Queue!Threads : Queue!Guards(u)' \subseteq Queue!Guards(u)
    BY DEF Queue!QueueTypes, Queue!Guards
  <2>2. \A u \in Queue!Threads : Queue!Dequeued(u)' =>
          /\ Queue!Dequeued(u) /\ temp'[u] = temp[u]
          /\ pc'[u] = pc[u] \/ pc'[u] = "deq.unlock"
    BY <1>0 DEF Queue!QueueTypes, Queue!Dequeued, Queue!SyncLabels,
              Queue!EnqOwnsNode, Queue!EnqLabels
  <2>3. \A u, r \in Queue!Threads :
          r \in oldReaders[u] => r \in oldReaders'[u] \/ Queue!Guards(r)' = {}
    BY DEF Queue!QueueTypes, Queue!Guards
  <2> QED BY <1>0, <2>1, <2>2, <2>3, QueueReadersKept
<1> QED BY <1>1, <1>2, <1>3, <1>4, <1>5, <1>6, <1>7, <1>8

(* An enqueue that begins owns a node that nobody else knows.              *)
LEMMA EnqCallInv ==
  ASSUME Queue!IInv, NEW t \in Queue!Threads, Queue!EnqCall(t)
  PROVE  Queue!IInv'
<1> USE HeapAssumption
    DEF Queue!IInv, Queue!EnqCall, Queue!New, Queue!Calling, Queue!Goto,
        Queue!heapVars, Queue!urcuVars, Queue!versionVars,
        Queue!syncLocals, Queue!ends, Queue!locals
<1>0. /\ Queue!QueueShape /\ Queue!EnqOwnsNode /\ Queue!DequeuedByOne /\ Queue!TailAhead
      /\ Queue!ReaderKeepsNodes
  BY DEF Queue!MainAlone
<1>a. PICK n \in Nodes, i \in Items :
        Queue!New(n, i) /\ node' = [node EXCEPT ![t] = n]
  OBVIOUS
<1>1. Queue!QueueTypes'
  BY <1>0 DEF Queue!QueueTypes, Queue!HeapTypeOK, Queue!NodeOrNull, Queue!Statuses,
              Queue!Labels, Queue!MainStates,
         Queue!LockLabels, Queue!SyncLabels, Queue!EnqLabels, Queue!DeqLabels
<1>2. Queue!Grace(Queue!SectionLabels)'
  BY QueueKeepsGrace DEF Queue!Next, Queue!ThreadStep, Queue!EnqStep, Queue!DeqStep
<1>3. Queue!MainAlone'
  BY DEF Queue!QueueTypes, Queue!MainAlone
<1>4. Queue!QueueShape'
  BY <1>0 DEF Queue!QueueTypes, Queue!HeapTypeOK, Queue!QueueShape, Queue!LeadsTo
<1>5. Queue!EnqOwnsNode'
  BY <1>0 DEF Queue!QueueTypes, Queue!HeapTypeOK, Queue!NodeOrNull, Queue!EnqOwnsNode,
              Queue!Enqueuing, Queue!EnqLabels
<1>6. Queue!DequeuedByOne'
  BY <1>0 DEF Queue!QueueTypes, Queue!HeapTypeOK, Queue!DequeuedByOne, Queue!Dequeued,
              Queue!SyncLabels
<1>7. Queue!TailAhead'
  BY <1>0 DEF Queue!QueueTypes, Queue!HeapTypeOK, Queue!TailAhead
<1>8. Queue!ReaderKeepsNodes'
  <2>1. \A u \in Queue!Threads : Queue!Guards(u)' = Queue!Guards(u)
    BY DEF Queue!QueueTypes, Queue!Guards
  <2>2. \A u \in Queue!Threads : Queue!Dequeued(u)' = Queue!Dequeued(u)
    BY DEF Queue!QueueTypes, Queue!Dequeued, Queue!SyncLabels
  <2>3. \A m \in Nodes : status[m] \in {"linked", "retired"} => status'[m] = status[m]
    BY <1>a DEF Queue!QueueTypes, Queue!HeapTypeOK
  <2> QED
    BY <1>0, <2>1, <2>2, <2>3 DEF Queue!QueueTypes, Queue!ReaderKeepsNodes
<1> QED BY <1>1, <1>2, <1>3, <1>4, <1>5, <1>6, <1>7, <1>8

(* The steps of an operation that change no node and neither head nor tail:  *)
(* loads, comparisons that fail and the ends of sections.                    *)
QueueLocalStep(t) ==
  \/ Queue!EnqLoad(t) \/ Queue!EnqRetry(t) \/ Queue!EnqNext(t) \/ Queue!EnqRecheck(t)
  \/ Queue!DeqLoad(t) \/ Queue!DeqRetry(t) \/ Queue!DeqTail(t) \/ Queue!DeqNext(t)
  \/ Queue!DeqRecheck(t) \/ Queue!DeqItem(t)

(* They keep the invariant: a thread relies on no node it did not rely on   *)
(* before, as a load of head or tail gives it none before the comparison    *)
(* that follows; and the links it reads are those of allocated nodes.       *)
LEMMA QueueLocalInv ==
  ASSUME Queue!IInv, NEW t \in Queue!Threads, QueueLocalStep(t)
  PROVE  Queue!IInv'
<1> USE HeapAssumption
    DEF Queue!IInv, QueueLocalStep, Queue!EnqLoad, Queue!EnqRetry, Queue!EnqNext,
        Queue!EnqRecheck, Queue!DeqLoad, Queue!DeqRetry, Queue!DeqTail, Queue!DeqNext,
        Queue!DeqRecheck, Queue!DeqItem, Queue!DeqAbandon, Queue!ReturnItem,
        Queue!ReadUnlock, Queue!Goto, Queue!heapVars, Queue!urcuVars,
        Queue!versionVars, Queue!syncLocals, Queue!ends, Queue!locals
<1>0. /\ Queue!QueueShape /\ Queue!EnqOwnsNode /\ Queue!DequeuedByOne /\ Queue!TailAhead
      /\ Queue!ReaderKeepsNodes
  BY DEF Queue!MainAlone
<1>1. Queue!QueueTypes'
  BY <1>0 DEF Queue!QueueTypes, Queue!HeapTypeOK, Queue!NodeOrNull, Queue!Statuses,
              Queue!Labels, Queue!MainStates, Queue!LockLabels, Queue!SyncLabels,
              Queue!EnqLabels, Queue!DeqLabels, Queue!ReaderKeepsNodes, Queue!Guards
<1>2. Queue!Grace(Queue!SectionLabels)'
  BY QueueKeepsGrace DEF Queue!Next, Queue!ThreadStep, Queue!EnqStep, Queue!DeqStep
<1>3. Queue!MainAlone'
  BY DEF Queue!QueueTypes, Queue!MainAlone
<1>4. Queue!QueueShape'
  <2>1. \A p, n \in Nodes : Queue!LeadsTo(p, n)' => Queue!LeadsTo(p, n)
    BY DEF Queue!QueueTypes, Queue!LeadsTo
  <2> QED BY <1>0, <2>1 DEF Queue!QueueShape
<1>5. Queue!EnqOwnsNode'
  BY <1>0 DEF Queue!QueueTypes, Queue!HeapTypeOK, Queue!NodeOrNull, Queue!EnqOwnsNode,
              Queue!Enqueuing, Queue!EnqLabels
<1>6. Queue!DequeuedByOne'
  BY <1>0 DEF Queue!QueueTypes, Queue!HeapTypeOK, Queue!DequeuedByOne, Queue!Dequeued,
              Queue!SyncLabels
<1>7. Queue!TailAhead'
  BY <1>0 DEF Queue!QueueTypes, Queue!HeapTypeOK, Queue!TailAhead
<1>8. Queue!ReaderKeepsNodes'
  <2>1. UNCHANGED status /\ \A u \in Queue!Threads : Queue!Guards(u)' \subseteq Queue!Guards(u)
    BY DEF Queue!QueueTypes, Queue!Guards
  <2>2. \A u \in Queue!Threads : Queue!Dequeued(u)' =>
          /\ Queue!Dequeued(u) /\ temp'[u] = temp[u]
          /\ pc'[u] = pc[u] \/ pc'[u] = "deq.unlock"
    BY <1>0 DEF Queue!QueueTypes, Queue!Dequeued, Queue!SyncLabels,
              Queue!EnqOwnsNode, Queue!EnqLabels
  <2>3. \A u, r \in Queue!Threads :
          r \in oldReaders[u] => r \in oldReaders'[u] \/ Queue!Guards(r)' = {}
    BY DEF Queue!QueueTypes, Queue!Guards
  <2> QED BY <1>0, <2>1, <2>2, <2>3, QueueReadersKept
<1> QED BY <1>1, <1>2, <1>3, <1>4, <1>5, <1>6, <1>7, <1>8

(* A tail that is still tail is linked: from here on the enqueue relies on *)
(* it, and its section has begun before the node could be taken out.       *)
LEMMA EnqCheckInv ==
  ASSUME Queue!IInv, NEW t \in Queue!Threads, Queue!EnqCheck(t)
  PROVE  Queue!IInv'
<1> USE HeapAssumption
    DEF Queue!IInv, Queue!EnqCheck, Queue!Goto, Queue!heapVars, Queue!urcuVars,
        Queue!versionVars,
        Queue!syncLocals, Queue!ends, Queue!locals
<1>0. /\ Queue!QueueShape /\ Queue!EnqOwnsNode /\ Queue!DequeuedByOne /\ Queue!TailAhead
      /\ Queue!ReaderKeepsNodes
  BY DEF Queue!MainAlone
<1>1. Queue!QueueTypes'
  BY <1>0 DEF Queue!QueueTypes, Queue!HeapTypeOK, Queue!NodeOrNull, Queue!Statuses,
              Queue!Labels, Queue!MainStates,
         Queue!LockLabels, Queue!SyncLabels, Queue!EnqLabels, Queue!DeqLabels
<1>2. Queue!Grace(Queue!SectionLabels)'
  BY QueueKeepsGrace DEF Queue!Next, Queue!ThreadStep, Queue!EnqStep, Queue!DeqStep
<1>3. Queue!MainAlone'
  BY DEF Queue!QueueTypes, Queue!MainAlone
<1>4. Queue!QueueShape'
  BY <1>0 DEF Queue!QueueTypes, Queue!HeapTypeOK, Queue!QueueShape, Queue!LeadsTo
<1>5. Queue!EnqOwnsNode'
  BY <1>0 DEF Queue!QueueTypes, Queue!HeapTypeOK, Queue!NodeOrNull, Queue!EnqOwnsNode,
              Queue!Enqueuing, Queue!EnqLabels
<1>6. Queue!DequeuedByOne'
  BY <1>0 DEF Queue!QueueTypes, Queue!HeapTypeOK, Queue!DequeuedByOne, Queue!Dequeued,
              Queue!SyncLabels
<1>7. Queue!TailAhead'
  BY <1>0 DEF Queue!QueueTypes, Queue!HeapTypeOK, Queue!TailAhead
<1>8. Queue!ReaderKeepsNodes'
  BY <1>0 DEF Queue!QueueTypes, Queue!HeapTypeOK, Queue!ReaderKeepsNodes,
              Queue!Guards, Queue!Dequeued, Queue!SyncLabels,
         Queue!QueueShape, Queue!DequeuedByOne
<1> QED BY <1>1, <1>2, <1>3, <1>4, <1>5, <1>6, <1>7, <1>8

(* Helping moves tail to the successor it has read, which is linked as     *)
(* head has not passed it.                                                 *)
LEMMA EnqHelpInv ==
  ASSUME Queue!IInv, NEW t \in Queue!Threads, Queue!EnqHelp(t)
  PROVE  Queue!IInv'
<1> USE HeapAssumption
    DEF Queue!IInv, Queue!EnqHelp, Queue!Goto, Queue!heapVars, Queue!urcuVars,
        Queue!versionVars,
        Queue!syncLocals, Queue!ends, Queue!locals
<1>0. /\ Queue!QueueShape /\ Queue!EnqOwnsNode /\ Queue!DequeuedByOne /\ Queue!TailAhead
      /\ Queue!ReaderKeepsNodes
  BY DEF Queue!MainAlone
<1>1. Queue!QueueTypes'
  BY <1>0 DEF Queue!QueueTypes, Queue!HeapTypeOK, Queue!NodeOrNull, Queue!Statuses,
              Queue!Labels, Queue!MainStates,
         Queue!LockLabels, Queue!SyncLabels, Queue!EnqLabels, Queue!DeqLabels
<1>2. Queue!Grace(Queue!SectionLabels)'
  BY QueueKeepsGrace DEF Queue!Next, Queue!ThreadStep, Queue!EnqStep, Queue!DeqStep
<1>3. Queue!MainAlone'
  BY DEF Queue!QueueTypes, Queue!MainAlone
<1>4. Queue!QueueShape'
  BY <1>0 DEF Queue!QueueTypes, Queue!HeapTypeOK, Queue!QueueShape, Queue!LeadsTo,
         Queue!TailAhead, Queue!NodeOrNull
<1>5. Queue!EnqOwnsNode'
  BY <1>0 DEF Queue!QueueTypes, Queue!HeapTypeOK, Queue!NodeOrNull, Queue!EnqOwnsNode,
              Queue!Enqueuing, Queue!EnqLabels
<1>6. Queue!DequeuedByOne'
  BY <1>0 DEF Queue!QueueTypes, Queue!HeapTypeOK, Queue!DequeuedByOne, Queue!Dequeued,
              Queue!SyncLabels
<1>7. Queue!TailAhead'
  BY <1>0 DEF Queue!QueueTypes, Queue!HeapTypeOK, Queue!TailAhead,
         Queue!QueueShape, Queue!LeadsTo, Queue!NodeOrNull
<1>8. Queue!ReaderKeepsNodes'
  <2>1. UNCHANGED status /\ \A u \in Queue!Threads : Queue!Guards(u)' \subseteq Queue!Guards(u)
    BY DEF Queue!QueueTypes, Queue!Guards
  <2>2. \A u \in Queue!Threads : Queue!Dequeued(u)' =>
          /\ Queue!Dequeued(u) /\ temp'[u] = temp[u]
          /\ pc'[u] = pc[u] \/ pc'[u] = "deq.unlock"
    BY <1>0 DEF Queue!QueueTypes, Queue!Dequeued, Queue!SyncLabels,
              Queue!EnqOwnsNode, Queue!EnqLabels
  <2>3. \A u, r \in Queue!Threads :
          r \in oldReaders[u] => r \in oldReaders'[u] \/ Queue!Guards(r)' = {}
    BY DEF Queue!QueueTypes, Queue!Guards
  <2> QED BY <1>0, <2>1, <2>2, <2>3, QueueReadersKept
<1> QED BY <1>1, <1>2, <1>3, <1>4, <1>5, <1>6, <1>7, <1>8

(* The exchange that links the private node behind the last one: the chain *)
(* from head grows by that node, and tail is at most one behind.           *)
LEMMA EnqLinkInv ==
  ASSUME Queue!IInv, NEW t \in Queue!Threads, Queue!EnqLink(t)
  PROVE  Queue!IInv'
<1> USE HeapAssumption
    DEF Queue!IInv, Queue!EnqLink, Queue!Goto, Queue!heapVars, Queue!urcuVars,
        Queue!versionVars,
        Queue!syncLocals, Queue!ends, Queue!locals
<1>0. /\ Queue!QueueShape /\ Queue!EnqOwnsNode /\ Queue!DequeuedByOne /\ Queue!TailAhead
      /\ Queue!ReaderKeepsNodes
  BY DEF Queue!MainAlone
<1>a. /\ temp[t] \in Nodes /\ status[temp[t]] \in {"linked", "retired"}
       /\ node[t] \in Nodes /\ status[node[t]] = "private"
       /\ next[node[t]] = NULL
  BY <1>0 DEF Queue!QueueTypes, Queue!NodeOrNull, Queue!ReaderKeepsNodes,
              Queue!Guards, Queue!EnqOwnsNode, Queue!Enqueuing, Queue!EnqLabels
<1>1. Queue!QueueTypes'
  BY <1>0 DEF Queue!QueueTypes, Queue!HeapTypeOK, Queue!NodeOrNull, Queue!Statuses,
              Queue!Labels, Queue!MainStates,
         Queue!LockLabels, Queue!SyncLabels, Queue!EnqLabels, Queue!DeqLabels
<1>2. Queue!Grace(Queue!SectionLabels)'
  BY QueueKeepsGrace DEF Queue!Next, Queue!ThreadStep, Queue!EnqStep, Queue!DeqStep
<1>3. Queue!MainAlone'
  BY DEF Queue!QueueTypes, Queue!MainAlone
<1>4. Queue!QueueShape'
  <2>1. CASE next[temp[t]] # ptrnull[t]
    BY <1>0, <2>1 DEF Queue!QueueTypes, Queue!HeapTypeOK, Queue!QueueShape, Queue!LeadsTo
  <2>2. CASE next[temp[t]] = ptrnull[t]
    <3>1. \A m \in Nodes : status'[m] = "linked" <=> m = node[t] \/ status[m] = "linked"
      BY <1>a, <2>2 DEF Queue!QueueTypes, Queue!HeapTypeOK
    <3>2. \A p, n \in Nodes : Queue!LeadsTo(p, n)' =>
             Queue!LeadsTo(p, n) \/ (p = temp[t] /\ n = node[t])
      BY <1>a, <2>2 DEF Queue!QueueTypes, Queue!HeapTypeOK, Queue!LeadsTo
    <3>3. \A n \in Nodes : ~Queue!LeadsTo(node[t], n)
      BY <1>0, <1>a DEF Queue!QueueTypes, Queue!LeadsTo, Queue!ReaderKeepsNodes,
                        Queue!Guards
    <3>4. \A p \in Nodes : status[p] = "linked" => ~Queue!LeadsTo(p, node[t])
      BY <1>0, <1>a DEF Queue!QueueShape
    <3>5. /\ head \in Nodes /\ status[head] = "linked"
          /\ tail \in Nodes /\ status[tail] = "linked"
          /\ UNCHANGED <<head, tail>>
      BY <1>0 DEF Queue!QueueShape
    <3>6. ASSUME NEW p \in Nodes, NEW n \in Nodes, status'[p] = "linked", Queue!LeadsTo(p, n)'
          PROVE  /\ status'[n] = "linked" /\ n # head
                 /\ \A q \in Nodes : status'[q] = "linked" /\ Queue!LeadsTo(q, n)' => q = p
      BY <1>0, <1>a, <3>1, <3>2, <3>3, <3>4, <3>5, <3>6 DEF Queue!QueueShape
    <3> QED BY <3>1, <3>5, <3>6 DEF Queue!QueueShape
  <2> QED BY <2>1, <2>2
<1>5. Queue!EnqOwnsNode'
  BY <1>0, <1>a DEF Queue!QueueTypes, Queue!HeapTypeOK, Queue!NodeOrNull,
                    Queue!EnqOwnsNode, Queue!Enqueuing, Queue!EnqLabels
<1>6. Queue!DequeuedByOne'
  BY <1>0, <1>a DEF Queue!QueueTypes, Queue!HeapTypeOK, Queue!DequeuedByOne,
                    Queue!Dequeued, Queue!SyncLabels
<1>7. Queue!TailAhead'
  <2>1. \A m \in Nodes : status[m] \in {"linked", "retired"} => status'[m] = status[m]
    BY <1>a DEF Queue!QueueTypes, Queue!HeapTypeOK
  <2>2. \A u \in Queue!Threads : pc[u] \in {"deq.tail", "deq.next", "deq.recheck",
                                       "deq.help", "deq.cas"} =>
             temp[u] \in Nodes /\ status[temp[u]] \in {"linked", "retired"}
    BY <1>0 DEF Queue!ReaderKeepsNodes, Queue!Guards
  <2>3. pc'[t] \in {"enq.swing", "enq.load"}
    BY DEF Queue!QueueTypes
  <2>4. /\ \A u \in Queue!Threads : u # t => pc'[u] = pc[u] /\ temp'[u] = temp[u]
        /\ UNCHANGED <<temp2, nxt, head, tail>>
    BY DEF Queue!QueueTypes
  <2> HIDE DEF Queue!EnqLink
  <2> QED BY <1>0, <2>1, <2>2, <2>3, <2>4 DEF Queue!TailAhead
<1>8. Queue!ReaderKeepsNodes'
  <2>1. \A u \in Queue!Threads : Queue!Guards(u)' \subseteq Queue!Guards(u)
    BY DEF Queue!QueueTypes, Queue!Guards
  <2>2. \A m \in Nodes : status[m] \in {"linked", "retired"} =>
          status'[m] \in {"linked", "retired"}
    BY <1>a DEF Queue!QueueTypes, Queue!HeapTypeOK
  <2>3. \A u \in Queue!Threads : Queue!Dequeued(u)' => Queue!Dequeued(u) /\ temp'[u] = temp[u] /\ pc'[u] = pc[u]
    BY DEF Queue!QueueTypes, Queue!Dequeued, Queue!SyncLabels
  <2>4. oldReaders' = oldReaders
    OBVIOUS
  <2> HIDE DEF Queue!EnqLink
  <2> QED BY <1>0, <2>1, <2>2, <2>3, <2>4 DEF Queue!ReaderKeepsNodes
<1> QED BY <1>1, <1>2, <1>3, <1>4, <1>5, <1>6, <1>7, <1>8

(* The enqueue swings tail to the node it has linked, or leaves it to the  *)
(* one that did.                                                           *)
LEMMA EnqSwingInv ==
  ASSUME Queue!IInv, NEW t \in Queue!Threads, Queue!EnqSwing(t)
  PROVE  Queue!IInv'
<1> USE HeapAssumption
    DEF Queue!IInv, Queue!EnqSwing, Queue!Goto, Queue!heapVars, Queue!urcuVars,
        Queue!versionVars,
        Queue!syncLocals, Queue!ends, Queue!locals
<1>0. /\ Queue!QueueShape /\ Queue!EnqOwnsNode /\ Queue!DequeuedByOne /\ Queue!TailAhead
      /\ Queue!ReaderKeepsNodes
  BY DEF Queue!MainAlone
<1>1. Queue!QueueTypes'
  BY <1>0 DEF Queue!QueueTypes, Queue!HeapTypeOK, Queue!NodeOrNull, Queue!Statuses,
              Queue!Labels, Queue!MainStates,
         Queue!LockLabels, Queue!SyncLabels, Queue!EnqLabels, Queue!DeqLabels
<1>2. Queue!Grace(Queue!SectionLabels)'
  BY QueueKeepsGrace DEF Queue!Next, Queue!ThreadStep, Queue!EnqStep, Queue!DeqStep
<1>3. Queue!MainAlone'
  BY DEF Queue!QueueTypes, Queue!MainAlone
<1>4. Queue!QueueShape'
  BY <1>0 DEF Queue!QueueTypes, Queue!HeapTypeOK, Queue!QueueShape, Queue!LeadsTo,
         Queue!EnqOwnsNode, Queue!EnqLabels, Queue!NodeOrNull
<1>5. Queue!EnqOwnsNode'
  BY <1>0 DEF Queue!QueueTypes, Queue!HeapTypeOK, Queue!NodeOrNull, Queue!EnqOwnsNode,
              Queue!Enqueuing, Queue!EnqLabels
<1>6. Queue!DequeuedByOne'
  BY <1>0 DEF Queue!QueueTypes, Queue!HeapTypeOK, Queue!DequeuedByOne, Queue!Dequeued,
              Queue!SyncLabels
<1>7. Queue!TailAhead'
  BY <1>0 DEF Queue!QueueTypes, Queue!HeapTypeOK, Queue!TailAhead,
         Queue!QueueShape, Queue!LeadsTo, Queue!NodeOrNull, Queue!EnqOwnsNode,
         Queue!EnqLabels
<1>8. Queue!ReaderKeepsNodes'
  <2>1. UNCHANGED status /\ \A u \in Queue!Threads : Queue!Guards(u)' \subseteq Queue!Guards(u)
    BY DEF Queue!QueueTypes, Queue!Guards
  <2>2. \A u \in Queue!Threads : Queue!Dequeued(u)' =>
          /\ Queue!Dequeued(u) /\ temp'[u] = temp[u]
          /\ pc'[u] = pc[u] \/ pc'[u] = "deq.unlock"
    BY <1>0 DEF Queue!QueueTypes, Queue!Dequeued, Queue!SyncLabels,
              Queue!EnqOwnsNode, Queue!EnqLabels
  <2>3. \A u, r \in Queue!Threads :
          r \in oldReaders[u] => r \in oldReaders'[u] \/ Queue!Guards(r)' = {}
    BY DEF Queue!QueueTypes, Queue!Guards
  <2> QED BY <1>0, <2>1, <2>2, <2>3, QueueReadersKept
<1> QED BY <1>1, <1>2, <1>3, <1>4, <1>5, <1>6, <1>7, <1>8

(* An enqueue that leaves its section has no node left.                    *)
LEMMA EnqUnlockInv ==
  ASSUME Queue!IInv, NEW t \in Queue!Threads, Queue!EnqUnlock(t)
  PROVE  Queue!IInv'
<1> USE HeapAssumption
    DEF Queue!IInv, Queue!EnqUnlock, Queue!ReadUnlock, Queue!Goto, Queue!heapVars,
        Queue!urcuVars, Queue!versionVars,
        Queue!syncLocals, Queue!ends, Queue!locals
<1>0. /\ Queue!QueueShape /\ Queue!EnqOwnsNode /\ Queue!DequeuedByOne /\ Queue!TailAhead
      /\ Queue!ReaderKeepsNodes
  BY DEF Queue!MainAlone
<1>1. Queue!QueueTypes'
  BY <1>0 DEF Queue!QueueTypes, Queue!HeapTypeOK, Queue!NodeOrNull, Queue!Statuses,
              Queue!Labels, Queue!MainStates,
         Queue!LockLabels, Queue!SyncLabels, Queue!EnqLabels, Queue!DeqLabels
<1>2. Queue!Grace(Queue!SectionLabels)'
  BY QueueKeepsGrace DEF Queue!Next, Queue!ThreadStep, Queue!EnqStep, Queue!DeqStep
<1>3. Queue!MainAlone'
  BY DEF Queue!QueueTypes, Queue!MainAlone
<1>4. Queue!QueueShape'
  BY <1>0 DEF Queue!QueueTypes, Queue!HeapTypeOK, Queue!QueueShape, Queue!LeadsTo
<1>5. Queue!EnqOwnsNode'
  BY <1>0 DEF Queue!QueueTypes, Queue!HeapTypeOK, Queue!NodeOrNull, Queue!EnqOwnsNode,
              Queue!Enqueuing, Queue!EnqLabels
<1>6. Queue!DequeuedByOne'
  BY <1>0 DEF Queue!QueueTypes, Queue!HeapTypeOK, Queue!DequeuedByOne, Queue!Dequeued,
              Queue!SyncLabels,
         Queue!EnqOwnsNode
<1>7. Queue!TailAhead'
  BY <1>0 DEF Queue!QueueTypes, Queue!HeapTypeOK, Queue!TailAhead
<1>8. Queue!ReaderKeepsNodes'
  <2>1. UNCHANGED status /\ \A u \in Queue!Threads : Queue!Guards(u)' \subseteq Queue!Guards(u)
    BY DEF Queue!QueueTypes, Queue!Guards
  <2>2. \A u \in Queue!Threads : Queue!Dequeued(u)' =>
          /\ Queue!Dequeued(u) /\ temp'[u] = temp[u]
          /\ pc'[u] = pc[u] \/ pc'[u] = "deq.unlock"
    BY <1>0 DEF Queue!QueueTypes, Queue!Dequeued, Queue!SyncLabels,
              Queue!EnqOwnsNode, Queue!EnqLabels
  <2>3. \A u, r \in Queue!Threads :
          r \in oldReaders[u] => r \in oldReaders'[u] \/ Queue!Guards(r)' = {}
    BY DEF Queue!QueueTypes, Queue!Guards
  <2> QED BY <1>0, <2>1, <2>2, <2>3, QueueReadersKept
<1> QED BY <1>1, <1>2, <1>3, <1>4, <1>5, <1>6, <1>7, <1>8

(* A dequeue that begins holds nothing, also when the main thread drains.  *)
LEMMA DeqCallInv ==
  ASSUME Queue!IInv, NEW t \in Queue!Threads, Queue!DeqCall(t)
  PROVE  Queue!IInv'
<1> USE HeapAssumption
    DEF Queue!IInv, Queue!DeqCall, Queue!Calling, Queue!DrainingAs, Queue!Goto,
        Queue!heapVars, Queue!urcuVars, Queue!versionVars,
        Queue!syncLocals, Queue!ends, Queue!locals
<1>0. /\ Queue!QueueShape /\ Queue!EnqOwnsNode /\ Queue!DequeuedByOne /\ Queue!TailAhead
      /\ Queue!ReaderKeepsNodes
  BY DEF Queue!MainAlone
<1>1. Queue!QueueTypes'
  BY <1>0 DEF Queue!QueueTypes, Queue!HeapTypeOK, Queue!NodeOrNull, Queue!Statuses,
              Queue!Labels, Queue!MainStates,
         Queue!LockLabels, Queue!SyncLabels, Queue!EnqLabels, Queue!DeqLabels
<1>2. Queue!Grace(Queue!SectionLabels)'
  BY QueueKeepsGrace DEF Queue!Next, Queue!ThreadStep, Queue!EnqStep, Queue!DeqStep
<1>3. Queue!MainAlone'
  BY DEF Queue!QueueTypes, Queue!MainAlone
<1>4. Queue!QueueShape'
  BY <1>0 DEF Queue!QueueTypes, Queue!HeapTypeOK, Queue!QueueShape, Queue!LeadsTo
<1>5. Queue!EnqOwnsNode'
  BY <1>0 DEF Queue!QueueTypes, Queue!HeapTypeOK, Queue!NodeOrNull, Queue!EnqOwnsNode,
              Queue!Enqueuing, Queue!EnqLabels
<1>6. Queue!DequeuedByOne'
  BY <1>0 DEF Queue!QueueTypes, Queue!HeapTypeOK, Queue!DequeuedByOne, Queue!Dequeued,
              Queue!SyncLabels
<1>7. Queue!TailAhead'
  BY <1>0 DEF Queue!QueueTypes, Queue!HeapTypeOK, Queue!TailAhead
<1>8. Queue!ReaderKeepsNodes'
  <2>1. UNCHANGED status /\ \A u \in Queue!Threads : Queue!Guards(u)' \subseteq Queue!Guards(u)
    BY DEF Queue!QueueTypes, Queue!Guards
  <2>2. \A u \in Queue!Threads : Queue!Dequeued(u)' =>
          /\ Queue!Dequeued(u) /\ temp'[u] = temp[u]
          /\ pc'[u] = pc[u] \/ pc'[u] = "deq.unlock"
    BY <1>0 DEF Queue!QueueTypes, Queue!Dequeued, Queue!SyncLabels,
              Queue!EnqOwnsNode, Queue!EnqLabels
  <2>3. \A u, r \in Queue!Threads :
          r \in oldReaders[u] => r \in oldReaders'[u] \/ Queue!Guards(r)' = {}
    BY DEF Queue!QueueTypes, Queue!Guards
  <2> QED BY <1>0, <2>1, <2>2, <2>3, QueueReadersKept
<1> QED BY <1>1, <1>2, <1>3, <1>4, <1>5, <1>6, <1>7, <1>8

(* A head that is still head is linked: the dequeue relies on it from here *)
(* on.                                                                     *)
LEMMA DeqCheckInv ==
  ASSUME Queue!IInv, NEW t \in Queue!Threads, Queue!DeqCheck(t)
  PROVE  Queue!IInv'
<1> USE HeapAssumption
    DEF Queue!IInv, Queue!DeqCheck, Queue!Goto, Queue!heapVars, Queue!urcuVars,
        Queue!versionVars,
        Queue!syncLocals, Queue!ends, Queue!locals
<1>0. /\ Queue!QueueShape /\ Queue!EnqOwnsNode /\ Queue!DequeuedByOne /\ Queue!TailAhead
      /\ Queue!ReaderKeepsNodes
  BY DEF Queue!MainAlone
<1>1. Queue!QueueTypes'
  BY <1>0 DEF Queue!QueueTypes, Queue!HeapTypeOK, Queue!NodeOrNull, Queue!Statuses,
              Queue!Labels, Queue!MainStates,
         Queue!LockLabels, Queue!SyncLabels, Queue!EnqLabels, Queue!DeqLabels
<1>2. Queue!Grace(Queue!SectionLabels)'
  BY QueueKeepsGrace DEF Queue!Next, Queue!ThreadStep, Queue!EnqStep, Queue!DeqStep
<1>3. Queue!MainAlone'
  BY DEF Queue!QueueTypes, Queue!MainAlone
<1>4. Queue!QueueShape'
  BY <1>0 DEF Queue!QueueTypes, Queue!HeapTypeOK, Queue!QueueShape, Queue!LeadsTo
<1>5. Queue!EnqOwnsNode'
  BY <1>0 DEF Queue!QueueTypes, Queue!HeapTypeOK, Queue!NodeOrNull, Queue!EnqOwnsNode,
              Queue!Enqueuing, Queue!EnqLabels
<1>6. Queue!DequeuedByOne'
  BY <1>0 DEF Queue!QueueTypes, Queue!HeapTypeOK, Queue!DequeuedByOne, Queue!Dequeued,
              Queue!SyncLabels
<1>7. Queue!TailAhead'
  BY <1>0 DEF Queue!QueueTypes, Queue!HeapTypeOK, Queue!TailAhead
<1>8. Queue!ReaderKeepsNodes'
  BY <1>0 DEF Queue!QueueTypes, Queue!HeapTypeOK, Queue!ReaderKeepsNodes,
              Queue!Guards, Queue!Dequeued, Queue!SyncLabels,
         Queue!QueueShape, Queue!DequeuedByOne
<1> QED BY <1>1, <1>2, <1>3, <1>4, <1>5, <1>6, <1>7, <1>8

(* Helping a tail that has fallen behind: its successor is linked.         *)
LEMMA DeqHelpInv ==
  ASSUME Queue!IInv, NEW t \in Queue!Threads, Queue!DeqHelp(t)
  PROVE  Queue!IInv'
<1> USE HeapAssumption
    DEF Queue!IInv, Queue!DeqHelp, Queue!Goto, Queue!heapVars, Queue!urcuVars,
        Queue!versionVars,
        Queue!syncLocals, Queue!ends, Queue!locals
<1>0. /\ Queue!QueueShape /\ Queue!EnqOwnsNode /\ Queue!DequeuedByOne /\ Queue!TailAhead
      /\ Queue!ReaderKeepsNodes
  BY DEF Queue!MainAlone
<1>1. Queue!QueueTypes'
  BY <1>0 DEF Queue!QueueTypes, Queue!HeapTypeOK, Queue!NodeOrNull, Queue!Statuses,
              Queue!Labels, Queue!MainStates,
         Queue!LockLabels, Queue!SyncLabels, Queue!EnqLabels, Queue!DeqLabels
<1>2. Queue!Grace(Queue!SectionLabels)'
  BY QueueKeepsGrace DEF Queue!Next, Queue!ThreadStep, Queue!EnqStep, Queue!DeqStep
<1>3. Queue!MainAlone'
  BY DEF Queue!QueueTypes, Queue!MainAlone
<1>4. Queue!QueueShape'
  BY <1>0 DEF Queue!QueueTypes, Queue!HeapTypeOK, Queue!QueueShape, Queue!LeadsTo,
         Queue!TailAhead, Queue!NodeOrNull
<1>5. Queue!EnqOwnsNode'
  BY <1>0 DEF Queue!QueueTypes, Queue!HeapTypeOK, Queue!NodeOrNull, Queue!EnqOwnsNode,
              Queue!Enqueuing, Queue!EnqLabels
<1>6. Queue!DequeuedByOne'
  BY <1>0 DEF Queue!QueueTypes, Queue!HeapTypeOK, Queue!DequeuedByOne, Queue!Dequeued,
              Queue!SyncLabels
<1>7. Queue!TailAhead'
  BY <1>0 DEF Queue!QueueTypes, Queue!HeapTypeOK, Queue!TailAhead,
         Queue!QueueShape, Queue!LeadsTo, Queue!NodeOrNull
<1>8. Queue!ReaderKeepsNodes'
  <2>1. UNCHANGED status /\ \A u \in Queue!Threads : Queue!Guards(u)' \subseteq Queue!Guards(u)
    BY DEF Queue!QueueTypes, Queue!Guards
  <2>2. \A u \in Queue!Threads : Queue!Dequeued(u)' =>
          /\ Queue!Dequeued(u) /\ temp'[u] = temp[u]
          /\ pc'[u] = pc[u] \/ pc'[u] = "deq.unlock"
    BY <1>0 DEF Queue!QueueTypes, Queue!Dequeued, Queue!SyncLabels,
              Queue!EnqOwnsNode, Queue!EnqLabels
  <2>3. \A u, r \in Queue!Threads :
          r \in oldReaders[u] => r \in oldReaders'[u] \/ Queue!Guards(r)' = {}
    BY DEF Queue!QueueTypes, Queue!Guards
  <2> QED BY <1>0, <2>1, <2>2, <2>3, QueueReadersKept
<1> QED BY <1>1, <1>2, <1>3, <1>4, <1>5, <1>6, <1>7, <1>8

(* The exchange takes the head off: its successor is linked and is the     *)
(* sentinel now, and this thread alone has dequeued the old one.           *)
LEMMA DeqCasInv ==
  ASSUME Queue!IInv, NEW t \in Queue!Threads, Queue!DeqCas(t)
  PROVE  Queue!IInv'
<1> USE HeapAssumption
    DEF Queue!IInv, Queue!DeqCas, Queue!Goto, Queue!heapVars, Queue!urcuVars,
        Queue!versionVars,
        Queue!syncLocals, Queue!ends, Queue!locals
<1>0. /\ Queue!QueueShape /\ Queue!EnqOwnsNode /\ Queue!DequeuedByOne /\ Queue!TailAhead
      /\ Queue!ReaderKeepsNodes
  BY DEF Queue!MainAlone
<1>a. temp[t] \in Nodes
  BY <1>0 DEF Queue!ReaderKeepsNodes, Queue!Guards
<1>b. CASE head # temp[t]
  <2>1. /\ UNCHANGED <<head, status, next, tail, node>>
        /\ pc' = [pc EXCEPT ![t] = "deq.load"]
        /\ temp' = [temp EXCEPT ![t] = NULL] /\ nxt' = [nxt EXCEPT ![t] = NULL]
        /\ temp2' = [temp2 EXCEPT ![t] = NULL]
        /\ UNCHANGED <<oldReaders, main>> /\ pc[t] = "deq.cas"
    BY <1>b
  <2>2. Queue!QueueTypes'
    BY <2>1 DEF Queue!QueueTypes, Queue!HeapTypeOK, Queue!NodeOrNull, Queue!Labels,
                Queue!DeqLabels
  <2>3. Queue!Grace(Queue!SectionLabels)'
    BY QueueKeepsGrace DEF Queue!Next, Queue!ThreadStep, Queue!EnqStep, Queue!DeqStep
  <2> HIDE DEF Queue!DeqCas
  <2>4. Queue!MainAlone'
    BY <2>1 DEF Queue!QueueTypes, Queue!MainAlone
  <2>5. Queue!QueueShape'
    BY <1>0, <2>1 DEF Queue!QueueTypes, Queue!QueueShape, Queue!LeadsTo
  <2>6. Queue!EnqOwnsNode' /\ Queue!DequeuedByOne'
    BY <1>0, <2>1 DEF Queue!QueueTypes, Queue!EnqOwnsNode, Queue!Enqueuing,
                      Queue!EnqLabels,
                      Queue!DequeuedByOne, Queue!Dequeued, Queue!SyncLabels
  <2>7. Queue!TailAhead'
    BY <1>0, <2>1 DEF Queue!QueueTypes, Queue!TailAhead
  <2>8. Queue!ReaderKeepsNodes'
    BY <1>0, <2>1 DEF Queue!QueueTypes, Queue!ReaderKeepsNodes, Queue!Guards,
                      Queue!Dequeued, Queue!SyncLabels
  <2> QED BY <2>2, <2>3, <2>4, <2>5, <2>6, <2>7, <2>8
<1>c. CASE head = temp[t]
  <2>1. /\ pc[t] = "deq.cas" /\ pc' = [pc EXCEPT ![t] = "deq.item"]
        /\ head' = nxt[t] /\ status' = [status EXCEPT ![head] = "retired"]
        /\ temp2' = [temp2 EXCEPT ![t] = NULL]
        /\ UNCHANGED <<next, tail, node, temp, nxt, oldReaders, main>>
    BY <1>c
  <2>2. /\ nxt[t] \in Nodes /\ Queue!LeadsTo(head, nxt[t])
        /\ status[nxt[t]] = "linked" /\ nxt[t] # head /\ tail # head
        /\ status[head] = "linked" /\ head \in Nodes
        /\ \A q \in Nodes : status[q] = "linked" /\ Queue!LeadsTo(q, nxt[t]) => q = head
    <3>1. /\ nxt[t] \in Nodes /\ tail # head
      BY <1>0, <1>c, <2>1 DEF Queue!QueueTypes, Queue!NodeOrNull, Queue!TailAhead
    <3>2. Queue!LeadsTo(head, nxt[t])
      BY <1>c, <2>1 DEF Queue!LeadsTo
    <3> QED BY <1>0, <3>1, <3>2 DEF Queue!QueueShape
  <2>3. Queue!QueueTypes'
    BY <1>0, <1>a, <2>1 DEF Queue!QueueTypes, Queue!HeapTypeOK, Queue!NodeOrNull,
                            Queue!Statuses,
                            Queue!Labels, Queue!DeqLabels
  <2>4. Queue!Grace(Queue!SectionLabels)'
    BY QueueKeepsGrace DEF Queue!Next, Queue!ThreadStep, Queue!EnqStep, Queue!DeqStep
  <2> HIDE DEF Queue!DeqCas
  <2>5. \A m \in Nodes : status'[m] = IF m = head THEN "retired" ELSE status[m]
    BY <2>1 DEF Queue!QueueTypes, Queue!HeapTypeOK
  <2>6. Queue!MainAlone'
    BY <2>1 DEF Queue!QueueTypes, Queue!MainAlone
  <2>7. Queue!QueueShape'
    <3>1. \A p, n \in Nodes : Queue!LeadsTo(p, n)' => Queue!LeadsTo(p, n)
      BY <2>1 DEF Queue!QueueTypes, Queue!LeadsTo
    <3> QED BY <1>0, <2>1, <2>2, <2>5, <3>1 DEF Queue!QueueShape
  <2>8. Queue!EnqOwnsNode'
    BY <1>0, <2>1, <2>2, <2>5 DEF Queue!QueueTypes, Queue!NodeOrNull,
                                  Queue!EnqOwnsNode, Queue!Enqueuing, Queue!EnqLabels
  <2>9. Queue!DequeuedByOne'
    BY <1>0, <1>c, <2>1, <2>2, <2>5 DEF Queue!QueueTypes, Queue!DequeuedByOne,
                                        Queue!Dequeued, Queue!SyncLabels
  <2>10. Queue!TailAhead'
    <3>1. \A u \in Queue!Threads : pc[u] \in {"deq.tail", "deq.next", "deq.recheck",
                                       "deq.help", "deq.cas"} => temp[u] \in Nodes
      BY <1>0 DEF Queue!ReaderKeepsNodes, Queue!Guards
    <3> QED BY <1>0, <1>c, <2>1, <2>2, <2>5, <3>1 DEF Queue!QueueTypes, Queue!TailAhead
  <2>11. Queue!ReaderKeepsNodes'
    <3>1. /\ Queue!Guards(t)' = {head, nxt[t]}
          /\ \A u \in Queue!Threads : u # t => Queue!Guards(u)' = Queue!Guards(u)
      BY <1>c, <2>1 DEF Queue!QueueTypes, Queue!Guards
    <3>2. \A u \in Queue!Threads : Queue!Dequeued(u)' => Queue!Dequeued(u) \/ u = t
      BY <2>1 DEF Queue!QueueTypes, Queue!Dequeued, Queue!SyncLabels
    <3>3. \A u \in Queue!Threads : Queue!Dequeued(u) => temp[u] # head /\ temp[u] # nxt[t]
      BY <1>0, <2>2 DEF Queue!DequeuedByOne
    <3> QED
      BY <1>0, <1>c, <2>1, <2>2, <2>5, <3>1, <3>2, <3>3 DEF Queue!QueueTypes,
                                                            Queue!ReaderKeepsNodes
  <2> QED BY <2>3, <2>4, <2>6, <2>7, <2>8, <2>9, <2>10, <2>11
<1> QED BY <1>b, <1>c

(* The section ends before the wait begins.                                *)
LEMMA DeqUnlockInv ==
  ASSUME Queue!IInv, NEW t \in Queue!Threads, Queue!DeqUnlock(t)
  PROVE  Queue!IInv'
<1> USE HeapAssumption
    DEF Queue!IInv, Queue!DeqUnlock, Queue!ReadUnlock, Queue!Goto, Queue!heapVars,
        Queue!urcuVars, Queue!versionVars,
        Queue!syncLocals, Queue!ends, Queue!locals
<1>0. /\ Queue!QueueShape /\ Queue!EnqOwnsNode /\ Queue!DequeuedByOne /\ Queue!TailAhead
      /\ Queue!ReaderKeepsNodes
  BY DEF Queue!MainAlone
<1>1. Queue!QueueTypes'
  BY <1>0 DEF Queue!QueueTypes, Queue!HeapTypeOK, Queue!NodeOrNull, Queue!Statuses,
              Queue!Labels, Queue!MainStates,
         Queue!LockLabels, Queue!SyncLabels, Queue!EnqLabels, Queue!DeqLabels
<1>2. Queue!Grace(Queue!SectionLabels)'
  BY QueueKeepsGrace DEF Queue!Next, Queue!ThreadStep, Queue!EnqStep, Queue!DeqStep
<1>3. Queue!MainAlone'
  BY DEF Queue!QueueTypes, Queue!MainAlone
<1>4. Queue!QueueShape'
  BY <1>0 DEF Queue!QueueTypes, Queue!HeapTypeOK, Queue!QueueShape, Queue!LeadsTo
<1>5. Queue!EnqOwnsNode'
  BY <1>0 DEF Queue!QueueTypes, Queue!HeapTypeOK, Queue!NodeOrNull, Queue!EnqOwnsNode,
              Queue!Enqueuing, Queue!EnqLabels
<1>6. Queue!DequeuedByOne'
  BY <1>0 DEF Queue!QueueTypes, Queue!HeapTypeOK, Queue!DequeuedByOne, Queue!Dequeued,
              Queue!SyncLabels
<1>7. Queue!TailAhead'
  BY <1>0 DEF Queue!QueueTypes, Queue!HeapTypeOK, Queue!TailAhead
<1>8. Queue!ReaderKeepsNodes'
  <2>1. Queue!Guards(t)' = {} /\ \A u \in Queue!Threads : u # t => Queue!Guards(u)' = Queue!Guards(u)
    BY DEF Queue!QueueTypes, Queue!Guards
  <2>2. \A u \in Queue!Threads : Queue!Dequeued(u)' => Queue!Dequeued(u)
    BY DEF Queue!QueueTypes, Queue!Dequeued, Queue!SyncLabels
  <2>3. UNCHANGED <<status, temp>> /\ pc' = [pc EXCEPT ![t] = "sync.load"]
    OBVIOUS
  <2>4. \A u, r \in Queue!Threads : r # t /\ r \in oldReaders[u] => r \in oldReaders'[u]
    OBVIOUS
  <2> QED
    BY <1>0, <2>1, <2>2, <2>3, <2>4 DEF Queue!QueueTypes, Queue!ReaderKeepsNodes
<1> QED BY <1>1, <1>2, <1>3, <1>4, <1>5, <1>6, <1>7, <1>8

(* A thread that begins to wait does so for every reader that may rely on  *)
(* the node it has dequeued; one that returns has waited for all of them.  *)
LEMMA QueueSyncInv ==
  ASSUME Queue!IInv, NEW t \in Queue!Threads, Queue!Sync(t)
  PROVE  Queue!IInv'
<1> USE HeapAssumption
    DEF Queue!IInv, Queue!Sync, Queue!SynchronizeRCU, Queue!SyncLoad, Queue!SyncCas,
        Queue!SyncSpin, Queue!Readers, Queue!Goto, Queue!heapVars, Queue!urcuVars,
        Queue!versionVars,
        Queue!syncLocals, Queue!ends, Queue!locals
<1>0. /\ Queue!QueueShape /\ Queue!EnqOwnsNode /\ Queue!DequeuedByOne /\ Queue!TailAhead
      /\ Queue!ReaderKeepsNodes
  BY DEF Queue!MainAlone
<1>1. Queue!QueueTypes'
  BY <1>0 DEF Queue!QueueTypes, Queue!HeapTypeOK, Queue!NodeOrNull, Queue!Statuses,
              Queue!Labels, Queue!MainStates,
         Queue!LockLabels, Queue!SyncLabels, Queue!EnqLabels, Queue!DeqLabels
<1>2. Queue!Grace(Queue!SectionLabels)'
  BY QueueKeepsGrace DEF Queue!Next, Queue!ThreadStep, Queue!EnqStep, Queue!DeqStep
<1>3. Queue!MainAlone'
  BY DEF Queue!QueueTypes, Queue!MainAlone
<1>4. Queue!QueueShape'
  BY <1>0 DEF Queue!QueueTypes, Queue!HeapTypeOK, Queue!QueueShape, Queue!LeadsTo
<1>5. Queue!EnqOwnsNode'
  BY <1>0 DEF Queue!QueueTypes, Queue!HeapTypeOK, Queue!NodeOrNull, Queue!EnqOwnsNode,
              Queue!Enqueuing, Queue!EnqLabels
<1>6. Queue!DequeuedByOne'
  BY <1>0 DEF Queue!QueueTypes, Queue!HeapTypeOK, Queue!DequeuedByOne, Queue!Dequeued,
              Queue!SyncLabels
<1>7. Queue!TailAhead'
  BY <1>0 DEF Queue!QueueTypes, Queue!HeapTypeOK, Queue!TailAhead
<1>8. Queue!ReaderKeepsNodes'
  <2>1. \A u \in Queue!Threads : Queue!Guards(u)' = Queue!Guards(u)
    BY DEF Queue!QueueTypes, Queue!Guards
  <2>2. \A u \in Queue!Threads : Queue!Dequeued(u)' => Queue!Dequeued(u)
    BY DEF Queue!QueueTypes, Queue!Dequeued, Queue!SyncLabels
  <2>3. \A u \in Queue!Threads : Queue!Guards(u) # {} => pc[u] \in Queue!SectionLabels
    BY DEF Queue!Guards, Queue!SectionLabels, Queue!EnqLabels, Queue!DeqLabels
  <2>4. CASE Queue!SyncLoad(t, Queue!Readers)
    <3>1. \A r \in Queue!Threads : Queue!Guards(r) # {} => r \in oldReaders'[t]
      BY <2>3, <2>4 DEF Queue!Guards, Queue!Grace, Queue!GraceTypes
    <3>2. \A u \in Queue!Threads : u # t => oldReaders'[u] = oldReaders[u] /\ pc'[u] = pc[u]
      BY <2>4 DEF Queue!QueueTypes
    <3> QED BY <1>0, <2>1, <2>2, <3>1, <3>2 DEF Queue!QueueTypes, Queue!ReaderKeepsNodes
  <2>5. CASE ~Queue!SyncLoad(t, Queue!Readers)
    <3>1. /\ UNCHANGED oldReaders
          /\ pc[t] \in {"sync.cas", "sync.spin"}
          /\ \A u \in Queue!Threads : u # t => pc'[u] = pc[u]
      BY <2>5 DEF Queue!QueueTypes
    <3> QED BY <1>0, <2>1, <2>2, <3>1 DEF Queue!QueueTypes, Queue!ReaderKeepsNodes
  <2> QED BY <2>4, <2>5
<1> QED BY <1>1, <1>2, <1>3, <1>4, <1>5, <1>6, <1>7, <1>8

(* After the grace period no reader is left that relies on the dequeued    *)
(* node: to delete it leaves what the others rely on allocated.            *)
LEMMA DeqFreeInv ==
  ASSUME Queue!IInv, NEW t \in Queue!Threads, Queue!DeqFree(t)
  PROVE  Queue!IInv'
<1> USE HeapAssumption
    DEF Queue!IInv, Queue!DeqFree, Queue!Delete, Queue!ReturnItem, Queue!Goto,
        Queue!heapVars, Queue!urcuVars, Queue!versionVars,
        Queue!syncLocals, Queue!ends, Queue!locals
<1>0. /\ Queue!QueueShape /\ Queue!EnqOwnsNode /\ Queue!DequeuedByOne /\ Queue!TailAhead
      /\ Queue!ReaderKeepsNodes
  BY DEF Queue!MainAlone
<1>a. /\ temp[t] \in Nodes /\ status[temp[t]] = "retired"
       /\ \A u \in Queue!Threads : Queue!Dequeued(u) /\ temp[u] = temp[t] => u = t
  BY <1>0 DEF Queue!DequeuedByOne, Queue!Dequeued
<1>b. /\ status' = [status EXCEPT ![temp[t]] = "free"]
      /\ next' = [next EXCEPT ![temp[t]] = NULL]
      /\ temp' = [temp EXCEPT ![t] = NULL]
      /\ pc[t] = "deq.free" /\ pc' = [pc EXCEPT ![t] = "idle"]
  BY <1>a DEF Queue!QueueTypes, Queue!HeapTypeOK
<1>c. \A u \in Queue!Threads : temp[t] \notin Queue!Guards(u)
  <2>1. oldReaders[t] = {}
    BY DEF Queue!Grace, Queue!OldReadersHeld
  <2> QED BY <1>0, <2>1 DEF Queue!ReaderKeepsNodes, Queue!Dequeued
<1>1. Queue!QueueTypes'
  BY <1>0 DEF Queue!QueueTypes, Queue!HeapTypeOK, Queue!NodeOrNull, Queue!Statuses,
              Queue!Labels, Queue!MainStates,
         Queue!LockLabels, Queue!SyncLabels, Queue!EnqLabels, Queue!DeqLabels
<1>2. Queue!Grace(Queue!SectionLabels)'
  BY QueueKeepsGrace DEF Queue!Next, Queue!ThreadStep, Queue!EnqStep, Queue!DeqStep
<1>3. Queue!MainAlone'
  BY DEF Queue!QueueTypes, Queue!MainAlone
<1>4. Queue!QueueShape'
  <2>1. \A p, n \in Nodes : Queue!LeadsTo(p, n)' => Queue!LeadsTo(p, n)
    BY <1>b, HeapAssumption DEF Queue!QueueTypes, Queue!HeapTypeOK, Queue!LeadsTo
  <2>2. \A m \in Nodes : status'[m] = "linked" <=> status[m] = "linked"
    BY <1>a, <1>b DEF Queue!QueueTypes, Queue!HeapTypeOK
  <2> QED BY <1>0, <2>1, <2>2 DEF Queue!QueueShape
<1>5. Queue!EnqOwnsNode'
  BY <1>0, <1>a, <1>b DEF Queue!QueueTypes, Queue!HeapTypeOK, Queue!NodeOrNull,
                          Queue!EnqOwnsNode, Queue!Enqueuing, Queue!EnqLabels
<1>6. Queue!DequeuedByOne'
  BY <1>0 DEF Queue!QueueTypes, Queue!HeapTypeOK, Queue!DequeuedByOne, Queue!Dequeued,
              Queue!SyncLabels
<1>7. Queue!TailAhead'
  <2>1. \A u \in Queue!Threads : pc[u] \in {"deq.tail", "deq.next", "deq.recheck",
                                       "deq.help", "deq.cas"} =>
             temp[u] # temp[t] /\ temp[u] \in Nodes
    BY <1>0, <1>c DEF Queue!Guards, Queue!ReaderKeepsNodes
  <2> QED BY <1>0, <1>a, <1>b, <2>1
             DEF Queue!QueueTypes, Queue!HeapTypeOK, Queue!TailAhead
<1>8. Queue!ReaderKeepsNodes'
  <2>1. \A u \in Queue!Threads : Queue!Guards(u)' = Queue!Guards(u)
    BY DEF Queue!QueueTypes, Queue!Guards
  <2>2. \A u \in Queue!Threads : Queue!Dequeued(u)' => Queue!Dequeued(u) /\ u # t
    BY DEF Queue!QueueTypes, Queue!Dequeued, Queue!SyncLabels
  <2> QED
    BY <1>0, <1>a, <1>b, <1>c, <2>1, <2>2 DEF Queue!QueueTypes, Queue!HeapTypeOK,
                                              Queue!ReaderKeepsNodes
<1> QED BY <1>1, <1>2, <1>3, <1>4, <1>5, <1>6, <1>7, <1>8

(* A thread leaves the loop with nothing in its hands.                     *)
LEMMA QueueThreadExitInv ==
  ASSUME Queue!IInv, NEW t \in Queue!Threads, Queue!ThreadExit(t)
  PROVE  Queue!IInv'
<1> USE HeapAssumption
    DEF Queue!IInv, Queue!ThreadExit, Queue!LeaveLoop, Queue!Goto, Queue!heapVars,
        Queue!urcuVars, Queue!versionVars,
        Queue!syncLocals, Queue!ends, Queue!locals
<1>0. /\ Queue!QueueShape /\ Queue!EnqOwnsNode /\ Queue!DequeuedByOne /\ Queue!TailAhead
      /\ Queue!ReaderKeepsNodes
  BY DEF Queue!MainAlone
<1>1. Queue!QueueTypes'
  BY <1>0 DEF Queue!QueueTypes, Queue!HeapTypeOK, Queue!NodeOrNull, Queue!Statuses,
              Queue!Labels, Queue!MainStates,
         Queue!LockLabels, Queue!SyncLabels, Queue!EnqLabels, Queue!DeqLabels
<1>2. Queue!Grace(Queue!SectionLabels)'
  BY QueueKeepsGrace DEF Queue!Next, Queue!ThreadStep, Queue!EnqStep, Queue!DeqStep
<1>3. Queue!MainAlone'
  BY DEF Queue!QueueTypes, Queue!MainAlone
<1>4. Queue!QueueShape'
  BY <1>0 DEF Queue!QueueTypes, Queue!HeapTypeOK, Queue!QueueShape, Queue!LeadsTo
<1>5. Queue!EnqOwnsNode'
  BY <1>0 DEF Queue!QueueTypes, Queue!HeapTypeOK, Queue!NodeOrNull, Queue!EnqOwnsNode,
              Queue!Enqueuing, Queue!EnqLabels
<1>6. Queue!DequeuedByOne'
  BY <1>0 DEF Queue!QueueTypes, Queue!HeapTypeOK, Queue!DequeuedByOne, Queue!Dequeued,
              Queue!SyncLabels
<1>7. Queue!TailAhead'
  BY <1>0 DEF Queue!QueueTypes, Queue!HeapTypeOK, Queue!TailAhead
<1>8. Queue!ReaderKeepsNodes'
  <2>1. UNCHANGED status /\ \A u \in Queue!Threads : Queue!Guards(u)' \subseteq Queue!Guards(u)
    BY DEF Queue!QueueTypes, Queue!Guards
  <2>2. \A u \in Queue!Threads : Queue!Dequeued(u)' =>
          /\ Queue!Dequeued(u) /\ temp'[u] = temp[u]
          /\ pc'[u] = pc[u] \/ pc'[u] = "deq.unlock"
    BY <1>0 DEF Queue!QueueTypes, Queue!Dequeued, Queue!SyncLabels,
              Queue!EnqOwnsNode, Queue!EnqLabels
  <2>3. \A u, r \in Queue!Threads :
          r \in oldReaders[u] => r \in oldReaders'[u] \/ Queue!Guards(r)' = {}
    BY DEF Queue!QueueTypes, Queue!Guards
  <2> QED BY <1>0, <2>1, <2>2, <2>3, QueueReadersKept
<1> QED BY <1>1, <1>2, <1>3, <1>4, <1>5, <1>6, <1>7, <1>8

(* Quitting changes what the threads do next, and nothing else.            *)
LEMMA QueueQuitInv ==
  ASSUME Queue!IInv, Queue!Quit
  PROVE  Queue!IInv'
<1> USE DEF Queue!IInv, Queue!Quit, Queue!QuitSignal, Queue!heapVars, Queue!urcuVars,
            Queue!versionVars,
    Queue!syncLocals, Queue!ends, Queue!locals
<1>1. Queue!QueueTypes' /\ Queue!MainAlone'
  BY DEF Queue!QueueTypes, Queue!HeapTypeOK, Queue!MainStates, Queue!MainAlone
<1>2. Queue!Grace(Queue!SectionLabels)'
  BY QueueKeepsGrace DEF Queue!Next, Queue!MainStep
<1>3. Queue!QueueShape' /\ Queue!EnqOwnsNode' /\ Queue!DequeuedByOne' /\ Queue!TailAhead'
  BY DEF Queue!QueueShape, Queue!LeadsTo, Queue!EnqOwnsNode, Queue!Enqueuing,
         Queue!DequeuedByOne, Queue!Dequeued,
         Queue!TailAhead
<1>4. Queue!ReaderKeepsNodes'
  BY DEF Queue!ReaderKeepsNodes, Queue!Guards, Queue!Dequeued
<1> QED BY <1>1, <1>2, <1>3, <1>4

(* After the join the main thread goes on as thread 0.                     *)
LEMMA QueueJoinInv ==
  ASSUME Queue!IInv, Queue!Join
  PROVE  Queue!IInv'
<1> USE ThreadsAssumption
    DEF Queue!IInv, Queue!Join, Queue!JoinThreads, Queue!heapVars, Queue!urcuVars,
        Queue!versionVars, Queue!syncLocals,
        Queue!ends, Queue!locals, Queue!Threads, Queue!QueueTypes
<1>1. Queue!QueueTypes' /\ Queue!MainAlone'
  BY DEF Queue!HeapTypeOK, Queue!Labels, Queue!MainStates, Queue!MainAlone
<1>2. Queue!Grace(Queue!SectionLabels)'
  BY QueueKeepsGrace DEF Queue!Next, Queue!MainStep
<1>3. Queue!QueueShape'
  BY DEF Queue!QueueShape, Queue!LeadsTo
<1>4. Queue!EnqOwnsNode' /\ Queue!DequeuedByOne' /\ Queue!TailAhead'
  <2>1. Queue!EnqOwnsNode'
    BY DEF Queue!EnqOwnsNode, Queue!Enqueuing, Queue!EnqLabels
  <2>2. Queue!DequeuedByOne'
    BY DEF Queue!DequeuedByOne, Queue!Dequeued, Queue!SyncLabels
  <2>3. Queue!TailAhead'
    BY DEF Queue!TailAhead
  <2> QED BY <2>1, <2>2, <2>3
<1>5. Queue!ReaderKeepsNodes'
  BY DEF Queue!ReaderKeepsNodes, Queue!Guards
<1> QED BY <1>1, <1>2, <1>3, <1>4, <1>5

(* The destructor deletes the last node when no thread is left that could  *)
(* use it.                                                                 *)
LEMMA QueueDestroyInv ==
  ASSUME Queue!IInv, Queue!Destroy
  PROVE  Queue!IInv'
<1> USE HeapAssumption, ThreadsAssumption
    DEF Queue!IInv, Queue!Destroy, Queue!DeleteStructure, Queue!Delete,
        Queue!urcuVars, Queue!versionVars,
        Queue!syncLocals, Queue!locals
<1>1. Queue!QueueTypes'
  BY DEF Queue!QueueTypes, Queue!HeapTypeOK, Queue!NodeOrNull, Queue!Statuses,
         Queue!MainStates
<1>2. Queue!Grace(Queue!SectionLabels)'
  BY QueueKeepsGrace DEF Queue!Next, Queue!MainStep
<1>3. Queue!MainAlone'
  BY DEF Queue!QueueTypes, Queue!MainAlone
<1> QED BY <1>1, <1>2, <1>3

(* Every step preserves the invariant.                                     *)
LEMMA QueueNextInv == Queue!IInv /\ [Queue!Next]_(Queue!vars) => Queue!IInv'
<1> SUFFICES ASSUME Queue!IInv, [Queue!Next]_(Queue!vars) PROVE Queue!IInv'
  OBVIOUS
<1>1. ASSUME NEW t \in Queue!Threads, Queue!ThreadStep(t) PROVE Queue!IInv'
  <2>1. CASE Queue!EnqCall(t) \/ Queue!LockStep(t) \/ Queue!Sync(t) \/ Queue!EnqStep(t)
    BY <2>1, EnqCallInv, QueueLockStepInv, QueueSyncInv, QueueLocalInv, EnqCheckInv,
       EnqHelpInv, EnqLinkInv, EnqSwingInv, EnqUnlockInv
       DEF Queue!EnqStep, QueueLocalStep
  <2>2. CASE Queue!DeqCall(t) \/ Queue!DeqStep(t)
    BY <2>2, DeqCallInv, QueueLocalInv, DeqCheckInv, DeqHelpInv, DeqCasInv,
       DeqUnlockInv, DeqFreeInv DEF Queue!DeqStep, QueueLocalStep
  <2>3. CASE Queue!ThreadExit(t)
    BY <2>3, QueueThreadExitInv
  <2> QED BY <1>1, <2>1, <2>2, <2>3 DEF Queue!ThreadStep
<1>2. ASSUME Queue!MainStep PROVE Queue!IInv'
  BY <1>2, QueueQuitInv, QueueJoinInv, QueueDestroyInv DEF Queue!MainStep
<1>3. ASSUME UNCHANGED Queue!vars PROVE Queue!IInv'
  <2>1. UNCHANGED <<status, next, item, oldReaders, pc, main, head, tail, node,
                    temp, temp2, nxt>>
    BY <1>3 DEF Queue!vars, Queue!heapVars, Queue!urcuVars, Queue!ends, Queue!locals
  <2>2. Queue!QueueTypes' /\ Queue!MainAlone'
    BY <2>1 DEF Queue!IInv, Queue!QueueTypes, Queue!HeapTypeOK, Queue!MainAlone
  <2>3. Queue!Grace(Queue!SectionLabels)'
    BY <1>3, QueueKeepsGrace DEF Queue!IInv
  <2>4. (Queue!QueueShape <=> Queue!QueueShape') /\ (Queue!EnqOwnsNode <=> Queue!EnqOwnsNode')
    BY <2>1 DEF Queue!QueueShape, Queue!LeadsTo, Queue!EnqOwnsNode, Queue!Enqueuing
  <2>5. (Queue!DequeuedByOne <=> Queue!DequeuedByOne') /\ (Queue!TailAhead <=> Queue!TailAhead')
    BY <2>1 DEF Queue!DequeuedByOne, Queue!Dequeued, Queue!TailAhead
  <2>6. Queue!ReaderKeepsNodes <=> Queue!ReaderKeepsNodes'
    BY <2>1 DEF Queue!ReaderKeepsNodes, Queue!Guards, Queue!Dequeued
  <2> QED BY <2>1, <2>2, <2>3, <2>4, <2>5, <2>6 DEF Queue!IInv
<1> QED BY <1>1, <1>2, <1>3 DEF Queue!Next, Queue!Finished

(* What the program accesses is allocated.                                 *)
LEMMA QueueIsMemorySafe == Queue!IInv => Queue!MemorySafe
<1> SUFFICES ASSUME Queue!IInv PROVE Queue!MemorySafe
  OBVIOUS
<1>1. Queue!MemorySafe
  <2> SUFFICES ASSUME NEW t \in Queue!Threads
               PROVE  /\ pc[t] \in {"enq.next", "enq.link", "deq.next"} => temp[t] \in Queue!Allocated
                      /\ pc[t] = "deq.item" => nxt[t] \in Queue!Allocated
    BY DEF Queue!MemorySafe
  <2>1. main = "destroyed" => pc[t] \in {"idle", "exited"}
    BY DEF Queue!IInv, Queue!MainAlone
  <2>2. main # "destroyed" => \A n \in Queue!Guards(t) : n \in Queue!Allocated
    BY DEF Queue!IInv, Queue!ReaderKeepsNodes, Queue!Allocated
  <2> QED BY <2>1, <2>2 DEF Queue!Guards
<1> QED BY <1>1

(* The start of an enqueue is an Allocate.                                 *)
LEMMA EnqCallMaps ==
  ASSUME structure = "queue", structure' = structure, Queue!Threads = Threads,
         Queue!IInv, NEW t \in Threads, Queue!EnqCall(t)
  PROVE  SMR!Next
<1>1. PICK n \in Nodes :
        status[n] = "free" /\ status' = [status EXCEPT ![n] = "private"]
  BY DEF Queue!EnqCall, Queue!New
<1>2. GuardsUnchanged
  BY DEF Queue!EnqCall, Queue!Goto, GuardsUnchanged, Guards, Of, Queue!Guards,
         Queue!IInv, Queue!QueueTypes
<1>3. SMR!Allocate(n)
  BY <1>1, <1>2, MoveMaps DEF SMR!Allocate, Queue!IInv, Queue!QueueTypes, Queue!HeapTypeOK
<1> QED
  BY <1>1, <1>3 DEF SMR!Next, SMR!Change, Queue!IInv, Queue!QueueTypes, Queue!HeapTypeOK

(* A comparison with head or tail that succeeds is a Guard: that node is   *)
(* linked. One that fails changes nothing.                                 *)
LEMMA CheckMaps ==
  ASSUME structure = "queue", structure' = structure, Queue!Threads = Threads,
         Queue!IInv, NEW t \in Threads, Queue!EnqCheck(t) \/ Queue!DeqCheck(t)
  PROVE  [SMR!Next]_(SMR!vars)
<1> USE DEF Queue!EnqCheck, Queue!DeqCheck, Queue!Goto, Queue!heapVars, Queue!locals,
            Guards, Of, Queue!Guards, Queue!IInv,
            Queue!QueueTypes
<1>1. CASE pc'[t] \in {"enq.next", "deq.tail"}
  <2>1. temp[t] \in {head, tail} /\ main # "destroyed"
    BY <1>1 DEF Queue!MainAlone
  <2>2. temp[t] \in Nodes /\ status[temp[t]] = "linked"
    BY <2>1 DEF Queue!QueueShape
  <2>3. Guards(t) = {} /\ OnlyGuards(t, {temp[t]}) /\ UNCHANGED status
    BY <1>1 DEF OnlyGuards
  <2> HIDE DEF Queue!EnqCheck, Queue!DeqCheck, Guards, Of, Queue!Guards, Queue!IInv,
               Queue!QueueTypes
  <2> QED BY <2>2, <2>3, GuardMaps
<1>2. CASE pc'[t] \notin {"enq.next", "deq.tail"}
  <2>1. UNCHANGED status /\ GuardsUnchanged
    BY <1>2 DEF GuardsUnchanged
  <2> QED BY <2>1, StutterMaps
<1> QED BY <1>1, <1>2

(* The exchange that links the new node is a Link, or a stutter when it    *)
(* fails.                                                                  *)
LEMMA EnqLinkMaps ==
  ASSUME structure = "queue", structure' = structure, Queue!Threads = Threads,
         Queue!IInv, NEW t \in Threads, Queue!EnqLink(t)
  PROVE  [SMR!Next]_(SMR!vars)
<1> USE DEF Queue!EnqLink, Queue!Goto, Queue!IInv, Queue!QueueTypes
<1>1. CASE next[temp[t]] = ptrnull[t]
  <2>1. /\ node[t] \in Nodes /\ status[node[t]] = "private"
        /\ status' = [status EXCEPT ![node[t]] = "linked"]
    BY <1>1 DEF Queue!MainAlone, Queue!NodeOrNull, Queue!EnqOwnsNode, Queue!Enqueuing,
                Queue!EnqLabels
  <2>2. GuardsUnchanged
    BY <1>1 DEF GuardsUnchanged, Guards, Of, Queue!Guards
  <2>3. SMR!Link(node[t])
    BY <2>1, <2>2, MoveMaps DEF SMR!Link, Queue!HeapTypeOK
  <2> QED BY <2>1, <2>3 DEF SMR!Next, SMR!Change, Queue!HeapTypeOK
<1>2. CASE next[temp[t]] # ptrnull[t]
  <2>1. UNCHANGED status /\ OnlyGuards(t, {})
    BY <1>2 DEF OnlyGuards, Guards, Of, Queue!Guards
  <2> QED BY <2>1, ReleaseMaps
<1> QED BY <1>1, <1>2

(* The exchange of a dequeue is an Unlink of the old head, or a Release    *)
(* when it fails.                                                          *)
LEMMA DeqCasMaps ==
  ASSUME structure = "queue", structure' = structure, Queue!Threads = Threads,
         Queue!IInv, NEW t \in Threads, Queue!DeqCas(t)
  PROVE  [SMR!Next]_(SMR!vars)
<1> USE DEF Queue!DeqCas, Queue!Goto, Queue!IInv, Queue!QueueTypes
<1>1. CASE head = temp[t]
  <2> DEFINE g == [u \in Threads |-> Guards(u)]
             n == temp[t]
             m == nxt[t]
  <2>1. n \in Nodes /\ m \in Nodes /\ Queue!LeadsTo(n, m)
    BY <1>1 DEF Queue!MainAlone, Queue!NodeOrNull, Queue!QueueShape, Queue!TailAhead,
                Queue!LeadsTo
  <2>2. status[n] = "linked" /\ status[m] = "linked" /\ m # n
    BY <1>1, <2>1 DEF Queue!MainAlone, Queue!QueueShape
  <2>3. status' = [status EXCEPT ![n] = "retired"]
    BY <1>1
  <2>4. Guards(t) = {n} /\ OnlyGuards(t, {n, m})
    BY <1>1 DEF Guards, Of, Queue!Guards, OnlyGuards
  <2> HIDE DEF Queue!DeqCas, n, m
  <2>5. g' = [g EXCEPT ![t] = g[t] \cup {m}]
    BY <2>4 DEF OnlyGuards
  <2>6. status'[n] = "retired"
    BY <2>1, <2>3 DEF Queue!HeapTypeOK
  <2>7. SMR!Advance(t, n, m)
    BY <2>2, <2>3, <2>5, <2>6 DEF SMR!Advance
  <2> QED BY <2>1, <2>2, <2>6, <2>7 DEF SMR!Next, SMR!Change
<1>2. CASE head # temp[t]
  <2>1. UNCHANGED status /\ OnlyGuards(t, {})
    BY <1>2 DEF OnlyGuards, Guards, Of, Queue!Guards
  <2> QED BY <2>1, ReleaseMaps
<1> QED BY <1>1, <1>2

(* The delete after the grace period is a Reclaim of an unguarded node.    *)
LEMMA DeqFreeMaps ==
  ASSUME structure = "queue", structure' = structure, Queue!Threads = Threads,
         Queue!IInv, NEW t \in Threads, Queue!DeqFree(t)
  PROVE  SMR!Next
<1> DEFINE n == temp[t]
<1>1. n \in Nodes /\ status[n] = "retired" /\ pc[t] = "deq.free" /\ Queue!Dequeued(t)
  BY DEF Queue!DeqFree, Queue!Goto, Queue!IInv, Queue!MainAlone, Queue!DequeuedByOne,
         Queue!Dequeued
<1>2. oldReaders[t] = {}
  BY <1>1 DEF Queue!IInv, Queue!Grace, Queue!GraceTypes, Queue!OldReadersHeld
<1>3. ASSUME NEW u \in Threads PROVE n \notin Guards(u)
  <2>1. n \notin Queue!Guards(u)
    BY <1>1, <1>2 DEF Queue!IInv, Queue!MainAlone, Queue!ReaderKeepsNodes
  <2> QED BY <2>1 DEF Guards, Of, Queue!Guards
<1>4. GuardsUnchanged
  BY <1>1 DEF Queue!DeqFree, Queue!Goto, GuardsUnchanged, Guards, Of, Queue!Guards,
              Queue!IInv, Queue!QueueTypes
<1>5. status' = [status EXCEPT ![n] = "free"]
  BY <1>1 DEF Queue!DeqFree, Queue!Delete, Queue!IInv, Queue!QueueTypes, Queue!HeapTypeOK
<1> HIDE DEF n
<1>6. SMR!Move({n}, "retired", "free")
  BY <1>1, <1>4, <1>5, MoveMaps DEF Queue!IInv, Queue!QueueTypes, Queue!HeapTypeOK
<1>7. SMR!Reclaim(n)
  BY <1>3, <1>6 DEF SMR!Reclaim, SMR!Unguarded
<1> QED
  BY <1>1, <1>5, <1>7 DEF SMR!Next, SMR!Change, Queue!IInv, Queue!QueueTypes,
                          Queue!HeapTypeOK

(* The destructor takes the Destroy step: no thread is left that relies on *)
(* the sentinel.                                                           *)
LEMMA QueueDestroyMaps ==
  ASSUME structure = "queue", structure' = structure, Queue!Threads = Threads,
         Queue!IInv, Queue!Destroy
  PROVE  SMR!Next
<1>1. status' = [n \in Nodes |-> IF n \in {head} \cap Nodes THEN "free"
                                ELSE status[n]]
  BY DEF Queue!Destroy, Queue!Delete
<1>2. \A t \in Threads : Guards(t) = {}
  BY DEF Queue!Destroy, Queue!DeleteStructure, Queue!IInv, Queue!MainAlone, Guards,
         Of, Queue!Guards
<1>3. GuardsUnchanged
  BY DEF Queue!Destroy, Queue!DeleteStructure, Queue!locals, GuardsUnchanged, Guards,
         Of, Queue!Guards
<1>4. SMR!Destroy
  BY <1>1, <1>2, <1>3 DEF SMR!Destroy, GuardsUnchanged
<1> QED BY <1>4 DEF SMR!Next

(* A step after which the thread accesses its node no more is a Release.   *)
LEMMA LettingGoMaps ==
  ASSUME structure = "queue", structure' = structure, Queue!Threads = Threads,
         Queue!IInv, NEW t \in Threads,
         \/ Queue!EnqHelp(t) \/ Queue!EnqSwing(t) \/ Queue!DeqHelp(t) \/ Queue!DeqItem(t)
  PROVE  [SMR!Next]_(SMR!vars)
<1>1. OnlyGuards(t, {}) /\ UNCHANGED status
  BY DEF Queue!EnqHelp, Queue!EnqSwing, Queue!DeqHelp, Queue!DeqItem, Queue!Goto,
         Queue!heapVars, Queue!ends, Queue!locals,
         Guards, Of, Queue!Guards, OnlyGuards, Queue!IInv, Queue!QueueTypes
<1> QED BY <1>1, ReleaseMaps

(* The second comparison keeps the guard or lets go of it.                 *)
LEMMA RecheckMaps ==
  ASSUME structure = "queue", structure' = structure, Queue!Threads = Threads,
         Queue!IInv, NEW t \in Threads, Queue!EnqRecheck(t) \/ Queue!DeqRecheck(t)
  PROVE  [SMR!Next]_(SMR!vars)
<1> USE DEF Queue!EnqRecheck, Queue!DeqRecheck, Queue!DeqAbandon, Queue!Goto,
            Queue!heapVars, Queue!ends, Queue!locals,
            Guards, Of, Queue!Guards, Queue!IInv, Queue!QueueTypes
<1>1. CASE pc'[t] \in {"enq.help", "enq.link", "deq.help", "deq.cas"}
  <2>1. CASE Queue!EnqRecheck(t)
    <3>1. UNCHANGED status /\ GuardsUnchanged
      BY <1>1, <2>1 DEF GuardsUnchanged
    <3> QED BY <3>1, StutterMaps
  <2>2. CASE Queue!DeqRecheck(t)
    <3>1. UNCHANGED status /\ GuardsUnchanged
      BY <1>1, <2>2 DEF GuardsUnchanged
    <3> QED BY <3>1, StutterMaps
  <2> QED BY <2>1, <2>2
<1>2. CASE pc'[t] \notin {"enq.help", "enq.link", "deq.help", "deq.cas"}
  <2>1. UNCHANGED status /\ OnlyGuards(t, {})
    BY <1>2 DEF OnlyGuards
  <2> QED BY <2>1, ReleaseMaps
<1> QED BY <1>1, <1>2

(* The remaining steps of a thread change neither life cycles nor guards.  *)
LEMMA QueueOthersMap ==
  ASSUME structure = "queue", structure' = structure, Queue!Threads = Threads,
         Queue!IInv, NEW t \in Threads,
         \/ Queue!LockStep(t) \/ Queue!EnqLoad(t) \/ Queue!EnqRetry(t) \/ Queue!EnqNext(t)
         \/ Queue!EnqUnlock(t) \/ Queue!DeqCall(t) \/ Queue!DeqLoad(t) \/ Queue!DeqRetry(t)
         \/ Queue!DeqTail(t) \/ Queue!DeqNext(t) \/ Queue!DeqUnlock(t) \/ Queue!Sync(t) \/ Queue!ThreadExit(t)
  PROVE  UNCHANGED SMR!vars
<1> USE DEF Queue!Goto, Queue!heapVars, Queue!locals, Guards, Of, Queue!Guards,
            GuardsUnchanged, Queue!IInv, Queue!QueueTypes
<1>1. CASE Queue!LockStep(t) \/ Queue!EnqLoad(t) \/ Queue!EnqRetry(t) \/ Queue!EnqNext(t)
  <2>1. UNCHANGED status /\ GuardsUnchanged
    BY <1>1 DEF Queue!LockStep, Queue!ReadLock, Queue!LockLoad, Queue!LockStore,
                Queue!LockCheck, Queue!LockFix,
                Queue!EnqLoad, Queue!EnqRetry, Queue!EnqNext
  <2> QED BY <2>1, StutterMaps
<1>2. CASE Queue!EnqUnlock(t) \/ Queue!DeqCall(t) \/ Queue!DeqLoad(t) \/ Queue!DeqRetry(t) \/ Queue!DeqTail(t)
  <2>1. UNCHANGED status /\ GuardsUnchanged
    BY <1>2 DEF Queue!EnqUnlock, Queue!DeqCall, Queue!DeqLoad, Queue!DeqRetry,
                Queue!DeqTail
  <2> QED BY <2>1, StutterMaps
<1>3. CASE Queue!DeqNext(t) \/ Queue!DeqUnlock(t) \/ Queue!Sync(t) \/ Queue!ThreadExit(t)
  <2>1. UNCHANGED status /\ GuardsUnchanged
    BY <1>3 DEF Queue!DeqNext, Queue!DeqUnlock, Queue!Sync, Queue!SynchronizeRCU,
                Queue!SyncLoad, Queue!SyncCas,
                Queue!SyncSpin, Queue!ThreadExit, Queue!LeaveLoop
  <2> QED BY <2>1, StutterMaps
<1> QED BY <1>1, <1>2, <1>3

(* Every step of the queue is a step of SafeReclamation or a stutter.      *)
LEMMA QueueStepMaps ==
  ASSUME structure = "queue", structure' = structure, Queue!Threads = Threads,
         Queue!IInv, [Queue!Next]_(Queue!vars)
  PROVE  [SMR!Next]_(SMR!vars)
<1>1. ASSUME NEW t \in Threads, Queue!ThreadStep(t) PROVE [SMR!Next]_(SMR!vars)
  BY <1>1, EnqCallMaps, CheckMaps, EnqLinkMaps, DeqCasMaps, DeqFreeMaps,
     LettingGoMaps, RecheckMaps, QueueOthersMap
     DEF Queue!ThreadStep, Queue!EnqStep, Queue!DeqStep
<1>2. ASSUME Queue!MainStep PROVE [SMR!Next]_(SMR!vars)
  <2>1. CASE Queue!Quit \/ Queue!Join
    <3>1. UNCHANGED status /\ GuardsUnchanged
      BY <2>1, ThreadsAssumption
         DEF Queue!Quit, Queue!Join, Queue!QuitSignal, Queue!JoinThreads,
             Queue!heapVars, Queue!locals, Threads,
             GuardsUnchanged, Guards, Of, Queue!Guards, Queue!IInv, Queue!QueueTypes
    <3> QED BY <3>1, StutterMaps
  <2> QED BY <1>2, <2>1, QueueDestroyMaps DEF Queue!MainStep
<1>3. ASSUME UNCHANGED Queue!vars PROVE UNCHANGED SMR!vars
  <2>1. UNCHANGED status /\ GuardsUnchanged
    BY <1>3 DEF Queue!vars, Queue!heapVars, Queue!locals, GuardsUnchanged, Guards, Of,
                Queue!Guards
  <2> QED BY <2>1, StutterMaps
<1> QED BY <1>1, <1>2, <1>3 DEF Queue!Next, Queue!Finished

(* The queue begins as SafeReclamation does: one linked node, and nobody   *)
(* relies on it.                                                           *)
LEMMA QueueInitMaps ==
  ASSUME structure = "queue", Queue!Threads = Threads, Queue!Init
  PROVE  SMR!Init
BY DEF Queue!Init, Queue!BenchmarkInit, Queue!HeapWithSentinel, SMR!Init, Guards, Of,
       Queue!Guards

-----------------------------------------------------------------------------
(* The list.                                                               *)

(* The same of the list.                                                   *)
LEMMA ListApart == Apart(List!SectionLabels)
BY DEF Apart, List!SectionLabels, List!FindLabels, LockLabels, SyncLabels

(* The steps of the list.                                                  *)
LEMMA ListStep ==
  ASSUME Grace(List!SectionLabels), List!Next
  PROVE  SchemeStep(List!SectionLabels) \/ Elsewhere(List!SectionLabels)
<1> DEFINE section == List!SectionLabels
<1> USE DEF List!Goto, List!SectionLabels, List!FindLabels, Waiting,
            Quiet, Outside
<1>0. pc = [u \in Threads |-> pc[u]] /\ List!Threads = Threads
  BY DEF Grace, GraceTypes, LoopAtStart, List!Threads, Threads
<1>1. ASSUME NEW t \in Threads, List!LockStep(t)
      PROVE  SchemeStep(section)
  <2>1. PICK done \in section : List!ReadLock(t, done)
    BY <1>1 DEF List!LockStep
  <2>2. ReadLock(t, done)
    BY <2>1, <1>0
       DEF ReadLock, List!ReadLock, LockLoad, List!LockLoad, LockStore,
           List!LockStore, LockCheck, List!LockCheck, LockFix, List!LockFix,
           Goto, List!urcuVars, urcuVars, List!versionVars, versionVars,
           List!syncLocals, syncLocals
  <2> QED BY <2>2 DEF SchemeStep
<1>2. ASSUME NEW t \in Threads, List!Sync(t)
      PROVE  SchemeStep(section)
  <2>1. PICK done : /\ Outside(done, section)
                    /\ List!SynchronizeRCU(t, List!Readers, done)
    BY <1>2 DEF List!Sync
  <2>2. List!Readers = {r \in Threads : pc[r] \in section}
    BY <1>0 DEF List!Readers
  <2>3. SynchronizeRCU(t, List!Readers, done)
    BY <2>1
       DEF SynchronizeRCU, List!SynchronizeRCU, SyncLoad, List!SyncLoad,
           SyncCas, List!SyncCas, SyncSpin, List!SyncSpin, ReaderIsOld,
           List!ReaderIsOld, Goto, List!urcuVars, urcuVars, List!versionVars,
           versionVars, List!syncLocals, syncLocals
  <2> QED BY <2>1, <2>2, <2>3 DEF SchemeStep
<1>3. ASSUME NEW t \in Threads, List!ReadUnlock(t), pc[t] \in section,
             NEW to, Outside(to, section), pc' = [pc EXCEPT ![t] = to]
      PROVE  SchemeStep(section)
  <2>1. ReadUnlock(t)
    BY <1>3, <1>0
       DEF ReadUnlock, List!ReadUnlock, List!urcuVars, urcuVars,
           List!versionVars, versionVars, List!syncLocals, syncLocals
  <2> QED BY <1>3, <2>1 DEF SchemeStep
<1>4. ASSUME NEW t \in Threads, List!RemoveUnlock(t)
      PROVE  SchemeStep(section)
  BY <1>3, <1>4 DEF List!RemoveUnlock
<1>5. ASSUME NEW t \in Threads, List!Unlock(t)
      PROVE  SchemeStep(section)
  <2> DEFINE to == IF retired[t] = <<>> THEN "idle" ELSE "sync.load"
  <2>1. Outside(to, section) /\ pc[t] \in section /\ List!ReadUnlock(t)
        /\ pc' = [pc EXCEPT ![t] = to]
    BY <1>5 DEF List!Unlock, List!GoOn
  <2> QED BY <1>3, <2>1
<1>6. ASSUME NEW t \in Threads,
             List!AddCall(t) \/ List!Call(t)
      PROVE  Elsewhere(section)
  BY <1>0, <1>6
     DEF Elsewhere, List!AddCall, List!Call, List!urcuVars, urcuVars,
         List!versionVars, versionVars, List!syncLocals, syncLocals
<1>7. ASSUME NEW t \in Threads,
             List!FindHead(t) \/ List!FindCheck(t) \/ List!FindAgain(t) \/
             List!FindMoved(t) \/ List!FindMarked(t)
      PROVE  Elsewhere(section)
  BY <1>0, <1>7
     DEF Elsewhere, List!FindHead, List!FindCheck, List!FindAgain,
         List!FindMoved, List!FindMarked, List!TryAgain, List!urcuVars,
         urcuVars, List!versionVars, versionVars, List!syncLocals, syncLocals
<1>8. ASSUME NEW t \in Threads,
             List!FindNext(t) \/ List!FindEnds(t) \/ List!FindAdvances(t)
      PROVE  Elsewhere(section)
  BY <1>0, <1>8
     DEF Elsewhere, List!FindNext, List!FindEnds, List!FindAdvances,
         List!AfterFind, List!urcuVars, urcuVars, List!versionVars,
         versionVars, List!syncLocals, syncLocals
<1>9. ASSUME NEW t \in Threads,
             List!FindHelp(t) \/ List!FindFollowsMarked(t)
      PROVE  Elsewhere(section)
  BY <1>0, <1>9
     DEF Elsewhere, List!FindHelp, List!FindFollowsMarked, List!TryAgain,
         List!urcuVars, urcuVars, List!versionVars, versionVars,
         List!syncLocals, syncLocals
<1>10. ASSUME NEW t \in Threads,
             List!AddDiscard(t) \/ List!AddCas(t) \/ List!RemoveMark(t) \/
             List!RemoveCas(t)
      PROVE  Elsewhere(section)
  BY <1>0, <1>10
     DEF Elsewhere, List!AddDiscard, List!AddCas, List!RemoveMark,
         List!RemoveCas, List!TryAgain, List!urcuVars, urcuVars,
         List!versionVars, versionVars, List!syncLocals, syncLocals
<1>11. ASSUME NEW t \in Threads,
             List!RemoveFree(t) \/ List!Free(t) \/ List!ThreadExit(t)
      PROVE  Elsewhere(section)
  BY <1>0, <1>11
     DEF Elsewhere, List!RemoveFree, List!Free, List!ThreadExit,
         List!LeaveLoop, List!GoOn, List!urcuVars, urcuVars, List!versionVars,
         versionVars, List!syncLocals, syncLocals
<1>12. ASSUME List!MainStep \/ List!Finished
      PROVE  Elsewhere(section)
  BY <1>0, <1>12, ThreadsAssumption
     DEF Elsewhere, List!MainStep, List!Start, List!StartThreads,
         List!Quit, List!QuitSignal, List!Join, List!JoinUndrained,
         List!Destroy, List!Finished, List!vars, List!urcuVars, urcuVars,
         List!versionVars, versionVars, List!syncLocals, syncLocals, Threads
<1> QED
  BY <1>0, <1>1, <1>2, <1>4, <1>5, <1>6, <1>7, <1>8, <1>9, <1>10, <1>11,
     <1>12
     DEF List!Next, List!ThreadStep, List!FindStep, List!CallStep

(* The scheme's part of the invariant is kept.                             *)
LEMMA ListKeepsGrace ==
  ASSUME List!Grace(List!SectionLabels), [List!Next]_(List!vars)
  PROVE  List!Grace(List!SectionLabels)'
<1> USE DEF List!Grace, List!GraceTypes, List!LoopAtStart, List!OldReadersHeld,
            List!Announced, List!Threads, Grace, GraceTypes, LoopAtStart,
            OldReadersHeld, Announced, Threads
<1>1. Grace(List!SectionLabels)
  OBVIOUS
<1>2. CASE List!Next
  <2> HIDE DEF List!Grace, Grace
  <2>1. Grace(List!SectionLabels)'
    BY <1>1, <1>2, ListStep, ListApart, GraceKept
  <2> QED BY <2>1 DEF List!Grace, Grace
<1>3. CASE UNCHANGED List!vars
  BY <1>3 DEF List!vars, List!urcuVars, List!versionVars, List!syncLocals
<1> QED BY <1>2, <1>3

(* The empty link is a link.                                               *)
LEMMA NoLinkType == List!NoLink \in List!Links
BY DEF List!NoLink, List!Links, List!NodeOrNull

(* The link of a node, with its mark, is a link.                           *)
LEMMA LinkType ==
  ASSUME NEW n, next[n] \in List!NodeOrNull
  PROVE  List!Link(n) \in List!Links
<1> DEFINE mark == n \in marked
<1>1. mark \in BOOLEAN
  OBVIOUS
<1>2. List!Link(n) = <<next[n], mark>>
  BY DEF List!Link
<1> HIDE DEF mark
<1> QED BY <1>1, <1>2 DEF List!Links

(* A link is a node or null, and a mark.                                   *)
LEMMA LinkParts ==
  ASSUME NEW l \in List!Links
  PROVE  List!getUnmarked(l) \in List!NodeOrNull /\ List!isMarked(l) \in BOOLEAN
BY DEF List!Links, List!getUnmarked, List!isMarked

(* A link read from a node says where its next leads and whether it is     *)
(* marked.                                                                 *)
LEMMA LinkIs ==
  ASSUME NEW n, NEW x, NEW b \in BOOLEAN
  PROVE  List!Link(n) = <<x, b>> <=> next[n] = x /\ (n \in marked <=> b)
BY DEF List!Link

(* A link that is what the thread has read has the successor and the mark  *)
(* the thread has read.                                                    *)
LEMMA LinkRead ==
  ASSUME List!ListTypes, NEW t \in List!Threads, NEW n, List!Link(n) = nxt[t]
  PROVE  next[n] = List!getUnmarked(nxt[t]) /\ (n \in marked <=> List!isMarked(nxt[t]))
BY DEF List!Link, List!getUnmarked, List!isMarked, List!ListTypes, List!Links

(* What PredIsCurr says.                                                   *)
LEMMA PredLeads ==
  ASSUME NEW t \in List!Threads, List!PredIsCurr(t)
  PROVE  IF pred[t] = NULL THEN head = curr[t]
         ELSE next[pred[t]] = curr[t] /\ pred[t] \notin marked
BY DEF List!PredIsCurr, List!PredLink, List!Link

(* A thread whose pred is guarded and still leads to curr.                 *)
LEMMA CurrIsLinked ==
  ASSUME List!ListTypes, List!ListShape, List!ReaderKeepsNodes,
         NEW t \in List!Threads, List!PredIsCurr(t),
         pred[t] \in List!Guards(t) \cup {NULL}
  PROVE  /\ pred[t] # NULL => /\ pred[t] \in Nodes /\ pred[t] \notin marked
                              /\ status[pred[t]] = "linked"
                              /\ next[pred[t]] = curr[t]
         /\ pred[t] = NULL => head = curr[t]
         /\ curr[t] # NULL => curr[t] \in Nodes /\ status[curr[t]] = "linked"
<1>1. pred[t] # NULL => /\ pred[t] \in Nodes /\ pred[t] \notin marked
                        /\ status[pred[t]] = "linked"
                        /\ next[pred[t]] = curr[t]
  BY PredLeads DEF List!ListTypes, List!NodeOrNull, List!ListShape, List!ReaderKeepsNodes
<1>2. pred[t] = NULL => head = curr[t]
  BY PredLeads
<1> QED BY <1>1, <1>2 DEF List!ListTypes, List!NodeOrNull, List!ListShape

(* The constructor leaves an empty list: the invariant holds.              *)
LEMMA ListInitInv == List!Init => List!IInv
<1> SUFFICES ASSUME List!Init PROVE List!IInv
  OBVIOUS
<1> USE HeapAssumption, ThreadsAssumption
    DEF List!Init, List!URCUInit, List!ListInit
<1>1. List!ListTypes
  <2>1. retired \in [List!Threads -> Seq(Nodes)]
    OBVIOUS
  <2> QED BY <2>1
             DEF List!ListTypes, List!NodeOrNull, List!Statuses, List!Labels,
                 List!MainStates, List!NoLink, List!Links
<1>2. List!Grace(List!SectionLabels)
  BY VersionAssumption
     DEF List!Grace, List!GraceTypes, List!LoopAtStart, List!Announced,
         List!OldReadersHeld, List!Threads,
         List!SectionLabels, List!FindLabels
<1>3. List!ListShape /\ List!MainAlone
  BY DEF List!ListShape, List!MainAlone
<1>4. List!AddOwnsNode /\ List!RetiredOnce /\ List!MarkedKeepsLink /\ List!ReaderKeepsNodes
  BY DEF List!AddOwnsNode, List!OwnsNode, List!RetiredOnce, List!HasToFree,
         List!Unlinked, List!SyncLabels, List!FreeLabels,
         List!MarkedKeepsLink, List!KeepsLink, List!ReaderKeepsNodes, List!Guards
<1> QED BY <1>1, <1>2, <1>3, <1>4 DEF List!IInv

(* A step of t leaves the other threads where they are.                    *)
OthersStay(t) ==
  \A u \in List!Threads : u # t =>
    /\ pc'[u] = pc[u] /\ pred'[u] = pred[u] /\ curr'[u] = curr[u]
    /\ nxt'[u] = nxt[u] /\ node'[u] = node[u]
    /\ op'[u] = "add" <=> op[u] = "add"

(* What each of the guards of a thread that goes on rests on.              *)
GuardsGrow(t) ==
  \A n \in List!Guards(t)' : n \in List!Guards(t) \/ status[n] = "linked"

(* Whoever waits for a reader waits for it as long as it relies on a node. *)
ReadersStay(t) ==
  \A u, r \in List!Threads :
    r \in oldReaders[u] => r \in oldReaders'[u] \/ (r = t /\ List!Guards(t)' = {})

(* The part of the invariant that holds until the list is destroyed.       *)
Core == /\ List!ListShape /\ List!AddOwnsNode /\ List!RetiredOnce /\ List!MarkedKeepsLink
        /\ List!ReaderKeepsNodes

(* After its step thread t meets what the invariant says of one thread.    *)
LocalsKept(t) ==
  /\ List!OwnsNode(t)' /\ List!HasToFree(t)' /\ List!KeepsLink(t)'
  /\ pc'[t] = "find.check" => pred'[t] = NULL

(* A thread that stays where it is relies on the same nodes.               *)
LEMMA OthersGuards ==
  ASSUME NEW t \in List!Threads, OthersStay(t), NEW u \in List!Threads, u # t
  PROVE  List!Guards(u)' = List!Guards(u)
BY DEF OthersStay, List!Guards

(* A thread that stays where it is has the same nodes to free.             *)
LEMMA OthersUnlinked ==
  ASSUME NEW t \in List!Threads, OthersStay(t), NEW u \in List!Threads, u # t
  PROVE  /\ List!Unlinked(u)' <=> List!Unlinked(u)
         /\ List!Freeing(u)' <=> List!Freeing(u)
         /\ retired'[u] = retired[u] => List!ToFree(u)' = List!ToFree(u)
BY DEF OthersStay, List!Unlinked, List!Freeing, List!ToFree

(* What a thread has to free is out of the list.                           *)
LEMMA ToFreeRetired ==
  ASSUME List!RetiredOnce, NEW u \in List!Threads, NEW n \in List!ToFree(u)
  PROVE  status[n] = "retired"
BY DEF List!RetiredOnce, List!ToFree

(* What a reader relies on stays allocated, and whoever is going to free   *)
(* it goes on waiting for that reader: shown once for all steps, from what *)
(* the step does to life cycles, guards and waits.                         *)
LEMMA ReadersKept ==
  ASSUME List!ReaderKeepsNodes, List!RetiredOnce, List!ListTypes,
         NEW t \in List!Threads, OthersStay(t),
         pc'[t] = "find.check" => pred'[t] = NULL,
         \A n \in Nodes : status[n] \in {"linked", "retired"} =>
                  \/ status'[n] \in {"linked", "retired"}
                  \/ \A u \in List!Threads : n \notin List!Guards(u),
         GuardsGrow(t), ReadersStay(t),
         \A n \in List!Guards(t)' : status'[n] \in {"linked", "retired"},
         \A u \in List!Threads : \A n \in List!ToFree(u)' :
            List!Freeing(u)' => List!Freeing(u) /\ n \in List!ToFree(u)
  PROVE  List!ReaderKeepsNodes'
<1>0. \A u \in List!Threads : \A n \in List!Guards(u) : n \in Nodes
  BY LinkParts DEF List!Guards, List!ListTypes, List!NodeOrNull
<1>1. \A u \in List!Threads : pc'[u] = "find.check" => pred'[u] = NULL
  BY DEF List!ReaderKeepsNodes, OthersStay
<1>2. ASSUME NEW r \in List!Threads, NEW n \in List!Guards(r)'
      PROVE  status'[n] \in {"linked", "retired"}
  BY <1>0, OthersGuards DEF List!ReaderKeepsNodes
<1>3. ASSUME NEW r \in List!Threads, NEW n \in List!Guards(r)',
             NEW u \in List!Threads, List!Freeing(u)', n \in List!ToFree(u)'
      PROVE  r \in oldReaders'[u]
  <2>1. List!Freeing(u) /\ n \in List!ToFree(u)
    BY <1>3
  <2>2. n \in List!Guards(r)
    BY <2>1, ToFreeRetired, OthersGuards DEF GuardsGrow
  <2>3. r \in oldReaders[u]
    BY <2>1, <2>2 DEF List!ReaderKeepsNodes
  <2> QED BY <2>3 DEF ReadersStay
<1> QED BY <1>1, <1>2, <1>3 DEF List!ReaderKeepsNodes

(* Nobody gets a second node to free, and no node gets a second thread     *)
(* that frees it.                                                          *)
LEMMA RetiredKept ==
  ASSUME List!RetiredOnce, NEW t \in List!Threads, OthersStay(t), List!HasToFree(t)',
         UNCHANGED retired,
         \A n \in Nodes : status[n] = "retired" => status'[n] = "retired",
         List!ListTypes,
         List!Unlinked(t)' => List!Unlinked(t) /\ curr'[t] = curr[t]
  PROVE  List!RetiredOnce'
<1>1. \A u \in List!Threads : List!Unlinked(u)' => List!Unlinked(u) /\ curr'[u] = curr[u]
  BY OthersUnlinked DEF OthersStay
<1>2. \A u \in List!Threads : List!HasToFree(u)'
  BY DEF OthersStay, List!HasToFree, List!RetiredOnce
<1>3. ASSUME NEW u \in List!Threads
      PROVE  /\ curr[u] \in List!NodeOrNull
             /\ \A i \in 1..Len(retired[u]) : retired[u][i] \in Nodes
  BY DEF List!ListTypes
<1>4. ASSUME NEW u \in List!Threads
      PROVE  /\ \A i \in 1..Len(retired[u]) : status'[retired[u][i]] = "retired"
             /\ List!Unlinked(u)' => status'[curr[u]] = "retired"
  BY <1>1, <1>3 DEF List!RetiredOnce, List!NodeOrNull, List!Unlinked
<1> QED BY <1>1, <1>2, <1>4 DEF List!RetiredOnce

(* A marked node keeps its link as long as no step writes it.              *)
LEMMA LinksKept ==
  ASSUME List!MarkedKeepsLink, NEW t \in List!Threads, OthersStay(t), List!KeepsLink(t)',
         \A n \in marked : n \in marked' /\ next'[n] = next[n]
  PROVE  List!MarkedKeepsLink'
BY DEF List!MarkedKeepsLink, List!KeepsLink, OthersStay

(* A step that changes no more than the link of the thread's own node.     *)
LEMMA QuietKeeps ==
  ASSUME Core, NEW t \in List!Threads, List!ListTypes, List!ListTypes', OthersStay(t),
         LocalsKept(t),
         UNCHANGED <<status, head, marked, retired>>, node'[t] = node[t],
         \A n \in Nodes : next'[n] = next[n] \/ n = node[t],
         List!Unlinked(t)' => List!Unlinked(t) /\ curr'[t] = curr[t],
         List!Freeing(t)' => List!Freeing(t),
         GuardsGrow(t), ReadersStay(t)
  PROVE  Core'
<1> USE HeapAssumption DEF Core, LocalsKept
<1>0. \A n \in Nodes : status[n] # "private" => next'[n] = next[n]
  BY DEF List!AddOwnsNode
<1>a. \A n \in Nodes : status[n] = "linked" => next'[n] = next[n]
  BY <1>0
<1>b. status' = status /\ head' = head /\ marked' = marked
  OBVIOUS
<1>1. List!ListShape'
  BY <1>a, <1>b DEF List!ListShape
<1>2. List!AddOwnsNode'
  <2>1. \A u \in List!Threads : node'[u] = node[u]
    BY DEF OthersStay
  <2>2. ASSUME NEW u \in List!Threads, u # t PROVE List!OwnsNode(u)'
    <3>1. /\ op[u] = "add" \/ pc[u] = "add.discard" => node[u] # NULL
          /\ pc[u] = "add.discard" => op[u] # "add"
          /\ pc[u] = "add.cas" => op[u] = "add" /\ next[node[u]] = curr[u]
      BY DEF List!AddOwnsNode, List!OwnsNode
    <3>2. pc[u] = "add.cas" => next'[node[u]] = next[node[u]]
      BY <2>2, <3>1 DEF List!AddOwnsNode, List!ListTypes, List!NodeOrNull
    <3> QED BY <2>1, <2>2, <3>1, <3>2 DEF OthersStay, List!OwnsNode
  <2> QED BY <2>1, <2>2, <1>b DEF List!AddOwnsNode
<1>3. List!RetiredOnce'
  BY RetiredKept
<1>4. List!MarkedKeepsLink'
  BY <1>0, LinksKept DEF List!ListTypes, List!ListShape
<1>5. List!ReaderKeepsNodes'
  <2>1. \A u \in List!Threads : \A n \in List!ToFree(u)' :
            List!Freeing(u)' => List!Freeing(u) /\ n \in List!ToFree(u)
    <3>1. \A n \in List!ToFree(t)' : n \in List!ToFree(t)
      BY DEF List!ToFree
    <3> QED BY <3>1, OthersUnlinked
  <2>2. \A n \in List!Guards(t)' : status'[n] \in {"linked", "retired"}
    BY DEF GuardsGrow, List!ReaderKeepsNodes
  <2> QED BY <2>1, <2>2, ReadersKept
<1> QED BY <1>1, <1>2, <1>3, <1>4, <1>5

(* A call that begins relies on no node.                                   *)
LEMMA ListCallInv ==
  ASSUME List!IInv, NEW t \in List!Threads, List!Call(t)
  PROVE  List!IInv'
<1> USE HeapAssumption DEF List!IInv
<1>0. main # "destroyed" /\ Core
  BY DEF Core, List!MainAlone, List!Call, List!BeginCall, List!MayCall, List!Calling,
         List!Filling, List!Goto
<1>1. /\ UNCHANGED <<status, head, marked, retired, node, main>>
      /\ List!Call(t)
  BY DEF List!Call, List!BeginCall, List!MayCall, List!Calling, List!Filling,
         List!heapVars, List!urcuVars, List!listVars, List!findLocals, List!callVars,
         List!retiredVars
<1> USE DEF List!Call, List!BeginCall, List!MayCall, List!Calling, List!Filling,
            List!Goto, List!heapVars, List!urcuVars, List!versionVars,
            List!syncLocals,
            List!listVars, List!findLocals, List!callVars, List!retiredVars
<1>2. List!ListTypes'
  BY <1>0, <1>1, NoLinkType, LinkType, LinkParts
     DEF List!ListTypes, List!NodeOrNull, List!Labels, List!FreeLabels,
         List!LockLabels, List!SyncLabels, List!SectionLabels, List!FindLabels,
         List!Operations, List!Results
<1>3. List!Grace(List!SectionLabels)'
  BY ListKeepsGrace DEF List!Next, List!ThreadStep, List!FindStep, List!CallStep
<1>4. List!MainAlone'
  BY <1>1 DEF List!ListTypes, List!MainAlone
<1>5. OthersStay(t)
  BY <1>1 DEF List!ListTypes, OthersStay
<1>6. LocalsKept(t)
  BY <1>0, <1>1 DEF List!ListTypes, LocalsKept, Core, List!AddOwnsNode, List!OwnsNode,
                    List!RetiredOnce, List!HasToFree, List!MarkedKeepsLink,
                    List!KeepsLink, List!ReaderKeepsNodes, List!SyncLabels
<1>7. \A n \in Nodes : next'[n] = next[n] \/ n = node[t]
  BY <1>1
<1>8. /\ List!Unlinked(t)' => List!Unlinked(t) /\ curr'[t] = curr[t]
      /\ List!Freeing(t)' => List!Freeing(t)
  BY <1>0, <1>1 DEF List!ListTypes, List!Unlinked, List!Freeing, List!SyncLabels,
                    List!FreeLabels
<1>9. GuardsGrow(t)
  BY <1>0, <1>1 DEF List!ListTypes, GuardsGrow, List!Guards
<1>10. ReadersStay(t)
  BY <1>1 DEF ReadersStay
<1> HIDE DEF List!Call
<1>11. Core'
  BY <1>0, <1>1, <1>2, <1>5, <1>6, <1>7, <1>8, <1>9, <1>10, QuietKeeps
<1> QED BY <1>2, <1>3, <1>4, <1>11 DEF Core

(* A thread that locks relies on no node: the steps of readLock leave the  *)
(* list and who relies on it alone.                                        *)
LEMMA ListLockStepInv ==
  ASSUME List!IInv, NEW t \in List!Threads, List!LockStep(t)
  PROVE  List!IInv'
<1> USE HeapAssumption DEF List!IInv
<1>0. main # "destroyed" /\ Core
  BY DEF Core, List!MainAlone, List!LockStep, List!ReadLock, List!LockLoad,
         List!LockStore, List!LockCheck, List!LockFix, List!Goto
<1>1. /\ UNCHANGED <<status, head, marked, retired, node, main>>
      /\ List!LockStep(t)
  BY DEF List!LockStep, List!ReadLock, List!LockLoad, List!LockStore, List!LockCheck,
         List!LockFix, List!heapVars, List!urcuVars, List!listVars, List!findLocals,
         List!callVars, List!retiredVars
<1> USE DEF List!LockStep, List!ReadLock, List!LockLoad, List!LockStore,
            List!LockCheck, List!LockFix, List!Goto, List!heapVars, List!urcuVars,
            List!versionVars, List!syncLocals,
            List!listVars, List!findLocals, List!callVars, List!retiredVars
<1>2. List!ListTypes'
  BY <1>0, <1>1, NoLinkType, LinkType, LinkParts
     DEF List!ListTypes, List!NodeOrNull, List!Labels, List!FreeLabels,
         List!LockLabels, List!SyncLabels, List!SectionLabels, List!FindLabels,
         List!Operations, List!Results
<1>3. List!Grace(List!SectionLabels)'
  BY ListKeepsGrace DEF List!Next, List!ThreadStep, List!FindStep, List!CallStep
<1>4. List!MainAlone'
  BY <1>1 DEF List!ListTypes, List!MainAlone
<1>5. OthersStay(t)
  BY <1>1 DEF List!ListTypes, OthersStay
<1>6. LocalsKept(t)
  BY <1>0, <1>1 DEF List!ListTypes, LocalsKept, Core, List!AddOwnsNode, List!OwnsNode,
                    List!RetiredOnce, List!HasToFree, List!MarkedKeepsLink,
                    List!KeepsLink, List!ReaderKeepsNodes, List!SyncLabels
<1>7. \A n \in Nodes : next'[n] = next[n] \/ n = node[t]
  BY <1>1
<1>8. /\ List!Unlinked(t)' => List!Unlinked(t) /\ curr'[t] = curr[t]
      /\ List!Freeing(t)' => List!Freeing(t)
  BY <1>0, <1>1 DEF List!ListTypes, List!Unlinked, List!Freeing, List!SyncLabels,
                    List!FreeLabels
<1>9. GuardsGrow(t)
  BY <1>0, <1>1 DEF List!ListTypes, GuardsGrow, List!Guards
<1>10. ReadersStay(t)
  BY <1>1 DEF ReadersStay, List!Guards, List!ListTypes
<1> HIDE DEF List!LockStep
<1>11. Core'
  BY <1>0, <1>1, <1>2, <1>5, <1>6, <1>7, <1>8, <1>9, <1>10, QuietKeeps
<1> QED BY <1>2, <1>3, <1>4, <1>11 DEF Core

(* The steps that change neither a node nor the list: what find does first *)
(* and when it has to try again, the end of the section of a remove, and   *)
(* the end of a thread.                                                    *)
ListLocalStep(t) ==
  \/ List!FindHead(t) \/ List!FindMoved(t) \/ List!FindFollowsMarked(t)
  \/ List!RemoveUnlock(t) \/ List!ThreadExit(t)

(* They keep the invariant: a thread that tries again or has ended its     *)
(* section relies on no node, and the first node of the list is linked.    *)
LEMMA ListLocalInv ==
  ASSUME List!IInv, NEW t \in List!Threads, ListLocalStep(t)
  PROVE  List!IInv'
<1> USE HeapAssumption
    DEF List!IInv, ListLocalStep, List!FindHead, List!FindMoved,
        List!FindFollowsMarked, List!RemoveUnlock, List!ThreadExit, List!TryAgain,
        List!Forget, List!Follow, List!ReadUnlock, List!LeaveLoop, List!Goto,
        List!heapVars, List!urcuVars, List!versionVars, List!syncLocals,
        List!listVars, List!findLocals, List!callVars, List!retiredVars
<1>0. main # "destroyed" /\ Core
  BY DEF Core, List!MainAlone
<1>1. /\ UNCHANGED <<status, head, marked, retired, node, main>>
      /\ ListLocalStep(t)
  OBVIOUS
<1>2. List!ListTypes'
  <2>1. /\ nxt' \in [List!Threads -> List!Links]
        /\ curr' \in [List!Threads -> List!NodeOrNull]
    <3>1. nxt' = nxt \/ nxt' = [nxt EXCEPT ![t] = List!NoLink]
      OBVIOUS
    <3>2. curr' = curr \/ \E c \in {head, curr[t], NULL} : curr' = [curr EXCEPT ![t] = c]
      OBVIOUS
    <3> HIDE DEF ListLocalStep
    <3>3. {head, curr[t], NULL} \subseteq List!NodeOrNull
      BY DEF List!ListTypes, List!NodeOrNull
    <3>4. nxt' \in [List!Threads -> List!Links]
      BY <3>1, NoLinkType DEF List!ListTypes
    <3>5. curr' \in [List!Threads -> List!NodeOrNull]
      BY <3>2, <3>3 DEF List!ListTypes
    <3> QED BY <3>4, <3>5
  <2>2. pc' \in [List!Threads -> List!Labels]
    <3>1. PICK to \in List!Labels : pc' = [pc EXCEPT ![t] = to]
      BY DEF List!ListTypes, List!Labels, List!SectionLabels, List!FindLabels,
             List!SyncLabels
    <3> HIDE DEF ListLocalStep
    <3> QED BY <3>1 DEF List!ListTypes
  <2>3. pred' \in [List!Threads -> List!NodeOrNull]
    BY DEF List!ListTypes, List!NodeOrNull
  <2>4. UNCHANGED <<next, op, retired>>
    OBVIOUS
  <2> QED BY <1>1, <2>1, <2>2, <2>3, <2>4 DEF List!ListTypes
<1>3. List!Grace(List!SectionLabels)'
  BY ListKeepsGrace DEF List!Next, List!ThreadStep, List!FindStep, List!CallStep
<1>4. List!MainAlone'
  BY <1>1 DEF List!ListTypes, List!MainAlone
<1>5. OthersStay(t)
  BY <1>1 DEF List!ListTypes, OthersStay
<1>6. LocalsKept(t)
  BY <1>0, <1>1 DEF List!ListTypes, LocalsKept, Core, List!AddOwnsNode, List!OwnsNode,
                    List!RetiredOnce, List!HasToFree, List!MarkedKeepsLink,
                    List!KeepsLink, List!ReaderKeepsNodes, List!SyncLabels
<1>7. \A n \in Nodes : next'[n] = next[n] \/ n = node[t]
  BY <1>1
<1>8. /\ List!Unlinked(t)' => List!Unlinked(t) /\ curr'[t] = curr[t]
      /\ List!Freeing(t)' => List!Freeing(t)
  BY <1>0, <1>1 DEF List!ListTypes, List!Unlinked, List!Freeing, List!SyncLabels,
                    List!FreeLabels
<1>9. GuardsGrow(t)
  BY <1>0, <1>1 DEF List!ListTypes, GuardsGrow, List!Guards
<1>10. ReadersStay(t)
  BY <1>1 DEF ReadersStay, List!Guards, List!ListTypes
<1> HIDE DEF ListLocalStep
<1>11. Core'
  BY <1>0, <1>1, <1>2, <1>5, <1>6, <1>7, <1>8, <1>9, <1>10, QuietKeeps
<1> QED BY <1>2, <1>3, <1>4, <1>11 DEF Core

(* The first node of find is linked when head still leads to it.           *)
LEMMA FindCheckInv ==
  ASSUME List!IInv, NEW t \in List!Threads, List!FindCheck(t)
  PROVE  List!IInv'
<1> USE HeapAssumption DEF List!IInv
<1>0. main # "destroyed" /\ Core
  BY DEF Core, List!MainAlone, List!FindCheck, List!TryAgain, List!Forget, List!Goto
<1>1. /\ UNCHANGED <<status, head, marked, retired, node, main>>
      /\ List!FindCheck(t)
  BY DEF List!FindCheck, List!TryAgain, List!Forget, List!heapVars, List!urcuVars,
         List!listVars, List!findLocals, List!callVars, List!retiredVars
<1> USE DEF List!FindCheck, List!TryAgain, List!Forget, List!Goto, List!heapVars,
            List!urcuVars, List!versionVars, List!syncLocals,
            List!listVars, List!findLocals, List!callVars, List!retiredVars
<1>a. List!PredIsCurr(t) /\ curr[t] # NULL => status[curr[t]] = "linked"
  BY <1>0, <1>1, CurrIsLinked DEF Core, List!ReaderKeepsNodes
<1>b. pred[t] = NULL
  BY <1>0, <1>1 DEF Core, List!ReaderKeepsNodes
<1>2. List!ListTypes'
  <2>0. nxt' = nxt \/ nxt' = [nxt EXCEPT ![t] = List!NoLink]
    OBVIOUS
  <2>1. UNCHANGED <<status, next, head, marked, node, op, retired, main>>
    OBVIOUS
  <2>2. /\ pred' \in [List!Threads -> List!NodeOrNull]
        /\ curr' \in [List!Threads -> List!NodeOrNull]
    BY DEF List!ListTypes, List!NodeOrNull
  <2>3. pc' \in [List!Threads -> List!Labels]
    <3>1. PICK to \in List!Labels : pc' = [pc EXCEPT ![t] = to]
      BY DEF List!Labels, List!SectionLabels, List!FindLabels
    <3> HIDE DEF List!FindCheck
    <3> QED BY <3>1 DEF List!ListTypes
  <2> HIDE DEF List!FindCheck
  <2>4. nxt' \in [List!Threads -> List!Links]
    BY <2>0, NoLinkType DEF List!ListTypes
  <2> QED BY <2>1, <2>2, <2>3, <2>4 DEF List!ListTypes
<1>3. List!Grace(List!SectionLabels)'
  BY ListKeepsGrace DEF List!Next, List!ThreadStep, List!FindStep, List!CallStep
<1>4. List!MainAlone'
  BY <1>1 DEF List!ListTypes, List!MainAlone
<1>5. OthersStay(t)
  BY <1>1 DEF List!ListTypes, OthersStay
<1>6. LocalsKept(t)
  BY <1>0, <1>1 DEF List!ListTypes, LocalsKept, Core, List!AddOwnsNode, List!OwnsNode,
                    List!RetiredOnce, List!HasToFree, List!MarkedKeepsLink,
                    List!KeepsLink, List!ReaderKeepsNodes, List!SyncLabels
<1>7. \A n \in Nodes : next'[n] = next[n] \/ n = node[t]
  BY <1>1
<1>8. /\ List!Unlinked(t)' => List!Unlinked(t) /\ curr'[t] = curr[t]
      /\ List!Freeing(t)' => List!Freeing(t)
  BY <1>0, <1>1 DEF List!ListTypes, List!Unlinked, List!Freeing, List!SyncLabels,
                    List!FreeLabels
<1>9. GuardsGrow(t)
  BY <1>a, <1>b, <1>1 DEF List!ListTypes, GuardsGrow, List!Guards
<1>10. ReadersStay(t)
  BY <1>1 DEF ReadersStay
<1> HIDE DEF List!FindCheck
<1>11. Core'
  BY <1>0, <1>1, <1>2, <1>5, <1>6, <1>7, <1>8, <1>9, <1>10, QuietKeeps
<1> QED BY <1>2, <1>3, <1>4, <1>11 DEF Core

(* The link of curr is read while curr is allocated; a null curr ends      *)
(* find.                                                                   *)
LEMMA FindNextInv ==
  ASSUME List!IInv, NEW t \in List!Threads, List!FindNext(t)
  PROVE  List!IInv'
<1> USE HeapAssumption DEF List!IInv
<1>0. main # "destroyed" /\ Core
  BY DEF Core, List!MainAlone, List!FindNext, List!AfterFind, List!FindReturns,
         List!DecidedBy, List!Forget, List!Goto
<1>1. /\ UNCHANGED <<status, head, marked, retired, node, main>>
      /\ List!FindNext(t)
  BY DEF List!FindNext, List!AfterFind, List!FindReturns, List!DecidedBy, List!Forget,
         List!heapVars, List!urcuVars, List!listVars, List!findLocals, List!callVars,
         List!retiredVars
<1> USE DEF List!FindNext, List!AfterFind, List!FindReturns, List!DecidedBy,
            List!Forget, List!Goto, List!heapVars, List!urcuVars, List!versionVars,
            List!syncLocals,
            List!listVars, List!findLocals, List!callVars, List!retiredVars
<1>a. \/ next' = next /\ pc'[t] # "add.cas"
      \/ /\ op[t] = "add" /\ pc'[t] = "add.cas" /\ node[t] \in Nodes
         /\ next' = [next EXCEPT ![node[t]] = curr[t]]
         /\ UNCHANGED <<op, curr>>
  BY <1>0, <1>1 DEF Core, List!AddOwnsNode, List!OwnsNode, List!ListTypes, List!NodeOrNull
<1>b. curr[t] # NULL => List!Link(curr[t]) \in List!Links
  BY <1>1, LinkType DEF List!ListTypes, List!NodeOrNull
<1>2. List!ListTypes'
  <2>1. nxt' \in [List!Threads -> List!Links]
    BY <1>b, NoLinkType DEF List!ListTypes
  <2>2. pc' \in [List!Threads -> List!Labels]
    <3>1. PICK to \in List!Labels : pc' = [pc EXCEPT ![t] = to]
      BY DEF List!Labels, List!SectionLabels, List!FindLabels
    <3> HIDE DEF List!FindNext
    <3> QED BY <3>1 DEF List!ListTypes
  <2>3. next' \in [Nodes -> List!NodeOrNull]
    BY <1>1, <1>a DEF List!ListTypes
  <2> QED
    BY <1>1, <2>1, <2>2, <2>3 DEF List!ListTypes, List!NodeOrNull, List!Operations,
                                  List!Results
<1>3. List!Grace(List!SectionLabels)'
  BY ListKeepsGrace DEF List!Next, List!ThreadStep, List!FindStep, List!CallStep
<1>4. List!MainAlone'
  BY <1>1 DEF List!ListTypes, List!MainAlone
<1>5. OthersStay(t)
  BY <1>1 DEF List!ListTypes, OthersStay
<1>6. LocalsKept(t)
  BY <1>0, <1>1, <1>a DEF List!ListTypes, LocalsKept, Core, List!AddOwnsNode,
                          List!OwnsNode, List!RetiredOnce, List!HasToFree,
                          List!MarkedKeepsLink, List!KeepsLink, List!ReaderKeepsNodes,
                          List!SyncLabels
<1>7. \A n \in Nodes : next'[n] = next[n] \/ n = node[t]
  BY <1>a DEF List!ListTypes
<1>8. /\ List!Unlinked(t)' => List!Unlinked(t) /\ curr'[t] = curr[t]
      /\ List!Freeing(t)' => List!Freeing(t)
  BY <1>0, <1>1 DEF List!ListTypes, List!Unlinked, List!Freeing, List!SyncLabels,
                    List!FreeLabels
<1>9. GuardsGrow(t)
  BY <1>0, <1>1 DEF List!ListTypes, GuardsGrow, List!Guards
<1>10. ReadersStay(t)
  BY <1>1 DEF ReadersStay
<1> HIDE DEF List!FindNext
<1>11. Core'
  BY <1>0, <1>1, <1>2, <1>5, <1>6, <1>7, <1>8, <1>9, <1>10, QuietKeeps
<1> QED BY <1>2, <1>3, <1>4, <1>11 DEF Core

(* The second read of the link of curr: the thread relies on the successor *)
(* only when curr is in the list still.                                    *)
LEMMA FindAgainInv ==
  ASSUME List!IInv, NEW t \in List!Threads, List!FindAgain(t)
  PROVE  List!IInv'
<1> USE HeapAssumption DEF List!IInv
<1>0. main # "destroyed" /\ Core
  BY DEF Core, List!MainAlone, List!FindAgain, List!TryAgain, List!Forget, List!Goto
<1>1. /\ UNCHANGED <<status, head, marked, retired, node, main>>
      /\ List!FindAgain(t)
  BY DEF List!FindAgain, List!TryAgain, List!Forget, List!heapVars, List!urcuVars,
         List!listVars, List!findLocals, List!callVars, List!retiredVars
<1> USE DEF List!FindAgain, List!TryAgain, List!Forget, List!Goto, List!heapVars,
            List!urcuVars, List!versionVars, List!syncLocals,
            List!listVars, List!findLocals, List!callVars, List!retiredVars
<1>a. List!Link(curr[t]) = nxt[t] =>
        /\ next[curr[t]] = List!getUnmarked(nxt[t])
        /\ curr[t] \in marked <=> List!isMarked(nxt[t])
  BY LinkRead
<1>b. curr[t] \in Nodes /\ status[curr[t]] \in {"linked", "retired"}
  BY <1>0, <1>1 DEF Core, List!KeepsLink, List!MarkedKeepsLink, List!ReaderKeepsNodes,
                    List!Guards, List!ListTypes, List!NodeOrNull
<1>c. List!Link(curr[t]) = nxt[t] /\ ~List!isMarked(nxt[t]) /\ List!getUnmarked(nxt[t]) # NULL =>
        status[List!getUnmarked(nxt[t])] = "linked"
  BY <1>0, <1>a, <1>b DEF Core, List!ListShape
<1>2. List!ListTypes'
  <2>1. nxt' \in [List!Threads -> List!Links]
    BY NoLinkType DEF List!ListTypes
  <2>2. pc' \in [List!Threads -> List!Labels]
    <3>1. \/ pc' = [pc EXCEPT ![t] = "find.pred"]
          \/ pc' = [pc EXCEPT ![t] = "find.head"]
      OBVIOUS
    <3> HIDE DEF List!FindAgain
    <3> QED BY <3>1 DEF List!ListTypes, List!Labels, List!SectionLabels, List!FindLabels
  <2>3. next' \in [Nodes -> List!NodeOrNull]
    BY <1>1 DEF List!ListTypes
  <2> QED
    BY <1>1, <2>1, <2>2, <2>3 DEF List!ListTypes, List!NodeOrNull, List!Operations,
                                  List!Results
<1>3. List!Grace(List!SectionLabels)'
  BY ListKeepsGrace DEF List!Next, List!ThreadStep, List!FindStep, List!CallStep
<1>4. List!MainAlone'
  BY <1>1 DEF List!ListTypes, List!MainAlone
<1>5. OthersStay(t)
  BY <1>1 DEF List!ListTypes, OthersStay
<1>6. LocalsKept(t)
  BY <1>0, <1>1, <1>a DEF List!ListTypes, LocalsKept, Core, List!AddOwnsNode,
                          List!OwnsNode, List!RetiredOnce, List!HasToFree,
                          List!MarkedKeepsLink, List!KeepsLink, List!ReaderKeepsNodes,
                          List!SyncLabels
<1>7. \A n \in Nodes : next'[n] = next[n] \/ n = node[t]
  BY <1>1
<1>8. /\ List!Unlinked(t)' => List!Unlinked(t) /\ curr'[t] = curr[t]
      /\ List!Freeing(t)' => List!Freeing(t)
  BY <1>0, <1>1 DEF List!ListTypes, List!Unlinked, List!Freeing, List!SyncLabels,
                    List!FreeLabels
<1>9. GuardsGrow(t)
  BY <1>1, <1>c DEF List!ListTypes, GuardsGrow, List!Guards
<1>10. ReadersStay(t)
  BY <1>1 DEF ReadersStay
<1> HIDE DEF List!FindAgain
<1>11. Core'
  BY <1>0, <1>1, <1>2, <1>5, <1>6, <1>7, <1>8, <1>9, <1>10, QuietKeeps
<1> QED BY <1>2, <1>3, <1>4, <1>11 DEF Core

(* Where find sees the mark of curr it goes on to help, or follows the     *)
(* marked pointer.                                                         *)
LEMMA FindMarkedInv ==
  ASSUME List!IInv, NEW t \in List!Threads, List!FindMarked(t)
  PROVE  List!IInv'
<1> USE HeapAssumption DEF List!IInv
<1>0. main # "destroyed" /\ Core
  BY DEF Core, List!MainAlone, List!FindMarked, List!Goto
<1>1. /\ UNCHANGED <<status, head, marked, retired, node, main>>
      /\ List!FindMarked(t)
  BY DEF List!FindMarked, List!heapVars, List!urcuVars, List!listVars,
         List!findLocals, List!callVars, List!retiredVars
<1> USE DEF List!FindMarked, List!Goto, List!heapVars, List!urcuVars,
            List!versionVars, List!syncLocals,
            List!listVars, List!findLocals, List!callVars, List!retiredVars
<1>a. curr[t] \in Nodes /\ status[curr[t]] = "linked"
  BY <1>0, <1>1, CurrIsLinked DEF Core, List!MarkedKeepsLink, List!KeepsLink, List!Guards
<1>b. List!getUnmarked(nxt[t]) # NULL => status[List!getUnmarked(nxt[t])] = "linked"
  BY <1>0, <1>1, <1>a DEF Core, List!MarkedKeepsLink, List!KeepsLink, List!ListShape
<1>2. List!ListTypes'
  BY <1>0, <1>1, NoLinkType, LinkType, LinkParts
     DEF List!ListTypes, List!NodeOrNull, List!Labels, List!FreeLabels,
         List!LockLabels, List!SyncLabels, List!SectionLabels, List!FindLabels,
         List!Operations, List!Results
<1>3. List!Grace(List!SectionLabels)'
  BY ListKeepsGrace DEF List!Next, List!ThreadStep, List!FindStep, List!CallStep
<1>4. List!MainAlone'
  BY <1>1 DEF List!ListTypes, List!MainAlone
<1>5. OthersStay(t)
  BY <1>1 DEF List!ListTypes, OthersStay
<1>6. LocalsKept(t)
  BY <1>0, <1>1 DEF List!ListTypes, LocalsKept, Core, List!AddOwnsNode, List!OwnsNode,
                    List!RetiredOnce, List!HasToFree, List!MarkedKeepsLink,
                    List!KeepsLink, List!ReaderKeepsNodes, List!SyncLabels
<1>7. \A n \in Nodes : next'[n] = next[n] \/ n = node[t]
  BY <1>1
<1>8. /\ List!Unlinked(t)' => List!Unlinked(t) /\ curr'[t] = curr[t]
      /\ List!Freeing(t)' => List!Freeing(t)
  BY <1>0, <1>1 DEF List!ListTypes, List!Unlinked, List!Freeing, List!SyncLabels,
                    List!FreeLabels
<1>9. GuardsGrow(t)
  BY <1>1, <1>b DEF List!ListTypes, GuardsGrow, List!Guards
<1>10. ReadersStay(t)
  BY <1>1 DEF ReadersStay
<1> HIDE DEF List!FindMarked
<1>11. Core'
  BY <1>0, <1>1, <1>2, <1>5, <1>6, <1>7, <1>8, <1>9, <1>10, QuietKeeps
<1> QED BY <1>2, <1>3, <1>4, <1>11 DEF Core

(* find ends at a node whose key is not smaller, with the nodes it relies  *)
(* on.                                                                     *)
LEMMA FindEndsInv ==
  ASSUME List!IInv, NEW t \in List!Threads, List!FindEnds(t)
  PROVE  List!IInv'
<1> USE HeapAssumption DEF List!IInv
<1>0. main # "destroyed" /\ Core
  BY DEF Core, List!MainAlone, List!FindEnds, List!AfterFind, List!FindReturns,
         List!DecidedBy, List!Forget, List!Goto
<1>1. /\ UNCHANGED <<status, head, marked, retired, node, main>>
      /\ List!FindEnds(t)
  BY DEF List!FindEnds, List!AfterFind, List!FindReturns, List!DecidedBy, List!Forget,
         List!heapVars, List!urcuVars, List!listVars, List!findLocals, List!callVars,
         List!retiredVars
<1> USE DEF List!FindEnds, List!AfterFind, List!FindReturns, List!DecidedBy,
            List!Forget, List!Goto, List!heapVars, List!urcuVars, List!versionVars,
            List!syncLocals,
            List!listVars, List!findLocals, List!callVars, List!retiredVars
<1>a. \/ next' = next /\ pc'[t] # "add.cas"
      \/ /\ op[t] = "add" /\ pc'[t] = "add.cas" /\ node[t] \in Nodes
         /\ next' = [next EXCEPT ![node[t]] = curr[t]]
         /\ UNCHANGED <<op, curr>>
  BY <1>0, <1>1 DEF Core, List!AddOwnsNode, List!OwnsNode, List!ListTypes, List!NodeOrNull
<1>2. List!ListTypes'
  <2>1. nxt' \in [List!Threads -> List!Links]
    BY NoLinkType DEF List!ListTypes
  <2>2. pc' \in [List!Threads -> List!Labels]
    <3>1. PICK to \in List!Labels : pc' = [pc EXCEPT ![t] = to]
      BY DEF List!Labels, List!SectionLabels, List!FindLabels
    <3> HIDE DEF List!FindEnds
    <3> QED BY <3>1 DEF List!ListTypes
  <2>3. next' \in [Nodes -> List!NodeOrNull]
    BY <1>1, <1>a DEF List!ListTypes
  <2>4. /\ pred' \in [List!Threads -> List!NodeOrNull]
        /\ curr' \in [List!Threads -> List!NodeOrNull]
    BY DEF List!ListTypes, List!NodeOrNull
  <2>5. op' \in [List!Threads -> List!Operations \cup List!Results \cup {"none"}]
    <3>1. op' = op \/ \E r \in List!Results : op' = [op EXCEPT ![t] = r]
      BY DEF List!Results
    <3> HIDE DEF List!FindEnds
    <3> QED BY <3>1 DEF List!ListTypes
  <2> HIDE DEF List!FindEnds
  <2> QED BY <1>1, <2>1, <2>2, <2>3, <2>4, <2>5 DEF List!ListTypes
<1>3. List!Grace(List!SectionLabels)'
  BY ListKeepsGrace DEF List!Next, List!ThreadStep, List!FindStep, List!CallStep
<1>4. List!MainAlone'
  BY <1>1 DEF List!ListTypes, List!MainAlone
<1>5. OthersStay(t)
  BY <1>1 DEF List!ListTypes, OthersStay
<1>6. LocalsKept(t)
  BY <1>0, <1>1, <1>a DEF List!ListTypes, LocalsKept, Core, List!AddOwnsNode,
                          List!OwnsNode, List!RetiredOnce, List!HasToFree,
                          List!MarkedKeepsLink, List!KeepsLink, List!ReaderKeepsNodes,
                          List!SyncLabels
<1>7. \A n \in Nodes : next'[n] = next[n] \/ n = node[t]
  BY <1>a DEF List!ListTypes
<1>8. /\ List!Unlinked(t)' => List!Unlinked(t) /\ curr'[t] = curr[t]
      /\ List!Freeing(t)' => List!Freeing(t)
  BY <1>0, <1>1 DEF List!ListTypes, List!Unlinked, List!Freeing, List!SyncLabels,
                    List!FreeLabels
<1>9. GuardsGrow(t)
  BY <1>0, <1>1 DEF List!ListTypes, GuardsGrow, List!Guards
<1>10. ReadersStay(t)
  BY <1>1 DEF ReadersStay
<1> HIDE DEF List!FindEnds
<1>11. Core'
  BY <1>0, <1>1, <1>2, <1>5, <1>6, <1>7, <1>8, <1>9, <1>10, QuietKeeps
<1> QED BY <1>2, <1>3, <1>4, <1>11 DEF Core

(* find goes on from curr, which becomes pred, to the successor it has     *)
(* validated.                                                              *)
LEMMA FindAdvancesInv ==
  ASSUME List!IInv, NEW t \in List!Threads, List!FindAdvances(t)
  PROVE  List!IInv'
<1> USE HeapAssumption DEF List!IInv
<1>0. main # "destroyed" /\ Core
  BY DEF Core, List!MainAlone, List!FindAdvances, List!Follow, List!Goto
<1>1. /\ UNCHANGED <<status, head, marked, retired, node, main>>
      /\ List!FindAdvances(t)
  BY DEF List!FindAdvances, List!Follow, List!heapVars, List!urcuVars, List!listVars,
         List!findLocals, List!callVars, List!retiredVars
<1> USE DEF List!FindAdvances, List!Follow, List!Goto, List!heapVars, List!urcuVars,
            List!versionVars, List!syncLocals,
            List!listVars, List!findLocals, List!callVars, List!retiredVars
<1>2. List!ListTypes'
  BY <1>0, <1>1, NoLinkType, LinkType, LinkParts
     DEF List!ListTypes, List!NodeOrNull, List!Labels, List!FreeLabels,
         List!LockLabels, List!SyncLabels, List!SectionLabels, List!FindLabels,
         List!Operations, List!Results
<1>3. List!Grace(List!SectionLabels)'
  BY ListKeepsGrace DEF List!Next, List!ThreadStep, List!FindStep, List!CallStep
<1>4. List!MainAlone'
  BY <1>1 DEF List!ListTypes, List!MainAlone
<1>5. OthersStay(t)
  BY <1>1 DEF List!ListTypes, OthersStay
<1>6. LocalsKept(t)
  BY <1>0, <1>1 DEF List!ListTypes, LocalsKept, Core, List!AddOwnsNode, List!OwnsNode,
                    List!RetiredOnce, List!HasToFree, List!MarkedKeepsLink,
                    List!KeepsLink, List!ReaderKeepsNodes, List!SyncLabels
<1>7. \A n \in Nodes : next'[n] = next[n] \/ n = node[t]
  BY <1>1
<1>8. /\ List!Unlinked(t)' => List!Unlinked(t) /\ curr'[t] = curr[t]
      /\ List!Freeing(t)' => List!Freeing(t)
  BY <1>0, <1>1 DEF List!ListTypes, List!Unlinked, List!Freeing, List!SyncLabels,
                    List!FreeLabels
<1>9. GuardsGrow(t)
  BY <1>0, <1>1 DEF List!ListTypes, GuardsGrow, List!Guards
<1>10. ReadersStay(t)
  BY <1>1 DEF ReadersStay
<1> HIDE DEF List!FindAdvances
<1>11. Core'
  BY <1>0, <1>1, <1>2, <1>5, <1>6, <1>7, <1>8, <1>9, <1>10, QuietKeeps
<1> QED BY <1>2, <1>3, <1>4, <1>11 DEF Core

(* An operation that leaves its section relies on no node, and waits only  *)
(* for nodes it has taken out itself.                                      *)
LEMMA UnlockInv ==
  ASSUME List!IInv, NEW t \in List!Threads, List!Unlock(t)
  PROVE  List!IInv'
<1> USE HeapAssumption DEF List!IInv
<1>0. main # "destroyed" /\ Core
  BY DEF Core, List!MainAlone, List!Unlock, List!GoOn, List!ReadUnlock, List!Forget,
         List!Goto
<1>1. /\ UNCHANGED <<status, head, marked, retired, node, main>>
      /\ List!Unlock(t)
  BY DEF List!Unlock, List!GoOn, List!ReadUnlock, List!Forget, List!heapVars,
         List!urcuVars, List!listVars, List!findLocals, List!callVars,
         List!retiredVars
<1> USE DEF List!Unlock, List!GoOn, List!ReadUnlock, List!Forget, List!Goto,
            List!heapVars, List!urcuVars, List!versionVars, List!syncLocals,
            List!listVars, List!findLocals, List!callVars, List!retiredVars
<1>2. List!ListTypes'
  BY <1>0, <1>1, NoLinkType, LinkType, LinkParts
     DEF List!ListTypes, List!NodeOrNull, List!Labels, List!FreeLabels,
         List!LockLabels, List!SyncLabels, List!SectionLabels, List!FindLabels,
         List!Operations, List!Results
<1>3. List!Grace(List!SectionLabels)'
  BY ListKeepsGrace DEF List!Next, List!ThreadStep, List!FindStep, List!CallStep
<1>4. List!MainAlone'
  BY <1>1 DEF List!ListTypes, List!MainAlone
<1>5. OthersStay(t)
  BY <1>1 DEF List!ListTypes, OthersStay
<1>6. LocalsKept(t)
  BY <1>0, <1>1 DEF List!ListTypes, LocalsKept, Core, List!AddOwnsNode, List!OwnsNode,
                    List!RetiredOnce, List!HasToFree, List!MarkedKeepsLink,
                    List!KeepsLink, List!ReaderKeepsNodes, List!SyncLabels
<1>7. \A n \in Nodes : next'[n] = next[n] \/ n = node[t]
  BY <1>1
<1>8. /\ List!Unlinked(t)' => List!Unlinked(t) /\ curr'[t] = curr[t]
      /\ List!Freeing(t)' => List!Freeing(t)
  BY <1>0, <1>1 DEF List!ListTypes, List!Unlinked, List!Freeing, List!SyncLabels,
                    List!FreeLabels
<1>9. GuardsGrow(t)
  BY <1>0, <1>1 DEF List!ListTypes, GuardsGrow, List!Guards
<1>10. ReadersStay(t)
  BY <1>1 DEF ReadersStay, List!Guards, List!ListTypes
<1> HIDE DEF List!Unlock
<1>11. Core'
  BY <1>0, <1>1, <1>2, <1>5, <1>6, <1>7, <1>8, <1>9, <1>10, QuietKeeps
<1> QED BY <1>2, <1>3, <1>4, <1>11 DEF Core

(* An operation that starts over from the head relies on no node.          *)
LEMMA RetryKeeps ==
  ASSUME List!IInv, Core, NEW t \in List!Threads, List!TryAgain(t),
         pc[t] \in {"find.help", "add.cas", "remove.mark"},
         pc' = [pc EXCEPT ![t] = "find.head"]
  PROVE  List!ListTypes' /\ List!MainAlone' /\ Core'
<1> USE HeapAssumption DEF List!IInv
<1>1. /\ UNCHANGED <<status, next, head, marked, retired, node, op, oldReaders, main>>
      /\ pred' = [pred EXCEPT ![t] = NULL] /\ curr' = [curr EXCEPT ![t] = NULL]
      /\ nxt' = [nxt EXCEPT ![t] = List!NoLink]
  BY DEF List!TryAgain, List!Forget, List!heapVars, List!urcuVars, List!callVars,
         List!retiredVars
<1>2. List!ListTypes'
  BY <1>1, NoLinkType DEF List!ListTypes, List!NodeOrNull, List!Labels,
                          List!SectionLabels, List!FindLabels
<1>3. List!MainAlone'
  BY <1>1 DEF List!ListTypes, List!MainAlone
<1>4. OthersStay(t)
  BY <1>1 DEF List!ListTypes, OthersStay
<1>5. LocalsKept(t)
  BY <1>1 DEF List!ListTypes, LocalsKept, Core, List!AddOwnsNode, List!OwnsNode,
              List!HasToFree, List!KeepsLink, List!SyncLabels
<1>6. /\ List!Unlinked(t)' => List!Unlinked(t) /\ curr'[t] = curr[t]
      /\ List!Freeing(t)' => List!Freeing(t)
  BY DEF List!ListTypes, List!Unlinked, List!Freeing, List!SyncLabels, List!FreeLabels
<1>7. GuardsGrow(t) /\ ReadersStay(t)
  BY <1>1 DEF List!ListTypes, GuardsGrow, List!Guards, ReadersStay
<1>8. Core'
  BY <1>1, <1>2, <1>4, <1>5, <1>6, <1>7, QuietKeeps
<1> QED BY <1>2, <1>3, <1>8

(* The exchange that takes curr out of the list: pred leads to its         *)
(* successor, which is linked, and this thread alone has curr to free.     *)
LEMMA UnlinkKeeps ==
  ASSUME Core, List!ListTypes, NEW t \in List!Threads, List!PredIsCurr(t), OthersStay(t),
         pc[t] \in {"find.help", "remove.cas"},
         pc'[t] = IF pc[t] = "find.help" THEN "find.marked" ELSE "remove.unlock",
         List!StorePred(t, List!getUnmarked(nxt[t])),
         status' = [status EXCEPT ![curr[t]] = "retired"],
         UNCHANGED <<marked, pred, curr, nxt, node, op, oldReaders>>,
         \A u \in List!Threads : u # t => retired'[u] = retired[u]
  PROVE  /\ curr[t] \in Nodes /\ status[curr[t]] = "linked"
         /\ List!ListShape' /\ List!AddOwnsNode' /\ List!MarkedKeepsLink' /\ List!ReaderKeepsNodes'
<1> USE HeapAssumption DEF Core
<1> DEFINE c == curr[t]  s == List!getUnmarked(nxt[t])  p == pred[t]
<1>1. /\ c \in Nodes /\ status[c] = "linked" /\ c \in marked /\ next[c] = s
      /\ p # NULL => /\ p \in Nodes /\ p \notin marked /\ status[p] = "linked"
                     /\ next[p] = c
      /\ p = NULL => head = c
  BY CurrIsLinked DEF List!MarkedKeepsLink, List!KeepsLink, List!Guards
<1>2. /\ p = NULL => head' = s /\ next' = next
      /\ p # NULL => head' = head /\ next' = [next EXCEPT ![p] = s]
  BY DEF List!StorePred
<1>3. \A m \in Nodes : status'[m] = IF m = c THEN "retired" ELSE status[m]
  BY DEF List!ListTypes
<1>4. \A m \in Nodes : next'[m] = IF m = p THEN s ELSE next[m]
  BY <1>2 DEF List!ListTypes
<1>5. s # NULL => s \in Nodes /\ status[s] = "linked" /\ s # head /\ s # c
  <2>1. s # NULL => s \in Nodes /\ status[s] = "linked" /\ s # head
    BY <1>1 DEF List!ListShape, List!ListTypes, List!NodeOrNull
  <2>2. s # c
    BY <1>1, <2>1 DEF List!ListShape
  <2> QED BY <2>1, <2>2
<1> HIDE DEF c, s, p
<1>6. \A m \in Nodes : status[m] = "linked" /\ next[m] \in {c, s} /\ next[m] # NULL =>
        /\ next[m] = c => m = p
        /\ next[m] = s => m = c
  BY <1>1, <1>5 DEF List!ListShape
<1>7. head' # NULL => head' \in Nodes /\ status'[head'] = "linked"
  BY <1>1, <1>2, <1>3, <1>5 DEF List!ListShape, List!ListTypes, List!NodeOrNull
<1>8. ASSUME NEW m \in Nodes, status'[m] = "linked", next'[m] # NULL
      PROVE  /\ next'[m] \in Nodes /\ status'[next'[m]] = "linked"
             /\ next'[m] # head'
             /\ \A n \in Nodes : status'[n] = "linked" /\ next'[n] = next'[m] => n = m
  <2>1. m # c /\ status[m] = "linked"
    BY <1>3, <1>8
  <2>2. CASE m = p
    <3>1. next'[m] = s /\ s # NULL
      BY <2>2, <1>4, <1>8
    <3>2. s # head'
      BY <3>1, <2>2, <1>2, <1>5, HeapAssumption
    <3> QED BY <3>1, <3>2, <2>2, <1>1, <1>3, <1>4, <1>5, <1>6
  <2>3. CASE m # p
    <3>1. next'[m] = next[m] /\ next[m] # NULL
      BY <2>3, <1>4, <1>8
    <3>2. next[m] \in Nodes /\ status[next[m]] = "linked" /\ next[m] # head
          /\ \A n \in Nodes : status[n] = "linked" /\ next[n] = next[m] => n = m
      BY <2>1, <3>1 DEF List!ListShape, List!ListTypes, List!NodeOrNull
    <3>3. next[m] # c /\ next[m] # s
      BY <2>1, <2>3, <3>1, <1>6
    <3> QED BY <3>1, <3>2, <3>3, <1>2, <1>3, <1>4
  <2> QED BY <2>2, <2>3
<1>9. List!ListShape'
  <2>1. \A n \in Nodes : status'[n] = "retired" => n \in marked'
    BY <1>1, <1>3 DEF List!ListShape
  <2>2. \A n \in marked' : status'[n] \in {"linked", "retired"}
    BY <1>1, <1>3 DEF List!ListShape, List!ListTypes
  <2> QED BY <1>7, <1>8, <2>1, <2>2 DEF List!ListShape
<1>10. List!AddOwnsNode'
  <2>1. ASSUME NEW u \in List!Threads PROVE List!OwnsNode(u)'
    <3>1. /\ op[u] = "add" \/ pc[u] = "add.discard" => node[u] # NULL
          /\ pc[u] = "add.discard" => op[u] # "add"
          /\ pc[u] = "add.cas" => op[u] = "add" /\ next[node[u]] = curr[u]
      BY DEF List!AddOwnsNode, List!OwnsNode
    <3>2. pc[u] = "add.cas" => node[u] \in Nodes /\ status[node[u]] = "private"
      BY <3>1 DEF List!AddOwnsNode, List!ListTypes, List!NodeOrNull
    <3>3. pc[u] = "add.cas" => next'[node[u]] = next[node[u]]
      BY <3>2, <1>1, <1>4
    <3> QED BY <3>1, <3>3 DEF OthersStay, List!OwnsNode
  <2>2. \A u \in List!Threads : node[u] # NULL => node[u] \in Nodes /\ status'[node[u]] = "private"
    <3>1. \A u \in List!Threads : node[u] # NULL => node[u] \in Nodes
      BY DEF List!ListTypes, List!NodeOrNull
    <3>2. \A u \in List!Threads : node[u] # NULL => status[node[u]] = "private"
      BY DEF List!AddOwnsNode
    <3> QED BY <3>1, <3>2, <1>1, <1>3
  <2>3. \A u \in List!Threads : node[u] # NULL =>
           \A v \in List!Threads : node[v] = node[u] => v = u
    BY DEF List!AddOwnsNode
  <2>4. node' = node
    OBVIOUS
  <2> QED BY <2>1, <2>2, <2>3, <2>4 DEF List!AddOwnsNode
<1>11. List!MarkedKeepsLink'
  <2>1. \A n \in marked : n \in marked' /\ next'[n] = next[n]
    BY <1>1, <1>4 DEF List!ListTypes
  <2>2. List!KeepsLink(t)'
    BY DEF List!KeepsLink
  <2> QED BY <2>1, <2>2, LinksKept
<1>12. List!ReaderKeepsNodes'
  <2>1. List!Guards(t)' = List!Guards(t)
    BY DEF List!Guards
  <2>2. \A n : status[n] \in {"linked", "retired"} /\ n \in Nodes => status'[n] \in {"linked", "retired"}
    BY <1>3
  <2>3. \A u \in List!Threads : \A n \in List!Guards(u) : n \in Nodes
    BY LinkParts DEF List!Guards, List!ListTypes, List!NodeOrNull
  <2>4. \A u \in List!Threads : \A n \in List!ToFree(u)' :
            List!Freeing(u)' => List!Freeing(u) /\ n \in List!ToFree(u)
    <3>1. ~List!Freeing(t)'
      BY DEF List!Freeing, List!FreeLabels
    <3> QED BY <3>1, OthersUnlinked
  <2>5. \A n \in List!Guards(t)' : status'[n] \in {"linked", "retired"}
    BY <2>1, <2>2, <2>3 DEF List!ReaderKeepsNodes
  <2>6. GuardsGrow(t) /\ ReadersStay(t)
    BY <2>1 DEF GuardsGrow, ReadersStay
  <2> QED BY <2>2, <2>3, <2>4, <2>5, <2>6, ReadersKept
<1> QED BY <1>1, <1>9, <1>10, <1>11, <1>12 DEF c

(* find unlinks the marked node itself and puts it on the thread's list,   *)
(* or starts over when pred has changed.                                   *)
LEMMA FindHelpInv ==
  ASSUME List!IInv, NEW t \in List!Threads, List!FindHelp(t)
  PROVE  List!IInv'
<1> USE HeapAssumption DEF List!IInv
<1>0. main # "destroyed" /\ Core /\ pc[t] = "find.help"
  BY DEF Core, List!MainAlone, List!FindHelp
<1>g. List!Grace(List!SectionLabels)'
  BY ListKeepsGrace DEF List!Next, List!ThreadStep, List!FindStep
<1>1. CASE ~List!PredIsCurr(t)
  <2>1. List!TryAgain(t) /\ pc' = [pc EXCEPT ![t] = "find.head"]
    BY <1>1 DEF List!FindHelp, List!Goto
  <2> QED BY <1>0, <1>g, <2>1, RetryKeeps DEF Core
<1>2. CASE List!PredIsCurr(t)
  <2>1. /\ pc' = [pc EXCEPT ![t] = "find.marked"]
        /\ List!StorePred(t, List!getUnmarked(nxt[t]))
        /\ status' = [status EXCEPT ![curr[t]] = "retired"]
        /\ retired' = [retired EXCEPT ![t] = Append(@, curr[t])]
        /\ UNCHANGED <<marked, pred, curr, nxt, node, op, oldReaders, main>>
    BY <1>2 DEF List!FindHelp, List!Goto, List!urcuVars, List!findLocals, List!callVars
  <2>2. OthersStay(t) /\ \A u \in List!Threads : u # t => retired'[u] = retired[u]
    BY <2>1 DEF OthersStay, List!ListTypes
  <2>3. pc'[t] = "find.marked" /\ List!MainAlone'
    BY <1>0, <2>1 DEF List!ListTypes, List!MainAlone
  <2>4. /\ curr[t] \in Nodes /\ status[curr[t]] = "linked"
        /\ List!ListShape' /\ List!AddOwnsNode' /\ List!MarkedKeepsLink' /\ List!ReaderKeepsNodes'
    BY <1>0, <1>2, <2>1, <2>2, <2>3, UnlinkKeeps
  <2>5. List!ListTypes'
    <3>1. List!getUnmarked(nxt[t]) \in List!NodeOrNull
      BY LinkParts DEF List!ListTypes
    <3>2. next' \in [Nodes -> List!NodeOrNull] /\ head' \in List!NodeOrNull
      BY <2>1, <3>1 DEF List!StorePred, List!ListTypes
    <3>3. retired' \in [List!Threads -> Seq(Nodes)]
      BY <2>1, <2>4 DEF List!ListTypes
    <3>4. /\ pc' \in [List!Threads -> List!Labels]
          /\ status' \in [Nodes -> List!Statuses]
      BY <2>1 DEF List!ListTypes, List!Labels, List!SectionLabels, List!FindLabels,
                  List!Statuses
    <3> QED BY <2>1, <3>2, <3>3, <3>4 DEF List!ListTypes
  <2>6. List!RetiredOnce'
    <3> DEFINE c == curr[t]
    <3>1. /\ \A u \in List!Threads : List!HasToFree(u)
          /\ \A u \in List!Threads : \A i \in 1..Len(retired[u]) :
               /\ retired[u][i] \in Nodes /\ status[retired[u][i]] = "retired"
               /\ retired[u][i] # c
               /\ \A v \in List!Threads : \A j \in 1..Len(retired[v]) :
                    retired[v][j] = retired[u][i] => v = u /\ j = i
      BY <1>0, <2>4 DEF Core, List!RetiredOnce, List!ListTypes
    <3>2. /\ \A u \in List!Threads : u # t => retired'[u] = retired[u]
          /\ retired'[t] = Append(retired[t], c)
          /\ \A u \in List!Threads : retired[u] \in Seq(Nodes) /\ retired'[u] \in Seq(Nodes)
      BY <2>1, <2>5 DEF List!ListTypes
    <3>3. /\ Len(retired'[t]) = Len(retired[t]) + 1
          /\ \A i \in 1..Len(retired'[t]) :
               \/ i \in 1..Len(retired[t]) /\ retired'[t][i] = retired[t][i]
               \/ i = Len(retired[t]) + 1 /\ retired'[t][i] = c
      BY <2>4, <3>2
    <3>4. ASSUME NEW u \in List!Threads, NEW i \in 1..Len(retired'[u])
          PROVE  \/ i \in 1..Len(retired[u]) /\ retired'[u][i] = retired[u][i]
                 \/ u = t /\ i = Len(retired[t]) + 1 /\ retired'[u][i] = c
      BY <3>2, <3>3
    <3>5. \A m \in Nodes : status'[m] = IF m = c THEN "retired" ELSE status[m]
      BY <2>1 DEF List!ListTypes
    <3>6. \A u \in List!Threads : List!Unlinked(u)' => List!Unlinked(u) /\ curr'[u] = curr[u] /\ u # t
      BY <2>2, <2>3, OthersUnlinked DEF OthersStay, List!Unlinked, List!SyncLabels
    <3>7. \A u \in List!Threads : List!HasToFree(u)'
      BY <2>2, <2>3, <3>1, <3>2 DEF OthersStay, List!HasToFree, List!SyncLabels
    <3>8. \A u \in List!Threads : List!Unlinked(u) =>
            /\ curr[u] \in Nodes /\ status[curr[u]] = "retired" /\ curr[u] # c
            /\ \A v \in List!Threads :
                 /\ List!Unlinked(v) /\ curr[v] = curr[u] => v = u
                 /\ \A i \in 1..Len(retired[v]) : retired[v][i] # curr[u]
      BY <1>0, <2>4 DEF Core, List!RetiredOnce, List!ListTypes, List!NodeOrNull,
                        List!Unlinked
    <3> HIDE DEF c
    <3>9. ASSUME NEW u \in List!Threads, NEW i \in 1..Len(retired'[u])
          PROVE  /\ status'[retired'[u][i]] = "retired"
                 /\ \A v \in List!Threads : \A j \in 1..Len(retired'[v]) :
                      retired'[v][j] = retired'[u][i] => v = u /\ j = i
      BY <3>1, <3>4, <3>5, <2>4 DEF c
    <3>10. ASSUME NEW u \in List!Threads, List!Unlinked(u)'
           PROVE  /\ status'[curr'[u]] = "retired"
                  /\ \A v \in List!Threads :
                       /\ List!Unlinked(v)' /\ curr'[v] = curr'[u] => v = u
                       /\ \A i \in 1..Len(retired'[v]) : retired'[v][i] # curr'[u]
      BY <3>4, <3>5, <3>6, <3>8, <3>10
    <3> QED BY <3>7, <3>9, <3>10 DEF List!RetiredOnce
  <2> QED BY <1>g, <2>3, <2>4, <2>5, <2>6
<1> QED BY <1>1, <1>2

(* remove unlinks the node it has marked, or leaves that to a find.        *)
LEMMA RemoveCasInv ==
  ASSUME List!IInv, NEW t \in List!Threads, List!RemoveCas(t)
  PROVE  List!IInv'
<1> USE HeapAssumption DEF List!IInv
<1>0. main # "destroyed" /\ Core /\ pc[t] = "remove.cas"
  BY DEF Core, List!MainAlone, List!RemoveCas
<1>g. List!Grace(List!SectionLabels)'
  BY ListKeepsGrace DEF List!Next, List!ThreadStep, List!CallStep
<1>a. UNCHANGED <<marked, pred, curr, nxt, node, op, oldReaders, main, retired>>
  BY DEF List!RemoveCas, List!urcuVars, List!findLocals, List!callVars, List!retiredVars
<1>1. CASE ~List!PredIsCurr(t)
  <2>1. UNCHANGED <<next, status, head>> /\ pc' = [pc EXCEPT ![t] = "unlock"]
    BY <1>1 DEF List!RemoveCas, List!Goto
  <2>2. List!ListTypes' /\ List!MainAlone' /\ OthersStay(t)
    BY <1>0, <1>a, <2>1 DEF List!ListTypes, List!MainAlone, OthersStay, List!Labels,
                            List!SectionLabels
  <2>3. LocalsKept(t)
    BY <1>0, <1>a, <2>1 DEF List!ListTypes, LocalsKept, Core, List!AddOwnsNode,
                            List!OwnsNode,
       List!HasToFree, List!KeepsLink, List!SyncLabels
  <2>4. /\ List!Unlinked(t)' => List!Unlinked(t) /\ curr'[t] = curr[t]
        /\ List!Freeing(t)' => List!Freeing(t)
    BY <2>1 DEF List!ListTypes, List!Unlinked, List!Freeing, List!SyncLabels,
                List!FreeLabels
  <2>5. GuardsGrow(t) /\ ReadersStay(t)
    BY <1>0, <1>a, <2>1 DEF List!ListTypes, GuardsGrow, List!Guards, ReadersStay
  <2>6. node'[t] = node[t] /\ \A n \in Nodes : next'[n] = next[n] \/ n = node[t]
    BY <1>a, <2>1
  <2>7. Core'
    BY <1>0, <1>a, <2>1, <2>2, <2>3, <2>4, <2>5, <2>6, QuietKeeps
  <2> QED BY <1>g, <2>2, <2>7 DEF Core
<1>2. CASE List!PredIsCurr(t)
  <2>1. /\ pc' = [pc EXCEPT ![t] = "remove.unlock"]
        /\ List!StorePred(t, List!getUnmarked(nxt[t]))
        /\ status' = [status EXCEPT ![curr[t]] = "retired"]
    BY <1>2 DEF List!RemoveCas, List!Goto
  <2>2. OthersStay(t) /\ \A u \in List!Threads : u # t => retired'[u] = retired[u]
    BY <1>a, <2>1 DEF OthersStay, List!ListTypes
  <2>3. pc'[t] = "remove.unlock" /\ List!MainAlone'
    BY <1>0, <1>a, <2>1 DEF List!ListTypes, List!MainAlone
  <2>4. /\ curr[t] \in Nodes /\ status[curr[t]] = "linked"
        /\ List!ListShape' /\ List!AddOwnsNode' /\ List!MarkedKeepsLink' /\ List!ReaderKeepsNodes'
    BY <1>0, <1>2, <1>a, <2>1, <2>2, <2>3, UnlinkKeeps
  <2>5. List!ListTypes'
    <3>1. List!getUnmarked(nxt[t]) \in List!NodeOrNull
      BY LinkParts DEF List!ListTypes
    <3>2. next' \in [Nodes -> List!NodeOrNull] /\ head' \in List!NodeOrNull
      BY <2>1, <3>1 DEF List!StorePred, List!ListTypes
    <3>3. /\ pc' \in [List!Threads -> List!Labels]
          /\ status' \in [Nodes -> List!Statuses]
      BY <2>1 DEF List!ListTypes, List!Labels, List!SectionLabels, List!Statuses
    <3> QED BY <1>a, <3>2, <3>3 DEF List!ListTypes
  <2>6. List!RetiredOnce'
    <3> DEFINE c == curr[t]
    <3>1. \A m \in Nodes : status'[m] = IF m = c THEN "retired" ELSE status[m]
      BY <2>1 DEF List!ListTypes
    <3>2. \A u \in List!Threads : List!Unlinked(u)' => List!Unlinked(u) \/ u = t
      BY <2>2, OthersUnlinked
    <3>3. \A u \in List!Threads : List!HasToFree(u)'
      BY <1>0, <1>a, <2>2, <2>3, <2>4
         DEF Core, List!RetiredOnce, OthersStay, List!HasToFree, List!SyncLabels
    <3>4. ASSUME NEW u \in List!Threads, List!Unlinked(u)
          PROVE  curr[u] \in Nodes /\ status[curr[u]] = "retired" /\ curr[u] # c
      BY <1>0, <2>4, <3>4 DEF Core, List!RetiredOnce, List!ListTypes, List!NodeOrNull,
                              List!Unlinked
    <3>5. ASSUME NEW u \in List!Threads, NEW i \in 1..Len(retired[u])
          PROVE  /\ retired[u][i] \in Nodes /\ status[retired[u][i]] = "retired"
                 /\ retired[u][i] # c
      BY <1>0, <2>4 DEF Core, List!RetiredOnce, List!ListTypes
    <3>6. \A u, v \in List!Threads : List!Unlinked(u) =>
            /\ List!Unlinked(v) /\ curr[v] = curr[u] => v = u
            /\ \A i \in 1..Len(retired[v]) : retired[v][i] # curr[u]
      BY <1>0 DEF Core, List!RetiredOnce
    <3>7. \A u, v \in List!Threads : \A i \in 1..Len(retired[u]) :
            \A j \in 1..Len(retired[v]) :
              retired[v][j] = retired[u][i] => v = u /\ j = i
      BY <1>0 DEF Core, List!RetiredOnce
    <3>8. ASSUME NEW u \in List!Threads, List!Unlinked(u)'
          PROVE  /\ status'[curr[u]] = "retired"
                 /\ \A v \in List!Threads :
                      /\ List!Unlinked(v)' /\ curr[v] = curr[u] => v = u
                      /\ \A i \in 1..Len(retired[v]) : retired[v][i] # curr[u]
      BY <2>4, <3>1, <3>2, <3>4, <3>5, <3>6, <3>8
    <3>9. ASSUME NEW u \in List!Threads, NEW i \in 1..Len(retired[u])
          PROVE  status'[retired[u][i]] = "retired"
      BY <3>1, <3>5
    <3> QED BY <1>a, <3>3, <3>7, <3>8, <3>9 DEF List!RetiredOnce
  <2> QED BY <1>g, <2>3, <2>4, <2>5, <2>6
<1> QED BY <1>1, <1>2

(* A step that takes a node into the hands of one thread, or gives it back. *)
LEMMA PrivateKeeps ==
  ASSUME Core, List!ListTypes, List!ListTypes', NEW t \in List!Threads, OthersStay(t),
         LocalsKept(t), NEW n \in Nodes, status[n] \in {"free", "private"},
         status'[n] \in {"free", "private"},
         \A m \in Nodes : m # n => status'[m] = status[m] /\ next'[m] = next[m],
         UNCHANGED <<head, marked, retired>>,
         List!Unlinked(t)' => List!Unlinked(t) /\ curr'[t] = curr[t],
         List!Freeing(t)' => List!Freeing(t),
         GuardsGrow(t), ReadersStay(t)
  PROVE  List!ListShape' /\ List!RetiredOnce' /\ List!MarkedKeepsLink' /\ List!ReaderKeepsNodes'
<1> USE HeapAssumption DEF Core, LocalsKept
<1>0. head' = head /\ marked' = marked
  OBVIOUS
<1>1. \A m \in Nodes : status[m] \in {"linked", "retired"} =>
        status'[m] = status[m] /\ next'[m] = next[m]
  OBVIOUS
<1>2. \A m \in Nodes : status'[m] \in {"linked", "retired"} =>
        status[m] = status'[m] /\ next'[m] = next[m]
  OBVIOUS
<1>3. \A m \in Nodes : status[m] = "linked" /\ next[m] # NULL => next[m] \in Nodes
  BY DEF List!ListTypes, List!NodeOrNull
<1>4. List!ListShape'
  BY <1>0, <1>1, <1>2, <1>3 DEF List!ListShape, List!ListTypes, List!NodeOrNull
<1>5. List!RetiredOnce'
  BY <1>1, RetiredKept
<1>6. List!MarkedKeepsLink'
  BY <1>0, <1>1, LinksKept DEF List!ListShape, List!ListTypes
<1>7. List!ReaderKeepsNodes'
  <2>1. \A u \in List!Threads : \A m \in List!ToFree(u)' :
            List!Freeing(u)' => List!Freeing(u) /\ m \in List!ToFree(u)
    <3>1. \A m \in List!ToFree(t)' : m \in List!ToFree(t)
      BY DEF List!ToFree
    <3> QED BY <3>1, OthersUnlinked
  <2>2. \A u \in List!Threads : \A m \in List!Guards(u) : m \in Nodes
    BY LinkParts DEF List!Guards, List!ListTypes, List!NodeOrNull
  <2>3. \A m \in List!Guards(t)' : status[m] \in {"linked", "retired"} /\ m \in Nodes
    <3>1. \A m \in List!Guards(t)' : m \in Nodes
      BY LinkParts DEF List!Guards, List!ListTypes, List!NodeOrNull
    <3> QED BY <3>1 DEF GuardsGrow, List!ReaderKeepsNodes
  <2>4. \A m \in List!Guards(t)' : status'[m] \in {"linked", "retired"}
    BY <1>1, <2>3
  <2>5. pc'[t] = "find.check" => pred'[t] = NULL
    OBVIOUS
  <2> QED BY <1>1, <2>1, <2>4, <2>5, ReadersKept
<1> QED BY <1>4, <1>5, <1>6, <1>7

(* An add that begins owns a node that nobody else knows.                  *)
LEMMA AddCallInv ==
  ASSUME List!IInv, NEW t \in List!Threads, List!AddCall(t)
  PROVE  List!IInv'
<1> USE HeapAssumption DEF List!IInv
<1>0. main # "destroyed" /\ Core /\ pc[t] = "idle"
  BY DEF Core, List!MainAlone, List!AddCall, List!Goto, List!BeginCall, List!MayCall,
         List!Calling, List!Filling
<1>1. PICK n \in Nodes :
        /\ status[n] = "free"
        /\ status' = [status EXCEPT ![n] = "private"]
        /\ next' = [next EXCEPT ![n] = NULL]
        /\ node' = [node EXCEPT ![t] = n]
        /\ pc' = [pc EXCEPT ![t] = "lock.load"]
        /\ op' = [op EXCEPT ![t] = "add"]
        /\ UNCHANGED <<head, marked, pred, curr, nxt, oldReaders, main, retired>>
  BY DEF List!AddCall, List!Goto, List!BeginCall, List!New, List!urcuVars,
         List!findLocals, List!retiredVars
<1>2. List!Grace(List!SectionLabels)'
  BY ListKeepsGrace DEF List!Next, List!ThreadStep
<1>3. List!ListTypes'
  BY <1>1 DEF List!ListTypes, List!NodeOrNull, List!Statuses, List!Labels,
              List!LockLabels, List!Operations
<1>4. List!MainAlone'
  BY <1>0, <1>1 DEF List!ListTypes, List!MainAlone, List!AddCall, List!BeginCall,
                    List!MayCall, List!Calling, List!Filling
<1>5. OthersStay(t)
  BY <1>1 DEF List!ListTypes, OthersStay
<1>6. LocalsKept(t)
  BY <1>1 DEF List!ListTypes, LocalsKept, List!OwnsNode, List!HasToFree,
              List!KeepsLink, List!SyncLabels
<1>7. status[n] = "free" /\ status'[n] = "private"
      /\ \A m \in Nodes : m # n => status'[m] = status[m] /\ next'[m] = next[m]
  BY <1>1 DEF List!ListTypes
<1>8. ~List!Unlinked(t)' /\ ~List!Freeing(t)'
  BY <1>1 DEF List!ListTypes, List!Unlinked, List!Freeing, List!SyncLabels,
              List!FreeLabels
<1>9. GuardsGrow(t) /\ ReadersStay(t)
  BY <1>1 DEF List!ListTypes, GuardsGrow, List!Guards, ReadersStay
<1>10. List!ListShape' /\ List!RetiredOnce' /\ List!MarkedKeepsLink' /\ List!ReaderKeepsNodes'
  BY <1>0, <1>1, <1>3, <1>5, <1>6, <1>7, <1>8, <1>9, PrivateKeeps
<1>11. List!AddOwnsNode'
  <2>1. \A u \in List!Threads : node[u] # NULL =>
          /\ node[u] \in Nodes /\ node[u] # n /\ status[node[u]] = "private"
          /\ \A v \in List!Threads : node[v] = node[u] => v = u
    BY <1>0, <1>1 DEF Core, List!AddOwnsNode, List!ListTypes, List!NodeOrNull
  <2>2. ASSUME NEW u \in List!Threads, u # t PROVE List!OwnsNode(u)'
    <3>1. List!OwnsNode(u)
      BY <1>0 DEF Core, List!AddOwnsNode
    <3> QED BY <1>5, <1>7, <2>1, <2>2, <3>1 DEF OthersStay, List!OwnsNode
  <2>3. \A u \in List!Threads : node'[u] = IF u = t THEN n ELSE node[u]
    BY <1>1 DEF List!ListTypes
  <2> QED BY <1>6, <1>7, <2>1, <2>2, <2>3 DEF List!AddOwnsNode, LocalsKept
<1> QED BY <1>2, <1>3, <1>4, <1>10, <1>11

(* An add that finds its key deletes a node that never was in the list.    *)
LEMMA AddDiscardInv ==
  ASSUME List!IInv, NEW t \in List!Threads, List!AddDiscard(t)
  PROVE  List!IInv'
<1> USE HeapAssumption DEF List!IInv
<1> DEFINE n == node[t]
<1>0. main # "destroyed" /\ Core /\ pc[t] = "add.discard"
  BY DEF Core, List!MainAlone, List!AddDiscard, List!Goto
<1>1. /\ status' = [m \in Nodes |-> IF m \in {n} THEN "free" ELSE status[m]]
      /\ next' = [m \in Nodes |-> IF m \in {n} THEN NULL ELSE next[m]]
      /\ node' = [node EXCEPT ![t] = NULL]
      /\ pc' = [pc EXCEPT ![t] = "unlock"]
      /\ UNCHANGED <<op, head, marked, pred, curr, nxt, oldReaders, main, retired>>
  BY DEF List!AddDiscard, List!Goto, List!Delete, List!urcuVars, List!findLocals,
         List!retiredVars
<1>2. List!Grace(List!SectionLabels)'
  BY ListKeepsGrace DEF List!Next, List!ThreadStep, List!CallStep
<1>3. List!ListTypes'
  BY <1>1 DEF List!ListTypes, List!NodeOrNull, List!Statuses, List!Labels,
              List!SectionLabels
<1>4. List!MainAlone'
  BY <1>0, <1>1 DEF List!ListTypes, List!MainAlone
<1>5. OthersStay(t)
  BY <1>1 DEF List!ListTypes, OthersStay
<1>6. LocalsKept(t)
  BY <1>0, <1>1 DEF List!ListTypes, LocalsKept, Core, List!AddOwnsNode, List!OwnsNode,
                    List!HasToFree,
     List!KeepsLink, List!SyncLabels
<1>7. n \in Nodes /\ status[n] = "private"
  BY <1>0 DEF Core, List!AddOwnsNode, List!OwnsNode, List!ListTypes, List!NodeOrNull
<1>8. status'[n] = "free"
      /\ \A m \in Nodes : m # n => status'[m] = status[m] /\ next'[m] = next[m]
  BY <1>1, <1>7 DEF List!ListTypes
<1>9. ~List!Unlinked(t)' /\ ~List!Freeing(t)'
  BY <1>1 DEF List!ListTypes, List!Unlinked, List!Freeing, List!SyncLabels,
              List!FreeLabels
<1>10. GuardsGrow(t) /\ ReadersStay(t)
  BY <1>0, <1>1 DEF List!ListTypes, GuardsGrow, List!Guards, ReadersStay
<1>11. List!AddOwnsNode'
  <2>1. \A u \in List!Threads : u # t /\ node[u] # NULL =>
          /\ node[u] \in Nodes /\ node[u] # n /\ status[node[u]] = "private"
          /\ \A v \in List!Threads : node[v] = node[u] => v = u
    BY <1>0 DEF Core, List!AddOwnsNode, List!ListTypes, List!NodeOrNull
  <2>2. ASSUME NEW u \in List!Threads, u # t PROVE List!OwnsNode(u)'
    <3>1. List!OwnsNode(u)
      BY <1>0 DEF Core, List!AddOwnsNode
    <3> QED BY <1>5, <1>8, <2>1, <2>2, <3>1 DEF OthersStay, List!OwnsNode
  <2>3. \A u \in List!Threads : node'[u] = IF u = t THEN NULL ELSE node[u]
    BY <1>1 DEF List!ListTypes
  <2> QED BY <1>6, <1>8, <2>1, <2>2, <2>3 DEF List!AddOwnsNode, LocalsKept
<1> HIDE DEF n
<1>12. List!ListShape' /\ List!RetiredOnce' /\ List!MarkedKeepsLink' /\ List!ReaderKeepsNodes'
  BY <1>0, <1>1, <1>3, <1>5, <1>6, <1>7, <1>8, <1>9, <1>10, PrivateKeeps
<1> QED BY <1>2, <1>3, <1>4, <1>11, <1>12

(* The exchange that links the node of an add behind pred and in front of  *)
(* curr, both in the list.                                                 *)
LEMMA AddCasInv ==
  ASSUME List!IInv, NEW t \in List!Threads, List!AddCas(t)
  PROVE  List!IInv'
<1> USE HeapAssumption DEF List!IInv
<1>0. main # "destroyed" /\ Core /\ pc[t] = "add.cas"
  BY DEF Core, List!MainAlone, List!AddCas
<1>g. List!Grace(List!SectionLabels)'
  BY ListKeepsGrace DEF List!Next, List!ThreadStep, List!CallStep
<1>1. CASE ~List!PredIsCurr(t)
  <2>1. List!TryAgain(t) /\ pc' = [pc EXCEPT ![t] = "find.head"]
    BY <1>1 DEF List!AddCas, List!Goto
  <2> QED BY <1>0, <1>g, <2>1, RetryKeeps DEF Core
<1>2. CASE List!PredIsCurr(t)
  <2> DEFINE n == node[t]  p == pred[t]  c == curr[t]
  <2>1. /\ pc' = [pc EXCEPT ![t] = "unlock"]
        /\ List!StorePred(t, n)
        /\ status' = [status EXCEPT ![n] = "linked"]
        /\ node' = [node EXCEPT ![t] = NULL]
        /\ op' = [op EXCEPT ![t] = "true"]
        /\ UNCHANGED <<marked, pred, curr, nxt, oldReaders, main, retired>>
    BY <1>2 DEF List!AddCas, List!Goto, List!Decides, List!urcuVars, List!findLocals,
                List!retiredVars
  <2>2. n \in Nodes /\ status[n] = "private" /\ next[n] = c
    BY <1>0 DEF Core, List!AddOwnsNode, List!OwnsNode, List!ListTypes, List!NodeOrNull
  <2>3. /\ p # NULL => /\ p \in Nodes /\ p \notin marked /\ status[p] = "linked"
                       /\ next[p] = c /\ p # n
        /\ p = NULL => head = c
        /\ c # NULL => c \in Nodes /\ status[c] = "linked" /\ c # n
    <3>1. pred[t] \in List!Guards(t) \cup {NULL}
      BY <1>0 DEF List!Guards
    <3> QED BY <1>0, <1>2, <2>2, <3>1, CurrIsLinked DEF Core
  <2>4. /\ p = NULL => head' = n /\ next' = next
        /\ p # NULL => head' = head /\ next' = [next EXCEPT ![p] = n]
    BY <2>1 DEF List!StorePred
  <2>5. \A m \in Nodes : status'[m] = IF m = n THEN "linked" ELSE status[m]
    BY <2>1 DEF List!ListTypes
  <2>6. \A m \in Nodes : next'[m] = IF m = p THEN n ELSE next[m]
    BY <2>4 DEF List!ListTypes
  <2>7. List!ListTypes' /\ List!MainAlone'
    <3>1. next' \in [Nodes -> List!NodeOrNull] /\ head' \in List!NodeOrNull
      BY <2>2, <2>4 DEF List!ListTypes, List!NodeOrNull
    <3>2. /\ pc' \in [List!Threads -> List!Labels] /\ node' \in [List!Threads -> List!NodeOrNull]
          /\ op' \in [List!Threads -> List!Operations \cup List!Results \cup {"none"}]
          /\ status' \in [Nodes -> List!Statuses]
      BY <2>1 DEF List!ListTypes, List!Labels, List!SectionLabels, List!Results,
                  List!Statuses, List!NodeOrNull
    <3> QED BY <1>0, <2>1, <3>1, <3>2 DEF List!ListTypes, List!MainAlone
  <2>8. OthersStay(t) /\ List!Guards(t)' = List!Guards(t)
    BY <1>0, <2>1 DEF OthersStay, List!ListTypes, List!Guards
  <2>9. List!OwnsNode(t)' /\ List!HasToFree(t)' /\ List!KeepsLink(t)' /\ ~List!Unlinked(t)' /\ ~List!Freeing(t)'
    BY <2>1 DEF List!ListTypes, List!OwnsNode, List!HasToFree, List!KeepsLink,
                List!Unlinked, List!Freeing,
       List!SyncLabels, List!FreeLabels
  <2>10. \A u \in List!Threads : node[u] # NULL =>
          /\ node[u] \in Nodes /\ status[node[u]] = "private"
          /\ \A v \in List!Threads : node[v] = node[u] => v = u
    BY <1>0 DEF Core, List!AddOwnsNode, List!ListTypes, List!NodeOrNull
  <2> HIDE DEF n, p, c
  <2>11. \A m \in Nodes : status[m] = "linked" /\ next[m] # NULL =>
          /\ next[m] \in Nodes /\ status[next[m]] = "linked" /\ next[m] # head
          /\ next[m] # n /\ (next[m] = c => m = p)
          /\ \A q \in Nodes : status[q] = "linked" /\ next[q] = next[m] => q = m
    BY <1>0, <2>2, <2>3 DEF Core, List!ListShape, List!ListTypes, List!NodeOrNull
  <2>12. head' # NULL => head' \in Nodes /\ status'[head'] = "linked"
    BY <1>0, <2>2, <2>4, <2>5 DEF Core, List!ListShape, List!ListTypes, List!NodeOrNull
  <2>13. ASSUME NEW m \in Nodes, status'[m] = "linked", next'[m] # NULL
         PROVE  /\ status'[next'[m]] = "linked" /\ next'[m] # head'
                /\ \A q \in Nodes : status'[q] = "linked" /\ next'[q] = next'[m] => q = m
    <3>1. CASE m = n
      <4>1. next'[m] = c /\ c # NULL
        BY <2>2, <2>3, <2>6, <2>13, <3>1
      <4>2. c # head'
        BY <4>1, <2>3, <2>4, <2>11
      <4>3. ASSUME NEW q \in Nodes, status'[q] = "linked", next'[q] = c, q # n PROVE FALSE
        <5>1. status[q] = "linked" /\ q # p
          BY <4>1, <4>3, <2>3, <2>5, <2>6
        <5>2. next[q] = c
          BY <4>3, <5>1, <2>6
        <5> QED BY <4>1, <5>1, <5>2, <2>11
      <4> QED BY <4>1, <4>2, <4>3, <3>1, <2>3, <2>5
    <3>2. CASE m = p
      <4>1. next'[m] = n /\ p # NULL
        BY <2>6, <3>2
      <4>2. n # head'
        BY <4>1, <1>0, <2>2, <2>4 DEF Core, List!ListShape
      <4>3. ASSUME NEW q \in Nodes, status'[q] = "linked", next'[q] = n, q # p PROVE FALSE
        <5>1. next[q] = n
          BY <4>3, <2>6
        <5>2. q # n
          BY <5>1, <2>2, <2>3
        <5> QED BY <4>3, <5>1, <5>2, <2>2, <2>5, <2>11
      <4> QED BY <4>1, <4>2, <4>3, <3>2, <2>2, <2>5
    <3>3. CASE m # n /\ m # p
      <4>1. status[m] = "linked" /\ next'[m] = next[m] /\ next[m] # NULL
        BY <2>5, <2>6, <2>13, <3>3
      <4>2. next[m] # n /\ next[m] # c /\ next[m] # head
        BY <4>1, <3>3, <2>11
      <4>3. ASSUME NEW q \in Nodes, status'[q] = "linked", next'[q] = next[m]
            PROVE  q = m
        <5>1. q # n /\ q # p
          BY <4>2, <4>3, <2>2, <2>3, <2>6
        <5>2. status[q] = "linked" /\ next[q] = next[m]
          BY <4>3, <5>1, <2>5, <2>6
        <5> QED BY <4>1, <5>2, <2>11
      <4>4. status'[next[m]] = "linked"
        BY <4>1, <2>5, <2>11
      <4> QED BY <4>1, <4>2, <4>3, <4>4, <2>4
    <3> QED BY <3>1, <3>2, <3>3
  <2>14. List!ListShape'
    BY <1>0, <2>1, <2>2, <2>5, <2>12, <2>13 DEF Core, List!ListShape, List!ListTypes
  <2>15. List!AddOwnsNode'
    <3>1. \A u \in List!Threads : node'[u] = IF u = t THEN NULL ELSE node[u]
      BY <2>1 DEF List!ListTypes
    <3>2. ASSUME NEW u \in List!Threads, u # t PROVE List!OwnsNode(u)'
      <4>1. List!OwnsNode(u)
        BY <1>0 DEF Core, List!AddOwnsNode
      <4>2. node[u] # NULL => next'[node[u]] = next[node[u]]
        BY <2>3, <2>6, <2>10
      <4> QED BY <2>8, <3>2, <4>1, <4>2 DEF OthersStay, List!OwnsNode
    <3>3. \A u \in List!Threads : u # t /\ node[u] # NULL => node[u] # n
      BY <2>2, <2>10 DEF n
    <3> QED BY <2>5, <2>9, <2>10, <3>1, <3>2, <3>3 DEF List!AddOwnsNode
  <2>16. List!RetiredOnce'
    <3>1. \A m \in Nodes : status[m] = "retired" => status'[m] = "retired"
      BY <2>2, <2>5
    <3> QED BY <1>0, <2>1, <2>8, <2>9, <3>1, RetiredKept DEF Core
  <2>17. List!MarkedKeepsLink'
    <3>1. \A m \in marked : m \in marked' /\ next'[m] = next[m]
      BY <2>1, <2>3, <2>6 DEF List!ListTypes
    <3> QED BY <1>0, <2>8, <2>9, <3>1, LinksKept DEF Core
  <2>18. List!ReaderKeepsNodes'
    <3>1. \A m \in Nodes : status[m] \in {"linked", "retired"} =>
            status'[m] \in {"linked", "retired"}
      BY <2>5
    <3>2. \A m \in List!Guards(t) : m \in Nodes
      BY LinkParts DEF List!Guards, List!ListTypes, List!NodeOrNull
    <3>3. \A m \in List!Guards(t)' : status'[m] \in {"linked", "retired"}
      BY <1>0, <2>8, <3>1, <3>2 DEF Core, List!ReaderKeepsNodes
    <3>4. GuardsGrow(t) /\ ReadersStay(t)
      BY <2>1, <2>8 DEF GuardsGrow, ReadersStay
    <3>5. \A u \in List!Threads : \A m \in List!ToFree(u)' :
            List!Freeing(u)' => List!Freeing(u) /\ m \in List!ToFree(u)
      BY <2>1, <2>8, <2>9, OthersUnlinked
    <3>6. pc'[t] # "find.check"
      BY <2>1 DEF List!ListTypes
    <3> QED BY <1>0, <2>8, <3>1, <3>3, <3>4, <3>5, <3>6, ReadersKept DEF Core
  <2> QED BY <1>g, <2>7, <2>14, <2>15, <2>16, <2>17, <2>18
<1> QED BY <1>1, <1>2

(* To mark curr leaves it in the list, and its link will not change any    *)
(* more.                                                                   *)
LEMMA RemoveMarkInv ==
  ASSUME List!IInv, NEW t \in List!Threads, List!RemoveMark(t)
  PROVE  List!IInv'
<1> USE HeapAssumption DEF List!IInv
<1>0. main # "destroyed" /\ Core /\ pc[t] = "remove.mark"
  BY DEF Core, List!MainAlone, List!RemoveMark
<1>g. List!Grace(List!SectionLabels)'
  BY ListKeepsGrace DEF List!Next, List!ThreadStep, List!CallStep
<1> DEFINE c == curr[t]
<1>1. CASE List!Link(c) # <<List!getUnmarked(nxt[t]), FALSE>>
  <2>1. List!TryAgain(t) /\ pc' = [pc EXCEPT ![t] = "find.head"]
    BY <1>1 DEF List!RemoveMark, List!Goto
  <2> QED BY <1>0, <1>g, <2>1, RetryKeeps DEF Core
<1>2. CASE List!Link(c) = <<List!getUnmarked(nxt[t]), FALSE>>
  <2>1. /\ pc' = [pc EXCEPT ![t] = "remove.cas"]
        /\ marked' = marked \cup {c}
        /\ op' = [op EXCEPT ![t] = "true"]
        /\ UNCHANGED <<status, next, head, pred, curr, nxt, node, oldReaders, main, retired>>
    BY <1>2 DEF List!RemoveMark, List!Goto, List!Decides, List!heapVars,
                List!urcuVars, List!findLocals, List!retiredVars
  <2>2. next[c] = List!getUnmarked(nxt[t]) /\ c \notin marked
    BY <1>2, LinkIs
  <2>3. c \in Nodes /\ status[c] = "linked"
    <3>1. c \in Nodes /\ c \in List!Guards(t)
      BY <1>0 DEF Core, List!MarkedKeepsLink, List!KeepsLink, List!Guards,
                  List!ListTypes, List!NodeOrNull
    <3> QED BY <1>0, <2>2, <3>1 DEF Core, List!ReaderKeepsNodes, List!ListShape
  <2>4. List!ListTypes' /\ List!MainAlone'
    BY <1>0, <2>1, <2>3 DEF List!ListTypes, List!MainAlone, List!Labels,
                            List!SectionLabels, List!Results
  <2>5. OthersStay(t) /\ List!Guards(t)' = List!Guards(t)
    BY <1>0, <2>1 DEF OthersStay, List!ListTypes, List!Guards
  <2>6. List!HasToFree(t)' /\ List!OwnsNode(t)' /\ ~List!Unlinked(t)' /\ ~List!Freeing(t)'
    BY <2>1 DEF List!ListTypes, List!HasToFree, List!OwnsNode, List!Unlinked,
                List!Freeing, List!SyncLabels, List!FreeLabels
  <2>7. List!KeepsLink(t)'
    BY <2>1, <2>2, <2>3 DEF List!ListTypes, List!KeepsLink
  <2>8. List!ListShape'
    BY <1>0, <2>1, <2>3 DEF Core, List!ListShape
  <2>9. List!AddOwnsNode'
    <3>1. \A u \in List!Threads : List!OwnsNode(u)'
      BY <1>0, <2>1, <2>5, <2>6 DEF Core, List!AddOwnsNode, List!OwnsNode, OthersStay
    <3> QED BY <1>0, <2>1, <3>1 DEF Core, List!AddOwnsNode
  <2>10. List!RetiredOnce'
    BY <1>0, <2>1, <2>5, <2>6, RetiredKept DEF Core
  <2>11. List!MarkedKeepsLink'
    BY <1>0, <2>1, <2>5, <2>7, LinksKept DEF Core
  <2>12. List!ReaderKeepsNodes'
    <3>1. \A m \in List!Guards(t)' : status'[m] \in {"linked", "retired"}
      BY <1>0, <2>1, <2>5 DEF Core, List!ReaderKeepsNodes
    <3>2. GuardsGrow(t) /\ ReadersStay(t)
      BY <2>1, <2>5 DEF GuardsGrow, ReadersStay
    <3>3. \A u \in List!Threads : \A m \in List!ToFree(u)' :
            List!Freeing(u)' => List!Freeing(u) /\ m \in List!ToFree(u)
      BY <2>1, <2>5, <2>6, OthersUnlinked
    <3>4. pc'[t] # "find.check"
      BY <2>1 DEF List!ListTypes
    <3> QED BY <1>0, <2>1, <2>5, <3>1, <3>2, <3>3, <3>4, ReadersKept DEF Core
  <2> QED BY <1>g, <2>4, <2>8, <2>9, <2>10, <2>11, <2>12
<1> QED BY <1>1, <1>2

(* A thread that begins to wait does so for every reader that may rely on  *)
(* what it has to free; one that returns has waited for all of them.       *)
LEMMA ListSyncInv ==
  ASSUME List!IInv, NEW t \in List!Threads, List!Sync(t)
  PROVE  List!IInv'
<1> USE HeapAssumption DEF List!IInv
<1>0. main # "destroyed" /\ Core /\ pc[t] \in List!SyncLabels
  BY DEF Core, List!MainAlone, List!Sync, List!SynchronizeRCU, List!SyncLoad,
         List!SyncCas, List!SyncSpin, List!Goto, List!SyncLabels
<1>g. List!Grace(List!SectionLabels)'
  BY ListKeepsGrace DEF List!Next, List!ThreadStep, List!CallStep
<1>1. /\ UNCHANGED <<status, next, head, marked, pred, curr, nxt, node, op, main, retired>>
      /\ \/ /\ pc[t] = "sync.load" /\ pc' = [pc EXCEPT ![t] = "sync.cas"]
            /\ oldReaders' = [oldReaders EXCEPT ![t] = List!Readers \ {t}]
         \/ pc[t] = "sync.cas" /\ pc' = [pc EXCEPT ![t] = "sync.spin"] /\ UNCHANGED oldReaders
         \/ pc[t] = "sync.spin" /\ UNCHANGED <<pc, oldReaders>>
         \/ /\ pc[t] = "sync.spin" /\ UNCHANGED oldReaders
            /\ pc' = [pc EXCEPT ![t] = IF curr[t] = NULL THEN "free" ELSE "remove.free"]
  BY DEF List!Sync, List!SynchronizeRCU, List!SyncLoad, List!SyncCas, List!SyncSpin,
         List!Goto, List!heapVars, List!listVars,
     List!findLocals, List!callVars, List!retiredVars
<1>2. List!ListTypes' /\ List!MainAlone'
  BY <1>0, <1>1 DEF List!ListTypes, List!MainAlone, List!Labels, List!SyncLabels,
                    List!FreeLabels
<1>3. OthersStay(t)
  BY <1>1 DEF List!ListTypes, OthersStay
<1>4. List!Guards(t) = {} /\ List!Guards(t)' = {}
  BY <1>0, <1>1 DEF List!ListTypes, List!Guards, List!SyncLabels
<1>5. LocalsKept(t)
  <2>1. List!OwnsNode(t) /\ List!HasToFree(t)
    BY <1>0 DEF Core, List!AddOwnsNode, List!RetiredOnce
  <2> QED BY <1>0, <1>1, <2>1
             DEF List!ListTypes, LocalsKept, List!OwnsNode, List!HasToFree,
                 List!KeepsLink, List!SyncLabels
<1>6. List!ListShape'
  BY <1>0, <1>1 DEF Core, List!ListShape
<1>7. List!AddOwnsNode'
  <2>1. ASSUME NEW u \in List!Threads, u # t PROVE List!OwnsNode(u)'
    BY <1>0, <1>1, <1>3, <2>1 DEF Core, List!AddOwnsNode, List!OwnsNode, OthersStay
  <2> QED BY <1>0, <1>1, <1>5, <2>1 DEF Core, List!AddOwnsNode, LocalsKept
<1>8. List!Unlinked(t)' => List!Unlinked(t)
  BY <1>0, <1>1 DEF List!ListTypes, List!Unlinked, List!SyncLabels
<1>9. List!RetiredOnce'
  BY <1>0, <1>1, <1>3, <1>5, <1>8, RetiredKept DEF Core, LocalsKept
<1>10. List!MarkedKeepsLink'
  BY <1>0, <1>1, <1>3, <1>5, LinksKept DEF Core, LocalsKept
<1>11. List!ReaderKeepsNodes'
  <2>1. \A u \in List!Threads : List!Guards(u)' = List!Guards(u)
    BY <1>3, <1>4, OthersGuards
  <2>2. \A u \in List!Threads : u # t => (List!Freeing(u)' <=> List!Freeing(u))
    BY <1>3, OthersUnlinked
  <2>3. \A u \in List!Threads : \A n \in List!ToFree(u)' : n \in List!ToFree(u)
    BY <1>1, <1>3, <1>8, OthersUnlinked DEF List!ToFree
  <2>4. \A u \in List!Threads : u # t => oldReaders'[u] = oldReaders[u]
    BY <1>g, <1>1 DEF List!Grace, List!GraceTypes
  <2>5. List!Freeing(t)' => \/ List!Freeing(t) /\ oldReaders'[t] = oldReaders[t]
                       \/ oldReaders'[t] = List!Readers \ {t}
    <3>1. CASE pc[t] = "sync.load"
      BY <3>1, <1>1 DEF List!Grace, List!GraceTypes
    <3>2. CASE pc[t] # "sync.load"
      BY <3>2, <1>0, <1>1 DEF List!Freeing, List!SyncLabels
    <3> QED BY <3>1, <3>2
  <2>6. \A r \in List!Threads : List!Guards(r) # {} => r \in List!Readers /\ r # t
    BY <1>4 DEF List!Guards, List!Readers, List!SectionLabels, List!FindLabels
  <2>7. ASSUME NEW r \in List!Threads, NEW n \in List!Guards(r),
               NEW u \in List!Threads, List!Freeing(u)', n \in List!ToFree(u)'
        PROVE  r \in oldReaders'[u]
    <3>1. List!Freeing(u) /\ oldReaders'[u] = oldReaders[u] => r \in oldReaders'[u]
      BY <1>0, <2>3, <2>7 DEF Core, List!ReaderKeepsNodes
    <3> QED BY <2>2, <2>4, <2>5, <2>6, <2>7, <3>1
  <2>8. \A u \in List!Threads : pc'[u] = "find.check" => pred'[u] = NULL
    BY <1>0, <1>1, <1>3, <1>5 DEF Core, List!ReaderKeepsNodes, OthersStay, LocalsKept
  <2>9. \A r \in List!Threads : \A n \in List!Guards(r) : status'[n] \in {"linked", "retired"}
    BY <1>0, <1>1 DEF Core, List!ReaderKeepsNodes
  <2> QED BY <2>1, <2>7, <2>8, <2>9 DEF List!ReaderKeepsNodes
<1> QED BY <1>2, <1>g, <1>6, <1>7, <1>9, <1>10, <1>11

(* What a thread frees after its grace period no reader relies on.         *)
LEMMA NobodyGuards ==
  ASSUME List!IInv, NEW t \in List!Threads, pc[t] \in List!FreeLabels,
         NEW n \in List!ToFree(t)
  PROVE  /\ n \in Nodes /\ status[n] = "retired"
         /\ \A u \in List!Threads : n \notin List!Guards(u)
<1>1. Core
  BY DEF Core, List!IInv, List!MainAlone, List!FreeLabels
<1>2. n \in Nodes
  BY DEF List!IInv, List!ListTypes, List!ToFree, List!Unlinked, List!NodeOrNull
<1>3. status[n] = "retired"
  BY <1>1, ToFreeRetired DEF Core
<1>4. oldReaders[t] = {}
  BY DEF List!IInv, List!Grace, List!GraceTypes, List!OldReadersHeld, List!FreeLabels
<1>5. \A u \in List!Threads : n \notin List!Guards(u)
  BY <1>1, <1>4 DEF Core, List!ReaderKeepsNodes, List!Freeing
<1> QED BY <1>2, <1>3, <1>5

(* To delete a retired node that nobody relies on.                         *)
LEMMA FreeKeeps ==
  ASSUME Core, List!ListTypes, List!ListTypes', NEW t \in List!Threads, OthersStay(t),
         LocalsKept(t),
         NEW n \in Nodes, status[n] = "retired", \A u \in List!Threads : n \notin List!Guards(u),
         status' = [m \in Nodes |-> IF m \in {n} THEN "free" ELSE status[m]],
         next' = [m \in Nodes |-> IF m \in {n} THEN NULL ELSE next[m]],
         marked' = marked \ {n}, UNCHANGED <<head, node, oldReaders>>,
         \A u \in List!Threads : u # t => retired'[u] = retired[u],
         List!Guards(t)' = {}, List!Freeing(t), \A m \in List!ToFree(t)' : m \in List!ToFree(t)
  PROVE  List!ListShape' /\ List!AddOwnsNode' /\ List!MarkedKeepsLink' /\ List!ReaderKeepsNodes'
<1> USE HeapAssumption DEF Core, LocalsKept
<1>1. \A m \in Nodes : /\ status'[m] = IF m = n THEN "free" ELSE status[m]
                       /\ m # n => next'[m] = next[m]
  OBVIOUS
<1>2. List!ListShape'
  <2>1. \A m \in Nodes : status[m] = "linked" /\ next[m] # NULL => next[m] \in Nodes /\ next[m] # n
    BY DEF List!ListShape, List!ListTypes, List!NodeOrNull
  <2>2. head # NULL => head \in Nodes /\ head # n
    BY DEF List!ListShape, List!ListTypes, List!NodeOrNull
  <2> QED BY <1>1, <2>1, <2>2 DEF List!ListShape, List!ListTypes
<1>3. \A u \in List!Threads : node[u] # NULL =>
        /\ node[u] \in Nodes /\ node[u] # n /\ status[node[u]] = "private"
        /\ \A v \in List!Threads : node[v] = node[u] => v = u
  BY DEF List!AddOwnsNode, List!ListTypes, List!NodeOrNull
<1>4. List!AddOwnsNode'
  <2>1. ASSUME NEW u \in List!Threads, u # t PROVE List!OwnsNode(u)'
    <3>1. List!OwnsNode(u)
      BY DEF List!AddOwnsNode
    <3> QED BY <1>1, <1>3, <2>1, <3>1 DEF OthersStay, List!OwnsNode
  <2> QED BY <1>1, <1>3, <2>1 DEF List!AddOwnsNode
<1>5. List!MarkedKeepsLink'
  <2>1. ASSUME NEW u \in List!Threads, u # t PROVE List!KeepsLink(u)'
    <3>1. List!KeepsLink(u)
      BY DEF List!MarkedKeepsLink
    <3>2. pc[u] \in {"find.help", "remove.cas", "find.pred"} /\ curr[u] # NULL =>
            curr[u] \in List!Guards(u)
      BY DEF List!Guards
    <3>3. \A m \in marked : m # n => m \in marked' /\ next'[m] = next[m]
      BY <1>1 DEF List!ListTypes
    <3> QED BY <2>1, <3>1, <3>2, <3>3 DEF OthersStay, List!KeepsLink
  <2> QED BY <2>1 DEF List!MarkedKeepsLink
<1>6. List!ReaderKeepsNodes'
  <2>1. \A m \in Nodes : status[m] \in {"linked", "retired"} =>
          \/ status'[m] \in {"linked", "retired"}
          \/ \A u \in List!Threads : m \notin List!Guards(u)
    BY <1>1
  <2>2. \A u \in List!Threads : \A m \in List!ToFree(u)' : List!Freeing(u)' => List!Freeing(u) /\ m \in List!ToFree(u)
    BY OthersUnlinked
  <2>3. GuardsGrow(t) /\ ReadersStay(t)
    BY DEF GuardsGrow, ReadersStay
  <2> QED BY <2>1, <2>2, <2>3, ReadersKept
<1> QED BY <1>2, <1>4, <1>5, <1>6

(* remove deletes the node it has unlinked, after the grace period.        *)
LEMMA RemoveFreeInv ==
  ASSUME List!IInv, NEW t \in List!Threads, List!RemoveFree(t)
  PROVE  List!IInv'
<1> USE HeapAssumption DEF List!IInv
<1> DEFINE n == curr[t]
<1>0. main # "destroyed" /\ Core /\ pc[t] = "remove.free"
  BY DEF Core, List!MainAlone, List!RemoveFree, List!GoOn, List!Goto
<1>g. List!Grace(List!SectionLabels)'
  BY ListKeepsGrace DEF List!Next, List!ThreadStep, List!CallStep
<1>1. /\ pc' = [pc EXCEPT ![t] = IF retired[t] = <<>> THEN "idle" ELSE "sync.load"]
      /\ op' = [op EXCEPT ![t] = IF retired[t] = <<>> THEN "none" ELSE @]
      /\ pred' = [pred EXCEPT ![t] = NULL] /\ curr' = [curr EXCEPT ![t] = NULL]
      /\ nxt' = [nxt EXCEPT ![t] = List!NoLink]
      /\ status' = [m \in Nodes |-> IF m \in {n} THEN "free" ELSE status[m]]
      /\ next' = [m \in Nodes |-> IF m \in {n} THEN NULL ELSE next[m]]
      /\ marked' = marked \ {n}
      /\ UNCHANGED <<head, node, oldReaders, main, retired>>
  BY DEF List!RemoveFree, List!GoOn, List!Goto, List!Delete, List!Forget,
         List!urcuVars, List!retiredVars
<1>2. List!ListTypes' /\ List!MainAlone'
  BY <1>0, <1>1, NoLinkType DEF List!ListTypes, List!MainAlone, List!Labels,
                                List!SyncLabels, List!NodeOrNull, List!Statuses
<1>3. OthersStay(t)
  BY <1>1 DEF List!ListTypes, OthersStay
<1>4. LocalsKept(t) /\ ~List!Unlinked(t)' /\ List!Guards(t)' = {}
  <2>1. List!OwnsNode(t)
    BY <1>0 DEF Core, List!AddOwnsNode
  <2> QED BY <1>0, <1>1, <2>1
             DEF List!ListTypes, LocalsKept, List!OwnsNode, List!HasToFree,
                 List!KeepsLink,
       List!SyncLabels, List!Unlinked, List!Guards
<1>5. n \in List!ToFree(t) /\ List!Freeing(t) /\ pc[t] \in List!FreeLabels
  BY <1>0 DEF Core, List!RetiredOnce, List!HasToFree, List!ToFree, List!Unlinked,
              List!Freeing, List!FreeLabels
<1>6. \A m \in List!ToFree(t)' : m \in List!ToFree(t)
  BY <1>1, <1>4 DEF List!ToFree
<1>7. /\ n \in Nodes /\ status[n] = "retired"
      /\ \A u \in List!Threads : n \notin List!Guards(u)
  BY <1>5, NobodyGuards
<1>8. List!ListShape' /\ List!AddOwnsNode' /\ List!MarkedKeepsLink' /\ List!ReaderKeepsNodes'
  BY <1>0, <1>1, <1>2, <1>3, <1>4, <1>5, <1>6, <1>7, FreeKeeps
<1>9. List!RetiredOnce'
  <2>1. List!Unlinked(t)
    BY <1>0 DEF Core, List!RetiredOnce, List!HasToFree, List!Unlinked
  <2>2. \A u \in List!Threads : List!Unlinked(u)' => List!Unlinked(u) /\ curr'[u] = curr[u] /\ u # t
    BY <1>3, <1>4, OthersUnlinked DEF OthersStay
  <2>3. \A u \in List!Threads : List!HasToFree(u)'
    BY <1>0, <1>1, <1>3, <1>4 DEF Core, List!RetiredOnce, OthersStay, List!HasToFree,
                                  LocalsKept
  <2>4. \A u \in List!Threads : \A i \in 1..Len(retired[u]) :
          retired[u][i] \in Nodes /\ retired[u][i] # n /\ status[retired[u][i]] = "retired"
    BY <1>0, <2>1 DEF Core, List!RetiredOnce, List!ListTypes
  <2>5. ASSUME NEW u \in List!Threads, List!Unlinked(u), u # t
        PROVE  curr[u] \in Nodes /\ curr[u] # n /\ status[curr[u]] = "retired"
    BY <1>0, <2>1, <2>5 DEF Core, List!RetiredOnce, List!ListTypes, List!NodeOrNull,
                            List!Unlinked
  <2> HIDE DEF n
  <2>6. \A m \in Nodes : m # n => status'[m] = status[m]
    BY <1>1
  <2> QED BY <1>0, <1>1, <2>2, <2>3, <2>4, <2>5, <2>6 DEF Core, List!RetiredOnce
<1> QED BY <1>2, <1>g, <1>8, <1>9

(* The nodes that find has unlinked are deleted one by one, after a grace  *)
(* period of their own.                                                    *)
LEMMA FreeInv ==
  ASSUME List!IInv, NEW t \in List!Threads, List!Free(t)
  PROVE  List!IInv'
<1> USE HeapAssumption DEF List!IInv
<1> DEFINE n == Head(retired[t])  left == Tail(retired[t])
<1>0. main # "destroyed" /\ Core /\ pc[t] = "free"
  BY DEF Core, List!MainAlone, List!Free
<1>g. List!Grace(List!SectionLabels)'
  BY ListKeepsGrace DEF List!Next, List!ThreadStep, List!CallStep
<1>1. /\ pc' = [pc EXCEPT ![t] = IF left = <<>> THEN "idle" ELSE "free"]
      /\ op' = [op EXCEPT ![t] = IF left = <<>> THEN "none" ELSE @]
      /\ status' = [m \in Nodes |-> IF m \in {n} THEN "free" ELSE status[m]]
      /\ next' = [m \in Nodes |-> IF m \in {n} THEN NULL ELSE next[m]]
      /\ marked' = marked \ {n}
      /\ retired' = [retired EXCEPT ![t] = left]
      /\ UNCHANGED <<head, node, pred, curr, nxt, oldReaders, main>>
  BY <1>0 DEF List!Free, List!GoOn, List!Goto, List!Delete, List!urcuVars,
              List!findLocals, List!ListTypes
<1>2. /\ retired[t] \in Seq(Nodes) /\ retired[t] # <<>> /\ curr[t] = NULL
      /\ n = retired[t][1] /\ 1 \in 1..Len(retired[t])
      /\ left \in Seq(Nodes) /\ Len(left) = Len(retired[t]) - 1
      /\ \A i \in 1..Len(left) : left[i] = retired[t][i + 1] /\ i + 1 \in 1..Len(retired[t])
  <2>1. retired[t] \in Seq(Nodes) /\ retired[t] # <<>> /\ curr[t] = NULL
    BY <1>0 DEF Core, List!RetiredOnce, List!HasToFree, List!ListTypes
  <2> QED BY <2>1
<1> HIDE DEF n, left
<1>3. List!ListTypes' /\ List!MainAlone'
  <2>1. retired' \in [List!Threads -> Seq(Nodes)]
    BY <1>1, <1>2 DEF List!ListTypes
  <2>2. /\ pc' \in [List!Threads -> List!Labels] /\ status' \in [Nodes -> List!Statuses]
        /\ next' \in [Nodes -> List!NodeOrNull] /\ marked' \subseteq Nodes
        /\ op' \in [List!Threads -> List!Operations \cup List!Results \cup {"none"}]
    BY <1>1 DEF List!ListTypes, List!Labels, List!FreeLabels, List!NodeOrNull,
                List!Statuses
  <2>3. List!MainAlone'
    BY <1>0, <1>1 DEF List!ListTypes, List!MainAlone
  <2> QED BY <1>1, <2>1, <2>2, <2>3 DEF List!ListTypes
<1>4. OthersStay(t)
  BY <1>1 DEF List!ListTypes, OthersStay
<1>5. LocalsKept(t) /\ ~List!Unlinked(t)' /\ List!Guards(t)' = {}
  <2>1. List!OwnsNode(t)
    BY <1>0 DEF Core, List!AddOwnsNode
  <2> QED BY <1>0, <1>1, <1>2, <2>1
             DEF List!ListTypes, LocalsKept, List!OwnsNode, List!HasToFree,
                 List!KeepsLink,
       List!SyncLabels, List!Unlinked, List!Guards
<1>6. n \in List!ToFree(t) /\ List!Freeing(t) /\ pc[t] \in List!FreeLabels
  BY <1>0, <1>2 DEF List!ToFree, List!Freeing, List!FreeLabels
<1>7. \A u \in List!Threads : retired'[u] = IF u = t THEN left ELSE retired[u]
  BY <1>1 DEF List!ListTypes
<1>8. \A m \in List!ToFree(t)' : m \in List!ToFree(t)
  <2>1. List!ToFree(t)' = {left[i] : i \in 1..Len(left)}
    BY <1>5, <1>7 DEF List!ToFree
  <2>2. \A i \in 1..Len(left) : left[i] \in {retired[t][j] : j \in 1..Len(retired[t])}
    BY <1>2
  <2> QED BY <2>1, <2>2 DEF List!ToFree
<1>9. /\ n \in Nodes /\ status[n] = "retired"
      /\ \A u \in List!Threads : n \notin List!Guards(u)
  BY <1>6, NobodyGuards
<1>10. List!ListShape' /\ List!AddOwnsNode' /\ List!MarkedKeepsLink' /\ List!ReaderKeepsNodes'
  BY <1>0, <1>1, <1>3, <1>4, <1>5, <1>6, <1>7, <1>8, <1>9, FreeKeeps
<1>11. List!RetiredOnce'
  <2>1. \A u, v \in List!Threads : \A i \in 1..Len(retired[u]) : \A j \in 1..Len(retired[v]) :
          retired[v][j] = retired[u][i] => v = u /\ j = i
    BY <1>0 DEF Core, List!RetiredOnce
  <2>2. \A u \in List!Threads : \A i \in 1..Len(retired[u]) :
          retired[u][i] \in Nodes /\ status[retired[u][i]] = "retired"
    BY <1>0 DEF Core, List!RetiredOnce, List!ListTypes
  <2>3. ASSUME NEW u \in List!Threads, NEW i \in 1..Len(retired'[u])
        PROVE  \E j \in 1..Len(retired[u]) :
                 /\ retired'[u][i] = retired[u][j] /\ retired[u][j] # n
                 /\ j = IF u = t THEN i + 1 ELSE i
    <3>1. CASE u = t
      BY <3>1, <1>2, <1>7, <2>1
    <3>2. CASE u # t
      BY <3>2, <1>2, <1>7, <2>1
    <3> QED BY <3>1, <3>2
  <2>4. \A u \in List!Threads : List!Unlinked(u)' => List!Unlinked(u) /\ curr'[u] = curr[u] /\ u # t
    BY <1>4, <1>5, OthersUnlinked DEF OthersStay
  <2>5. \A u \in List!Threads : List!HasToFree(u)'
    BY <1>0, <1>4, <1>5, <1>7 DEF Core, List!RetiredOnce, OthersStay, List!HasToFree,
                                  LocalsKept
  <2>6. ASSUME NEW u \in List!Threads, List!Unlinked(u)
        PROVE  /\ curr[u] \in Nodes /\ curr[u] # n /\ status[curr[u]] = "retired"
               /\ \A v \in List!Threads :
                    /\ List!Unlinked(v) /\ curr[v] = curr[u] => v = u
                    /\ \A j \in 1..Len(retired[v]) : retired[v][j] # curr[u]
    BY <1>0, <1>2, <2>6 DEF Core, List!RetiredOnce, List!ListTypes, List!NodeOrNull,
                            List!Unlinked
  <2>7. \A m \in Nodes : m # n => status'[m] = status[m]
    BY <1>1
  <2>8. ASSUME NEW u \in List!Threads, NEW i \in 1..Len(retired'[u])
        PROVE  /\ status'[retired'[u][i]] = "retired"
               /\ \A v \in List!Threads : \A j \in 1..Len(retired'[v]) :
                    retired'[v][j] = retired'[u][i] => v = u /\ j = i
    <3>1. PICK k \in 1..Len(retired[u]) :
            /\ retired'[u][i] = retired[u][k] /\ retired[u][k] # n
            /\ k = IF u = t THEN i + 1 ELSE i
      BY <2>3
    <3>2. status'[retired'[u][i]] = "retired"
      BY <2>2, <2>7, <3>1
    <3>3. ASSUME NEW v \in List!Threads, NEW j \in 1..Len(retired'[v]),
                 retired'[v][j] = retired'[u][i]
          PROVE  v = u /\ j = i
      <4>1. PICK l \in 1..Len(retired[v]) :
              /\ retired'[v][j] = retired[v][l] /\ retired[v][l] # n
              /\ l = IF v = t THEN j + 1 ELSE j
        BY <2>3
      <4>2. v = u /\ l = k
        BY <2>1, <3>1, <3>3, <4>1
      <4>3. Len(retired'[v]) \in Nat /\ Len(retired'[u]) \in Nat
        BY <1>3 DEF List!ListTypes
      <4> QED BY <3>1, <4>1, <4>2, <4>3
    <3> QED BY <3>2, <3>3
  <2>9. ASSUME NEW u \in List!Threads, List!Unlinked(u)'
        PROVE  /\ status'[curr'[u]] = "retired"
               /\ \A v \in List!Threads :
                    /\ List!Unlinked(v)' /\ curr'[v] = curr'[u] => v = u
                    /\ \A j \in 1..Len(retired'[v]) : retired'[v][j] # curr'[u]
    BY <2>3, <2>4, <2>6, <2>7, <2>9
  <2> QED BY <2>5, <2>8, <2>9 DEF List!RetiredOnce
<1> QED BY <1>3, <1>g, <1>10, <1>11

(* What the main thread does between the calls leaves all in place.        *)
LEMMA MainKeeps ==
  ASSUME Core, UNCHANGED <<status, next, head, marked, pc, pred, curr, nxt, node, op,
                           oldReaders, retired>>
  PROVE  Core'
<1>1. (List!ListShape <=> List!ListShape') /\ (List!AddOwnsNode <=> List!AddOwnsNode')
  BY DEF List!ListShape, List!AddOwnsNode, List!OwnsNode
<1>2. (List!RetiredOnce <=> List!RetiredOnce') /\ (List!MarkedKeepsLink <=> List!MarkedKeepsLink')
  BY DEF List!RetiredOnce, List!HasToFree, List!Unlinked, List!MarkedKeepsLink,
         List!KeepsLink
<1>3. List!ReaderKeepsNodes <=> List!ReaderKeepsNodes'
  BY DEF List!ReaderKeepsNodes, List!Guards, List!Freeing, List!ToFree, List!Unlinked
<1> QED BY <1>1, <1>2, <1>3 DEF Core

(* Filling, quitting and joining leave the list and who relies on it       *)
(* alone.                                                                  *)
LEMMA MainInv ==
  ASSUME List!IInv, List!Start \/ List!Quit \/ List!Join \/ UNCHANGED List!vars
  PROVE  List!IInv'
<1> USE DEF List!IInv
<1>1. /\ UNCHANGED <<status, next, head, marked, pc, pred, curr, nxt, node, op,
                     oldReaders, retired>>
      /\ main' \in List!MainStates
      /\ main' = "deleting" => \A t \in List!Threads : pc[t] = "exited"
      /\ main' = main \/ main' \notin {"destroyed", "undefined"}
      /\ main = "destroyed" <=> main' = "destroyed"
  BY DEF List!Start, List!StartThreads, List!Filling, List!Quit, List!QuitSignal,
         List!Join, List!JoinUndrained, List!MainStates,
     List!MainAlone, List!ListTypes, List!vars, List!heapVars, List!urcuVars,
     List!listVars, List!findLocals, List!callVars, List!retiredVars
<1>2. List!ListTypes'
  BY <1>1 DEF List!ListTypes
<1>3. List!MainAlone'
  BY <1>1 DEF List!MainAlone
<1>4. List!Grace(List!SectionLabels)'
  BY ListKeepsGrace DEF List!Next, List!MainStep
<1>5. Core => Core'
  BY <1>1, MainKeeps
<1> QED BY <1>1, <1>2, <1>3, <1>4, <1>5 DEF Core

(* The destructor deletes the chain from the head when no thread is left   *)
(* that could use it.                                                      *)
LEMMA ListDestroyInv ==
  ASSUME List!IInv, List!Destroy
  PROVE  List!IInv'
<1> USE HeapAssumption, ThreadsAssumption DEF List!IInv
<1>g. List!Grace(List!SectionLabels)'
  BY ListKeepsGrace DEF List!Next, List!MainStep
<1>1. /\ main = "deleting" /\ main' \in {"destroyed", "undefined"}
      /\ UNCHANGED <<marked, pc, pred, curr, nxt, node, op, oldReaders, retired>>
      /\ main' = "undefined" => UNCHANGED <<status, next, head>>
  BY DEF List!Destroy, List!heapVars, List!urcuVars, List!findLocals, List!callVars,
         List!retiredVars
<1>2. List!ListTypes'
  <2>1. /\ status' \in [Nodes -> List!Statuses] /\ next' \in [Nodes -> List!NodeOrNull]
        /\ head' \in List!NodeOrNull
    BY DEF List!Destroy, List!Delete, List!ListTypes, List!Statuses, List!NodeOrNull,
           List!heapVars
  <2>2. main' \in List!MainStates
    BY <1>1 DEF List!MainStates
  <2> QED BY <1>1, <2>1, <2>2 DEF List!ListTypes
<1>3. List!MainAlone'
  BY <1>1 DEF List!MainAlone
<1>4. main' = "undefined" => Core'
  BY <1>1, MainKeeps DEF Core
<1> QED BY <1>g, <1>1, <1>2, <1>3, <1>4 DEF Core

(* Every step preserves the invariant.                                     *)
LEMMA ListNextInv == List!IInv /\ [List!Next]_(List!vars) => List!IInv'
<1> SUFFICES ASSUME List!IInv, [List!Next]_(List!vars) PROVE List!IInv'
  OBVIOUS
<1>1. ASSUME NEW t \in List!Threads, List!ThreadStep(t) PROVE List!IInv'
  <2>1. CASE List!AddCall(t) \/ List!Call(t) \/ List!LockStep(t) \/ List!ThreadExit(t)
    BY <2>1, AddCallInv, ListCallInv, ListLockStepInv, ListLocalInv
       DEF ListLocalStep
  <2>2. CASE List!FindStep(t)
    BY <2>2, ListLocalInv, FindCheckInv, FindNextInv, FindAgainInv, FindMarkedInv,
       FindEndsInv, FindAdvancesInv, FindHelpInv DEF List!FindStep, ListLocalStep
  <2>3. CASE List!CallStep(t)
    BY <2>3, AddDiscardInv, AddCasInv, RemoveMarkInv, RemoveCasInv, ListLocalInv,
       UnlockInv, ListSyncInv, RemoveFreeInv, FreeInv
       DEF List!CallStep, ListLocalStep
  <2> QED BY <1>1, <2>1, <2>2, <2>3 DEF List!ThreadStep
<1>2. ASSUME List!MainStep \/ List!Finished \/ UNCHANGED List!vars PROVE List!IInv'
  BY <1>2, MainInv, ListDestroyInv DEF List!MainStep, List!Finished
<1> QED BY <1>1, <1>2 DEF List!Next

(* What the program accesses is allocated.                                 *)
LEMMA ListIsMemorySafe == List!IInv => List!MemorySafe
<1> SUFFICES ASSUME List!IInv,
                    NEW t \in List!Threads PROVE List!Accesses(t) \subseteq List!Allocated
  BY DEF List!MemorySafe
<1>1. main = "destroyed" => List!Accesses(t) = {}
  BY DEF List!IInv, List!MainAlone, List!Accesses
<1>2. List!Accesses(t) \subseteq List!Guards(t)
  BY DEF List!Accesses, List!Guards
<1>3. List!Guards(t) \subseteq Nodes
  BY LinkParts DEF List!Guards, List!IInv, List!ListTypes, List!NodeOrNull
<1>4. main # "destroyed" => List!Guards(t) \subseteq List!Allocated
  BY <1>3 DEF List!IInv, List!ReaderKeepsNodes, List!Allocated
<1> QED BY <1>1, <1>2, <1>4

(* Of a step of t only the guards of t can change.                         *)
LEMMA ListGuards ==
  ASSUME structure = "list", structure' = structure, List!Threads = Threads,
         NEW t \in List!Threads, OthersStay(t)
  PROVE  OnlyGuards(t, List!Guards(t)') /\ Guards(t) = List!Guards(t)
<1>1. \A u \in Threads : /\ Guards(u) = List!Guards(u)
                         /\ Guards(u)' = List!Guards(u)'
  BY DEF Guards, Of
<1>2. \A u \in Threads : u # t => List!Guards(u)' = List!Guards(u)
  BY OthersGuards
<1> QED BY <1>1, <1>2 DEF OnlyGuards

(* So a step that keeps some of them is a Release or a stutter, ...        *)
LEMMA ListReleases ==
  ASSUME structure = "list", structure' = structure, List!Threads = Threads,
         NEW t \in List!Threads, OthersStay(t), UNCHANGED status,
         List!Guards(t)' \subseteq List!Guards(t)
  PROVE  [SMR!Next]_(SMR!vars)
BY ListGuards, ReleaseMaps

(* ... one that adds a linked node is a Guard, ...                         *)
LEMMA ListRelies ==
  ASSUME structure = "list", structure' = structure, List!Threads = Threads,
         NEW t \in List!Threads, OthersStay(t), UNCHANGED status,
         NEW n \in Nodes, status[n] = "linked",
         List!Guards(t)' = List!Guards(t) \cup {n}
  PROVE  [SMR!Next]_(SMR!vars)
BY ListGuards, GuardMaps

(* ... and one that keeps them all and takes a node on in its life cycle   *)
(* is a step of that node.                                                 *)
LEMMA ListMoves ==
  ASSUME structure = "list", structure' = structure, List!Threads = Threads,
         NEW t \in List!Threads, OthersStay(t), List!Guards(t)' = List!Guards(t),
         NEW n \in Nodes, NEW from, NEW to, status[n] = from,
         status \in [Nodes -> List!Statuses], status' = [status EXCEPT ![n] = to],
         \/ from = "free" /\ to = "private"
         \/ from = "private" /\ to \in {"linked", "free"}
         \/ from = "linked" /\ to = "retired"
         \/ /\ from = "retired" /\ to = "free"
            /\ \A u \in List!Threads : n \notin List!Guards(u)
  PROVE  [SMR!Next]_(SMR!vars)
<1>1. GuardsUnchanged
  BY ListGuards DEF GuardsUnchanged, OnlyGuards
<1>2. SMR!Move({n}, from, to)
  BY <1>1, MoveMaps
<1>3. status'[n] # status[n]
  OBVIOUS
<1>4. from = "retired" => SMR!Unguarded(n)
  BY DEF Guards, Of, SMR!Unguarded
<1>5. SMR!Change(n)
  BY <1>2, <1>4 DEF SMR!Change, SMR!Allocate, SMR!Link, SMR!Unlink, SMR!Discard,
                    SMR!Reclaim
<1> QED BY <1>3, <1>5 DEF SMR!Next

(* A step after which the thread relies on no node is a Release or a       *)
(* stutter.                                                                *)
LEMMA LeavingMaps ==
  ASSUME structure = "list", structure' = structure, List!Threads = Threads,
         List!IInv, NEW t \in List!Threads,
         \/ List!Call(t) \/ List!LockStep(t) \/ List!FindHead(t) \/ List!FindMoved(t) \/ List!FindFollowsMarked(t)
         \/ List!RemoveUnlock(t) \/ List!Unlock(t) \/ List!Sync(t) \/ List!ThreadExit(t)
  PROVE  [SMR!Next]_(SMR!vars)
<1>1. UNCHANGED status /\ OthersStay(t) /\ List!Guards(t)' = {}
  <2> USE DEF List!IInv, List!ListTypes, OthersStay, List!Guards, List!heapVars,
              List!listVars, List!findLocals, List!callVars, List!Goto
  <2>1. CASE List!Call(t) \/ List!LockStep(t) \/ List!FindHead(t)
    BY <2>1 DEF List!Call, List!BeginCall, List!LockStep, List!ReadLock,
                List!LockLoad, List!LockStore, List!LockCheck, List!LockFix,
       List!FindHead, List!Follow
  <2>2. CASE List!FindMoved(t) \/ List!FindFollowsMarked(t)
    BY <2>2 DEF List!FindMoved, List!FindFollowsMarked, List!TryAgain, List!Forget
  <2>3. CASE List!RemoveUnlock(t) \/ List!Unlock(t)
    BY <2>3 DEF List!RemoveUnlock, List!Follow, List!Unlock, List!Forget, List!GoOn
  <2>4. CASE List!Sync(t) \/ List!ThreadExit(t)
    BY <2>4 DEF List!Sync, List!SynchronizeRCU, List!SyncLoad, List!SyncCas,
                List!SyncSpin, List!ThreadExit, List!LeaveLoop
  <2> QED BY <2>1, <2>2, <2>3, <2>4
<1> QED BY <1>1, ListReleases

(* The validation of the first node is a Guard, or a Release when it       *)
(* fails.                                                                  *)
LEMMA FindCheckMaps ==
  ASSUME structure = "list", structure' = structure, List!Threads = Threads,
         List!IInv, NEW t \in List!Threads, List!FindCheck(t)
  PROVE  [SMR!Next]_(SMR!vars)
<1>1. main # "destroyed" /\ pred[t] = NULL /\ List!Guards(t) = {} /\ UNCHANGED status
      /\ OthersStay(t)
  BY DEF List!FindCheck, List!Goto, List!IInv, List!MainAlone, List!ReaderKeepsNodes,
         List!Guards, OthersStay, List!ListTypes,
     List!TryAgain, List!Forget, List!listVars, List!findLocals, List!callVars,
     List!heapVars
<1>2. CASE List!PredIsCurr(t) /\ curr[t] # NULL
  <2>1. curr[t] \in Nodes /\ status[curr[t]] = "linked"
    BY <1>1, <1>2, CurrIsLinked DEF List!IInv
  <2>2. List!Guards(t)' = {curr[t]}
    BY <1>1, <1>2 DEF List!FindCheck, List!Goto, List!Guards, List!IInv,
                      List!ListTypes, List!listVars, List!findLocals
  <2> QED BY <1>1, <2>1, <2>2, ListRelies
<1>3. CASE ~(List!PredIsCurr(t) /\ curr[t] # NULL)
  <2>1. List!Guards(t)' = {}
    BY <1>1, <1>3 DEF List!FindCheck, List!Goto, List!Guards, List!IInv,
                      List!ListTypes, List!TryAgain, List!Forget,
       List!listVars, List!findLocals
  <2> QED BY <1>1, <2>1, ListReleases
<1> QED BY <1>2, <1>3

(* A step that goes on with some of the nodes it had is a Release or a     *)
(* stutter.                                                                *)
LEMMA FindEndsMap ==
  ASSUME structure = "list", structure' = structure, List!Threads = Threads,
         List!IInv, NEW t \in List!Threads, List!FindNext(t) \/ List!FindEnds(t) \/ List!FindAdvances(t)
  PROVE  [SMR!Next]_(SMR!vars)
<1>1. UNCHANGED status /\ OthersStay(t) /\ List!Guards(t)' \subseteq List!Guards(t)
  <2> USE DEF List!IInv, List!ListTypes, OthersStay, List!Guards, List!Goto
  <2>1. CASE List!FindNext(t)
    BY <2>1 DEF List!FindNext, List!FindReturns, List!AfterFind, List!DecidedBy,
                List!Forget
  <2>2. CASE List!FindEnds(t)
    BY <2>2 DEF List!FindEnds, List!FindReturns, List!AfterFind, List!DecidedBy,
                List!Forget
  <2>3. CASE List!FindAdvances(t)
    BY <2>3 DEF List!FindAdvances, List!Follow, List!heapVars, List!callVars
  <2> QED BY <2>1, <2>2, <2>3
<1> QED BY <1>1, ListReleases

(* The validation of the successor is a Guard when curr is linked and its  *)
(* link unchanged, a Release when not.                                     *)
LEMMA FindAgainMaps ==
  ASSUME structure = "list", structure' = structure, List!Threads = Threads,
         List!IInv, NEW t \in List!Threads, List!FindAgain(t)
  PROVE  [SMR!Next]_(SMR!vars)
<1> USE HeapAssumption
<1> DEFINE s == List!getUnmarked(nxt[t])
<1>1. main # "destroyed" /\ UNCHANGED status /\ OthersStay(t) /\ pc[t] = "find.again"
  BY DEF List!FindAgain, List!Goto, List!IInv, List!MainAlone, OthersStay, List!ListTypes,
     List!TryAgain, List!Forget, List!listVars, List!findLocals, List!callVars,
     List!heapVars
<1>2. CASE List!Link(curr[t]) = nxt[t] /\ ~List!isMarked(nxt[t]) /\ s # NULL
  <2>1. s \in Nodes /\ status[s] = "linked"
    <3>1. next[curr[t]] = s /\ curr[t] \notin marked
      BY <1>2, LinkRead DEF List!IInv
    <3>2. curr[t] \in Nodes /\ curr[t] \in List!Guards(t)
      BY <1>1 DEF List!IInv, List!MarkedKeepsLink, List!KeepsLink, List!ListTypes,
                  List!NodeOrNull, List!Guards
    <3>3. status[curr[t]] = "linked"
      BY <1>1, <3>1, <3>2 DEF List!IInv, List!ReaderKeepsNodes, List!ListShape
    <3> QED BY <1>1, <1>2, <3>1, <3>2, <3>3
               DEF List!IInv, List!ListShape, List!ListTypes, List!NodeOrNull
  <2>2. List!Guards(t)' = List!Guards(t) \cup {s}
    BY <1>1, <1>2 DEF List!FindAgain, List!Goto, List!Guards, List!IInv,
                      List!ListTypes, List!listVars, List!findLocals
  <2> QED BY <1>1, <2>1, <2>2, ListRelies
<1>3. CASE ~(List!Link(curr[t]) = nxt[t] /\ ~List!isMarked(nxt[t]) /\ s # NULL)
  <2>1. List!Guards(t)' \subseteq List!Guards(t)
    BY <1>1, <1>3 DEF List!FindAgain, List!Goto, List!Guards, List!IInv,
                      List!ListTypes, List!TryAgain, List!Forget,
       List!listVars, List!findLocals
  <2> QED BY <1>1, <2>1, ListReleases
<1> QED BY <1>2, <1>3

(* So it is where curr is seen marked and pred is compared again.          *)
LEMMA FindMarkedMaps ==
  ASSUME structure = "list", structure' = structure, List!Threads = Threads,
         List!IInv, NEW t \in List!Threads, List!FindMarked(t)
  PROVE  [SMR!Next]_(SMR!vars)
<1> USE HeapAssumption
<1> DEFINE s == List!getUnmarked(nxt[t])
<1>1. main # "destroyed" /\ UNCHANGED status /\ OthersStay(t) /\ pc[t] = "find.pred"
  BY DEF List!FindMarked, List!Goto, List!IInv, List!MainAlone, OthersStay,
         List!ListTypes,
     List!listVars, List!findLocals, List!callVars, List!heapVars
<1>2. List!Guards(t)' = List!Guards(t) \cup ({s} \ {NULL})
  BY <1>1 DEF List!FindMarked, List!Goto, List!Guards, List!IInv, List!ListTypes,
              List!listVars, List!findLocals
<1>3. s # NULL => s \in Nodes /\ status[s] = "linked"
  <2>1. curr[t] \in Nodes /\ status[curr[t]] = "linked"
    BY <1>1, CurrIsLinked DEF List!FindMarked, List!IInv, List!MarkedKeepsLink,
                              List!KeepsLink, List!Guards
  <2>2. next[curr[t]] = s
    BY <1>1 DEF List!FindMarked, List!IInv, List!MarkedKeepsLink, List!KeepsLink
  <2> QED BY <1>1, <2>1, <2>2
             DEF List!IInv, List!ListShape, List!ListTypes, List!NodeOrNull
<1> HIDE DEF s
<1>4. CASE s = NULL
  BY <1>1, <1>2, <1>4, ListReleases
<1>5. CASE s # NULL
  <2>1. List!Guards(t)' = List!Guards(t) \cup {s}
    BY <1>2, <1>5
  <2> QED BY <1>1, <1>3, <1>5, <2>1, ListRelies
<1> QED BY <1>4, <1>5

(* To start over is a Release.                                             *)
LEMMA RetryMaps ==
  ASSUME structure = "list", structure' = structure, List!Threads = Threads,
         List!IInv, NEW t \in List!Threads, List!TryAgain(t), pc' = [pc EXCEPT ![t] = "find.head"]
  PROVE  [SMR!Next]_(SMR!vars)
<1>1. UNCHANGED status /\ OthersStay(t) /\ List!Guards(t)' = {}
  BY DEF List!TryAgain, List!Forget, List!IInv, OthersStay, List!ListTypes,
         List!Guards, List!heapVars, List!callVars
<1> QED BY <1>1, ListReleases

(* The exchange that takes curr out is an Unlink, and a Release or a       *)
(* stutter when it fails.                                                  *)
LEMMA UnlinkMaps ==
  ASSUME structure = "list", structure' = structure, List!Threads = Threads,
         List!IInv, NEW t \in List!Threads, List!FindHelp(t) \/ List!RemoveCas(t)
  PROVE  [SMR!Next]_(SMR!vars)
<1> USE HeapAssumption
<1>1. CASE List!PredIsCurr(t)
  <2>1. /\ status' = [status EXCEPT ![curr[t]] = "retired"]
        /\ OthersStay(t) /\ List!Guards(t)' = List!Guards(t)
    BY <1>1 DEF List!FindHelp, List!RemoveCas, List!Goto, List!IInv, OthersStay,
                List!ListTypes, List!Guards, List!findLocals,
       List!callVars
  <2>2. main # "destroyed" /\ pc[t] \in {"find.help", "remove.cas"}
    BY DEF List!FindHelp, List!RemoveCas, List!IInv, List!MainAlone
  <2>3. pred[t] \in List!Guards(t) \cup {NULL} /\ curr[t] # NULL
    BY <2>2 DEF List!Guards, List!IInv, List!MarkedKeepsLink, List!KeepsLink
  <2>4. curr[t] \in Nodes /\ status[curr[t]] = "linked"
    BY <1>1, <2>2, <2>3, CurrIsLinked DEF List!IInv
  <2> QED BY <2>1, <2>4, ListMoves DEF List!IInv, List!ListTypes
<1>2. CASE ~List!PredIsCurr(t)
  <2>1. CASE List!FindHelp(t)
    BY <1>2, <2>1, RetryMaps DEF List!FindHelp, List!Goto
  <2>2. CASE List!RemoveCas(t)
    <3>1. UNCHANGED status /\ OthersStay(t) /\ List!Guards(t)' = List!Guards(t)
      BY <1>2, <2>2 DEF List!RemoveCas, List!Goto, List!IInv, OthersStay,
                        List!ListTypes, List!Guards, List!findLocals,
         List!callVars
    <3> QED BY <3>1, ListReleases
  <2> QED BY <2>1, <2>2
<1> QED BY <1>1, <1>2

(* The start of an add is an Allocate.                                     *)
LEMMA AddCallMaps ==
  ASSUME structure = "list", structure' = structure, List!Threads = Threads,
         List!IInv, NEW t \in List!Threads, List!AddCall(t)
  PROVE  [SMR!Next]_(SMR!vars)
<1>1. PICK n \in Nodes :
        /\ status[n] = "free" /\ status' = [status EXCEPT ![n] = "private"]
        /\ pc[t] = "idle" /\ pc' = [pc EXCEPT ![t] = "lock.load"]
        /\ node' = [node EXCEPT ![t] = n] /\ op' = [op EXCEPT ![t] = "add"]
        /\ UNCHANGED <<pred, curr, nxt>>
  BY DEF List!AddCall, List!Goto, List!BeginCall, List!New, List!findLocals
<1>2. OthersStay(t) /\ List!Guards(t)' = List!Guards(t)
  BY <1>1 DEF List!IInv, OthersStay, List!ListTypes, List!Guards
<1> QED BY <1>1, <1>2, ListMoves DEF List!IInv, List!ListTypes

(* The delete of a node that was never linked is a Discard.                *)
LEMMA AddDiscardMaps ==
  ASSUME structure = "list", structure' = structure, List!Threads = Threads,
         List!IInv, NEW t \in List!Threads, List!AddDiscard(t)
  PROVE  [SMR!Next]_(SMR!vars)
<1>1. node[t] \in Nodes /\ status[node[t]] = "private"
  BY DEF List!AddDiscard, List!Goto, List!IInv, List!MainAlone, List!AddOwnsNode,
         List!OwnsNode, List!ListTypes, List!NodeOrNull
<1>2. OthersStay(t) /\ List!Guards(t)' = List!Guards(t)
  BY DEF List!AddDiscard, List!Goto, List!IInv, OthersStay, List!ListTypes,
         List!Guards, List!findLocals
<1>3. status' = [status EXCEPT ![node[t]] = "free"]
  BY <1>1 DEF List!AddDiscard, List!Delete, List!IInv, List!ListTypes
<1> QED BY <1>1, <1>2, <1>3, ListMoves DEF List!IInv, List!ListTypes

(* The exchange of an add is a Link, and a Release when it fails.          *)
LEMMA AddCasMaps ==
  ASSUME structure = "list", structure' = structure, List!Threads = Threads,
         List!IInv, NEW t \in List!Threads, List!AddCas(t)
  PROVE  [SMR!Next]_(SMR!vars)
<1>1. CASE List!PredIsCurr(t)
  <2>1. node[t] \in Nodes /\ status[node[t]] = "private"
    BY DEF List!AddCas, List!IInv, List!MainAlone, List!AddOwnsNode, List!OwnsNode,
           List!ListTypes, List!NodeOrNull
  <2>2. /\ OthersStay(t) /\ List!Guards(t)' = List!Guards(t)
        /\ status' = [status EXCEPT ![node[t]] = "linked"]
    BY <1>1 DEF List!AddCas, List!Goto, List!Decides, List!IInv, OthersStay,
                List!ListTypes, List!Guards, List!findLocals
  <2> QED BY <2>1, <2>2, ListMoves DEF List!IInv, List!ListTypes
<1>2. CASE ~List!PredIsCurr(t)
  BY <1>2, RetryMaps DEF List!AddCas, List!Goto
<1> QED BY <1>1, <1>2

(* To mark a node changes no life cycle.                                   *)
LEMMA RemoveMarkMaps ==
  ASSUME structure = "list", structure' = structure, List!Threads = Threads,
         List!IInv, NEW t \in List!Threads, List!RemoveMark(t)
  PROVE  [SMR!Next]_(SMR!vars)
<1>1. CASE List!Link(curr[t]) = <<List!getUnmarked(nxt[t]), FALSE>>
  <2>1. UNCHANGED status /\ OthersStay(t) /\ List!Guards(t)' = List!Guards(t)
    BY <1>1 DEF List!RemoveMark, List!Goto, List!Decides, List!IInv, OthersStay,
                List!ListTypes, List!Guards, List!findLocals,
       List!heapVars
  <2> QED BY <2>1, ListReleases
<1>2. CASE List!Link(curr[t]) # <<List!getUnmarked(nxt[t]), FALSE>>
  BY <1>2, RetryMaps DEF List!RemoveMark, List!Goto
<1> QED BY <1>1, <1>2

(* A delete after the grace period is a Reclaim of an unguarded node.      *)
LEMMA FreeMaps ==
  ASSUME structure = "list", structure' = structure, List!Threads = Threads,
         List!IInv, NEW t \in List!Threads, List!RemoveFree(t) \/ List!Free(t)
  PROVE  [SMR!Next]_(SMR!vars)
<1> DEFINE n == IF pc[t] = "free" THEN Head(retired[t]) ELSE curr[t]
<1>1. /\ pc[t] \in List!FreeLabels /\ OthersStay(t) /\ List!Guards(t)' = List!Guards(t)
      /\ status' = [m \in Nodes |-> IF m \in {n} THEN "free" ELSE status[m]]
  <2> USE DEF List!Goto, List!GoOn, List!Delete, List!IInv, OthersStay,
              List!ListTypes, List!Guards, List!FreeLabels
  <2>1. CASE List!RemoveFree(t)
    BY <2>1 DEF List!RemoveFree, List!Forget
  <2>2. CASE List!Free(t)
    BY <2>2 DEF List!Free, List!findLocals
  <2> QED BY <2>1, <2>2
<1>2. n \in List!ToFree(t)
  <2>1. List!HasToFree(t) /\ retired[t] \in Seq(Nodes)
    BY <1>1 DEF List!IInv, List!MainAlone, List!RetiredOnce, List!ListTypes,
                List!FreeLabels
  <2>2. CASE pc[t] = "free"
    <3>1. retired[t] # <<>>
      BY <2>1, <2>2 DEF List!HasToFree
    <3>2. 1 \in 1..Len(retired[t]) /\ n = retired[t][1]
      BY <2>1, <2>2, <3>1
    <3> QED BY <3>2 DEF List!ToFree
  <2>3. CASE pc[t] # "free"
    BY <1>1, <2>1, <2>3 DEF List!HasToFree, List!ToFree, List!Unlinked, List!FreeLabels
  <2> QED BY <2>2, <2>3
<1> HIDE DEF n
<1>3. n \in Nodes /\ status[n] = "retired" /\ \A u \in List!Threads : n \notin List!Guards(u)
  BY <1>1, <1>2, NobodyGuards
<1>4. status' = [status EXCEPT ![n] = "free"]
  BY <1>1, <1>3 DEF List!IInv, List!ListTypes
<1> QED BY <1>1, <1>3, <1>4, ListMoves DEF List!IInv, List!ListTypes

(* The destructor takes the Destroy step, or nothing is said of it.        *)
LEMMA ListDestroyMaps ==
  ASSUME structure = "list", structure' = structure, List!Threads = Threads,
         List!IInv, List!Destroy
  PROVE  [SMR!Next]_(SMR!vars)
<1>1. \A t \in Threads : Guards(t) = {} /\ Guards(t)' = {}
  <2>1. \A t \in Threads : List!Guards(t) = {} /\ List!Guards(t)' = {}
    BY DEF List!Destroy, List!IInv, List!MainAlone, List!Guards
  <2> QED BY <2>1 DEF Guards, Of
<1>2. CASE UNCHANGED status
  BY <1>1, <1>2 DEF SMR!vars
<1>3. CASE status' # status
  <2> DEFINE c == List!ChainSet(head)
  <2>1. status' = [n \in Nodes |-> IF n \in c THEN "free" ELSE status[n]]
    BY <1>3 DEF List!Destroy, List!Delete, List!heapVars
  <2> HIDE DEF c
  <2>2. SMR!Destroy
    BY <1>1, <2>1 DEF SMR!Destroy
  <2> QED BY <2>2 DEF SMR!Next
<1> QED BY <1>2, <1>3

(* What the main thread does between the calls is a stutter.               *)
LEMMA ListMainMaps ==
  ASSUME structure = "list", structure' = structure, List!Threads = Threads,
         List!Start \/ List!Quit \/ List!Join \/ UNCHANGED List!vars
  PROVE  UNCHANGED SMR!vars
<1>1. UNCHANGED <<status, pc, pred, curr, nxt>>
  BY DEF List!Start, List!Quit, List!Join, List!JoinUndrained, List!QuitSignal,
     List!StartThreads, List!vars, List!heapVars, List!listVars, List!findLocals
<1>2. \A t \in Threads : List!Guards(t)' = List!Guards(t)
  BY <1>1 DEF List!Guards
<1>3. GuardsUnchanged
  BY <1>2 DEF Guards, Of, GuardsUnchanged
<1> QED BY <1>1, <1>3, StutterMaps

(* Every step of the list is a step of SafeReclamation or a stutter.       *)
LEMMA ListStepMaps ==
  ASSUME structure = "list", structure' = structure, List!Threads = Threads,
         List!IInv, [List!Next]_(List!vars)
  PROVE  [SMR!Next]_(SMR!vars)
<1>1. ASSUME NEW t \in List!Threads, List!ThreadStep(t) PROVE [SMR!Next]_(SMR!vars)
  BY <1>1, LeavingMaps, FindCheckMaps, FindEndsMap, FindAgainMaps, FindMarkedMaps,
     UnlinkMaps, AddCallMaps, AddDiscardMaps, AddCasMaps, RemoveMarkMaps, FreeMaps
     DEF List!ThreadStep, List!FindStep, List!CallStep
<1>2. ASSUME List!MainStep \/ List!Finished \/ UNCHANGED List!vars
      PROVE  [SMR!Next]_(SMR!vars)
  BY <1>2, ListDestroyMaps, ListMainMaps DEF List!MainStep, List!Finished
<1> QED BY <1>1, <1>2 DEF List!Next

(* The structure begins as SafeReclamation does.                           *)
LEMMA ListInitMaps ==
  ASSUME structure = "list", List!Threads = Threads, List!Init
  PROVE  SMR!Init
BY DEF List!Init, List!ListInit, SMR!Init, Guards, Of, List!Guards

-----------------------------------------------------------------------------
(* The stack: where every node is.                                         *)

(* What the shape of the stack says of the linked nodes as a set.          *)
LEMMA StackLinked ==
  ASSUME Stack!IInv
  PROVE  /\ Linked \in SUBSET Nodes /\ Within(next, Linked)
         /\ top # NULL => top \in Linked
         /\ Stack!Linked = Linked /\ Stack!Threads = Threads
         /\ pc = [u \in Threads |-> pc[u]]
BY DEF Stack!IInv, Stack!StackTypes, Stack!HeapTypeOK, Stack!NodeOrNull,
       Stack!StackShape, Stack!Linked, Within, Linked, Stack!Threads, Threads

(* A step that changes the status of no node and links none of them anew.  *)
LEMMA StackStays ==
  ASSUME Stack!IInv, Stack!Placed, UNCHANGED status,
         Stack!Destroyed => Stack!Destroyed', top' = top,
         \A n \in Nodes : status[n] = "linked" => next'[n] = next[n],
         \A n \in Nodes, t \in Threads : Stack!Holds(t, n) => Stack!Holds(t, n)',
         Stack!Counts'
  PROVE  Stack!Placed'
<1>1. Stack!Linked' = Linked /\ Stack!Linked = Linked /\ Stack!Threads = Threads
  BY DEF Stack!Linked, Linked, Stack!Threads, Threads
<1>2. ASSUME ~Stack!Destroyed' PROVE Stack!Reaches(top, next, Stack!Linked)'
  <2>1. Reaches(top, next, Linked)
    BY <1>1, <1>2 DEF Stack!Placed, Stack!Reaches, Reaches, Stack!Closed, Closed
  <2>2. \A n \in Linked : next'[n] = next[n]
    BY DEF Linked
  <2>3. Reaches(top, next', Linked)
    BY <2>1, <2>2, ReachesWithin, StackLinked
  <2> QED BY <1>1, <2>3 DEF Stack!Reaches, Reaches, Stack!Closed, Closed
<1> QED BY <1>1, <1>2 DEF Stack!Placed

(* Every step of a thread counts the nodes it pops and frees.              *)
LEMMA StackCounts ==
  ASSUME Stack!IInv, Stack!Counts, NEW t \in Threads, Stack!ThreadStep(t)
  PROVE  Stack!Counts'
<1> USE DEF Stack!Counts, Stack!CountedLabels, Stack!PushLabels, Stack!LockLabels,
            Stack!SyncLabels, Stack!Goto, Stack!locals
<1>0. pc = [u \in Threads |-> pc[u]] /\ Stack!Threads = Threads
      /\ node = [u \in Threads |-> node[u]]
  BY DEF Stack!IInv, Stack!StackTypes, Stack!Threads, Threads
<1>1. CASE Stack!PushCall(t) \/ Stack!PushStep(t)
  BY <1>0, <1>1
     DEF Stack!PushCall, Stack!PushStep, Stack!PushLoad, Stack!PushCas, Stack!PushUnlock
<1>2. CASE Stack!LockStep(t)
  BY <1>0, <1>2 DEF Stack!LockStep, Stack!ReadLock, Stack!LockLoad, Stack!LockStore,
     Stack!LockCheck, Stack!LockFix
<1>3. CASE Stack!PopSync(t)
  BY <1>0, <1>3 DEF Stack!PopSync, Stack!SynchronizeRCU, Stack!SyncLoad, Stack!SyncCas,
     Stack!SyncSpin
<1>4. CASE Stack!PopLoad(t) \/ Stack!PopEmpty(t) \/ Stack!PopCheck(t) \/ Stack!PopRetry(t)
           \/ Stack!PopNext(t) \/ Stack!PopCas(t)
  BY <1>0, <1>4 DEF Stack!PopLoad, Stack!PopEmpty, Stack!PopCheck, Stack!PopRetry,
     Stack!PopNext, Stack!PopCas
<1>5. CASE Stack!PopCall(t) \/ Stack!ThreadExit(t) \/ Stack!PopItem(t) \/ Stack!PopUnlock(t)
           \/ Stack!PopFree(t)
  BY <1>0, <1>5 DEF Stack!PopCall, Stack!ThreadExit, Stack!LeaveLoop, Stack!PopItem,
     Stack!PopUnlock, Stack!PopFree
<1> QED BY <1>1, <1>2, <1>3, <1>4, <1>5 DEF Stack!ThreadStep, Stack!PopStep

(* The steps that change no node's place.                                  *)
LEMMA StackLoadsPlace ==
  ASSUME Stack!IInv, Stack!Placed, NEW t \in Threads, Stack!ThreadStep(t),
         ~Stack!PushCall(t), ~Stack!PushCas(t), ~Stack!PopCas(t), ~Stack!PopFree(t)
  PROVE  Stack!Placed'
<1>1. Stack!Counts'
  BY StackCounts DEF Stack!Placed
<1>2. /\ UNCHANGED <<status, top>>
      /\ \A n \in Nodes : status[n] = "linked" => next'[n] = next[n]
      /\ Stack!Destroyed => Stack!Destroyed'
  <2>1. CASE Stack!PushLoad(t)
    BY <2>1 DEF Stack!PushLoad, Stack!Goto, Stack!Destroyed, Stack!IInv, Stack!StackTypes,
       Stack!HeapTypeOK, Stack!PushOwnsNode, Stack!Pushing, Stack!PushLabels,
       Stack!Threads, Threads
  <2>2. CASE ~Stack!PushLoad(t)
    BY <2>2 DEF Stack!ThreadStep, Stack!PushStep, Stack!PopStep, Stack!PushUnlock,
       Stack!PopCall, Stack!LockStep, Stack!PopLoad, Stack!PopEmpty, Stack!PopCheck,
       Stack!PopRetry, Stack!PopNext, Stack!PopItem, Stack!PopUnlock, Stack!PopSync,
       Stack!ThreadExit, Stack!LeaveLoop, Stack!ReturnItem, Stack!Destroyed,
       Stack!heapVars
  <2> QED BY <2>1, <2>2
<1>3. ASSUME NEW n \in Nodes, NEW u \in Threads, Stack!Holds(u, n)
      PROVE  Stack!Holds(u, n)'
  <2> USE <1>3, HeapAssumption, StackLinked
          DEF Stack!Holds, Stack!Goto, Stack!SyncLabels, Stack!locals
  <2>1. node = [w \in Threads |-> node[w]] /\ temp = [w \in Threads |-> temp[w]]
    BY DEF Stack!IInv, Stack!StackTypes, Stack!Threads, Threads
  <2>2. CASE Stack!PushLoad(t) \/ Stack!PushUnlock(t) \/ Stack!PopCall(t) \/ Stack!ThreadExit(t)
    BY <2>1, <2>2
       DEF Stack!PushLoad, Stack!PushUnlock, Stack!PopCall, Stack!ThreadExit,
           Stack!LeaveLoop
  <2>3. CASE Stack!LockStep(t)
    BY <2>1, <2>3 DEF Stack!LockStep, Stack!ReadLock, Stack!LockLoad, Stack!LockStore,
       Stack!LockCheck, Stack!LockFix
  <2>4. CASE Stack!PopSync(t)
    BY <2>1, <2>4 DEF Stack!PopSync, Stack!SynchronizeRCU, Stack!SyncLoad, Stack!SyncCas,
       Stack!SyncSpin
  <2>5. CASE Stack!PopLoad(t) \/ Stack!PopEmpty(t) \/ Stack!PopCheck(t) \/ Stack!PopRetry(t)
             \/ Stack!PopNext(t) \/ Stack!PopItem(t) \/ Stack!PopUnlock(t)
    BY <2>1, <2>5 DEF Stack!PopLoad, Stack!PopEmpty, Stack!PopCheck, Stack!PopRetry,
       Stack!PopNext, Stack!PopItem, Stack!PopUnlock
  <2> QED BY <2>2, <2>3, <2>4, <2>5 DEF Stack!ThreadStep, Stack!PushStep, Stack!PopStep
<1> QED BY <1>1, <1>2, <1>3, StackStays

(* A new node is in the hands of its push.                                 *)
LEMMA StackPushCallPlaces ==
  ASSUME Stack!IInv, Stack!Placed, NEW t \in Threads, Stack!PushCall(t)
  PROVE  Stack!Placed'
<1>1. PICK n \in Nodes, i \in Items :
        Stack!New(n, i) /\ node' = [node EXCEPT ![t] = n]
  BY DEF Stack!PushCall
<1>2. /\ UNCHANGED <<top, main, temp>> /\ pc[t] = "idle"
      /\ pc' = [pc EXCEPT ![t] = "lock.load"]
  BY DEF Stack!PushCall, Stack!Goto
<1>3. /\ status[n] = "free" /\ status' = [status EXCEPT ![n] = "private"]
      /\ Linked' = Linked /\ \A m \in Linked : next'[m] = next[m]
  BY <1>1 DEF Stack!New, Linked, Stack!IInv, Stack!StackTypes, Stack!HeapTypeOK
<1>4. ASSUME ~Stack!Destroyed' PROVE Stack!Reaches(top, next, Stack!Linked)'
  <2>1. Reaches(top, next, Linked)
    BY <1>2, <1>4, StackLinked
       DEF Stack!Placed, Stack!Reaches, Reaches, Stack!Closed, Closed, Stack!Destroyed
  <2>2. Reaches(top, next', Linked)
    BY <1>3, <2>1, ReachesWithin, StackLinked
  <2> QED BY <1>2, <1>3, <2>2 DEF Stack!Reaches, Reaches, Stack!Closed, Closed,
          Stack!Linked, Linked
<1>5. Stack!Counts'
  BY StackCounts DEF Stack!ThreadStep, Stack!Placed
<1>6. /\ node[t] = NULL /\ Stack!Threads = Threads
      /\ pc \in [Threads -> Stack!Labels] /\ node \in [Threads -> Stack!NodeOrNull]
  BY <1>2, StackLinked DEF Stack!Placed, Stack!Counts, Stack!PushLabels, Stack!LockLabels,
     Stack!IInv, Stack!StackTypes
<1>7. /\ Stack!Holds(t, n)'
      /\ \A m \in Nodes, u \in Threads : Stack!Holds(u, m) => Stack!Holds(u, m)'
  BY <1>1, <1>2, <1>6, HeapAssumption DEF Stack!Holds, Stack!SyncLabels
<1> QED BY <1>3, <1>4, <1>5, <1>6, <1>7
        DEF Stack!Placed, Stack!IInv, Stack!StackTypes, Stack!HeapTypeOK

(* The exchange of a push hands its node over to the stack.                *)
LEMMA StackPushCasPlaces ==
  ASSUME Stack!IInv, Stack!Placed, NEW t \in Threads, Stack!PushCas(t)
  PROVE  Stack!Placed'
<1>0. Stack!Counts'
  BY StackCounts DEF Stack!ThreadStep, Stack!PushStep, Stack!Placed
<1>1. /\ pc \in [Threads -> Stack!Labels] /\ node \in [Threads -> Stack!NodeOrNull]
      /\ temp \in [Threads -> Stack!NodeOrNull] /\ status \in [Nodes -> Stack!Statuses]
      /\ Stack!Threads = Threads
  BY StackLinked DEF Stack!IInv, Stack!StackTypes, Stack!HeapTypeOK
<1>2. CASE top # temp[t]
  <2>1. /\ UNCHANGED <<status, top, next>> /\ (Stack!Destroyed => Stack!Destroyed')
    BY <1>2 DEF Stack!PushCas, Stack!Destroyed
  <2>2. ASSUME NEW n \in Nodes, NEW u \in Threads, Stack!Holds(u, n)
        PROVE  Stack!Holds(u, n)'
    BY <1>1, <1>2, <2>2 DEF Stack!PushCas, Stack!Holds, Stack!Goto, Stack!SyncLabels
  <2> QED BY <1>0, <2>1, <2>2, StackStays
<1>3. CASE top = temp[t]
  <2> DEFINE n == node[t]
  <2>1. /\ UNCHANGED <<next, main, node>> /\ temp' = [temp EXCEPT ![t] = NULL]
        /\ pc[t] = "push.cas" /\ pc' = [pc EXCEPT ![t] = "push.unlock"]
        /\ top' = n /\ status' = [status EXCEPT ![n] = "linked"]
    BY <1>3 DEF Stack!PushCas, Stack!Goto
  <2>2. n \in Nodes /\ status[n] = "private" /\ next[n] = top
    BY <1>1, <1>3, <2>1
       DEF Stack!IInv, Stack!PushOwnsNode, Stack!PushLabels, Stack!Pushing, Stack!NodeOrNull
  <2>3. Linked' = Linked \cup {n}
    BY <1>1, <2>1, <2>2 DEF Linked
  <2>4. ASSUME ~Stack!Destroyed' PROVE Stack!Reaches(top, next, Stack!Linked)'
    <3>1. Reaches(top, next, Linked)
      BY <2>1, <2>4, StackLinked
         DEF Stack!Placed, Stack!Reaches, Reaches, Stack!Closed, Closed, Stack!Destroyed
    <3>2. Reaches(n, next, Linked \cup {n})
      BY <2>2, <3>1, ReachesPushed, StackLinked
    <3> HIDE DEF n
    <3> QED BY <2>1, <2>3, <3>2 DEF Stack!Reaches, Reaches, Stack!Closed, Closed,
            Stack!Linked, Linked
  <2>5. ASSUME NEW m \in Nodes, NEW u \in Threads, Stack!Holds(u, m), m # n
        PROVE  Stack!Holds(u, m)'
    BY <1>1, <2>1, <2>5 DEF Stack!Holds, Stack!SyncLabels
  <2> QED BY <1>0, <1>1, <2>1, <2>2, <2>4, <2>5 DEF Stack!Placed
<1> QED BY <1>2, <1>3

(* The exchange of a pop takes the first node into its hands.              *)
LEMMA StackPopCasPlaces ==
  ASSUME Stack!IInv, Stack!Placed, NEW t \in Threads, Stack!PopCas(t)
  PROVE  Stack!Placed'
<1>0. Stack!Counts'
  BY StackCounts DEF Stack!ThreadStep, Stack!PopStep, Stack!Placed
<1>1. /\ pc \in [Threads -> Stack!Labels] /\ node \in [Threads -> Stack!NodeOrNull]
      /\ temp \in [Threads -> Stack!NodeOrNull] /\ status \in [Nodes -> Stack!Statuses]
      /\ Stack!Threads = Threads
  BY StackLinked DEF Stack!IInv, Stack!StackTypes, Stack!HeapTypeOK
<1>2. CASE top # temp[t]
  <2>1. /\ UNCHANGED <<status, top, next>> /\ (Stack!Destroyed => Stack!Destroyed')
    BY <1>2 DEF Stack!PopCas, Stack!Destroyed
  <2>2. ASSUME NEW n \in Nodes, NEW u \in Threads, Stack!Holds(u, n)
        PROVE  Stack!Holds(u, n)'
    BY <1>1, <1>2, <2>2 DEF Stack!PopCas, Stack!Holds, Stack!Goto, Stack!SyncLabels
  <2> QED BY <1>0, <2>1, <2>2, StackStays
<1>3. CASE top = temp[t]
  <2>1. /\ UNCHANGED <<next, main, node, temp>>
        /\ pc[t] = "pop.cas" /\ pc' = [pc EXCEPT ![t] = "pop.item"]
        /\ top' = nxt[t] /\ status' = [status EXCEPT ![top] = "retired"]
    BY <1>3 DEF Stack!PopCas, Stack!Goto
  <2>2. top \in Linked /\ nxt[t] = next[top]
    BY <1>1, <1>3, <2>1, HeapAssumption, StackLinked
       DEF Stack!IInv, Stack!ReaderKeepsNode
  <2>3. Linked' = Linked \ {top}
    BY <1>1, <2>1, <2>2 DEF Linked
  <2>4. ASSUME ~Stack!Destroyed' PROVE Stack!Reaches(top, next, Stack!Linked)'
    <3>1. Reaches(top, next, Linked)
      BY <2>1, <2>4, StackLinked
         DEF Stack!Placed, Stack!Reaches, Reaches, Stack!Closed, Closed, Stack!Destroyed
    <3>2. Reaches(next[top], next, Linked \ {top})
      BY <2>2, <3>1, ReachesPopped, StackLinked
    <3> QED BY <2>1, <2>2, <2>3, <3>2 DEF Stack!Reaches, Reaches, Stack!Closed, Closed,
            Stack!Linked, Linked
  <2>6. ASSUME NEW n, n = top PROVE Stack!Holds(t, n)'
    BY <1>1, <1>3, <2>1, <2>6 DEF Stack!Holds
  <2>7. ASSUME NEW n \in Nodes, NEW u \in Threads, Stack!Holds(u, n)
        PROVE  Stack!Holds(u, n)'
    BY <1>1, <2>1, <2>7 DEF Stack!Holds, Stack!SyncLabels
  <2> QED BY <1>0, <1>1, <2>1, <2>2, <2>4, <2>6, <2>7 DEF Stack!Placed, Linked
<1> QED BY <1>2, <1>3

(* A pop frees the node it holds.                                          *)
LEMMA StackPopFreePlaces ==
  ASSUME Stack!IInv, Stack!Placed, NEW t \in Threads, Stack!PopFree(t)
  PROVE  Stack!Placed'
<1> DEFINE c == temp[t]
<1>0. Stack!Counts'
  BY StackCounts DEF Stack!ThreadStep, Stack!PopStep, Stack!Placed
<1>1. /\ pc \in [Threads -> Stack!Labels] /\ node \in [Threads -> Stack!NodeOrNull]
      /\ temp \in [Threads -> Stack!NodeOrNull] /\ status \in [Nodes -> Stack!Statuses]
      /\ Stack!Threads = Threads
  BY StackLinked DEF Stack!IInv, Stack!StackTypes, Stack!HeapTypeOK
<1>2. /\ UNCHANGED <<top, node>> /\ temp' = [temp EXCEPT ![t] = NULL]
      /\ pc[t] = "pop.free" /\ pc' = [pc EXCEPT ![t] = "idle"]
      /\ (Stack!Destroyed => Stack!Destroyed') /\ Stack!Delete({c})
  BY DEF Stack!PopFree, Stack!Goto, Stack!Destroyed, Stack!ReturnItem
<1>3. c \in Nodes /\ status[c] = "retired"
  BY <1>1, <1>2 DEF Stack!IInv, Stack!PoppedByOne, Stack!Popped
<1>4. \A m \in Nodes : m # c => status'[m] = status[m] /\ next'[m] = next[m]
  BY <1>2 DEF Stack!Delete
<1>5. status'[c] = "free"
  BY <1>2, <1>3 DEF Stack!Delete
<1>6. Linked' = Linked /\ \A m \in Linked : next'[m] = next[m]
  BY <1>3, <1>4, <1>5 DEF Linked
<1>7. ASSUME ~Stack!Destroyed' PROVE Stack!Reaches(top, next, Stack!Linked)'
  <2>1. Reaches(top, next, Linked)
    BY <1>2, <1>7, StackLinked
       DEF Stack!Placed, Stack!Reaches, Reaches, Stack!Closed, Closed, Stack!Destroyed
  <2>2. Reaches(top, next', Linked)
    BY <1>6, <2>1, ReachesWithin, StackLinked
  <2> QED BY <1>2, <1>6, <2>2 DEF Stack!Reaches, Reaches, Stack!Closed, Closed,
          Stack!Linked, Linked
<1>8. ASSUME NEW m \in Nodes, NEW u \in Threads, Stack!Holds(u, m), m # c
      PROVE  Stack!Holds(u, m)'
  BY <1>1, <1>2, <1>8 DEF Stack!Holds, Stack!SyncLabels
<1> QED BY <1>0, <1>1, <1>4, <1>5, <1>7, <1>8 DEF Stack!Placed

(* The destructor deletes the node at the top; nobody has another one.     *)
LEMMA StackDestroyPlaces ==
  ASSUME Stack!IInv, Stack!Placed, Stack!Destroy
  PROVE  Stack!Placed'
<1>1. /\ main = "deleting" /\ Stack!Destroyed'
      /\ UNCHANGED <<pc, node, temp, retired_nodes_count>>
      /\ Stack!Delete({top} \cap Nodes)
  BY DEF Stack!Destroy, Stack!DeleteStructure, Stack!Destroyed, Stack!locals
<1>2. Stack!Counts'
  BY <1>1 DEF Stack!Placed, Stack!Counts
<1>3. Stack!Threads = Threads /\ \A t \in Threads : pc[t] \in {"idle", "exited"}
  BY <1>1, StackLinked DEF Stack!IInv, Stack!MainAlone
<1>4. \A n \in Nodes, t \in Threads : ~Stack!Holds(t, n)
  BY <1>3, HeapAssumption
     DEF Stack!Holds, Stack!Placed, Stack!Counts, Stack!PushLabels, Stack!LockLabels,
         Stack!SyncLabels
<1>5. \A n \in Nodes : status'[n] \notin {"private", "retired"}
  BY <1>1, <1>3, <1>4 DEF Stack!Delete, Stack!Placed
<1> QED BY <1>1, <1>2, <1>5 DEF Stack!Placed

(* Every step keeps every node in its place.                               *)
LEMMA StackNextPlaces ==
  ASSUME Stack!IInv, Stack!Placed, [Stack!Next]_(Stack!vars)
  PROVE  Stack!Placed'
<1>1. Stack!Threads = Threads
  BY StackLinked
<1>2. ASSUME NEW t \in Threads, Stack!ThreadStep(t) PROVE Stack!Placed'
  BY <1>2, StackLoadsPlace, StackPushCallPlaces, StackPushCasPlaces,
     StackPopCasPlaces, StackPopFreePlaces
<1>3. ASSUME Stack!Quit \/ Stack!Join \/ UNCHANGED Stack!vars
      PROVE  Stack!Placed'
  <2>1. /\ UNCHANGED <<status, top, next, node, temp, retired_nodes_count>>
        /\ Stack!Destroyed => Stack!Destroyed'
    BY <1>3 DEF Stack!Quit, Stack!Join, Stack!QuitSignal, Stack!JoinThreads, Stack!vars,
       Stack!heapVars, Stack!locals, Stack!Destroyed
  <2>2. \/ UNCHANGED pc
        \/ \A t \in Threads : pc[t] = "exited" /\ pc'[t] \in {"idle", "exited"}
    BY <1>1, <1>3, ThreadsAssumption DEF Stack!Quit, Stack!Join, Stack!QuitSignal,
       Stack!JoinThreads, Stack!vars, Stack!IInv, Stack!StackTypes, Threads
  <2>3. \A n \in Nodes, t \in Threads : Stack!Holds(t, n) => Stack!Holds(t, n)'
    BY <1>1, <2>1, <2>2, HeapAssumption
       DEF Stack!Holds, Stack!Placed, Stack!Counts, Stack!PushLabels,
       Stack!LockLabels, Stack!SyncLabels
  <2>4. Stack!Counts'
    BY <1>1, <2>1, <2>2 DEF Stack!Placed, Stack!Counts, Stack!CountedLabels,
       Stack!PushLabels, Stack!LockLabels, Stack!SyncLabels
  <2> QED BY <2>1, <2>3, <2>4, StackStays
<1> QED BY <1>1, <1>2, <1>3, StackDestroyPlaces
           DEF Stack!Next, Stack!MainStep, Stack!Finished

(* The constructor links the sentinel.                                     *)
LEMMA StackInitPlaced == Stack!Init => Stack!Placed
<1> SUFFICES ASSUME Stack!Init PROVE Stack!Placed
  OBVIOUS
<1>1. PICK s \in Nodes : Stack!HeapWithSentinel(s) /\ top = s
  BY DEF Stack!Init
<1>2. Stack!Linked = {s} /\ \A n \in Nodes : status[n] \in {"linked", "free"}
  BY <1>1 DEF Stack!HeapWithSentinel, Stack!Linked
<1>3. Stack!Reaches(top, next, Stack!Linked)
  BY <1>1, <1>2, HeapAssumption DEF Stack!Reaches, Stack!Closed
<1>4. Stack!Counts
  BY DEF Stack!Init, Stack!Counts, Stack!BenchmarkInit, Stack!CountedLabels,
     Stack!SyncLabels
<1> QED BY <1>2, <1>3, <1>4 DEF Stack!Placed

-----------------------------------------------------------------------------
(* The stack: the destructor leaves nothing behind.                        *)

(* Only the sentinel has no item, and it is the last node.                 *)
LEMMA SentinelLast ==
  ASSUME Stack!IInv, Stack!Drained, [Stack!Next]_(Stack!vars)
  PROVE  \A n \in Nodes : item'[n] = NULL =>
           status'[n] # "private" /\ (status'[n] = "linked" => next'[n] = NULL)
<1>0. /\ status \in [Nodes -> Stack!Statuses] /\ next \in [Nodes -> Stack!NodeOrNull]
      /\ item \in [Nodes -> Items \cup {NULL}] /\ node \in [Stack!Threads -> Stack!NodeOrNull]
  BY DEF Stack!IInv, Stack!StackTypes, Stack!HeapTypeOK
<1>1. CASE UNCHANGED <<status, next, item>>
  BY <1>1 DEF Stack!Drained
<1>2. ASSUME NEW t \in Stack!Threads, Stack!PushCall(t)
      PROVE  \A n \in Nodes : item'[n] = NULL =>
           status'[n] # "private" /\ (status'[n] = "linked" => next'[n] = NULL)
  BY <1>0, <1>2, HeapAssumption DEF Stack!PushCall, Stack!New, Stack!Drained
<1>3. ASSUME NEW t \in Stack!Threads, Stack!PushLoad(t) \/ Stack!PushCas(t)
      PROVE  \A n \in Nodes : item'[n] = NULL =>
           status'[n] # "private" /\ (status'[n] = "linked" => next'[n] = NULL)
  <2>1. node[t] \in Nodes /\ status[node[t]] = "private"
    BY <1>0, <1>3 DEF Stack!PushLoad, Stack!PushCas, Stack!Goto, Stack!IInv,
       Stack!PushOwnsNode, Stack!PushLabels, Stack!Pushing, Stack!NodeOrNull
  <2> QED BY <1>0, <1>3, <2>1 DEF Stack!PushLoad, Stack!PushCas, Stack!Drained
<1>4. ASSUME NEW t \in Stack!Threads, Stack!PopCas(t)
      PROVE  \A n \in Nodes : item'[n] = NULL =>
           status'[n] # "private" /\ (status'[n] = "linked" => next'[n] = NULL)
  BY <1>0, <1>4 DEF Stack!PopCas, Stack!Drained
<1>5. ASSUME NEW S, Stack!Delete(S)
      PROVE  \A n \in Nodes : item'[n] = NULL =>
           status'[n] # "private" /\ (status'[n] = "linked" => next'[n] = NULL)
  BY <1>0, <1>5 DEF Stack!Delete, Stack!Drained
<1> QED
  BY <1>1, <1>2, <1>3, <1>4, <1>5 DEF Stack!Next, Stack!ThreadStep, Stack!PushStep,
     Stack!PopStep, Stack!MainStep, Stack!Finished, Stack!vars, Stack!heapVars,
     Stack!PushUnlock, Stack!PopCall, Stack!LockStep, Stack!PopLoad, Stack!PopEmpty,
     Stack!PopCheck, Stack!PopRetry, Stack!PopNext, Stack!PopItem, Stack!PopUnlock,
     Stack!PopSync, Stack!PopFree, Stack!ThreadExit, Stack!Quit, Stack!Join, Stack!Destroy

(* A pop of the main thread that gets nothing has found the stack empty or *)
(* taken the sentinel out.                                                 *)
LEMMA StackStepDrains ==
  ASSUME Stack!IInv, Stack!Drained, retData \in [Stack!Threads -> Items \cup {NULL}],
         0 \in Stack!Threads, Stack!ThreadStep(0), main = "draining",
         Stack!PopsNothing(0)' \/ main' # "draining"
  PROVE  top' = NULL
<1> USE DEF Stack!Goto, Stack!PopsNothing, Stack!CountedLabels, Stack!SyncLabels,
            Stack!LockLabels
<1>1. /\ pc \in [Stack!Threads -> Stack!Labels]
      /\ temp \in [Stack!Threads -> Stack!NodeOrNull]
  BY DEF Stack!IInv, Stack!StackTypes
<1>2. CASE Stack!PushCall(0) \/ Stack!PopCall(0) \/ Stack!PushStep(0) \/ Stack!ThreadExit(0)
  BY <1>1, <1>2 DEF Stack!PushCall, Stack!PopCall, Stack!PushStep, Stack!PushLoad,
     Stack!PushCas, Stack!PushUnlock, Stack!ThreadExit, Stack!LeaveLoop, Stack!Calling
<1>3. CASE Stack!LockStep(0)
  BY <1>1, <1>3 DEF Stack!LockStep, Stack!ReadLock, Stack!LockLoad, Stack!LockStore,
     Stack!LockCheck, Stack!LockFix
<1>4. CASE Stack!PopSync(0)
  BY <1>1, <1>4 DEF Stack!PopSync, Stack!SynchronizeRCU, Stack!SyncLoad, Stack!SyncCas,
     Stack!SyncSpin, Stack!locals, Stack!Drained
<1>5. CASE Stack!PopCas(0)
  <2>1. /\ top = temp[0] /\ pc[0] = "pop.cas" /\ top' = nxt[0] /\ item' = item
        /\ temp' = temp /\ pc'[0] = "pop.item" /\ main' = main
    BY <1>1, <1>5 DEF Stack!PopCas
  <2>2. status[top] = "linked" /\ top \in Nodes /\ nxt[0] = next[top]
    BY <2>1, HeapAssumption DEF Stack!IInv, Stack!ReaderKeepsNode, Stack!StackShape
  <2>3. item[top] = NULL
    BY <2>1
  <2> QED BY <2>1, <2>2, <2>3 DEF Stack!Drained
<1>6. CASE Stack!PopItem(0)
  BY <1>1, <1>6 DEF Stack!PopItem, Stack!Drained
<1>7. CASE Stack!PopLoad(0) \/ Stack!PopEmpty(0) \/ Stack!PopCheck(0) \/ Stack!PopRetry(0)
           \/ Stack!PopNext(0) \/ Stack!PopUnlock(0) \/ Stack!PopFree(0)
  BY <1>1, <1>7 DEF Stack!PopLoad, Stack!PopEmpty, Stack!PopCheck, Stack!PopRetry,
     Stack!PopNext, Stack!PopUnlock, Stack!PopFree, Stack!ReturnItem, Stack!locals,
     Stack!Drained
<1> QED BY <1>2, <1>3, <1>4, <1>5, <1>6, <1>7 DEF Stack!ThreadStep, Stack!PopStep

(* After the join only thread 0 runs, until the stack is drained.          *)
LEMMA StackRuns ==
  ASSUME Stack!IInv, NEW t \in Stack!Threads, Stack!ThreadStep(t)
  PROVE  \/ main \notin {"draining", "deleting", "destroyed"} /\ main' = main
         \/ t = 0 /\ main = "draining" /\ main' \in {"draining", "deleting"}
<1>1. main' = main \/ Stack!ReturnItem(TRUE) \/ Stack!ReturnItem(retData[t] = NULL)
  BY DEF Stack!ThreadStep, Stack!PushCall, Stack!PopCall, Stack!LockStep, Stack!PushStep,
     Stack!PushLoad, Stack!PushCas, Stack!PushUnlock, Stack!PopStep, Stack!PopLoad,
     Stack!PopEmpty, Stack!PopCheck, Stack!PopRetry, Stack!PopNext, Stack!PopCas,
     Stack!PopItem, Stack!PopUnlock, Stack!PopSync, Stack!PopFree, Stack!ThreadExit,
     Stack!LeaveLoop
<1>2. pc[t] # "exited" /\ (pc[t] = "idle" => main \in {"sleeping", "draining", "joining"})
  BY DEF Stack!ThreadStep, Stack!PushCall, Stack!PopCall, Stack!LockStep, Stack!PushStep,
     Stack!PushLoad, Stack!PushCas, Stack!PushUnlock, Stack!PopStep, Stack!PopLoad,
     Stack!PopEmpty, Stack!PopCheck, Stack!PopRetry, Stack!PopNext, Stack!PopCas,
     Stack!PopItem, Stack!PopUnlock, Stack!PopSync, Stack!PopFree, Stack!ThreadExit,
     Stack!LeaveLoop, Stack!Goto, Stack!Calling, Stack!DrainingAs,
     Stack!ReadLock, Stack!LockLoad, Stack!LockStore, Stack!LockCheck, Stack!LockFix,
     Stack!SynchronizeRCU, Stack!SyncLoad, Stack!SyncCas, Stack!SyncSpin
<1> QED BY <1>1, <1>2 DEF Stack!ReturnItem, Stack!IInv, Stack!MainAlone

(* The destructor finds nothing to delete.                                 *)
LEMMA StackDestroyDrains ==
  ASSUME Stack!IInv, Stack!Placed, Stack!Drained, Stack!Destroy
  PROVE  Stack!Allocated' = {} /\ top' = NULL
<1>1. /\ main = "deleting" /\ top = NULL /\ top' = NULL
      /\ Stack!Delete({top} \cap Nodes)
  BY DEF Stack!Destroy, Stack!DeleteStructure, Stack!Drained
<1>2. Stack!Linked = {}
  <2>1. Reaches(NULL, next, Linked)
    BY <1>1, StackLinked
       DEF Stack!Placed, Stack!Reaches, Reaches, Stack!Closed, Closed, Stack!Destroyed
  <2>2. Closed({}, NULL, next)
    BY DEF Closed
  <2> QED BY <2>1, <2>2, StackLinked DEF Reaches
<1>3. \A t \in Stack!Threads, n \in Nodes : ~Stack!Holds(t, n)
  BY <1>1, HeapAssumption, StackLinked
     DEF Stack!Holds, Stack!Placed, Stack!Counts, Stack!IInv,
     Stack!MainAlone, Stack!PushLabels, Stack!LockLabels, Stack!SyncLabels
<1>4. status \in [Nodes -> Stack!Statuses]
  BY DEF Stack!IInv, Stack!StackTypes, Stack!HeapTypeOK
<1>5. \A n \in Nodes : status'[n] = "free"
  BY <1>1, <1>2, <1>3, <1>4 DEF Stack!Delete, Stack!Placed, Stack!Linked, Stack!Statuses
<1> QED BY <1>1, <1>5 DEF Stack!Allocated

(* Every step keeps what the destructor relies on.                         *)
LEMMA StackNextDrained ==
  ASSUME Stack!IInv, Stack!Placed, Stack!Drained, [Stack!Next]_(Stack!vars),
         retData \in [Stack!Threads -> Items \cup {NULL}]
  PROVE  Stack!Drained'
<1>1. 0 \in Stack!Threads /\ pc \in [Stack!Threads -> Stack!Labels]
  BY ThreadsAssumption DEF Stack!Threads, Stack!IInv, Stack!StackTypes
<1>2. ASSUME NEW t \in Stack!Threads, Stack!ThreadStep(t)
      PROVE  Stack!Drained'
  <2>1. CASE main \notin {"draining", "deleting", "destroyed"} /\ main' = main
    BY <2>1, SentinelLast DEF Stack!Drained, Stack!Destroyed
  <2>2. CASE t = 0 /\ main = "draining" /\ main' \in {"draining", "deleting"}
    BY <1>1, <1>2, <2>2, SentinelLast, StackStepDrains DEF Stack!Drained, Stack!Destroyed
  <2> QED BY <1>2, <2>1, <2>2, StackRuns
<1>3. CASE Stack!Quit \/ Stack!Join
  BY <1>1, <1>3, SentinelLast
     DEF Stack!Quit, Stack!QuitSignal, Stack!Join, Stack!JoinThreads,
     Stack!Drained, Stack!Destroyed, Stack!PopsNothing, Stack!CountedLabels,
     Stack!SyncLabels
<1>4. CASE Stack!Destroy
  BY <1>4, SentinelLast, StackDestroyDrains
     DEF Stack!Drained, Stack!Destroy, Stack!DeleteStructure, Stack!Destroyed
<1>5. CASE UNCHANGED Stack!vars
  BY <1>5 DEF Stack!vars, Stack!heapVars, Stack!locals, Stack!Drained, Stack!Destroyed,
     Stack!Allocated, Stack!PopsNothing
<1> QED BY <1>2, <1>3, <1>4, <1>5 DEF Stack!Next, Stack!MainStep, Stack!Finished

(* At first there is nothing to drain.                                     *)
LEMMA StackInitDrained == Stack!Init => Stack!Drained
<1> SUFFICES ASSUME Stack!Init PROVE Stack!Drained
  OBVIOUS
<1>1. PICK s \in Nodes : Stack!HeapWithSentinel(s) /\ top = s
  BY DEF Stack!Init
<1> QED BY <1>1
           DEF Stack!HeapWithSentinel, Stack!Init, Stack!BenchmarkInit, Stack!Drained,
        Stack!Destroyed

-----------------------------------------------------------------------------
(* The stack: what the places are for.                                     *)

(* Counting is the same inside the module of the stack.                    *)
LEMMA StackCardinality == \A S : Stack!Cardinality(S) = Cardinality(S)
BY DEF Stack!Cardinality, Cardinality

(* Nobody shares a node, and none is lost.                                 *)
LEMMA StackPlacedOwned ==
  ASSUME Stack!IInv, Stack!Placed, Stack!Drained
  PROVE  Stack!OneOwner
<1>1. ChainSet(top) = Linked
  <2>1. CASE ~Stack!Destroyed
    <3>1. Reaches(top, next, Linked)
      BY <2>1, StackLinked DEF Stack!Placed, Stack!Reaches, Reaches, Stack!Closed, Closed
    <3> QED BY <3>1, ChainIsLinked, StackLinked
  <2>2. CASE Stack!Destroyed
    <3>1. top = NULL /\ Linked = {}
      BY <2>2 DEF Stack!Drained, Stack!Destroyed, Stack!Allocated, Linked
    <3>2. Reaches(top, next, Linked)
      BY <3>1 DEF Reaches
    <3> QED BY <3>2, ChainIsLinked, StackLinked
  <2> QED BY <2>1, <2>2
<1>2. Stack!ChainSet(top) = ChainSet(top) /\ Stack!Threads = Threads
  BY StackLinked DEF Stack!ChainSet, ChainSet, Stack!Closed, Closed
<1>3. Stack!Straight(Linked, top)
  BY DEF Stack!Straight, Linked, Stack!IInv, Stack!StackShape
<1>4. ASSUME NEW n \in Nodes
      PROVE  Stack!InOnePlace(n, Linked, {}, {t \in Threads : Stack!Holds(t, n)})
  <2> DEFINE holders == {t \in Threads : Stack!Holds(t, n)}
  <2>1. ASSUME NEW t \in Threads, Stack!Holds(t, n)
        PROVE  holders = {t} /\ status[n] \in {"private", "retired"}
    BY <1>2, <2>1, HeapAssumption
       DEF Stack!Holds, Stack!IInv, Stack!PushOwnsNode, Stack!Pushing,
       Stack!PoppedByOne, Stack!Popped
  <2>2. /\ status[n] \in Statuses
        /\ status[n] \in {"private", "retired"} => \E t \in Threads : Stack!Holds(t, n)
    BY <1>2 DEF Stack!Placed, Stack!IInv, Stack!StackTypes, Stack!HeapTypeOK, Statuses,
       Stack!Statuses
  <2>3. n \in Linked <=> status[n] = "linked"
    BY DEF Linked
  <2>4. holders = {} \/ \E t \in Threads : Stack!Holds(t, n)
    OBVIOUS
  <2> HIDE DEF holders
  <2>5. InOnePlace(n, Linked, {}, holders)
    BY <2>1, <2>2, <2>3, <2>4, PlacedOnce
  <2>6. Stack!InOnePlace(n, Linked, {}, holders)
    BY <2>5, StackCardinality
       DEF Stack!InOnePlace, InOnePlace, Stack!Allocated, Allocated
  <2> QED BY <2>6 DEF holders
<1> QED BY <1>1, <1>2, <1>3, <1>4 DEF Stack!OneOwner, Stack!Drained

(* Once the threads have been joined no node is left to be freed.          *)
LEMMA StackReclaims ==
  ASSUME Stack!IInv, Stack!Placed
  PROVE  Stack!NoneUnreclaimed
BY HeapAssumption
   DEF Stack!NoneUnreclaimed, Stack!Placed, Stack!Counts, Stack!CountedLabels,
       Stack!Holds,
   Stack!SyncLabels, Stack!PushLabels, Stack!LockLabels

-----------------------------------------------------------------------------
(* The queue: who frees the dequeued nodes.                                *)

(* Types of what the counts are about.                                     *)
LEMMA QueueFunctions ==
  ASSUME Queue!IInv
  PROVE  /\ pc \in [Queue!Threads -> Queue!Labels] /\ Queue!Threads = Threads
         /\ node \in [Queue!Threads -> Queue!NodeOrNull]
         /\ temp \in [Queue!Threads -> Queue!NodeOrNull]
         /\ status \in [Nodes -> Queue!Statuses]
BY DEF Queue!IInv, Queue!QueueTypes, Queue!HeapTypeOK, Queue!Threads, Threads

(* Whoever runs, the structure stays: only thread 0, draining, ends that.  *)
LEMMA QueueRuns ==
  ASSUME Queue!IInv, NEW t \in Threads, Queue!ThreadStep(t)
  PROVE  \/ main \notin {"draining", "deleting", "destroyed"} /\ main' = main
         \/ t = 0 /\ main = "draining" /\ main' \in {"draining", "deleting"}
<1>1. main' = main \/ Queue!ReturnItem(TRUE) \/ Queue!ReturnItem(retData[t] = NULL)
  BY DEF Queue!ThreadStep, Queue!EnqCall, Queue!DeqCall, Queue!LockStep, Queue!Sync,
     Queue!EnqStep, Queue!EnqLoad, Queue!EnqCheck, Queue!EnqRetry, Queue!EnqNext,
     Queue!EnqRecheck, Queue!EnqHelp, Queue!EnqLink, Queue!EnqSwing, Queue!EnqUnlock,
     Queue!DeqStep, Queue!DeqLoad, Queue!DeqCheck, Queue!DeqRetry, Queue!DeqTail,
     Queue!DeqNext, Queue!DeqRecheck, Queue!DeqHelp, Queue!DeqCas, Queue!DeqItem,
     Queue!DeqUnlock, Queue!DeqFree, Queue!ThreadExit, Queue!LeaveLoop
<1>2. pc[t] # "exited" /\ (pc[t] = "idle" => main \in {"sleeping", "draining", "joining"})
  BY DEF Queue!ThreadStep, Queue!EnqCall, Queue!DeqCall, Queue!LockStep, Queue!Sync,
     Queue!EnqStep, Queue!EnqLoad, Queue!EnqCheck, Queue!EnqRetry, Queue!EnqNext,
     Queue!EnqRecheck, Queue!EnqHelp, Queue!EnqLink, Queue!EnqSwing, Queue!EnqUnlock,
     Queue!DeqStep, Queue!DeqLoad, Queue!DeqCheck, Queue!DeqRetry, Queue!DeqTail,
     Queue!DeqNext, Queue!DeqRecheck, Queue!DeqAbandon, Queue!DeqHelp, Queue!DeqCas,
     Queue!DeqItem, Queue!DeqUnlock, Queue!DeqFree, Queue!ThreadExit, Queue!LeaveLoop,
     Queue!Goto, Queue!Calling, Queue!DrainingAs,
     Queue!ReadLock, Queue!LockLoad, Queue!LockStore, Queue!LockCheck, Queue!LockFix,
     Queue!SynchronizeRCU, Queue!SyncLoad, Queue!SyncCas, Queue!SyncSpin
<1> QED BY <1>1, <1>2, QueueFunctions DEF Queue!ReturnItem, Queue!IInv, Queue!MainAlone

(* What a dequeue and an enqueue bring to the common end.                  *)
LEMMA QueueTemp ==
  ASSUME Queue!IInv, main # "destroyed", NEW t \in Threads
  PROVE  /\ pc[t] = "enq.unlock" => temp[t] = NULL
         /\ pc[t] \in {"deq.item", "deq.unlock", "deq.free"} => temp[t] \in Nodes
BY QueueFunctions DEF Queue!IInv, Queue!EnqOwnsNode, Queue!DequeuedByOne, Queue!Dequeued

(* Every step of a thread counts the nodes it dequeues and frees.          *)
LEMMA QueueCounts ==
  ASSUME Queue!IInv, Queue!Counts, NEW t \in Threads, Queue!ThreadStep(t)
  PROVE  Queue!Counts'
<1>9. main # "destroyed"
  BY QueueRuns
<1> USE QueueFunctions, HeapAssumption
        DEF Queue!Counts, Queue!IsCounted, Queue!EnqLabels, Queue!LockLabels,
            Queue!SyncLabels, Queue!Goto, Queue!locals
<1>1. CASE Queue!EnqCall(t) \/ Queue!DeqCall(t) \/ Queue!ThreadExit(t)
  BY <1>1 DEF Queue!EnqCall, Queue!DeqCall, Queue!ThreadExit, Queue!LeaveLoop
<1>2. CASE Queue!LockStep(t)
  BY <1>2 DEF Queue!LockStep, Queue!ReadLock, Queue!LockLoad, Queue!LockStore,
     Queue!LockCheck, Queue!LockFix
<1>3. CASE Queue!Sync(t)
  BY <1>3 DEF Queue!Sync, Queue!SynchronizeRCU, Queue!SyncLoad, Queue!SyncCas,
     Queue!SyncSpin
<1>4. CASE Queue!EnqLoad(t) \/ Queue!EnqCheck(t) \/ Queue!EnqRetry(t) \/ Queue!EnqNext(t)
           \/ Queue!EnqRecheck(t) \/ Queue!EnqHelp(t)
  BY <1>4 DEF Queue!EnqLoad, Queue!EnqCheck, Queue!EnqRetry, Queue!EnqNext,
     Queue!EnqRecheck, Queue!EnqHelp
<1>5. CASE Queue!EnqLink(t) \/ Queue!EnqSwing(t) \/ Queue!EnqUnlock(t)
  BY <1>5, <1>9, QueueTemp DEF Queue!EnqLink, Queue!EnqSwing, Queue!EnqUnlock
<1>6. CASE Queue!DeqLoad(t) \/ Queue!DeqCheck(t) \/ Queue!DeqRetry(t) \/ Queue!DeqTail(t)
           \/ Queue!DeqNext(t) \/ Queue!DeqHelp(t) \/ Queue!DeqCas(t)
  BY <1>6 DEF Queue!DeqLoad, Queue!DeqCheck, Queue!DeqRetry, Queue!DeqTail, Queue!DeqNext,
     Queue!DeqHelp, Queue!DeqCas
<1>8. CASE Queue!DeqRecheck(t)
  BY <1>8 DEF Queue!DeqRecheck, Queue!DeqAbandon
<1>7. CASE Queue!DeqItem(t) \/ Queue!DeqUnlock(t) \/ Queue!DeqFree(t)
  BY <1>7, <1>9, QueueTemp DEF Queue!DeqItem, Queue!DeqUnlock, Queue!DeqFree
<1> QED BY <1>1, <1>2, <1>3, <1>4, <1>5, <1>6, <1>7, <1>8
           DEF Queue!ThreadStep, Queue!EnqStep,
        Queue!DeqStep

(* A dequeue keeps its node until it has freed it.                         *)
LEMMA QueueKeepsDequeued ==
  ASSUME Queue!IInv, NEW t \in Threads, Queue!ThreadStep(t), NEW n \in Nodes,
         Queue!Dequeued(t), temp[t] = n
  PROVE  \/ Queue!Dequeued(t)' /\ temp'[t] = n
         \/ status'[n] = "free"
<1> USE QueueFunctions, HeapAssumption
        DEF Queue!Dequeued, Queue!SyncLabels, Queue!Goto, Queue!locals
<1>1. CASE Queue!Sync(t)
  BY <1>1 DEF Queue!Sync, Queue!SynchronizeRCU, Queue!SyncLoad, Queue!SyncCas,
     Queue!SyncSpin
<1>2. CASE Queue!DeqItem(t) \/ Queue!DeqUnlock(t)
  BY <1>2 DEF Queue!DeqItem, Queue!DeqUnlock
<1>3. CASE Queue!DeqFree(t)
  BY <1>3 DEF Queue!DeqFree, Queue!Delete
<1>4. CASE Queue!EnqCall(t) \/ Queue!DeqCall(t) \/ Queue!ThreadExit(t) \/ Queue!LockStep(t)
  BY <1>4 DEF Queue!EnqCall, Queue!DeqCall, Queue!ThreadExit, Queue!LeaveLoop,
     Queue!LockStep, Queue!ReadLock, Queue!LockLoad, Queue!LockStore, Queue!LockCheck,
     Queue!LockFix
<1>5. CASE Queue!EnqStep(t)
  BY <1>5 DEF Queue!EnqStep, Queue!EnqLoad, Queue!EnqCheck, Queue!EnqRetry, Queue!EnqNext,
     Queue!EnqRecheck, Queue!EnqHelp, Queue!EnqLink, Queue!EnqSwing, Queue!EnqUnlock
<1>6. CASE Queue!DeqLoad(t) \/ Queue!DeqCheck(t) \/ Queue!DeqRetry(t) \/ Queue!DeqTail(t)
           \/ Queue!DeqNext(t) \/ Queue!DeqRecheck(t) \/ Queue!DeqHelp(t) \/ Queue!DeqCas(t)
  BY <1>6 DEF Queue!DeqLoad, Queue!DeqCheck, Queue!DeqRetry, Queue!DeqTail, Queue!DeqNext,
     Queue!DeqRecheck, Queue!DeqAbandon, Queue!DeqHelp, Queue!DeqCas
<1> QED BY <1>1, <1>2, <1>3, <1>4, <1>5, <1>6 DEF Queue!ThreadStep, Queue!DeqStep

(* A node is retired by the dequeue that goes on to free it.               *)
LEMMA QueueRetires ==
  ASSUME Queue!IInv, NEW t \in Threads, Queue!ThreadStep(t), NEW n \in Nodes,
         status'[n] = "retired", status[n] # "retired"
  PROVE  Queue!Dequeued(t)' /\ temp'[t] = n
<1>1. CASE Queue!DeqCas(t)
  BY <1>1, QueueFunctions DEF Queue!DeqCas, Queue!Goto, Queue!Dequeued
<1>2. ASSUME NEW S, Queue!Delete(S) PROVE FALSE
  BY <1>2 DEF Queue!Delete
<1>3. ASSUME NEW m \in Nodes, NEW i, Queue!New(m, i) PROVE FALSE
  BY <1>3, QueueFunctions DEF Queue!New
<1>4. CASE Queue!EnqLink(t)
  BY <1>4, QueueFunctions DEF Queue!EnqLink
<1>5. status' # status
  OBVIOUS
<1> QED BY <1>1, <1>2, <1>3, <1>4, <1>5
        DEF Queue!ThreadStep, Queue!EnqStep, Queue!DeqStep, Queue!EnqCall, Queue!DeqCall,
            Queue!ThreadExit, Queue!LeaveLoop, Queue!LockStep, Queue!Sync, Queue!heapVars,
            Queue!EnqLoad, Queue!EnqCheck, Queue!EnqRetry, Queue!EnqNext,
            Queue!EnqRecheck, Queue!EnqHelp, Queue!EnqSwing, Queue!EnqUnlock,
            Queue!DeqLoad, Queue!DeqCheck, Queue!DeqRetry, Queue!DeqTail, Queue!DeqNext,
            Queue!DeqRecheck, Queue!DeqHelp, Queue!DeqItem, Queue!DeqUnlock, Queue!DeqFree

(* A step of one thread leaves the locals of the others alone.             *)
LEMMA QueueOthers ==
  ASSUME Queue!IInv, NEW t \in Threads, Queue!ThreadStep(t), NEW u \in Threads, u # t
  PROVE  pc'[u] = pc[u] /\ temp'[u] = temp[u] /\ node'[u] = node[u]
<1> USE QueueFunctions DEF Queue!Goto, Queue!locals
<1>1. CASE Queue!LockStep(t)
  BY <1>1 DEF Queue!LockStep, Queue!ReadLock, Queue!LockLoad, Queue!LockStore,
     Queue!LockCheck, Queue!LockFix
<1>2. CASE Queue!Sync(t)
  BY <1>2 DEF Queue!Sync, Queue!SynchronizeRCU, Queue!SyncLoad, Queue!SyncCas,
     Queue!SyncSpin
<1>3. CASE Queue!EnqStep(t)
  BY <1>3 DEF Queue!EnqStep, Queue!EnqLoad, Queue!EnqCheck, Queue!EnqRetry, Queue!EnqNext,
     Queue!EnqRecheck, Queue!EnqHelp, Queue!EnqLink, Queue!EnqSwing, Queue!EnqUnlock
<1>4. CASE Queue!DeqStep(t)
  BY <1>4 DEF Queue!DeqStep, Queue!DeqLoad, Queue!DeqCheck, Queue!DeqRetry, Queue!DeqTail,
     Queue!DeqNext, Queue!DeqRecheck, Queue!DeqAbandon, Queue!DeqHelp, Queue!DeqCas,
     Queue!DeqItem, Queue!DeqUnlock, Queue!DeqFree
<1> QED BY <1>1, <1>2, <1>3, <1>4
        DEF Queue!ThreadStep, Queue!EnqCall, Queue!DeqCall, Queue!ThreadExit, Queue!LeaveLoop

(* Every step keeps every dequeued node in the hands of its dequeue.       *)
LEMMA QueueNextPlaces ==
  ASSUME Queue!IInv, Queue!Placed, [Queue!Next]_(Queue!vars)
  PROVE  Queue!Placed'
<1>1. ASSUME NEW t \in Threads, Queue!ThreadStep(t) PROVE Queue!Placed'
  <2>1. Queue!Counts'
    BY <1>1, QueueCounts DEF Queue!Placed
  <2>2. ASSUME NEW n \in Nodes, status'[n] = "retired"
        PROVE  \E u \in Threads : Queue!Dequeued(u)' /\ temp'[u] = n
    <3>1. CASE status[n] # "retired"
      BY <1>1, <2>2, <3>1, QueueRetires
    <3>2. CASE status[n] = "retired"
      <4>1. PICK u \in Threads : Queue!Dequeued(u) /\ temp[u] = n
        BY <3>2, QueueFunctions DEF Queue!Placed
      <4>2. CASE u = t
        BY <1>1, <2>2, <4>1, <4>2, QueueKeepsDequeued
      <4>3. CASE u # t
        BY <1>1, <4>1, <4>3, QueueOthers DEF Queue!Dequeued
      <4> QED BY <4>2, <4>3
    <3> QED BY <3>1, <3>2
  <2> QED BY <2>1, <2>2, QueueFunctions DEF Queue!Placed
<1>2. CASE Queue!Quit \/ UNCHANGED Queue!vars
  BY <1>2 DEF Queue!Quit, Queue!QuitSignal, Queue!vars, Queue!heapVars, Queue!locals,
     Queue!Placed, Queue!Counts, Queue!Dequeued, Queue!IsCounted
<1>3. CASE Queue!Join
  <2>1. /\ \A t \in Threads : pc[t] = "exited" /\ pc'[t] \in {"idle", "exited"}
        /\ UNCHANGED <<status, temp, node, retired_nodes_count>>
    BY <1>3, QueueFunctions
       DEF Queue!Join, Queue!JoinThreads, Queue!heapVars, Queue!locals
  <2> QED BY <2>1, QueueFunctions DEF Queue!Placed, Queue!Counts, Queue!Dequeued,
          Queue!IsCounted, Queue!EnqLabels, Queue!LockLabels, Queue!SyncLabels
<1>4. CASE Queue!Destroy
  BY <1>4 DEF Queue!Destroy, Queue!DeleteStructure, Queue!Delete, Queue!locals,
     Queue!Placed, Queue!Counts, Queue!Dequeued, Queue!IsCounted
<1> QED BY <1>1, <1>2, <1>3, <1>4, QueueFunctions
        DEF Queue!Next, Queue!MainStep, Queue!Finished

(* At first nothing has been dequeued.                                     *)
LEMMA QueueInitPlaced == Queue!Init => Queue!Placed
BY DEF Queue!Init, Queue!HeapWithSentinel, Queue!BenchmarkInit, Queue!Placed,
       Queue!Counts, Queue!IsCounted, Queue!SyncLabels

(* Once the threads have been joined no node is left to be freed.          *)
LEMMA QueueReclaims ==
  ASSUME Queue!IInv, Queue!Placed
  PROVE  Queue!NoneUnreclaimed
BY DEF Queue!NoneUnreclaimed, Queue!Placed, Queue!Counts, Queue!IsCounted,
       Queue!Dequeued, Queue!SyncLabels

-----------------------------------------------------------------------------
(* The list: where every node is.                                          *)

(* What the shape of the list says of the linked nodes as a set.           *)
LEMMA ListLinked ==
  ASSUME List!IInv, main # "destroyed"
  PROVE  /\ Linked \in SUBSET Nodes /\ Within(next, Linked)
         /\ head # NULL => head \in Linked
         /\ List!Linked = Linked
BY DEF List!IInv, List!ListTypes, List!NodeOrNull, List!ListShape, List!Linked, Within,
       Linked

(* The types of what the places are about.                                 *)
LEMMA ListFunctions ==
  ASSUME List!IInv
  PROVE  /\ pc \in [List!Threads -> List!Labels]
         /\ op \in [List!Threads -> List!Operations \cup List!Results \cup {"none"}]
         /\ node \in [List!Threads -> List!NodeOrNull]
         /\ curr \in [List!Threads -> List!NodeOrNull]
         /\ retired \in [List!Threads -> Seq(Nodes)]
         /\ status \in [Nodes -> List!Statuses]
BY DEF List!IInv, List!ListTypes

(* No thread runs any more once the list is to be deleted.                 *)
LEMMA ListRuns ==
  ASSUME List!IInv, NEW t \in List!Threads, List!ThreadStep(t)
  PROVE  main \notin {"deleting", "destroyed", "undefined"} /\ main' = main
<1>1. main' = main
  BY DEF List!ThreadStep, List!AddCall, List!Call, List!LockStep, List!ThreadExit,
     List!LeaveLoop, List!FindStep, List!FindHead, List!FindCheck, List!FindNext,
     List!FindAgain, List!FindMoved, List!FindMarked, List!FindEnds, List!FindAdvances,
     List!FindHelp, List!FindFollowsMarked, List!TryAgain, List!CallStep,
     List!AddDiscard, List!AddCas, List!RemoveMark, List!RemoveCas, List!RemoveUnlock,
     List!Unlock, List!Sync, List!RemoveFree, List!Free
<1>2. pc[t] # "exited"
  BY DEF List!ThreadStep, List!AddCall, List!Call, List!LockStep, List!ThreadExit,
     List!LeaveLoop, List!FindStep, List!FindHead, List!FindCheck, List!FindNext,
     List!FindAgain, List!FindMoved, List!FindMarked, List!FindEnds, List!FindAdvances,
     List!FindHelp, List!FindFollowsMarked, List!CallStep,
     List!AddDiscard, List!AddCas, List!RemoveMark, List!RemoveCas, List!RemoveUnlock,
     List!Unlock, List!Sync, List!RemoveFree, List!Free, List!GoOn, List!Goto,
     List!ReadLock, List!LockLoad, List!LockStore, List!LockCheck, List!LockFix,
     List!SynchronizeRCU, List!SyncLoad, List!SyncCas, List!SyncSpin
<1> QED BY <1>1, <1>2 DEF List!IInv, List!MainAlone

(* A step of t leaves the locals of the other threads alone.               *)
LEMMA ListOthers ==
  ASSUME List!IInv, NEW t \in List!Threads, List!ThreadStep(t)
  PROVE  /\ OthersStay(t)
         /\ \A u \in List!Threads : u # t => op'[u] = op[u] /\ retired'[u] = retired[u]
<1> USE DEF OthersStay, List!IInv, List!ListTypes, List!Goto, List!listVars,
            List!findLocals, List!callVars, List!retiredVars, List!Forget, List!Follow
<1>1. CASE List!AddCall(t) \/ List!Call(t) \/ List!ThreadExit(t)
  BY <1>1 DEF List!AddCall, List!Call, List!ThreadExit, List!LeaveLoop, List!BeginCall
<1>2. CASE List!LockStep(t)
  BY <1>2 DEF List!LockStep, List!ReadLock, List!LockLoad, List!LockStore,
     List!LockCheck, List!LockFix
<1>3. CASE List!Sync(t)
  BY <1>3 DEF List!Sync, List!SynchronizeRCU, List!SyncLoad, List!SyncCas, List!SyncSpin
<1>4. CASE List!FindHead(t) \/ List!FindCheck(t) \/ List!FindAgain(t) \/ List!FindMoved(t)
           \/ List!FindMarked(t) \/ List!FindAdvances(t) \/ List!FindFollowsMarked(t)
  BY <1>4 DEF List!FindHead, List!FindCheck, List!FindAgain, List!FindMoved,
     List!FindMarked, List!FindAdvances, List!FindFollowsMarked, List!TryAgain
<1>5. CASE List!FindNext(t) \/ List!FindEnds(t)
  <2>1. CASE List!FindNext(t)
    BY <2>1 DEF List!FindNext, List!FindReturns
  <2>2. CASE List!FindEnds(t)
    BY <2>2 DEF List!FindEnds, List!FindReturns
  <2> QED BY <1>5, <2>1, <2>2
<1>6. CASE List!FindHelp(t)
  BY <1>6 DEF List!FindHelp, List!TryAgain
<1>7. CASE List!AddDiscard(t) \/ List!AddCas(t) \/ List!RemoveMark(t)
  <2>1. CASE List!AddDiscard(t)
    BY <2>1 DEF List!AddDiscard
  <2>2. CASE List!AddCas(t)
    <3>1. CASE List!PredIsCurr(t)
      BY <2>2, <3>1 DEF List!AddCas, List!Decides
    <3>2. CASE ~List!PredIsCurr(t)
      BY <2>2, <3>2 DEF List!AddCas, List!TryAgain
    <3> QED BY <3>1, <3>2
  <2>3. CASE List!RemoveMark(t)
    BY <2>3 DEF List!RemoveMark, List!TryAgain, List!Decides
  <2> QED BY <1>7, <2>1, <2>2, <2>3
<1>8. CASE List!RemoveCas(t) \/ List!RemoveUnlock(t) \/ List!Unlock(t)
           \/ List!RemoveFree(t) \/ List!Free(t)
  BY <1>8 DEF List!RemoveCas, List!RemoveUnlock, List!Unlock, List!RemoveFree,
     List!Free, List!GoOn
<1> QED BY <1>1, <1>2, <1>3, <1>4, <1>5, <1>6, <1>7, <1>8
        DEF List!ThreadStep, List!FindStep, List!CallStep

(* Every step of a thread counts the nodes it unlinks and frees.           *)
LEMMA ListCounts ==
  ASSUME List!IInv, List!Counts, NEW t \in List!Threads, List!ThreadStep(t)
  PROVE  List!Counts'
<1> DEFINE CountsOf(u) ==
      /\ retired_nodes_count[u] = Len(retired[u])
      /\ node[u] # NULL => op[u] = "add" \/ pc[u] = "add.discard"
      /\ op[u] = "add" => pc[u] \in List!LockLabels \cup List!FindLabels \cup {"add.cas"}
      /\ pc[u] \in {"idle", "exited"} => op[u] = "none" /\ retired[u] = <<>>
<1> DEFINE n == retired_nodes_count
<1>1. (\A u \in List!Threads : CountsOf(u)) /\ n = [u \in List!Threads |-> n[u]]
  BY DEF List!Counts
<1>2. \A u \in List!Threads : u # t =>
        pc'[u] = pc[u] /\ node'[u] = node[u] /\ op'[u] = op[u] /\ retired'[u] = retired[u]
  <2>1. ASSUME NEW u \in List!Threads, u # t
        PROVE  pc'[u] = pc[u] /\ node'[u] = node[u] /\ retired'[u] = retired[u]
    BY <2>1, ListOthers DEF OthersStay
  <2> QED BY <2>1, ListOthers
<1> USE ListFunctions, HeapAssumption
        DEF List!Goto, List!listVars, List!findLocals, List!callVars,
        List!retiredVars, List!Forget, List!Follow, List!LockLabels, List!FindLabels,
        List!SyncLabels
<1>3. /\ n' = [u \in List!Threads |-> n'[u]]
      /\ \A u \in List!Threads : u # t => n'[u] = n[u]
      /\ CountsOf(t)'
  <2>1. CASE List!AddCall(t) \/ List!Call(t) \/ List!ThreadExit(t)
    BY <1>1, <2>1 DEF List!AddCall, List!Call, List!ThreadExit, List!LeaveLoop,
       List!BeginCall
  <2>2. CASE List!LockStep(t)
    BY <1>1, <2>2 DEF List!LockStep, List!ReadLock, List!LockLoad, List!LockStore,
       List!LockCheck, List!LockFix
  <2>3. CASE List!Sync(t)
    BY <1>1, <2>3 DEF List!Sync, List!SynchronizeRCU, List!SyncLoad, List!SyncCas,
       List!SyncSpin
  <2>4. CASE List!FindHead(t) \/ List!FindCheck(t) \/ List!FindAgain(t) \/ List!FindMoved(t)
             \/ List!FindMarked(t) \/ List!FindAdvances(t) \/ List!FindFollowsMarked(t)
    BY <1>1, <2>4 DEF List!FindHead, List!FindCheck, List!FindAgain, List!FindMoved,
       List!FindMarked, List!FindAdvances, List!FindFollowsMarked, List!TryAgain
  <2>5. CASE List!FindNext(t) \/ List!FindEnds(t)
    BY <1>1, <2>5 DEF List!FindNext, List!FindEnds, List!FindReturns, List!AfterFind,
       List!DecidedBy
  <2>6. CASE List!FindHelp(t)
    BY <1>1, <2>6 DEF List!FindHelp, List!TryAgain
  <2>7. CASE List!AddDiscard(t) \/ List!AddCas(t) \/ List!RemoveMark(t)
    BY <1>1, <2>7 DEF List!AddDiscard, List!AddCas, List!RemoveMark, List!TryAgain,
       List!Decides
  <2>8. CASE List!RemoveCas(t) \/ List!RemoveUnlock(t) \/ List!Unlock(t) \/ List!RemoveFree(t)
    BY <1>1, <2>8
       DEF List!RemoveCas, List!RemoveUnlock, List!Unlock, List!RemoveFree, List!GoOn
  <2>9. CASE List!Free(t)
    <3>1. pc[t] = "free" /\ retired[t] # <<>> /\ retired[t] \in Seq(Nodes)
      BY <2>9, ListRuns DEF List!Free, List!IInv, List!RetiredOnce, List!HasToFree
    <3>2. Len(Tail(retired[t])) = Len(retired[t]) - 1
      BY <3>1
    <3> QED BY <1>1, <2>9, <3>1, <3>2 DEF List!Free, List!GoOn
  <2> QED BY <2>1, <2>2, <2>3, <2>4, <2>5, <2>6, <2>7, <2>8, <2>9
          DEF List!ThreadStep, List!FindStep, List!CallStep
<1> HIDE DEF n
<1>4. ASSUME NEW u \in List!Threads PROVE CountsOf(u)'
  <2>1. CASE u = t
    BY <1>3, <2>1
  <2>2. CASE u # t
    <3>1. CountsOf(u) /\ n'[u] = n[u]
      BY <1>1, <1>3, <2>2
    <3> QED BY <1>2, <2>2, <3>1 DEF n
  <2> QED BY <2>1, <2>2
<1>5. n' = [u \in List!Threads |-> Len(retired'[u])]
  BY <1>3, <1>4 DEF n
<1> QED BY <1>4, <1>5 DEF List!Counts, n

(* What a thread has to free it keeps until it has freed it.               *)
LEMMA ListToFree ==
  ASSUME List!IInv, NEW t \in List!Threads, List!ThreadStep(t),
         NEW n \in List!ToFree(t)
  PROVE  n \in List!ToFree(t)' \/ (n \in Nodes /\ status'[n] = "free")
<1> USE ListFunctions, HeapAssumption DEF List!Goto, List!listVars, List!findLocals,
        List!callVars, List!retiredVars, List!Forget, List!Follow, List!Unlinked,
        List!SyncLabels
<1>0. n \in Nodes
  BY DEF List!ToFree, List!NodeOrNull
<1>1. ASSUME UNCHANGED retired, List!Unlinked(t) => List!Unlinked(t)' /\ curr'[t] = curr[t]
      PROVE  n \in List!ToFree(t)'
  BY <1>1 DEF List!ToFree
<1>2. CASE List!AddCall(t) \/ List!Call(t) \/ List!ThreadExit(t)
  BY <1>1, <1>2
     DEF List!AddCall, List!Call, List!ThreadExit, List!LeaveLoop, List!BeginCall
<1>3. CASE List!LockStep(t)
  BY <1>1, <1>3 DEF List!LockStep, List!ReadLock, List!LockLoad, List!LockStore,
     List!LockCheck, List!LockFix
<1>4. CASE List!Sync(t)
  BY <1>1, <1>4
     DEF List!Sync, List!SynchronizeRCU, List!SyncLoad, List!SyncCas, List!SyncSpin
<1>5. CASE List!FindStep(t)
  <2>1. pc[t] \in List!FindLabels
    BY <1>5 DEF List!FindStep, List!FindHead, List!FindCheck, List!FindNext,
       List!FindAgain, List!FindMoved, List!FindMarked, List!FindEnds, List!FindAdvances,
       List!FindHelp, List!FindFollowsMarked, List!FindLabels
  <2>2. ~List!Unlinked(t)
    BY <2>1 DEF List!FindLabels
  <2>3. \/ UNCHANGED retired
        \/ retired' = [retired EXCEPT ![t] = Append(@, curr[t])]
    BY <1>5 DEF List!FindStep, List!FindHead, List!FindCheck, List!FindNext,
       List!FindAgain, List!FindMoved, List!FindMarked, List!FindEnds, List!FindAdvances,
       List!FindHelp, List!FindFollowsMarked, List!TryAgain
  <2>4. PICK i \in 1..Len(retired[t]) : n = retired[t][i]
    BY <2>2 DEF List!ToFree
  <2>5. i \in 1..Len(retired'[t]) /\ retired'[t][i] = n
    <3>1. CASE UNCHANGED retired
      BY <2>4, <3>1
    <3>2. CASE retired' = [retired EXCEPT ![t] = Append(@, curr[t])]
      <4>1. retired[t] \in Seq(Nodes) /\ retired'[t] = Append(retired[t], curr[t])
        BY <3>2
      <4> QED BY <2>4, <4>1
    <3> QED BY <2>3, <3>1, <3>2
  <2> QED BY <2>5 DEF List!ToFree
<1>6. CASE List!AddDiscard(t) \/ List!AddCas(t) \/ List!RemoveMark(t) \/ List!RemoveCas(t)
           \/ List!RemoveUnlock(t) \/ List!Unlock(t)
  BY <1>1, <1>6 DEF List!AddDiscard, List!AddCas, List!RemoveMark, List!TryAgain,
     List!Decides, List!RemoveCas, List!RemoveUnlock, List!Unlock, List!GoOn
<1>7. CASE List!RemoveFree(t)
  <2>1. CASE n = curr[t]
    BY <1>0, <1>7, <2>1 DEF List!RemoveFree, List!Delete
  <2>2. CASE n # curr[t]
    BY <1>7, <2>2 DEF List!RemoveFree, List!ToFree
  <2> QED BY <2>1, <2>2
<1>8. CASE List!Free(t)
  <2>1. /\ pc[t] = "free" /\ curr[t] = NULL
        /\ retired[t] # <<>> /\ retired[t] \in Seq(Nodes)
    BY <1>8, ListRuns DEF List!Free, List!IInv, List!RetiredOnce, List!HasToFree
  <2>2. PICK i \in 1..Len(retired[t]) : n = retired[t][i]
    BY <2>1 DEF List!ToFree
  <2>3. CASE i = 1
    BY <1>0, <1>8, <2>1, <2>2, <2>3 DEF List!Free, List!Delete
  <2>4. CASE i # 1
    <3>1. retired'[t] = Tail(retired[t])
      BY <1>8 DEF List!Free
    <3>2. i - 1 \in 1..Len(retired'[t]) /\ retired'[t][i - 1] = n
      BY <2>1, <2>2, <2>4, <3>1
    <3> QED BY <3>2 DEF List!ToFree
  <2> QED BY <2>3, <2>4
<1> QED BY <1>2, <1>3, <1>4, <1>5, <1>6, <1>7, <1>8 DEF List!ThreadStep, List!CallStep

(* The node of an add stays in its hands until it is linked or deleted.    *)
LEMMA ListKeepsNode ==
  ASSUME List!IInv, List!Counts, NEW t \in List!Threads, List!ThreadStep(t), node[t] # NULL
  PROVE  \/ node'[t] = node[t]
         \/ node[t] \in Nodes /\ status'[node[t]] # "private"
<1> USE ListFunctions DEF List!Goto, List!listVars, List!callVars, List!NodeOrNull
<1>1. pc[t] # "idle"
  BY DEF List!Counts
<1>2. CASE List!AddDiscard(t) \/ List!AddCas(t)
  BY <1>2 DEF List!AddDiscard, List!AddCas, List!Delete, List!TryAgain
<1>3. CASE ~(List!AddDiscard(t) \/ List!AddCas(t))
  <2>1. UNCHANGED node
    BY <1>1, <1>3
       DEF List!ThreadStep, List!AddCall, List!Call, List!LockStep, List!ThreadExit,
     List!LeaveLoop, List!FindStep, List!FindHead, List!FindCheck, List!FindNext,
     List!FindAgain, List!FindMoved, List!FindMarked, List!FindEnds, List!FindAdvances,
     List!FindHelp, List!FindFollowsMarked, List!TryAgain, List!CallStep,
     List!RemoveMark, List!RemoveCas, List!RemoveUnlock,
     List!Unlock, List!Sync, List!RemoveFree, List!Free
  <2> QED BY <2>1
<1> QED BY <1>2, <1>3

(* A node becomes private in the hands of the add that makes it, and is    *)
(* unlinked by the call that goes on to free it.                           *)
LEMMA ListTakes ==
  ASSUME List!IInv, NEW t \in List!Threads, List!ThreadStep(t), NEW n \in Nodes
  PROVE  /\ status'[n] = "private" /\ status[n] # "private" => node'[t] = n
         /\ status'[n] = "retired" /\ status[n] # "retired" => n \in List!ToFree(t)'
<1> USE ListFunctions DEF List!Goto
<1>1. CASE List!AddCall(t)
  BY <1>1 DEF List!AddCall, List!New
<1>2. CASE List!FindHelp(t)
  <2>1. CASE ~List!PredIsCurr(t)
    BY <1>2, <2>1 DEF List!FindHelp, List!TryAgain, List!heapVars
  <2>2. CASE List!PredIsCurr(t)
    <3>1. status' = [status EXCEPT ![curr[t]] = "retired"]
          /\ retired'[t] = Append(retired[t], curr[t]) /\ retired[t] \in Seq(Nodes)
      BY <1>2, <2>2 DEF List!FindHelp
    <3>2. Len(retired[t]) + 1 \in 1..Len(retired'[t])
          /\ retired'[t][Len(retired[t]) + 1] = curr[t]
      BY <3>1
    <3>3. curr[t] \in List!ToFree(t)'
      BY <3>2 DEF List!ToFree
    <3> QED BY <3>1, <3>3
  <2> QED BY <2>1, <2>2
<1>3. CASE List!RemoveCas(t)
  BY <1>3, HeapAssumption DEF List!RemoveCas, List!ToFree, List!Unlinked, List!findLocals
<1>4. CASE List!AddCas(t)
  BY <1>4 DEF List!AddCas, List!TryAgain, List!heapVars
<1>5. CASE List!AddDiscard(t) \/ List!RemoveFree(t) \/ List!Free(t)
  BY <1>5 DEF List!AddDiscard, List!RemoveFree, List!Free, List!Delete
<1>6. CASE ~(List!AddCall(t) \/ List!FindHelp(t) \/ List!RemoveCas(t) \/ List!AddCas(t)
             \/ List!AddDiscard(t) \/ List!RemoveFree(t) \/ List!Free(t))
  <2>1. UNCHANGED status
    BY <1>6 DEF List!ThreadStep, List!Call, List!LockStep, List!ThreadExit,
     List!LeaveLoop, List!FindStep, List!FindHead, List!FindCheck, List!FindNext,
     List!FindAgain, List!FindMoved, List!FindMarked, List!FindEnds, List!FindAdvances,
     List!FindFollowsMarked, List!TryAgain, List!CallStep,
     List!RemoveMark, List!RemoveUnlock, List!Unlock, List!Sync, List!heapVars
  <2> QED BY <2>1
<1> QED BY <1>1, <1>2, <1>3, <1>4, <1>5, <1>6

(* The steps that leave the chain of linked nodes as it is.                *)
LEMMA ListChainKept ==
  ASSUME List!IInv, main # "destroyed", Reaches(head, next, Linked),
         UNCHANGED head, Linked' = Linked, \A n \in Linked : next'[n] = next[n]
  PROVE  Reaches(head, next, Linked)'
<1>1. Reaches(head, next', Linked)
  BY ReachesWithin, ListLinked
<1> QED BY <1>1 DEF Reaches, Closed

(* The exchange that puts the node of an add into the list.                *)
LEMMA ListAddChains ==
  ASSUME List!IInv, Reaches(head, next, Linked), NEW t \in List!Threads, List!AddCas(t),
         List!PredIsCurr(t)
  PROVE  Reaches(head, next, Linked)'
<1> DEFINE n == node[t]  p == pred[t]  c == curr[t]
<1>0. main # "destroyed" /\ Core /\ pc[t] = "add.cas" /\ List!ListTypes
  BY ListRuns DEF Core, List!AddCas, List!IInv, List!ThreadStep, List!CallStep
<1>1. /\ List!StorePred(t, n) /\ status' = [status EXCEPT ![n] = "linked"]
  BY DEF List!AddCas
<1>2. n \in Nodes /\ status[n] = "private" /\ next[n] = c
  BY <1>0, HeapAssumption
     DEF Core, List!AddOwnsNode, List!OwnsNode, List!ListTypes, List!NodeOrNull
<1>3. IF p = NULL THEN head = c ELSE p \in Linked /\ next[p] = c
  <2>1. pred[t] \in List!Guards(t) \cup {NULL}
    BY <1>0 DEF List!Guards
  <2> QED BY <1>0, <2>1, CurrIsLinked DEF Core, Linked
<1>4. Linked' = Linked \cup {n} /\ n \notin Linked
  BY <1>0, <1>1, <1>2 DEF Linked, List!ListTypes
<1>5. Linked \in SUBSET Nodes /\ Within(next, Linked) /\ (head # NULL => head \in Linked)
  BY <1>0, ListLinked
<1> HIDE DEF n, p, c
<1>6. CASE p = NULL
  <2>1. head' = n /\ next' = next
    BY <1>1, <1>6 DEF List!StorePred, p
  <2>2. Reaches(n, next', Linked \cup {n})
    BY <1>2, <1>3, <1>5, <1>6, <2>1, ReachesPushed
  <2> QED BY <1>4, <2>1, <2>2 DEF Reaches, Closed
<1>7. CASE p # NULL
  <2>1. head' = head /\ next' = [next EXCEPT ![p] = n]
    BY <1>1, <1>7 DEF List!StorePred, p
  <2>2. /\ next'[p] = n /\ next'[n] = next[p] /\ \A k \in Linked : k # p => next'[k] = next[k]
    BY <1>0, <1>2, <1>3, <1>4, <1>5, <1>7, <2>1 DEF List!ListTypes
  <2>3. Reaches(head, next', Linked \cup {n})
    BY <1>2, <1>3, <1>4, <1>5, <1>7, <2>2, ReachesInserted
  <2> QED BY <1>4, <2>1, <2>3 DEF Reaches, Closed
<1> QED BY <1>6, <1>7

(* The exchange that takes a marked node out of the list.                  *)
LEMMA ListUnlinkChains ==
  ASSUME List!IInv, Reaches(head, next, Linked), NEW t \in List!Threads,
         List!FindHelp(t) \/ List!RemoveCas(t), List!PredIsCurr(t)
  PROVE  Reaches(head, next, Linked)'
<1> DEFINE s == List!getUnmarked(nxt[t])  p == pred[t]  c == curr[t]
<1>0. main # "destroyed" /\ Core /\ pc[t] \in {"find.help", "remove.cas"} /\ List!ListTypes
  BY ListRuns DEF Core, List!FindHelp, List!RemoveCas, List!IInv, List!ThreadStep,
                  List!CallStep, List!FindStep
<1>1. List!StorePred(t, s) /\ status' = [status EXCEPT ![c] = "retired"]
  BY DEF List!FindHelp, List!RemoveCas
<1>2. /\ c \in Linked /\ c # NULL /\ next[c] = s
      /\ IF p = NULL THEN head = c ELSE p \in Linked /\ next[p] = c /\ p # c
  <2>1. pred[t] \in List!Guards(t) \cup {NULL}
    BY <1>0 DEF List!Guards
  <2>2. curr[t] # NULL /\ next[curr[t]] = s /\ curr[t] \in marked
    BY <1>0 DEF Core, List!MarkedKeepsLink, List!KeepsLink
  <2> QED BY <1>0, <2>1, <2>2, CurrIsLinked DEF Core, Linked
<1>3. p # NULL => head # c
  BY <1>0, <1>2 DEF Core, List!ListShape, Linked
<1>4. Linked' = Linked \ {c}
  BY <1>0, <1>1, <1>2 DEF Linked, List!ListTypes
<1>5. Linked \in SUBSET Nodes /\ Within(next, Linked) /\ (head # NULL => head \in Linked)
  BY <1>0, ListLinked
<1> HIDE DEF s, p, c
<1>6. CASE p = NULL
  <2>1. head' = next[c] /\ next' = next
    BY <1>1, <1>2, <1>6 DEF List!StorePred, p
  <2>2. Reaches(next[c], next', Linked \ {c})
    BY <1>2, <1>5, <1>6, <2>1, ReachesPopped
  <2> QED BY <1>4, <2>1, <2>2 DEF Reaches, Closed
<1>7. CASE p # NULL
  <2>1. head' = head /\ next' = [next EXCEPT ![p] = s]
    BY <1>1, <1>7 DEF List!StorePred, p
  <2>2. next'[p] = next[c] /\ \A k \in Linked : k # p => next'[k] = next[k]
    BY <1>0, <1>2, <1>5, <1>7, <2>1 DEF List!ListTypes
  <2>3. Reaches(head, next', Linked \ {c})
    BY <1>2, <1>3, <1>5, <1>7, <2>2, ReachesUnlinked
  <2> QED BY <1>4, <2>1, <2>3 DEF Reaches, Closed
<1> QED BY <1>6, <1>7

(* Every step of a thread leaves the linked nodes a chain from the head.   *)
LEMMA ListChains ==
  ASSUME List!IInv, Reaches(head, next, Linked), NEW t \in List!Threads,
         List!ThreadStep(t)
  PROVE  Reaches(head, next, Linked)'
<1>0. main # "destroyed" /\ Core /\ List!ListTypes
  BY ListRuns DEF Core, List!IInv
<1>1. CASE (List!AddCas(t) \/ List!FindHelp(t) \/ List!RemoveCas(t)) /\ List!PredIsCurr(t)
  BY <1>1, ListAddChains, ListUnlinkChains
<1>2. CASE (List!AddCas(t) \/ List!FindHelp(t) \/ List!RemoveCas(t)) /\ ~List!PredIsCurr(t)
  <2>1. UNCHANGED <<status, next, head>>
    BY <1>2 DEF List!AddCas, List!FindHelp, List!RemoveCas, List!TryAgain, List!heapVars
  <2> QED BY <1>0, <2>1, ListChainKept DEF Linked
<1>3. CASE List!AddCall(t)
  <2>1. PICK n \in Nodes : List!New(n, key'[t]) \/ \E k : List!New(n, k)
    BY <1>3 DEF List!AddCall
  <2>2. /\ status[n] = "free" /\ status' = [status EXCEPT ![n] = "private"]
        /\ next' = [next EXCEPT ![n] = NULL] /\ UNCHANGED head
    BY <1>3, <2>1 DEF List!AddCall, List!New
  <2>3. Linked' = Linked /\ \A m \in Linked : next'[m] = next[m]
    BY <1>0, <2>2 DEF Linked, List!ListTypes
  <2> QED BY <1>0, <2>2, <2>3, ListChainKept
<1>4. ASSUME NEW n, status[n] # "linked", List!Delete({n}), UNCHANGED head
      PROVE  Reaches(head, next, Linked)'
  <2>1. Linked' = Linked /\ \A m \in Linked : next'[m] = next[m]
    BY <1>0, <1>4 DEF Linked, List!ListTypes, List!Delete
  <2> QED BY <1>0, <1>4, <2>1, ListChainKept
<1>5. CASE List!AddDiscard(t)
  <2>1. status[node[t]] # "linked"
    BY <1>0, <1>5 DEF List!AddDiscard, List!Goto, Core, List!AddOwnsNode, List!OwnsNode
  <2> QED BY <1>4, <1>5, <2>1 DEF List!AddDiscard
<1>6. CASE List!RemoveFree(t)
  <2>1. status[curr[t]] # "linked"
    BY <1>0, <1>6 DEF List!RemoveFree, List!GoOn, List!Goto, Core, List!RetiredOnce,
       List!HasToFree, List!Unlinked
  <2> QED BY <1>4, <1>6, <2>1 DEF List!RemoveFree
<1>7. CASE List!Free(t)
  <2>1. retired[t] \in Seq(Nodes) /\ retired[t] # <<>>
    BY <1>0, <1>7
       DEF List!Free, List!IInv, List!ListTypes, Core, List!RetiredOnce, List!HasToFree
  <2>2. 1 \in 1..Len(retired[t]) /\ Head(retired[t]) = retired[t][1]
    BY <2>1
  <2>3. status[Head(retired[t])] # "linked"
    BY <1>0, <2>2 DEF Core, List!RetiredOnce
  <2> QED BY <1>4, <1>7, <2>3 DEF List!Free
<1>8. CASE List!FindNext(t) \/ List!FindEnds(t)
  <2>1. UNCHANGED <<status, head>>
    BY <1>8 DEF List!FindNext, List!FindEnds
  <2>2. next' = next \/ (op[t] = "add" /\ next' = [next EXCEPT ![node[t]] = curr[t]])
    BY <1>8 DEF List!FindNext, List!FindEnds, List!FindReturns
  <2>3. op[t] = "add" => status[node[t]] = "private"
    BY <1>0 DEF Core, List!AddOwnsNode, List!OwnsNode
  <2>4. Linked' = Linked /\ \A m \in Linked : next'[m] = next[m]
    BY <1>0, <2>1, <2>2, <2>3 DEF Linked, List!ListTypes
  <2> QED BY <1>0, <2>1, <2>4, ListChainKept
<1>9. CASE ~(List!AddCall(t) \/ List!FindHelp(t) \/ List!RemoveCas(t) \/ List!AddCas(t)
             \/ List!AddDiscard(t) \/ List!RemoveFree(t) \/ List!Free(t)
             \/ List!FindNext(t) \/ List!FindEnds(t))
  <2>1. UNCHANGED <<status, next, head>>
    BY <1>9 DEF List!ThreadStep, List!Call, List!LockStep, List!ThreadExit,
     List!FindStep, List!FindHead, List!FindCheck, List!FindAgain, List!FindMoved,
     List!FindMarked, List!FindAdvances, List!FindFollowsMarked, List!TryAgain,
     List!CallStep, List!RemoveMark, List!RemoveUnlock, List!Unlock, List!Sync,
     List!heapVars, List!listVars
  <2> QED BY <1>0, <2>1, ListChainKept DEF Linked
<1> QED BY <1>1, <1>2, <1>3, <1>5, <1>6, <1>7, <1>8, <1>9

(* Nothing is left when the list is deleted.                               *)
LEMMA ListDestroyPlaces ==
  ASSUME List!IInv, List!Placed, List!Destroy
  PROVE  List!Placed'
<1>0. main = "deleting" /\ Core /\ \A t \in List!Threads : pc[t] = "exited"
  BY DEF List!Destroy, List!IInv, Core, List!MainAlone
<1>1. UNCHANGED <<pc, node, op, curr, retired, retired_nodes_count>>
  BY DEF List!Destroy, List!findLocals, List!callVars, List!retiredVars
<1>2. List!Counts'
  BY <1>1 DEF List!Counts, List!Placed
<1>3. CASE main' = "undefined"
  BY <1>0, <1>1, <1>2, <1>3 DEF List!Destroy, List!heapVars, List!Placed, List!ToFree,
     List!Unlinked, List!Reaches, List!Closed, List!Linked
<1>4. CASE main' = "destroyed"
  <2>1. List!Delete(List!ChainSet(head)) /\ head' = NULL
    BY <1>4 DEF List!Destroy
  <2>2. Reaches(head, next, Linked)
    BY <1>0, ListLinked DEF List!Placed, List!Reaches, Reaches, List!Closed, Closed
  <2>3. List!ChainSet(head) = Linked
    <3>1. ChainSet(head) = Linked
      BY <1>0, <2>2, ListLinked, ChainIsLinked
    <3> QED BY <3>1 DEF List!ChainSet, ChainSet, List!Closed, Closed
  <2>4. \A n \in Nodes : status[n] \notin {"private", "retired"}
    BY <1>0, HeapAssumption DEF List!Placed, List!Counts, List!ToFree, List!Unlinked,
       List!SyncLabels
  <2>5. \A n \in Nodes : status'[n] = "free"
    BY <2>1, <2>3, <2>4, ListFunctions DEF List!Delete, Linked, List!Statuses
  <2>6. List!Linked' = {} /\ List!Allocated' = {}
    BY <2>5 DEF List!Linked, List!Allocated
  <2> QED BY <1>2, <2>1, <2>5, <2>6 DEF List!Placed, List!Reaches
<1> QED BY <1>3, <1>4 DEF List!Destroy

(* Every step keeps the places.                                            *)
LEMMA ListNextPlaces ==
  ASSUME List!IInv, List!Placed, [List!Next]_(List!vars)
  PROVE  List!Placed'
<1>1. ASSUME NEW t \in List!Threads, List!ThreadStep(t) PROVE List!Placed'
  <2>1. List!Counts'
    BY <1>1, ListCounts DEF List!Placed
  <2>2. List!Reaches(head, next, List!Linked)'
    <3>1. Reaches(head, next, Linked)
      BY <1>1, ListRuns, ListLinked
         DEF List!Placed, List!Reaches, Reaches, List!Closed, Closed
    <3>2. Reaches(head, next, Linked)'
      BY <1>1, <3>1, ListChains
    <3> QED BY <3>2 DEF List!Reaches, Reaches, List!Closed, Closed, List!Linked, Linked
  <2>3. main' # "destroyed"
    BY <1>1, ListRuns
  <2>4. ASSUME NEW n \in Nodes, status'[n] = "private"
        PROVE  \E u \in List!Threads : node'[u] = n
    <3>1. CASE status[n] # "private"
      BY <1>1, <2>4, <3>1, ListTakes
    <3>2. CASE status[n] = "private"
      <4>1. PICK u \in List!Threads : node[u] = n
        BY <3>2 DEF List!Placed
      <4>2. CASE u = t
        BY <1>1, <2>4, <4>1, <4>2, ListKeepsNode, HeapAssumption DEF List!Placed
      <4>3. CASE u # t
        BY <1>1, <4>1, <4>3, ListOthers DEF OthersStay
      <4> QED BY <4>2, <4>3
    <3> QED BY <3>1, <3>2
  <2>5. ASSUME NEW n \in Nodes, status'[n] = "retired"
        PROVE  \E u \in List!Threads : n \in List!ToFree(u)'
    <3>1. CASE status[n] # "retired"
      BY <1>1, <2>5, <3>1, ListTakes
    <3>2. CASE status[n] = "retired"
      <4>1. PICK u \in List!Threads : n \in List!ToFree(u)
        BY <3>2 DEF List!Placed
      <4>2. CASE u = t
        BY <1>1, <2>5, <4>1, <4>2, ListToFree
      <4>3. CASE u # t
        BY <1>1, <4>1, <4>3, ListOthers, OthersUnlinked
      <4> QED BY <4>2, <4>3
    <3> QED BY <3>1, <3>2
  <2> QED BY <2>1, <2>2, <2>3, <2>4, <2>5 DEF List!Placed
<1>2. CASE List!Start \/ List!Quit \/ List!Join \/ UNCHANGED List!vars
  <2>1. /\ UNCHANGED <<status, next, head, node, op, pc, curr, retired, retired_nodes_count>>
        /\ main' = "destroyed" => main = "destroyed"
    BY <1>2 DEF List!Start, List!StartThreads, List!Quit, List!QuitSignal, List!Join,
       List!JoinUndrained, List!vars, List!heapVars, List!listVars, List!findLocals,
       List!callVars, List!retiredVars
  <2> QED BY <2>1 DEF List!Placed, List!Counts, List!ToFree, List!Unlinked, List!Reaches,
          List!Closed, List!Linked, List!Allocated
<1>3. CASE List!Destroy
  BY <1>3, ListDestroyPlaces
<1> QED BY <1>1, <1>2, <1>3 DEF List!Next, List!MainStep, List!Finished

(* The constructor's list is in its place.                                 *)
LEMMA ListInitPlaced == List!Init => List!Placed
<1> SUFFICES ASSUME List!Init PROVE List!Placed
  OBVIOUS
<1>1. PICK s, e \in Nodes :
        /\ s # e /\ head = s
        /\ status = [n \in Nodes |-> IF n \in {s, e} THEN "linked" ELSE "free"]
        /\ next = [n \in Nodes |-> IF n = s THEN e ELSE NULL]
  BY DEF List!Init
<1>2. List!Counts
  <2>1. Len(<<>>) = 0
    OBVIOUS
  <2> QED BY <2>1 DEF List!Init, List!ListInit, List!Counts
<1>3. List!Reaches(head, next, List!Linked)
  BY <1>1, HeapAssumption DEF List!Reaches, List!Closed, List!Linked
<1> QED BY <1>1, <1>2, <1>3 DEF List!Placed, List!Init, List!ListInit

(* Counting is the same inside the module of the list.                     *)
LEMMA ListCardinality == \A S : List!Cardinality(S) = Cardinality(S)
BY DEF List!Cardinality, Cardinality

(* Where a node is that a call has to free.                                *)
LEMMA ListEntries ==
  ASSUME List!IInv, Core, NEW n \in Nodes, NEW t \in List!Threads, n \in List!ToFree(t)
  PROVE  LET entries == EntriesOf(retired, n)
             holders == {u \in List!Threads : List!Holds(u, n)}
         IN  \/ entries = {} /\ \E x : holders = {x}
             \/ holders = {} /\ \E x : entries = {x}
<1> DEFINE entries == EntriesOf(retired, n)
           holders == {u \in List!Threads : List!Holds(u, n)}
<1>1. \A u \in List!Threads : List!Holds(u, n) => List!Unlinked(u) /\ curr[u] = n
  <2>1. status[n] = "retired" /\ n # NULL
    BY ToFreeRetired, HeapAssumption DEF Core
  <2> QED BY <2>1 DEF Core, List!AddOwnsNode, List!Holds, List!Unlinked
<1>2. retired = [u \in List!Threads |-> retired[u]] /\ DOMAIN retired = List!Threads
  BY ListFunctions
<1>3. CASE List!Unlinked(t) /\ curr[t] = n
  <2>1. t \in holders
    BY <1>3 DEF List!Unlinked, List!Holds
  <2>2. \A u \in holders : u = t
    BY <1>1, <1>3 DEF Core, List!RetiredOnce
  <2>3. ASSUME NEW e \in entries PROVE FALSE
    BY <1>2, <1>3, EntriesDef DEF Core, List!RetiredOnce
  <2>4. entries = {} /\ holders = {t}
    BY <2>1, <2>2, <2>3
  <2> QED BY <2>4
<1>4. ASSUME NEW i \in 1..Len(retired[t]), retired[t][i] = n
      PROVE  holders = {} /\ entries = {<<t, i>>}
  <2>1. ASSUME NEW u \in holders PROVE FALSE
    BY <1>1, <1>4 DEF Core, List!RetiredOnce
  <2>2. <<t, i>> \in entries
    BY <1>2, <1>4, EntriesDef
  <2>3. ASSUME NEW e \in entries PROVE e = <<t, i>>
    <3>1. PICK u \in List!Threads : \E j \in 1..Len(retired[u]) :
            retired[u][j] = n /\ e = <<u, j>>
      BY <1>2, EntriesDef
    <3>2. PICK j \in 1..Len(retired[u]) : retired[u][j] = n /\ e = <<u, j>>
      BY <3>1
    <3>3. u = t /\ j = i
      BY <1>4, <3>2 DEF Core, List!RetiredOnce
    <3> QED BY <3>2, <3>3
  <2> HIDE DEF entries, holders
  <2> QED BY <2>1, <2>2, <2>3
<1>5. (List!Unlinked(t) /\ curr[t] = n) \/ \E i \in 1..Len(retired[t]) : retired[t][i] = n
  BY DEF List!ToFree
<1> QED BY <1>3, <1>4, <1>5

(* Nobody shares a node, and none is lost.                                 *)
LEMMA ListPlacedOwned ==
  ASSUME List!IInv, List!Placed
  PROVE  List!OneOwner
<1> DEFINE Entries(n) == EntriesOf(retired, n)
           Holders(n) == {t \in List!Threads : List!Holds(t, n)}
<1>1. ASSUME main = "destroyed"
      PROVE  /\ head = NULL /\ \A n \in Nodes : status[n] = "free"
             /\ \A n \in Nodes : Entries(n) = {} /\ Holders(n) = {}
  <2>1. \A t \in List!Threads : pc[t] = "exited"
    BY <1>1 DEF List!IInv, List!MainAlone
  <2>2. \A t \in List!Threads : retired[t] = <<>> /\ node[t] = NULL
    BY <2>1 DEF List!Placed, List!Counts
  <2>3. ASSUME NEW n \in Nodes PROVE Holders(n) = {}
    BY <2>1, <2>2, HeapAssumption DEF List!Holds, List!SyncLabels
  <2>4. ASSUME NEW n \in Nodes PROVE Entries(n) = {}
    <3>1. DOMAIN retired = List!Threads
      BY ListFunctions
    <3>2. ASSUME NEW e \in Entries(n) PROVE FALSE
      BY <2>2, <3>1, EntriesDef
    <3> QED BY <3>2
  <2>5. head = NULL /\ \A n \in Nodes : status[n] = "free"
    BY <1>1 DEF List!Placed, List!Allocated
  <2> QED BY <2>3, <2>4, <2>5
<1>2. List!ChainSet(head) = Linked /\ List!Straight(Linked, head)
  <2>1. CASE main = "destroyed"
    <3>1. head = NULL /\ Linked = {}
      BY <1>1, <2>1 DEF Linked
    <3>2. Reaches(head, next, Linked) /\ Within(next, Linked)
      BY <3>1 DEF Reaches, Within
    <3>3. ChainSet(head) = Linked
      BY <3>1, <3>2, ChainIsLinked
    <3> QED BY <3>1, <3>3 DEF List!ChainSet, ChainSet, List!Closed, Closed, List!Straight
  <2>2. CASE main # "destroyed"
    <3>1. Reaches(head, next, Linked)
      BY <2>2, ListLinked DEF List!Placed, List!Reaches, Reaches, List!Closed, Closed
    <3>2. ChainSet(head) = Linked
      BY <2>2, <3>1, ListLinked, ChainIsLinked
    <3>3. List!Straight(Linked, head)
      BY <2>2 DEF List!Straight, Linked, List!IInv, List!ListShape
    <3> QED BY <3>2, <3>3 DEF List!ChainSet, ChainSet, List!Closed, Closed
  <2> QED BY <2>1, <2>2
<1>3. ASSUME NEW n \in Nodes PROVE InOnePlace(n, Linked, Entries(n), Holders(n))
  <2>1. status[n] \in Statuses /\ (n \in Linked <=> status[n] = "linked")
    BY ListFunctions DEF List!Statuses, Statuses, Linked
  <2>2. CASE main = "destroyed"
    <3>1. status[n] = "free" /\ Entries(n) = {} /\ Holders(n) = {}
      BY <1>1, <2>2
    <3> HIDE DEF Entries, Holders
    <3> QED BY <2>1, <3>1, PlacedOnce
  <2>3. CASE main # "destroyed"
    <3>1. Core
      BY <2>3 DEF Core, List!IInv
    <3>2. \A t \in List!Threads : node[t] = n =>
            status[n] = "private" /\ \A u \in List!Threads : node[u] = n => u = t
      BY <3>1, HeapAssumption DEF Core, List!AddOwnsNode
    <3>3. \A t \in List!Threads : List!Holds(t, n) => node[t] = n \/ n \in List!ToFree(t)
      BY HeapAssumption DEF List!Holds, List!ToFree, List!Unlinked
    <3>4. ASSUME NEW e \in Entries(n) PROVE status[n] = "retired"
      <4>1. DOMAIN retired = List!Threads
        BY ListFunctions
      <4> QED BY <3>1, <4>1, EntriesDef DEF Core, List!RetiredOnce
    <3>5. \A t \in Holders(n) : status[n] = "private" \/ status[n] = "retired"
      BY <3>1, <3>2, <3>3, ToFreeRetired DEF Core
    <3>6. ASSUME status[n] = "private" PROVE Entries(n) = {} /\ \E x : Holders(n) = {x}
      <4>1. PICK t \in List!Threads : node[t] = n
        BY <3>6 DEF List!Placed
      <4>2. \A u \in Holders(n) : u = t
        BY <3>1, <3>2, <3>3, <3>6, <4>1, ToFreeRetired DEF Core
      <4>3. t \in Holders(n)
        BY <4>1 DEF List!Holds
      <4> HIDE DEF Entries, Holders
      <4>4. Holders(n) = {t} /\ Entries(n) = {}
        BY <3>4, <3>6, <4>2, <4>3
      <4> QED BY <4>4
    <3>7. ASSUME status[n] = "retired"
          PROVE  \/ Entries(n) = {} /\ \E x : Holders(n) = {x}
                 \/ Holders(n) = {} /\ \E x : Entries(n) = {x}
      BY <3>1, <3>7, ListEntries DEF List!Placed
    <3> HIDE DEF Entries, Holders
    <3>8. status[n] \in {"linked", "free"} => Entries(n) = {} /\ Holders(n) = {}
      BY <3>4, <3>5
    <3> QED BY <2>1, <3>6, <3>7, <3>8, PlacedOnce
  <2> QED BY <2>2, <2>3
<1>4. ASSUME NEW n \in Nodes
      PROVE  List!InOnePlace(n, List!Linked, List!EntriesOf(retired, n), Holders(n))
  <2>1. List!EntriesOf(retired, n) = Entries(n) /\ List!Linked = Linked
    BY DEF List!EntriesOf, EntriesOf, List!Linked, Linked
  <2> QED BY <1>3, <2>1, ListCardinality
          DEF List!InOnePlace, InOnePlace, List!Allocated, Allocated
<1>5. List!Linked = Linked /\ \A t \in List!Threads : retired_nodes_count[t] = Len(retired[t])
  BY DEF List!Linked, Linked, List!Placed, List!Counts
<1> QED BY <1>2, <1>4, <1>5 DEF List!OneOwner

(* Once the threads have been joined no node is left to be freed.          *)
LEMMA ListReclaims ==
  ASSUME List!IInv, List!Placed
  PROVE  List!NoneUnreclaimed
<1> SUFFICES ASSUME \A t \in List!Threads : pc[t] = "exited"
             PROVE  /\ \A t \in List!Threads : retired_nodes_count[t] = 0
                    /\ \A n \in Nodes : status[n] # "retired"
  BY DEF List!NoneUnreclaimed
<1>1. \A t \in List!Threads : retired[t] = <<>> /\ ~List!Unlinked(t)
  BY DEF List!Placed, List!Counts, List!Unlinked, List!SyncLabels
<1>2. \A t \in List!Threads : Len(retired[t]) = 0 /\ List!ToFree(t) = {}
  BY <1>1 DEF List!ToFree
<1> QED BY <1>2 DEF List!Placed, List!Counts

-----------------------------------------------------------------------------
(* The structures run the threads of the program.                          *)
LEMMA SameThreads ==
  Stack!Threads = Threads /\ Queue!Threads = Threads /\ List!Threads = Threads
BY DEF Stack!Threads, Queue!Threads, List!Threads, Threads

(* How far the version goes.  There are NumThreads threads.                *)
LEMMA ThreadsFinite ==
  IsFiniteSet(Threads) /\ Cardinality(Threads) = NumThreads /\ NumThreads \in Nat
BY ThreadsAssumption, FS_Interval, SMT DEF Threads

(* An advance of the version is paid for by one element of a finite set.   *)
LEMMA BoundKept ==
  ASSUME NEW A, IsFiniteSet(A), NEW B \in SUBSET A,
         NEW v \in Nat, NEW w \in Nat, NEW bound \in Nat,
         v + Cardinality(A) <= bound,
         w <= v \/ (w <= v + 1 /\ A # B)
  PROVE  w + Cardinality(B) <= bound
<1>1. /\ IsFiniteSet(B) /\ Cardinality(B) <= Cardinality(A)
      /\ Cardinality(B) = Cardinality(A) => A = B
  BY FS_Subset
<1>2. Cardinality(A) \in Nat /\ Cardinality(B) \in Nat
  BY <1>1, FS_CardinalityType
<1> QED BY <1>1, <1>2

(* Before a call the version is below its bound, so that after it every    *)
(* thread may advance it once.                                             *)
LEMMA BoundOfCalls ==
  ASSUME NEW A \in SUBSET Threads, NEW v \in Nat, v < MaxVersion
  PROVE  v + Cardinality(A) <= MaxVersion + NumThreads
<1>1. IsFiniteSet(A) /\ Cardinality(A) <= NumThreads
  BY ThreadsFinite, FS_Subset
<1> QED BY <1>1, ThreadsFinite, FS_CardinalityType, VersionAssumption

(* While calls are made: either a call begins, or the advances left to be  *)
(* made are no more than before.                                           *)
LEMMA CallsBound ==
  ASSUME NEW A \in SUBSET Threads, NEW B \in SUBSET Threads,
         NEW v \in Nat, NEW w \in Nat,
         v + Cardinality(A) <= MaxVersion + NumThreads,
         \/ v < MaxVersion /\ w = v
         \/ B \subseteq A /\ (w <= v \/ (w <= v + 1 /\ A # B))
  PROVE  w + Cardinality(B) <= MaxVersion + NumThreads
<1>1. MaxVersion + NumThreads \in Nat /\ IsFiniteSet(A)
  BY ThreadsFinite, VersionAssumption, FS_Subset
<1>2. CASE v < MaxVersion /\ w = v
  BY <1>2, BoundOfCalls
<1>3. CASE B \subseteq A /\ (w <= v \/ (w <= v + 1 /\ A # B))
  <2>1. B \in SUBSET A
    BY <1>3
  <2> QED BY <1>1, <1>3, <2>1, BoundKept
<1> QED BY <1>2, <1>3

-----------------------------------------------------------------------------
(* The threads of the stack that may advance the version once more.        *)
StackAdvancing == {t \in Threads : Stack!Advances(t)}

(* A call begins while the version is below its bound; otherwise a thread  *)
(* that advances the version will not do so again in this call.            *)
LEMMA StackAdvances ==
  ASSUME Stack!IInv, NEW t \in Threads, Stack!ThreadStep(t), main # "draining"
  PROVE  \/ updaterVersion < MaxVersion /\ updaterVersion' = updaterVersion
         \/ /\ \A u \in Threads : Stack!Advances(u)' => Stack!Advances(u)
            /\ \/ updaterVersion' = updaterVersion
               \/ /\ updaterVersion' = updaterVersion + 1
                  /\ Stack!Advances(t) /\ ~Stack!Advances(t)'
<1> USE DEF Stack!Goto, Stack!Advances, Stack!urcuVars, Stack!versionVars
<1>0. pc = [u \in Threads |-> pc[u]] /\ Stack!Threads = Threads
  BY SameThreads DEF Stack!IInv, Stack!StackTypes
<1>1. CASE Stack!PushCall(t) \/ Stack!PopCall(t)
  BY <1>1 DEF Stack!PushCall, Stack!PopCall, Stack!DrainingAs
<1>2. CASE Stack!LockStep(t)
  BY <1>0, <1>2 DEF Stack!LockStep, Stack!ReadLock, Stack!LockLoad, Stack!LockStore,
     Stack!LockCheck, Stack!LockFix
<1>3. CASE Stack!PopSync(t)
  BY <1>0, <1>3 DEF Stack!PopSync, Stack!SynchronizeRCU, Stack!SyncLoad, Stack!SyncCas,
     Stack!SyncSpin
<1>4. CASE Stack!PushStep(t) \/ Stack!ThreadExit(t)
  BY <1>0, <1>4 DEF Stack!PushStep, Stack!PushLoad, Stack!PushCas, Stack!PushUnlock,
     Stack!ReadUnlock, Stack!ThreadExit, Stack!LeaveLoop
<1>5. CASE \/ Stack!PopLoad(t) \/ Stack!PopEmpty(t) \/ Stack!PopCheck(t) \/ Stack!PopRetry(t)
           \/ Stack!PopNext(t) \/ Stack!PopCas(t) \/ Stack!PopItem(t) \/ Stack!PopUnlock(t)
           \/ Stack!PopFree(t)
  BY <1>0, <1>5 DEF Stack!PopLoad, Stack!PopEmpty, Stack!PopCheck, Stack!PopRetry,
     Stack!PopNext, Stack!PopCas, Stack!PopItem, Stack!PopUnlock, Stack!PopFree,
     Stack!ReadUnlock
<1> QED BY <1>1, <1>2, <1>3, <1>4, <1>5 DEF Stack!ThreadStep, Stack!PopStep

(* While the main thread drains the stack, what it has left to pop only    *)
(* shrinks, and does so before the version advances.                       *)
LEMMA StackDrainAdvances ==
  ASSUME Stack!IInv, Stack!ThreadStep(0), main = "draining", node[0] = NULL
  PROVE  /\ node'[0] = NULL
         /\ Stack!LeftToPop' \subseteq Stack!LeftToPop
         /\ \/ updaterVersion' = updaterVersion
            \/ /\ updaterVersion' = updaterVersion + 1
               /\ Stack!LeftToPop' # Stack!LeftToPop
<1> USE DEF Stack!Goto, Stack!LeftToPop, Stack!urcuVars, Stack!versionVars, Stack!locals,
            Stack!heapVars
<1>0. /\ pc = [u \in Threads |-> pc[u]] /\ 0 \in Threads
      /\ node = [u \in Threads |-> node[u]]
      /\ temp \in [Threads -> Stack!NodeOrNull]
      /\ pc[0] \in Stack!PushLabels => node[0] # NULL
      /\ pc[0] \in {"pop.unlock", "pop.item"} \cup Stack!SyncLabels =>
           temp[0] \in Nodes /\ status[temp[0]] = "retired"
  BY SameThreads, ThreadsAssumption
     DEF Stack!IInv, Stack!StackTypes, Stack!PushOwnsNode, Stack!PoppedByOne, Stack!Popped, Threads
<1>1. Stack!Linked = {n \in Nodes : status[n] = "linked"}
  BY DEF Stack!Linked
<1>2. CASE Stack!PushCall(0) \/ Stack!PushStep(0) \/ Stack!ThreadExit(0)
  BY <1>0, <1>1, <1>2
     DEF Stack!PushCall, Stack!Calling, Stack!PushStep, Stack!PushLoad, Stack!PushCas,
     Stack!PushUnlock, Stack!PushLabels, Stack!ReadUnlock, Stack!ThreadExit,
     Stack!LeaveLoop, Stack!Linked
<1>3. CASE Stack!LockStep(0)
  BY <1>0, <1>3 DEF Stack!LockStep, Stack!ReadLock, Stack!LockLoad, Stack!LockStore,
     Stack!LockCheck, Stack!LockFix, Stack!Linked
<1>4. CASE Stack!PopSync(0)
  BY <1>0, <1>4 DEF Stack!PopSync, Stack!SynchronizeRCU, Stack!SyncLoad, Stack!SyncCas,
     Stack!SyncSpin, Stack!Linked, Stack!SyncLabels
<1>5. CASE Stack!PopCas(0)
  <2>1. \/ UNCHANGED status /\ pc'[0] = "lock.load"
        \/ /\ top = temp[0] /\ status' = [status EXCEPT ![temp[0]] = "retired"] /\ temp' = temp
           /\ pc'[0] = "pop.item" /\ temp[0] \in Nodes /\ status[temp[0]] = "linked"
    <3>1. pc[0] = "pop.cas" /\ temp[0] \in Nodes /\ (top = temp[0] => status[temp[0]] = "linked")
      BY <1>0, <1>5, HeapAssumption, SameThreads
         DEF Stack!PopCas, Stack!IInv, Stack!ReaderKeepsNode, Stack!StackShape
    <3> QED BY <1>0, <1>5, <3>1 DEF Stack!PopCas
  <2>2. pc[0] = "pop.cas" /\ node' = node /\ updaterVersion' = updaterVersion
        /\ status \in [Nodes -> Stack!Statuses]
    BY <1>5 DEF Stack!PopCas, Stack!IInv, Stack!StackTypes, Stack!HeapTypeOK
  <2> QED BY <2>1, <2>2 DEF Stack!Linked
<1>6. CASE \/ Stack!PopCall(0) \/ Stack!PopLoad(0) \/ Stack!PopEmpty(0) \/ Stack!PopCheck(0)
           \/ Stack!PopRetry(0) \/ Stack!PopNext(0) \/ Stack!PopItem(0) \/ Stack!PopUnlock(0)
  BY <1>0, <1>6
     DEF Stack!PopCall, Stack!PopLoad, Stack!PopEmpty, Stack!PopCheck, Stack!PopRetry,
     Stack!PopNext, Stack!PopItem, Stack!PopUnlock, Stack!ReadUnlock, Stack!Linked
<1>7. CASE Stack!PopFree(0)
  BY <1>0, <1>7 DEF Stack!PopFree, Stack!Delete, Stack!Linked
<1> QED BY <1>2, <1>3, <1>4, <1>5, <1>6, <1>7 DEF Stack!ThreadStep, Stack!PopStep

(* So the version stays below its bound.                                  *)
LEMMA StackNextVersion ==
  ASSUME Stack!IInv, Stack!Counts, Stack!VersionBounded, [Stack!Next]_(Stack!vars)
  PROVE  Stack!VersionBounded'
<1> DEFINE drained(m) == m \in {"draining", "deleting", "destroyed"}
<1>0. /\ updaterVersion \in Nat /\ Stack!Threads = Threads /\ 0 \in Threads
      /\ pc = [u \in Threads |-> pc[u]]
  BY SameThreads, ThreadsAssumption
     DEF Stack!IInv, Stack!Grace, Stack!GraceTypes, Stack!StackTypes, Threads
<1>1. /\ MaxVersion + NumThreads \in Nat
      /\ MaxVersion + NumThreads + Cardinality(Nodes) \in Nat
      /\ Cardinality(Nodes) \in Nat /\ IsFiniteSet(Nodes)
  BY ThreadsFinite, VersionAssumption, FS_CardinalityType
<1>2. updaterVersion' \in Nat
  <2>1. Stack!Grace(Stack!SectionLabels)'
    BY StackKeepsGrace DEF Stack!IInv
  <2> QED BY <2>1 DEF Stack!Grace, Stack!GraceTypes
<1>3. /\ Stack!LeftToPop \subseteq Nodes \cup {temp[0]}
      /\ IsFiniteSet(Stack!LeftToPop)
      /\ IsFiniteSet(StackAdvancing)
  <2>1. Stack!LeftToPop \subseteq Nodes \cup {temp[0]}
    BY DEF Stack!LeftToPop, Stack!Linked
  <2>2. IsFiniteSet(Nodes \cup {temp[0]})
    BY <1>1, FS_AddElement
  <2>3. IsFiniteSet(StackAdvancing)
    BY ThreadsFinite, FS_Subset DEF StackAdvancing
  <2> QED BY <2>1, <2>2, <2>3, FS_Subset
<1>4. ASSUME drained(main), drained(main'), node'[0] = NULL,
             Stack!LeftToPop' \subseteq Stack!LeftToPop,
             \/ updaterVersion' <= updaterVersion
             \/ updaterVersion' <= updaterVersion + 1 /\ Stack!LeftToPop' # Stack!LeftToPop
      PROVE  Stack!VersionBounded'
  <2>1. updaterVersion + Cardinality(Stack!LeftToPop) <= MaxVersion + NumThreads + Cardinality(Nodes)
    BY <1>4, StackCardinality DEF Stack!VersionBounded
  <2>2. updaterVersion' + Cardinality(Stack!LeftToPop') <= MaxVersion + NumThreads + Cardinality(Nodes)
    BY <2>1, <1>0, <1>1, <1>2, <1>3, <1>4, BoundKept
  <2> QED BY <1>4, <2>2, StackCardinality DEF Stack!VersionBounded
<1>5. ASSUME ~drained(main), ~drained(main'),
             \/ updaterVersion < MaxVersion /\ updaterVersion' = updaterVersion
             \/ /\ StackAdvancing' \subseteq StackAdvancing
                /\ \/ updaterVersion' <= updaterVersion
                   \/ updaterVersion' <= updaterVersion + 1 /\ StackAdvancing' # StackAdvancing
      PROVE  Stack!VersionBounded'
  <2>1. updaterVersion + Cardinality(StackAdvancing) <= MaxVersion + NumThreads
    BY <1>0, <1>5, StackCardinality DEF Stack!VersionBounded, StackAdvancing
  <2>2. StackAdvancing \in SUBSET Threads /\ StackAdvancing' \in SUBSET Threads
    BY DEF StackAdvancing
  <2>3. updaterVersion' + Cardinality(StackAdvancing') <= MaxVersion + NumThreads
    BY <2>1, <2>2, <1>0, <1>2, <1>5, CallsBound
  <2> QED BY <1>0, <1>5, <2>3, StackCardinality DEF Stack!VersionBounded, StackAdvancing
<1>6. ASSUME NEW t \in Threads, Stack!ThreadStep(t)
      PROVE  Stack!VersionBounded'
  <2>1. CASE ~drained(main) /\ main' = main
    <3>1. \/ updaterVersion < MaxVersion /\ updaterVersion' = updaterVersion
          \/ /\ \A u \in Threads : Stack!Advances(u)' => Stack!Advances(u)
             /\ \/ updaterVersion' = updaterVersion
                \/ /\ updaterVersion' = updaterVersion + 1
                   /\ Stack!Advances(t) /\ ~Stack!Advances(t)'
      BY <1>6, <2>1, StackAdvances
    <3> QED BY <1>0, <1>5, <2>1, <3>1 DEF StackAdvancing
  <2>2. CASE t = 0 /\ main = "draining" /\ main' \in {"draining", "deleting"}
    <3>1. node[0] = NULL /\ Stack!ThreadStep(0)
      BY <1>6, <2>2 DEF Stack!VersionBounded
    <3>2. /\ node'[0] = NULL
          /\ Stack!LeftToPop' \subseteq Stack!LeftToPop
          /\ \/ updaterVersion' = updaterVersion
             \/ /\ updaterVersion' = updaterVersion + 1
                /\ Stack!LeftToPop' # Stack!LeftToPop
      BY <2>2, <3>1, StackDrainAdvances
    <3>3. \/ updaterVersion' <= updaterVersion
          \/ updaterVersion' <= updaterVersion + 1 /\ Stack!LeftToPop' # Stack!LeftToPop
      BY <1>0, <3>2
    <3>4. drained(main) /\ drained(main')
      BY <2>2
    <3> HIDE DEF drained
    <3> QED BY <1>4, <3>2, <3>3, <3>4
  <2> QED BY <1>0, <1>6, <2>1, <2>2, StackRuns
<1>7. CASE Stack!Quit \/ UNCHANGED Stack!vars
  <2>1. /\ UNCHANGED <<pc, node, temp, status, updaterVersion>>
        /\ main' = main \/ (~drained(main) /\ ~drained(main'))
    <3>1. CASE Stack!Quit
      BY <3>1 DEF Stack!Quit, Stack!QuitSignal, Stack!urcuVars, Stack!versionVars,
         Stack!heapVars, Stack!locals
    <3>2. CASE UNCHANGED Stack!vars
      BY <3>2
         DEF Stack!vars, Stack!urcuVars, Stack!versionVars, Stack!heapVars,
             Stack!locals, drained
    <3> QED BY <1>7, <3>1, <3>2
  <2>2. StackAdvancing' = StackAdvancing /\ Stack!LeftToPop' = Stack!LeftToPop
    BY <2>1 DEF StackAdvancing, Stack!Advances, Stack!LeftToPop, Stack!Linked
  <2>3. CASE drained(main)
    BY <1>0, <1>4, <2>1, <2>2, <2>3 DEF Stack!VersionBounded
  <2>4. CASE ~drained(main)
    BY <1>0, <1>5, <2>1, <2>2, <2>4
  <2> QED BY <2>3, <2>4
<1>8. CASE Stack!Join
  <2>1. /\ main = "joining" /\ main' = "draining" /\ UNCHANGED <<node, updaterVersion>>
        /\ pc'[0] = "idle" /\ pc[0] = "exited"
    BY <1>0, <1>8
       DEF Stack!Join, Stack!JoinThreads, Stack!urcuVars, Stack!versionVars,
           Stack!locals
  <2>2. node[0] = NULL
    BY <1>0, <2>1 DEF Stack!Counts, Stack!PushLabels, Stack!LockLabels
  <2>3. updaterVersion + Cardinality(StackAdvancing) <= MaxVersion + NumThreads
    BY <1>0, <2>1, StackCardinality DEF Stack!VersionBounded, StackAdvancing
  <2>4. Cardinality(Stack!LeftToPop') <= Cardinality(Nodes) /\ Cardinality(Stack!LeftToPop') \in Nat
    <3>1. Stack!LeftToPop' \in SUBSET Nodes
      BY <2>1 DEF Stack!LeftToPop, Stack!Linked
    <3> QED BY <3>1, <1>1, FS_Subset, FS_CardinalityType
  <2>5. updaterVersion' + Cardinality(Stack!LeftToPop')
          <= MaxVersion + NumThreads + Cardinality(Nodes)
    <3>1. Cardinality(StackAdvancing) \in Nat
      BY <1>3, FS_CardinalityType
    <3> QED BY <1>0, <1>1, <2>1, <2>3, <2>4, <3>1
  <2> QED BY <2>1, <2>2, <2>5, StackCardinality DEF Stack!VersionBounded
<1>9. CASE Stack!Destroy
  <2>1. /\ main = "deleting" /\ main' = "destroyed"
        /\ UNCHANGED <<pc, node, temp, updaterVersion>>
    BY <1>9
       DEF Stack!Destroy, Stack!DeleteStructure, Stack!urcuVars, Stack!versionVars,
           Stack!locals
  <2>2. Stack!LeftToPop' \subseteq Stack!LeftToPop
    BY <1>9, <2>1 DEF Stack!Destroy, Stack!Delete, Stack!LeftToPop, Stack!Linked
  <2> QED BY <1>0, <1>4, <2>1, <2>2 DEF Stack!VersionBounded
<1> QED BY <1>0, <1>6, <1>7, <1>8, <1>9 DEF Stack!Next, Stack!MainStep, Stack!Finished

(* At first no version has been given out.                                 *)
LEMMA StackInitVersion == Stack!Init => Stack!VersionBounded
<1> SUFFICES ASSUME Stack!Init PROVE Stack!VersionBounded
  OBVIOUS
<1>1. /\ main = "sleeping" /\ updaterVersion = 0
      /\ {t \in Stack!Threads : Stack!Advances(t)} = {}
  BY DEF Stack!Init, Stack!BenchmarkInit, Stack!URCUInit, Stack!Advances
<1> QED BY <1>1, FS_EmptySet, StackCardinality, VersionAssumption, ThreadsFinite
        DEF Stack!VersionBounded

(* Both bound the same set in the same way.                                *)
LEMMA QueueCardinality == \A S : Queue!Cardinality(S) = Cardinality(S)
BY DEF Cardinality, Queue!Cardinality

-----------------------------------------------------------------------------
(* The threads of the queue that may advance the version once more.        *)
QueueAdvancing == {t \in Threads : Queue!Advances(t)}

(* The same of the queue.                                                  *)
LEMMA QueueAdvances ==
  ASSUME Queue!IInv, NEW t \in Threads, Queue!ThreadStep(t), main # "draining"
  PROVE  \/ updaterVersion < MaxVersion /\ updaterVersion' = updaterVersion
         \/ /\ \A u \in Threads : Queue!Advances(u)' => Queue!Advances(u)
            /\ \/ updaterVersion' = updaterVersion
               \/ /\ updaterVersion' = updaterVersion + 1
                  /\ Queue!Advances(t) /\ ~Queue!Advances(t)'
<1> USE QueueFunctions DEF Queue!Goto, Queue!Advances, Queue!urcuVars, Queue!versionVars
<1>1. CASE Queue!EnqCall(t) \/ Queue!DeqCall(t)
  BY <1>1 DEF Queue!EnqCall, Queue!DeqCall, Queue!DrainingAs
<1>2. CASE Queue!LockStep(t)
  BY <1>2 DEF Queue!LockStep, Queue!ReadLock, Queue!LockLoad, Queue!LockStore,
     Queue!LockCheck, Queue!LockFix
<1>3. CASE Queue!Sync(t)
  BY <1>3 DEF Queue!Sync, Queue!SynchronizeRCU, Queue!SyncLoad, Queue!SyncCas,
     Queue!SyncSpin
<1>4. CASE Queue!EnqStep(t) \/ Queue!ThreadExit(t)
  BY <1>4 DEF Queue!EnqStep, Queue!EnqLoad, Queue!EnqCheck, Queue!EnqRetry, Queue!EnqNext,
     Queue!EnqRecheck, Queue!EnqHelp, Queue!EnqLink, Queue!EnqSwing, Queue!EnqUnlock,
     Queue!ReadUnlock, Queue!ThreadExit, Queue!LeaveLoop
<1>5. CASE Queue!DeqStep(t)
  BY <1>5 DEF Queue!DeqStep, Queue!DeqLoad, Queue!DeqCheck, Queue!DeqRetry, Queue!DeqTail,
     Queue!DeqNext, Queue!DeqRecheck, Queue!DeqAbandon, Queue!DeqHelp, Queue!DeqCas,
     Queue!DeqItem, Queue!DeqUnlock, Queue!DeqFree, Queue!ReadUnlock
<1> QED BY <1>1, <1>2, <1>3, <1>4, <1>5 DEF Queue!ThreadStep

(* What the main thread does while it drains the queue: it is in no        *)
(* enqueue.                                                                *)
QueueDrains ==
  /\ node[0] = NULL /\ pc[0] \notin Queue!EnqLabels
  /\ pc[0] \in Queue!SyncLabels => temp[0] # NULL

(* The dequeues of the main thread stay dequeues.                          *)
LEMMA QueueDrainStays ==
  ASSUME Queue!IInv, Queue!ThreadStep(0), main = "draining", QueueDrains, 0 \in Threads
  PROVE  QueueDrains'
<1> USE QueueFunctions, HeapAssumption
        DEF QueueDrains, Queue!Goto, Queue!locals, Queue!EnqLabels, Queue!SyncLabels
<1>1. CASE Queue!EnqCall(0) \/ Queue!DeqCall(0) \/ Queue!EnqStep(0) \/ Queue!ThreadExit(0)
  BY <1>1 DEF Queue!EnqCall, Queue!DeqCall, Queue!Calling, Queue!EnqStep, Queue!EnqLoad,
     Queue!EnqCheck, Queue!EnqRetry, Queue!EnqNext, Queue!EnqRecheck, Queue!EnqHelp,
     Queue!EnqLink, Queue!EnqSwing, Queue!EnqUnlock, Queue!ThreadExit, Queue!LeaveLoop
<1>2. CASE Queue!LockStep(0)
  BY <1>2 DEF Queue!LockStep, Queue!ReadLock, Queue!LockLoad, Queue!LockStore,
     Queue!LockCheck, Queue!LockFix
<1>3. CASE Queue!Sync(0)
  BY <1>3 DEF Queue!Sync, Queue!SynchronizeRCU, Queue!SyncLoad, Queue!SyncCas,
     Queue!SyncSpin
<1>4. CASE Queue!DeqLoad(0) \/ Queue!DeqCheck(0) \/ Queue!DeqRetry(0) \/ Queue!DeqTail(0)
           \/ Queue!DeqNext(0) \/ Queue!DeqHelp(0) \/ Queue!DeqCas(0) \/ Queue!DeqItem(0)
           \/ Queue!DeqFree(0)
  BY <1>4 DEF Queue!DeqLoad, Queue!DeqCheck, Queue!DeqRetry, Queue!DeqTail, Queue!DeqNext,
     Queue!DeqHelp, Queue!DeqCas, Queue!DeqItem, Queue!DeqFree
<1>5. CASE Queue!DeqRecheck(0)
  BY <1>5 DEF Queue!DeqRecheck, Queue!DeqAbandon
<1>6. CASE Queue!DeqUnlock(0)
  BY <1>6, QueueTemp DEF Queue!DeqUnlock
<1> QED BY <1>1, <1>2, <1>3, <1>4, <1>5, <1>6 DEF Queue!ThreadStep, Queue!DeqStep

(* While the main thread drains the queue, what it has left to dequeue     *)
(* only shrinks, and does so before the version advances.                  *)
LEMMA QueueDrainAdvances ==
  ASSUME Queue!IInv, Queue!ThreadStep(0), main = "draining", QueueDrains, 0 \in Threads
  PROVE  /\ Queue!LeftToDequeue' \subseteq Queue!LeftToDequeue
         /\ \/ updaterVersion' = updaterVersion
            \/ /\ updaterVersion' = updaterVersion + 1
               /\ Queue!LeftToDequeue' # Queue!LeftToDequeue
<1> USE QueueFunctions DEF Queue!Goto, Queue!LeftToDequeue, Queue!urcuVars,
            Queue!versionVars, Queue!locals, Queue!heapVars, Queue!Linked
<1>1. CASE Queue!EnqCall(0) \/ Queue!DeqCall(0) \/ Queue!EnqStep(0) \/ Queue!ThreadExit(0)
  BY <1>1
     DEF QueueDrains, Queue!EnqCall, Queue!DeqCall, Queue!Calling, Queue!EnqStep,
         Queue!EnqLoad,
     Queue!EnqCheck, Queue!EnqRetry, Queue!EnqNext, Queue!EnqRecheck, Queue!EnqHelp,
     Queue!EnqLink, Queue!EnqSwing, Queue!EnqUnlock, Queue!ThreadExit, Queue!LeaveLoop,
     Queue!EnqLabels
<1>2. CASE Queue!LockStep(0)
  BY <1>2 DEF Queue!LockStep, Queue!ReadLock, Queue!LockLoad, Queue!LockStore,
     Queue!LockCheck, Queue!LockFix
<1>3. CASE Queue!Sync(0)
  <2>1. pc[0] \in Queue!SyncLabels => temp[0] \in Nodes /\ status[temp[0]] = "retired"
    BY DEF QueueDrains, Queue!IInv, Queue!DequeuedByOne, Queue!Dequeued
  <2> QED BY <1>3, <2>1
             DEF Queue!Sync, Queue!SynchronizeRCU, Queue!SyncLoad, Queue!SyncCas,
          Queue!SyncSpin, Queue!SyncLabels
<1>4. CASE Queue!DeqCas(0)
  <2>1. pc[0] = "deq.cas" /\ temp[0] \in Nodes /\ (head = temp[0] => status[temp[0]] = "linked")
    BY <1>4 DEF Queue!DeqCas, Queue!IInv, Queue!ReaderKeepsNodes, Queue!Guards,
       Queue!QueueShape
  <2> QED BY <1>4, <2>1 DEF Queue!DeqCas
<1>5. CASE \/ Queue!DeqLoad(0) \/ Queue!DeqCheck(0) \/ Queue!DeqRetry(0) \/ Queue!DeqTail(0)
           \/ Queue!DeqNext(0) \/ Queue!DeqHelp(0)
  BY <1>5 DEF Queue!DeqLoad, Queue!DeqCheck, Queue!DeqRetry, Queue!DeqTail, Queue!DeqNext,
     Queue!DeqHelp, Queue!ReadUnlock
<1>6. CASE Queue!DeqItem(0) \/ Queue!DeqUnlock(0)
  BY <1>6 DEF Queue!DeqItem, Queue!DeqUnlock, Queue!ReadUnlock
<1>7. CASE Queue!DeqRecheck(0)
  BY <1>7 DEF Queue!DeqRecheck, Queue!DeqAbandon
<1>8. CASE Queue!DeqFree(0)
  BY <1>8 DEF Queue!DeqFree, Queue!Delete
<1> QED BY <1>1, <1>2, <1>3, <1>4, <1>5, <1>6, <1>7, <1>8
           DEF Queue!ThreadStep, Queue!DeqStep

(* The same of the queue.                                                  *)
LEMMA QueueNextVersion ==
  ASSUME Queue!IInv, Queue!Counts, Queue!VersionBounded, [Queue!Next]_(Queue!vars)
  PROVE  Queue!VersionBounded'
<1> DEFINE drained(m) == m \in {"draining", "deleting", "destroyed"}
<1>0. /\ updaterVersion \in Nat /\ Queue!Threads = Threads /\ 0 \in Threads
      /\ pc = [u \in Threads |-> pc[u]]
  BY SameThreads, ThreadsAssumption
     DEF Queue!IInv, Queue!Grace, Queue!GraceTypes, Queue!QueueTypes, Threads
<1>1. /\ MaxVersion + NumThreads \in Nat
      /\ MaxVersion + NumThreads + Cardinality(Nodes) \in Nat
      /\ Cardinality(Nodes) \in Nat /\ IsFiniteSet(Nodes)
  BY ThreadsFinite, VersionAssumption, FS_CardinalityType
<1>2. updaterVersion' \in Nat
  <2>1. Queue!Grace(Queue!SectionLabels)'
    BY QueueKeepsGrace DEF Queue!IInv
  <2> QED BY <2>1 DEF Queue!Grace, Queue!GraceTypes
<1>3. /\ Queue!LeftToDequeue \subseteq Nodes \cup {temp[0]}
      /\ IsFiniteSet(Queue!LeftToDequeue)
      /\ IsFiniteSet(QueueAdvancing)
  <2>1. Queue!LeftToDequeue \subseteq Nodes \cup {temp[0]}
    BY DEF Queue!LeftToDequeue, Queue!Linked
  <2>2. IsFiniteSet(Nodes \cup {temp[0]})
    BY <1>1, FS_AddElement
  <2>3. IsFiniteSet(QueueAdvancing)
    BY ThreadsFinite, FS_Subset DEF QueueAdvancing
  <2> QED BY <2>1, <2>2, <2>3, FS_Subset
<1>4. ASSUME drained(main), drained(main'), QueueDrains',
             Queue!LeftToDequeue' \subseteq Queue!LeftToDequeue,
             \/ updaterVersion' <= updaterVersion
             \/ updaterVersion' <= updaterVersion + 1 /\ Queue!LeftToDequeue' # Queue!LeftToDequeue
      PROVE  Queue!VersionBounded'
  <2>1. updaterVersion + Cardinality(Queue!LeftToDequeue) <= MaxVersion + NumThreads + Cardinality(Nodes)
    BY <1>4, QueueCardinality DEF Queue!VersionBounded
  <2>2. updaterVersion' + Cardinality(Queue!LeftToDequeue') <= MaxVersion + NumThreads + Cardinality(Nodes)
    BY <2>1, <1>0, <1>1, <1>2, <1>3, <1>4, BoundKept
  <2> QED BY <1>4, <2>2, QueueCardinality DEF Queue!VersionBounded, QueueDrains
<1>5. ASSUME ~drained(main), ~drained(main'),
             \/ updaterVersion < MaxVersion /\ updaterVersion' = updaterVersion
             \/ /\ QueueAdvancing' \subseteq QueueAdvancing
                /\ \/ updaterVersion' <= updaterVersion
                   \/ updaterVersion' <= updaterVersion + 1 /\ QueueAdvancing' # QueueAdvancing
      PROVE  Queue!VersionBounded'
  <2>1. updaterVersion + Cardinality(QueueAdvancing) <= MaxVersion + NumThreads
    BY <1>0, <1>5, QueueCardinality DEF Queue!VersionBounded, QueueAdvancing
  <2>2. QueueAdvancing \in SUBSET Threads /\ QueueAdvancing' \in SUBSET Threads
    BY DEF QueueAdvancing
  <2>3. updaterVersion' + Cardinality(QueueAdvancing') <= MaxVersion + NumThreads
    BY <2>1, <2>2, <1>0, <1>2, <1>5, CallsBound
  <2> QED BY <1>0, <1>5, <2>3, QueueCardinality DEF Queue!VersionBounded, QueueAdvancing
<1>6. ASSUME NEW t \in Threads, Queue!ThreadStep(t)
      PROVE  Queue!VersionBounded'
  <2>1. CASE ~drained(main) /\ main' = main
    <3>1. \/ updaterVersion < MaxVersion /\ updaterVersion' = updaterVersion
          \/ /\ \A u \in Threads : Queue!Advances(u)' => Queue!Advances(u)
             /\ \/ updaterVersion' = updaterVersion
                \/ /\ updaterVersion' = updaterVersion + 1
                   /\ Queue!Advances(t) /\ ~Queue!Advances(t)'
      BY <1>6, <2>1, QueueAdvances
    <3> QED BY <1>0, <1>5, <2>1, <3>1 DEF QueueAdvancing
  <2>2. CASE t = 0 /\ main = "draining" /\ main' \in {"draining", "deleting"}
    <3>1. QueueDrains /\ Queue!ThreadStep(0)
      BY <1>6, <2>2 DEF Queue!VersionBounded, QueueDrains
    <3>2. /\ QueueDrains'
          /\ Queue!LeftToDequeue' \subseteq Queue!LeftToDequeue
          /\ \/ updaterVersion' = updaterVersion
             \/ /\ updaterVersion' = updaterVersion + 1
                /\ Queue!LeftToDequeue' # Queue!LeftToDequeue
      BY <1>0, <2>2, <3>1, QueueDrainStays, QueueDrainAdvances
    <3>3. \/ updaterVersion' <= updaterVersion
          \/ updaterVersion' <= updaterVersion + 1 /\ Queue!LeftToDequeue' # Queue!LeftToDequeue
      BY <1>0, <3>2
    <3>4. drained(main) /\ drained(main')
      BY <2>2
    <3> HIDE DEF drained
    <3> QED BY <1>4, <3>2, <3>3, <3>4
  <2> QED BY <1>0, <1>6, <2>1, <2>2, QueueRuns
<1>7. CASE Queue!Quit \/ UNCHANGED Queue!vars
  <2>1. /\ UNCHANGED <<pc, node, temp, status, updaterVersion>>
        /\ main' = main \/ (~drained(main) /\ ~drained(main'))
    <3>1. CASE Queue!Quit
      BY <3>1 DEF Queue!Quit, Queue!QuitSignal, Queue!urcuVars, Queue!versionVars,
         Queue!heapVars, Queue!locals
    <3>2. CASE UNCHANGED Queue!vars
      BY <3>2
         DEF Queue!vars, Queue!urcuVars, Queue!versionVars, Queue!heapVars,
             Queue!locals, drained
    <3> QED BY <1>7, <3>1, <3>2
  <2>2. QueueAdvancing' = QueueAdvancing /\ Queue!LeftToDequeue' = Queue!LeftToDequeue
    BY <2>1 DEF QueueAdvancing, Queue!Advances, Queue!LeftToDequeue, Queue!Linked
  <2>3. CASE drained(main)
    BY <1>0, <1>4, <2>1, <2>2, <2>3 DEF Queue!VersionBounded, QueueDrains
  <2>4. CASE ~drained(main)
    BY <1>0, <1>5, <2>1, <2>2, <2>4
  <2> QED BY <2>3, <2>4
<1>8. CASE Queue!Join
  <2>1. /\ main = "joining" /\ main' = "draining" /\ UNCHANGED <<node, updaterVersion>>
        /\ pc'[0] = "idle" /\ pc[0] = "exited"
    BY <1>0, <1>8
       DEF Queue!Join, Queue!JoinThreads, Queue!urcuVars, Queue!versionVars,
           Queue!locals
  <2>2. node[0] = NULL
    BY <1>0, <2>1 DEF Queue!Counts, Queue!EnqLabels, Queue!LockLabels
  <2>3. updaterVersion + Cardinality(QueueAdvancing) <= MaxVersion + NumThreads
    BY <1>0, <2>1, QueueCardinality DEF Queue!VersionBounded, QueueAdvancing
  <2>4. Cardinality(Queue!LeftToDequeue') <= Cardinality(Nodes) /\ Cardinality(Queue!LeftToDequeue') \in Nat
    <3>1. Queue!LeftToDequeue' \in SUBSET Nodes
      BY <2>1 DEF Queue!LeftToDequeue, Queue!Linked
    <3> QED BY <3>1, <1>1, FS_Subset, FS_CardinalityType
  <2>5. updaterVersion' + Cardinality(Queue!LeftToDequeue')
          <= MaxVersion + NumThreads + Cardinality(Nodes)
    <3>1. Cardinality(QueueAdvancing) \in Nat
      BY <1>3, FS_CardinalityType
    <3> QED BY <1>0, <1>1, <2>1, <2>3, <2>4, <3>1
  <2> QED BY <2>1, <2>2, <2>5, QueueCardinality
             DEF Queue!VersionBounded, Queue!EnqLabels, Queue!SyncLabels
<1>9. CASE Queue!Destroy
  <2>1. /\ main = "deleting" /\ main' = "destroyed"
        /\ UNCHANGED <<pc, node, temp, updaterVersion>>
    BY <1>9
       DEF Queue!Destroy, Queue!DeleteStructure, Queue!urcuVars, Queue!versionVars,
           Queue!locals
  <2>2. Queue!LeftToDequeue' \subseteq Queue!LeftToDequeue
    BY <1>9, <2>1 DEF Queue!Destroy, Queue!Delete, Queue!LeftToDequeue, Queue!Linked
  <2> QED BY <1>0, <1>4, <2>1, <2>2 DEF Queue!VersionBounded, QueueDrains
<1> QED BY <1>0, <1>6, <1>7, <1>8, <1>9 DEF Queue!Next, Queue!MainStep, Queue!Finished

(* At first no version has been given out.                                 *)
LEMMA QueueInitVersion == Queue!Init => Queue!VersionBounded
<1> SUFFICES ASSUME Queue!Init PROVE Queue!VersionBounded
  OBVIOUS
<1>1. /\ main = "sleeping" /\ updaterVersion = 0
      /\ {t \in Queue!Threads : Queue!Advances(t)} = {}
  BY DEF Queue!Init, Queue!BenchmarkInit, Queue!URCUInit, Queue!Advances
<1> QED BY <1>1, FS_EmptySet, QueueCardinality, VersionAssumption, ThreadsFinite
        DEF Queue!VersionBounded

-----------------------------------------------------------------------------
(* The threads of the list that may advance the version once more, and     *)
(* those that may then do so again.                                        *)
ListAdvancing == {t \in Threads : List!Advances(t)}
ListAdvancingTwice == {t \in Threads : List!AdvancesTwice(t)}

(* A step either begins a call or leaves its thread no more advances than  *)
(* before, and less when it advances the version.                          *)
LEMMA ListAdvances ==
  ASSUME List!IInv, NEW t \in List!Threads, List!ThreadStep(t)
  PROVE  \/ /\ \E o \in List!Operations, k \in Elements : List!MayCall(t, o, k)
            /\ calls' = calls + 1 /\ updaterVersion' = updaterVersion
         \/ /\ calls' = calls
            /\ List!Advances(t)' => List!Advances(t)
            /\ List!AdvancesTwice(t)' => List!AdvancesTwice(t)
            /\ \/ updaterVersion' = updaterVersion
               \/ /\ updaterVersion' = updaterVersion + 1
                  /\ \/ List!Advances(t) /\ ~List!Advances(t)'
                     \/ List!AdvancesTwice(t) /\ ~List!AdvancesTwice(t)'
<1> USE ListFunctions DEF List!Goto, List!Advances, List!AdvancesTwice, List!urcuVars,
            List!versionVars, List!listVars, List!findLocals, List!callVars,
            List!SectionLabels, List!FindLabels, List!LockLabels
<1>1. CASE List!AddCall(t) \/ List!Call(t)
  BY <1>1 DEF List!AddCall, List!Call, List!BeginCall, List!Operations
<1>2. CASE List!LockStep(t)
  BY <1>2 DEF List!LockStep, List!ReadLock, List!LockLoad, List!LockStore,
     List!LockCheck, List!LockFix
<1>3. CASE List!Sync(t)
  BY <1>3 DEF List!Sync, List!SynchronizeRCU, List!SyncLoad, List!SyncCas, List!SyncSpin
<1>4. CASE List!FindHead(t) \/ List!FindCheck(t) \/ List!FindAgain(t) \/ List!FindMoved(t)
           \/ List!FindMarked(t) \/ List!FindAdvances(t) \/ List!FindFollowsMarked(t)
  BY <1>4 DEF List!FindHead, List!FindCheck, List!FindAgain, List!FindMoved,
     List!FindMarked, List!FindAdvances, List!FindFollowsMarked, List!TryAgain
<1>5. CASE List!FindNext(t) \/ List!FindEnds(t)
  BY <1>5 DEF List!FindNext, List!FindEnds
<1>6. CASE List!FindHelp(t)
  BY <1>6 DEF List!FindHelp, List!TryAgain
<1>7. CASE List!AddDiscard(t) \/ List!AddCas(t) \/ List!RemoveMark(t)
  BY <1>7 DEF List!AddDiscard, List!AddCas, List!RemoveMark, List!TryAgain
<1>8. CASE List!RemoveCas(t) \/ List!RemoveUnlock(t) \/ List!Unlock(t)
           \/ List!RemoveFree(t) \/ List!Free(t)
  BY <1>8 DEF List!RemoveCas, List!RemoveUnlock, List!Unlock, List!RemoveFree,
     List!Free, List!GoOn, List!ReadUnlock, List!Forget, List!Follow
<1>9. CASE List!ThreadExit(t)
  BY <1>9 DEF List!ThreadExit, List!LeaveLoop
<1> QED BY <1>1, <1>2, <1>3, <1>4, <1>5, <1>6, <1>7, <1>8, <1>9
        DEF List!ThreadStep, List!FindStep, List!CallStep

(* Only the main thread, as thread 0, runs while the list is filled.       *)
FillsAlone == List!Filling => \A t \in Threads \ {0} : pc[t] = "idle"

(* What the version can still reach with the calls that have been made.    *)
ListReach == 2 * calls + IF List!Filling THEN 0 ELSE 2 * Cardinality(Elements)

(* Two sets of advances shrink as one does.                                *)
LEMMA BoundTwice ==
  ASSUME NEW A \in SUBSET Threads, NEW A2 \in SUBSET Threads,
         NEW B \in SUBSET A, NEW B2 \in SUBSET A2,
         NEW v \in Nat, NEW w \in Nat, NEW bound \in Nat,
         v + Cardinality(A) + Cardinality(A2) <= bound,
         w <= v \/ (w <= v + 1 /\ (A # B \/ A2 # B2))
  PROVE  w + Cardinality(B) + Cardinality(B2) <= bound
<1>1. /\ IsFiniteSet(A) /\ IsFiniteSet(B) /\ Cardinality(B) <= Cardinality(A)
      /\ Cardinality(B) = Cardinality(A) => A = B
  BY ThreadsFinite, FS_Subset
<1>2. /\ IsFiniteSet(A2) /\ IsFiniteSet(B2) /\ Cardinality(B2) <= Cardinality(A2)
      /\ Cardinality(B2) = Cardinality(A2) => A2 = B2
  BY ThreadsFinite, FS_Subset
<1>3. /\ Cardinality(A) \in Nat /\ Cardinality(B) \in Nat
      /\ Cardinality(A2) \in Nat /\ Cardinality(B2) \in Nat
  BY <1>1, <1>2, FS_CardinalityType
<1> QED BY <1>1, <1>2, <1>3

(* A call gives its thread at most two advances.                           *)
LEMMA BoundOfCall ==
  ASSUME NEW A \in SUBSET Threads, NEW A2 \in SUBSET Threads,
         NEW B \in SUBSET Threads, NEW B2 \in SUBSET Threads, NEW t \in Threads,
         B \subseteq A \cup {t}, B2 \subseteq A2 \cup {t}, NEW v \in Nat, NEW bound \in Nat,
         v + Cardinality(A) + Cardinality(A2) <= bound
  PROVE  v + Cardinality(B) + Cardinality(B2) <= bound + 2
<1>1. ASSUME NEW S \in SUBSET Threads, NEW T \in SUBSET Threads, T \subseteq S \cup {t}
      PROVE  /\ Cardinality(S) \in Nat /\ Cardinality(T) \in Nat
             /\ Cardinality(T) <= Cardinality(S) + 1
  <2>1. IsFiniteSet(S) /\ IsFiniteSet(T)
    BY ThreadsFinite, FS_Subset
  <2>2. /\ IsFiniteSet(S \cup {t})
        /\ Cardinality(S \cup {t}) = IF t \in S THEN Cardinality(S) ELSE Cardinality(S) + 1
    BY <2>1, FS_AddElement
  <2>3. Cardinality(T) <= Cardinality(S \cup {t})
    <3>1. T \in SUBSET (S \cup {t})
      BY <1>1
    <3> QED BY <2>2, <3>1, FS_Subset
  <2>4. Cardinality(S) \in Nat /\ Cardinality(T) \in Nat
    BY <2>1, FS_CardinalityType
  <2> QED BY <2>2, <2>3, <2>4
<1>2. /\ Cardinality(A) \in Nat /\ Cardinality(B) \in Nat
      /\ Cardinality(B) <= Cardinality(A) + 1
  BY <1>1
<1>3. /\ Cardinality(A2) \in Nat /\ Cardinality(B2) \in Nat
      /\ Cardinality(B2) <= Cardinality(A2) + 1
  BY <1>1
<1> QED BY <1>2, <1>3

(* The keys are counted, the calls and the versions are numbers.           *)
LEMMA ListNumbers ==
  /\ Cardinality(Elements) \in Nat /\ MaxCalls \in Nat
  /\ Elements = 0..(Cardinality(Elements) - 1)
<1>1. /\ MaxCalls \in Nat /\ IsFiniteSet(Elements)
      /\ Elements = 0..(Cardinality(Elements) - 1)
  BY ListAssumption, ListCardinality
     DEF List!CallsAssumption, List!IsFiniteSet, IsFiniteSet
<1> QED BY <1>1, FS_CardinalityType

(* Whoever does not begin a call is in one.                                *)
LEMMA ListAwake ==
  ASSUME NEW t \in Threads, List!ThreadStep(t), calls' = calls, calls \in Nat
  PROVE  pc[t] # "idle" \/ main = "joining"
<1> USE DEF List!Goto
<1>1. CASE List!AddCall(t) \/ List!Call(t)
  BY <1>1 DEF List!AddCall, List!Call, List!BeginCall
<1>2. CASE List!LockStep(t) \/ List!Sync(t) \/ List!ThreadExit(t)
  BY <1>2 DEF List!LockStep, List!ThreadExit, List!LeaveLoop, List!Sync, List!ReadLock,
     List!LockLoad, List!LockStore, List!LockCheck, List!LockFix, List!SynchronizeRCU,
     List!SyncLoad, List!SyncCas, List!SyncSpin
<1>3. CASE List!FindStep(t)
  BY <1>3 DEF List!FindStep, List!FindHead, List!FindCheck, List!FindNext, List!FindAgain,
     List!FindMoved, List!FindMarked, List!FindEnds, List!FindAdvances, List!FindHelp,
     List!FindFollowsMarked
<1>4. CASE List!CallStep(t)
  BY <1>4
     DEF List!CallStep, List!AddDiscard, List!AddCas, List!RemoveMark, List!RemoveCas,
     List!RemoveUnlock, List!Unlock, List!Sync, List!RemoveFree, List!Free, List!GoOn,
     List!SynchronizeRCU, List!SyncLoad, List!SyncCas, List!SyncSpin
<1> QED BY <1>1, <1>2, <1>3, <1>4 DEF List!ThreadStep

(* Every step of a thread keeps the version below its bound.               *)
LEMMA ListStepVersion ==
  ASSUME List!IInv, calls \in Nat, List!VersionBounded, updaterVersion' \in Nat,
         NEW t \in Threads, List!ThreadStep(t)
  PROVE  List!VersionBounded'
<1>0. List!Threads = Threads /\ updaterVersion \in Nat
  BY SameThreads DEF List!IInv, List!Grace, List!GraceTypes
<1>1. main' = main /\ List!Filling' = List!Filling
  BY <1>0, ListRuns DEF List!Filling
<1>2. \A u \in Threads : u # t => pc'[u] = pc[u] /\ curr'[u] = curr[u]
  BY <1>0, ListOthers DEF OthersStay
<1>3. /\ ListAdvancing \in SUBSET Threads /\ ListAdvancingTwice \in SUBSET Threads
      /\ ListAdvancing' \in SUBSET Threads /\ ListAdvancingTwice' \in SUBSET Threads
  BY DEF ListAdvancing, ListAdvancingTwice
<1>4. \A u \in Threads : u # t =>
        /\ List!Advances(u)' <=> List!Advances(u)
        /\ List!AdvancesTwice(u)' <=> List!AdvancesTwice(u)
  BY <1>2 DEF List!Advances, List!AdvancesTwice
<1>5. /\ updaterVersion + Cardinality(ListAdvancing) + Cardinality(ListAdvancingTwice) <= ListReach
      /\ FillsAlone
      /\ calls <= IF List!Filling THEN Cardinality(Elements) ELSE MaxCalls
  BY <1>0, ListCardinality
     DEF List!VersionBounded, ListAdvancing, ListAdvancingTwice, ListReach, FillsAlone
<1>6. ListReach \in Nat
  BY ListNumbers DEF ListReach
<1>7. CASE /\ \E o \in List!Operations, k \in Elements : List!MayCall(t, o, k)
           /\ calls' = calls + 1 /\ updaterVersion' = updaterVersion
  <2>1. /\ List!Filling => t = 0
        /\ calls' <= IF List!Filling THEN Cardinality(Elements) ELSE MaxCalls
    BY <1>7, ListNumbers DEF List!MayCall, List!Calling, List!Filling
  <2>2. ListAdvancing' \subseteq ListAdvancing \cup {t}
        /\ ListAdvancingTwice' \subseteq ListAdvancingTwice \cup {t}
    BY <1>4 DEF ListAdvancing, ListAdvancingTwice
  <2>3. updaterVersion + Cardinality(ListAdvancing') + Cardinality(ListAdvancingTwice')
          <= ListReach + 2
    BY <1>0, <1>3, <1>5, <1>6, <2>2, BoundOfCall
  <2>4. ListReach' = ListReach + 2
    BY <1>1, <1>7, ListNumbers DEF ListReach
  <2>5. FillsAlone'
    BY <1>1, <1>2, <1>5, <2>1 DEF FillsAlone
  <2> QED BY <1>0, <1>1, <1>7, <2>1, <2>3, <2>4, <2>5, ListCardinality
          DEF List!VersionBounded, ListAdvancing, ListAdvancingTwice, ListReach, FillsAlone
<1>8. CASE /\ calls' = calls
           /\ List!Advances(t)' => List!Advances(t)
           /\ List!AdvancesTwice(t)' => List!AdvancesTwice(t)
           /\ \/ updaterVersion' = updaterVersion
              \/ /\ updaterVersion' = updaterVersion + 1
                 /\ \/ List!Advances(t) /\ ~List!Advances(t)'
                    \/ List!AdvancesTwice(t) /\ ~List!AdvancesTwice(t)'
  <2>1. ListAdvancing' \in SUBSET ListAdvancing
        /\ ListAdvancingTwice' \in SUBSET ListAdvancingTwice
    BY <1>4, <1>8 DEF ListAdvancing, ListAdvancingTwice
  <2>2. \/ updaterVersion' <= updaterVersion
        \/ /\ updaterVersion' <= updaterVersion + 1
           /\ ListAdvancing # ListAdvancing' \/ ListAdvancingTwice # ListAdvancingTwice'
    BY <1>0, <1>8 DEF ListAdvancing, ListAdvancingTwice
  <2>3. updaterVersion' + Cardinality(ListAdvancing') + Cardinality(ListAdvancingTwice')
          <= ListReach
    BY <1>0, <1>3, <1>5, <1>6, <2>1, <2>2, BoundTwice
  <2>4. ListReach' = ListReach
    BY <1>1, <1>8 DEF ListReach
  <2>5. List!Filling => (t = 0)
    <3>1. t # 0 => ~(List!Filling /\ pc[t] # "idle")
      BY <1>5 DEF FillsAlone
    <3> QED BY <1>0, <1>8, <3>1, ListAwake DEF List!Filling
  <2>6. FillsAlone'
    BY <1>1, <1>2, <1>5, <2>5 DEF FillsAlone
  <2> QED BY <1>0, <1>1, <1>5, <1>8, <2>3, <2>4, <2>6, ListCardinality
          DEF List!VersionBounded, ListAdvancing, ListAdvancingTwice, ListReach, FillsAlone
<1> QED BY <1>0, <1>7, <1>8, ListAdvances

(* So the version stays below its bound.                                   *)
LEMMA ListNextVersion ==
  ASSUME List!IInv, calls \in Nat, List!VersionBounded, [List!Next]_(List!vars)
  PROVE  List!VersionBounded'
<1>0. List!Threads = Threads /\ updaterVersion \in Nat /\ 0 \in Threads
  BY SameThreads, ThreadsAssumption DEF List!IInv, List!Grace, List!GraceTypes, Threads
<1>1. updaterVersion' \in Nat
  <2>1. List!Grace(List!SectionLabels)'
    BY ListKeepsGrace DEF List!IInv
  <2> QED BY <2>1 DEF List!Grace, List!GraceTypes
<1>2. CASE UNCHANGED <<pc, curr, calls, updaterVersion>> /\ List!Filling' = List!Filling
  BY <1>2 DEF List!VersionBounded, List!Advances, List!AdvancesTwice
<1>3. CASE List!Start
  <2>1. /\ UNCHANGED <<pc, curr, updaterVersion>> /\ calls' = 0
        /\ List!Filling /\ ~List!Filling' /\ calls = Cardinality(Elements)
    BY <1>3, ListCardinality
       DEF List!Start, List!StartThreads, List!Filling, List!urcuVars, List!versionVars,
       List!findLocals
  <2>2. \A u \in Threads : /\ List!Advances(u)' <=> List!Advances(u)
                           /\ List!AdvancesTwice(u)' <=> List!AdvancesTwice(u)
    BY <2>1 DEF List!Advances, List!AdvancesTwice
  <2>3. ListAdvancing' = ListAdvancing /\ ListAdvancingTwice' = ListAdvancingTwice
    BY <2>2 DEF ListAdvancing, ListAdvancingTwice
  <2>4. updaterVersion + Cardinality(ListAdvancing) + Cardinality(ListAdvancingTwice)
          <= 2 * calls
    BY <1>0, <2>1, ListCardinality
       DEF List!VersionBounded, ListAdvancing, ListAdvancingTwice
  <2>5. updaterVersion' + Cardinality(ListAdvancing') + Cardinality(ListAdvancingTwice')
          <= 2 * calls' + 2 * Cardinality(Elements)
    BY <2>1, <2>3, <2>4, ListNumbers
  <2> QED BY <1>0, <2>1, <2>5, ListCardinality, ListNumbers
          DEF List!VersionBounded, ListAdvancing, ListAdvancingTwice
<1>4. CASE List!Quit \/ List!Join \/ List!Destroy \/ UNCHANGED List!vars
  <2>1. CASE List!Quit \/ List!Join
    BY <1>2, <2>1
       DEF List!Quit, List!QuitSignal, List!Join, List!JoinUndrained, List!Filling,
       List!listVars, List!findLocals, List!urcuVars, List!versionVars
  <2>2. CASE List!Destroy
    BY <1>2, <2>2
       DEF List!Destroy, List!Filling, List!findLocals, List!urcuVars, List!versionVars
  <2>3. CASE UNCHANGED List!vars
    BY <1>2, <2>3
       DEF List!vars, List!Filling, List!listVars, List!findLocals, List!urcuVars,
       List!versionVars
  <2> QED BY <1>4, <2>1, <2>2, <2>3
<1> QED BY <1>0, <1>1, <1>3, <1>4, ListStepVersion
           DEF List!Next, List!MainStep, List!Finished

(* At first no version has been given out.                                 *)
LEMMA ListInitVersion == List!Init => List!VersionBounded
<1> SUFFICES ASSUME List!Init PROVE List!VersionBounded
  OBVIOUS
<1>1. /\ List!Filling /\ updaterVersion = 0 /\ calls = 0
      /\ {t \in List!Threads : List!Advances(t)} = {}
      /\ {t \in List!Threads : List!AdvancesTwice(t)} = {}
      /\ \A t \in List!Threads \ {0} : pc[t] = "idle"
  BY DEF List!Init, List!ListInit, List!URCUInit, List!Filling, List!Advances,
     List!AdvancesTwice, List!SectionLabels, List!FindLabels, List!LockLabels
<1>2. /\ Cardinality({t \in List!Threads : List!Advances(t)}) = 0
      /\ Cardinality({t \in List!Threads : List!AdvancesTwice(t)}) = 0
  BY <1>1, FS_EmptySet
<1>3. updaterVersion + Cardinality({t \in List!Threads : List!Advances(t)})
        + Cardinality({t \in List!Threads : List!AdvancesTwice(t)}) <= 2 * calls
  BY <1>1, <1>2
<1>4. calls <= Cardinality(Elements)
  BY <1>1, ListNumbers
<1> QED BY <1>1, <1>3, <1>4, ListCardinality DEF List!VersionBounded

-----------------------------------------------------------------------------
(* The types.                                                              *)

(* Every step of the scheme, and every other, keeps its types when the     *)
(* version stays below its bound.                                          *)
LEMMA SchemeTypes ==
  ASSUME URCUTypeOK, updaterVersion' \in Versions, NEW section,
         SchemeStep(section) \/ Elsewhere(section) \/ UNCHANGED urcuVars
  PROVE  URCUTypeOK'
<1> USE DEF URCUTypeOK, urcuVars, versionVars, syncLocals, Goto
<1>1. UNASSIGNED \in Versions /\ NOT_READING \in Versions /\ 0 \in Versions
  BY VersionAssumption, SMT DEF Versions
<1>2. CASE Elsewhere(section) \/ UNCHANGED urcuVars
  BY <1>2 DEF Elsewhere
<1>3. ASSUME NEW t \in Threads, NEW done, ReadLock(t, done)
      PROVE  URCUTypeOK'
  BY <1>1, <1>3 DEF ReadLock, LockLoad, LockStore, LockCheck, LockFix
<1>4. ASSUME NEW t \in Threads, ReadUnlock(t)
      PROVE  URCUTypeOK'
  BY <1>1, <1>4 DEF ReadUnlock
<1>5. ASSUME NEW t \in Threads, NEW done,
             SynchronizeRCU(t, {r \in Threads : pc[r] \in section}, done)
      PROVE  URCUTypeOK'
  <2>1. CASE SyncLoad(t, {r \in Threads : pc[r] \in section})
    BY <2>1 DEF SyncLoad
  <2>2. CASE SyncCas(t)
    BY <2>2 DEF SyncCas
  <2>3. CASE SyncSpin(t, done)
    <3>1. idx[t] + 1 < NumThreads => idx[t] + 1 \in Threads
      <4>1. idx[t] \in Threads
        OBVIOUS
      <4> HIDE DEF URCUTypeOK
      <4> QED BY <4>1, ThreadsAssumption DEF Threads
    <3>2. 0 \in Threads
      BY ThreadsAssumption DEF Threads
    <3> QED BY <1>1, <2>3, <3>1, <3>2 DEF SyncSpin
  <2> QED BY <1>5, <2>1, <2>2, <2>3 DEF SynchronizeRCU
<1> QED BY <1>2, <1>3, <1>4, <1>5 DEF SchemeStep

(* A version below the bound is one.                                       *)
LEMMA VersionType ==
  ASSUME NEW v \in Nat, NEW S, IsFiniteSet(S),
         v + Cardinality(S) <= MaxVersion + NumThreads + Cardinality(Nodes)
  PROVE  v \in Versions
<1>1. Cardinality(S) \in Nat
  BY FS_CardinalityType
<1>2. v < UNASSIGNED
  BY <1>1, VersionAssumption, ThreadsFinite, FS_CardinalityType
<1> QED BY <1>2, VersionAssumption DEF Versions

-----------------------------------------------------------------------------
(* Either bound of the stack is one.                                       *)
LEMMA StackVersions ==
  ASSUME Stack!Grace(Stack!SectionLabels)', Stack!VersionBounded'
  PROVE  updaterVersion' \in Versions
<1>1. updaterVersion' \in Nat /\ Stack!Threads = Threads
  BY SameThreads DEF Stack!Grace, Stack!GraceTypes
<1>2. IsFiniteSet(Nodes) /\ Cardinality(Nodes) \in Nat
  BY VersionAssumption, FS_CardinalityType
<1>3. IsFiniteSet(StackAdvancing') /\ Cardinality(StackAdvancing') \in Nat
  <2>1. StackAdvancing' \in SUBSET Threads
    BY DEF StackAdvancing
  <2> QED BY <2>1, ThreadsFinite, FS_Subset, FS_CardinalityType
<1>4. IsFiniteSet(Stack!LeftToPop')
  <2>1. Stack!LeftToPop' \in SUBSET (Nodes \cup {temp'[0]})
    BY DEF Stack!LeftToPop, Stack!Linked
  <2> QED BY <1>2, <2>1, FS_Subset, FS_AddElement
<1>5. \/ updaterVersion' + Cardinality(Stack!LeftToPop') <= MaxVersion + NumThreads + Cardinality(Nodes)
      \/ updaterVersion' + Cardinality(StackAdvancing') <= MaxVersion + NumThreads
  BY <1>1, StackCardinality DEF Stack!VersionBounded, StackAdvancing
<1>6. \/ updaterVersion' + Cardinality(Stack!LeftToPop') <= MaxVersion + NumThreads + Cardinality(Nodes)
      \/ updaterVersion' + Cardinality(StackAdvancing') <= MaxVersion + NumThreads + Cardinality(Nodes)
  BY <1>1, <1>2, <1>3, <1>5, ThreadsFinite, VersionAssumption
<1> QED BY <1>1, <1>3, <1>4, <1>6, VersionType

(* What a pop returns is what has been pushed, or nothing.                 *)
LEMMA StackReturns ==
  ASSUME Stack!IInv, NEW t \in Threads, Stack!ThreadStep(t),
         retData \in [Threads -> Items \cup {NULL}]
  PROVE  retData' \in [Threads -> Items \cup {NULL}]
<1>1. CASE Stack!PopItem(t)
  <2>1. temp[t] \in Nodes /\ item \in [Nodes -> Items \cup {NULL}]
    BY <1>1, SameThreads
       DEF Stack!PopItem, Stack!Goto, Stack!IInv, Stack!PoppedByOne, Stack!Popped,
       Stack!StackTypes, Stack!HeapTypeOK
  <2> QED BY <1>1, <2>1 DEF Stack!PopItem
<1>2. CASE Stack!PopFree(t)
  BY <1>2 DEF Stack!PopFree
<1>3. CASE ~Stack!PopItem(t) /\ ~Stack!PopFree(t)
  <2>1. retData' = retData
    BY <1>3
       DEF Stack!ThreadStep, Stack!PushCall, Stack!PopCall, Stack!LockStep,
           Stack!PushStep,
       Stack!PushLoad, Stack!PushCas, Stack!PushUnlock, Stack!PopStep, Stack!PopLoad,
       Stack!PopEmpty, Stack!PopCheck, Stack!PopRetry, Stack!PopNext, Stack!PopCas,
       Stack!PopUnlock, Stack!PopSync, Stack!ThreadExit, Stack!LeaveLoop, Stack!locals
  <2> QED BY <2>1
<1> QED BY <1>1, <1>2, <1>3

(* The types of the stack are kept.                                        *)
LEMMA StackNextTypes ==
  ASSUME Stack!IInv, Stack!IInv', Stack!TypeOK, Stack!Counts', Stack!VersionBounded',
         [Stack!Next]_(Stack!vars)
  PROVE  Stack!TypeOK'
<1>0. Stack!Threads = Threads
  BY SameThreads
<1>1. Stack!URCUTypeOK'
  <2>1. updaterVersion' \in Versions
    BY StackVersions DEF Stack!IInv
  <2>2. URCUTypeOK
    BY <1>0 DEF Stack!TypeOK, Stack!URCUTypeOK, URCUTypeOK, Stack!Versions, Versions
  <2>3. Grace(Stack!SectionLabels)
    BY <1>0
       DEF Stack!IInv, Stack!Grace, Grace, Stack!GraceTypes, GraceTypes,
           Stack!Announced, Announced,
       Stack!OldReadersHeld, OldReadersHeld, Stack!LoopAtStart, LoopAtStart
  <2>4. \/ SchemeStep(Stack!SectionLabels) \/ Elsewhere(Stack!SectionLabels)
        \/ UNCHANGED urcuVars
    <3>1. CASE Stack!Next
      BY <2>3, <3>1, StackStep
    <3>2. CASE UNCHANGED Stack!vars
      BY <3>2 DEF Stack!vars, Stack!urcuVars, urcuVars, Stack!versionVars, versionVars,
         Stack!syncLocals, syncLocals
    <3> QED BY <3>1, <3>2
  <2>5. URCUTypeOK'
    BY <2>1, <2>2, <2>4, SchemeTypes
  <2> QED BY <1>0, <2>5 DEF Stack!URCUTypeOK, URCUTypeOK, Stack!Versions, Versions
<1>2. retData' \in [Threads -> Items \cup {NULL}]
  <2>1. CASE \E t \in Threads : Stack!ThreadStep(t)
    BY <1>0, <2>1, StackReturns DEF Stack!TypeOK
  <2>2. CASE Stack!MainStep \/ UNCHANGED Stack!vars
    <3>1. retData' = retData
      BY <2>2
         DEF Stack!MainStep, Stack!Quit, Stack!Join, Stack!Destroy, Stack!vars,
             Stack!locals
    <3> QED BY <1>0, <3>1 DEF Stack!TypeOK
  <2> QED BY <1>0, <2>1, <2>2 DEF Stack!Next, Stack!Finished
<1>3. retired_nodes_count' \in [Threads -> 0..1]
  BY <1>0 DEF Stack!Counts
<1> QED BY <1>0, <1>1, <1>2, <1>3 DEF Stack!TypeOK, Stack!IInv, Stack!StackTypes

(* The constructor gives every variable its type.                          *)
LEMMA StackInitTypes == Stack!Init => Stack!TypeOK
<1> SUFFICES ASSUME Stack!Init PROVE Stack!TypeOK
  OBVIOUS
<1>1. 0 \in Threads /\ Stack!Threads = Threads
  BY ThreadsAssumption, SameThreads DEF Threads
<1>2. UNASSIGNED \in Stack!Versions /\ 0 \in Stack!Versions
  BY VersionAssumption DEF Stack!Versions
<1>3. Stack!URCUTypeOK
  BY <1>1, <1>2 DEF Stack!Init, Stack!URCUInit, Stack!URCUTypeOK
<1>4. Stack!IInv
  BY StackInitInv
<1> QED BY <1>1, <1>3, <1>4 DEF Stack!TypeOK, Stack!IInv, Stack!StackTypes, Stack!Init

-----------------------------------------------------------------------------
(* The same of the queue.                                                  *)
LEMMA QueueVersions ==
  ASSUME Queue!Grace(Queue!SectionLabels)', Queue!VersionBounded'
  PROVE  updaterVersion' \in Versions
<1>1. updaterVersion' \in Nat /\ Queue!Threads = Threads
  BY SameThreads DEF Queue!Grace, Queue!GraceTypes
<1>2. IsFiniteSet(Nodes) /\ Cardinality(Nodes) \in Nat
  BY VersionAssumption, FS_CardinalityType
<1>3. IsFiniteSet(QueueAdvancing') /\ Cardinality(QueueAdvancing') \in Nat
  <2>1. QueueAdvancing' \in SUBSET Threads
    BY DEF QueueAdvancing
  <2> QED BY <2>1, ThreadsFinite, FS_Subset, FS_CardinalityType
<1>4. IsFiniteSet(Queue!LeftToDequeue')
  <2>1. Queue!LeftToDequeue' \in SUBSET (Nodes \cup {temp'[0]})
    BY DEF Queue!LeftToDequeue, Queue!Linked
  <2> QED BY <1>2, <2>1, FS_Subset, FS_AddElement
<1>5. \/ updaterVersion' + Cardinality(Queue!LeftToDequeue') <= MaxVersion + NumThreads + Cardinality(Nodes)
      \/ updaterVersion' + Cardinality(QueueAdvancing') <= MaxVersion + NumThreads
  BY <1>1, QueueCardinality DEF Queue!VersionBounded, QueueAdvancing
<1>6. \/ updaterVersion' + Cardinality(Queue!LeftToDequeue') <= MaxVersion + NumThreads + Cardinality(Nodes)
      \/ updaterVersion' + Cardinality(QueueAdvancing') <= MaxVersion + NumThreads + Cardinality(Nodes)
  BY <1>1, <1>2, <1>3, <1>5, ThreadsFinite, VersionAssumption
<1> QED BY <1>1, <1>3, <1>4, <1>6, VersionType

(* What a dequeue returns is what has been enqueued, or nothing.           *)
LEMMA QueueReturns ==
  ASSUME Queue!IInv, NEW t \in Threads, Queue!ThreadStep(t),
         retData \in [Threads -> Items \cup {NULL}]
  PROVE  retData' \in [Threads -> Items \cup {NULL}]
<1>1. CASE Queue!DeqItem(t)
  <2>1. nxt[t] \in Nodes
    BY <1>1, QueueFunctions, QueueRuns DEF Queue!DeqItem, Queue!Goto, Queue!IInv,
       Queue!ReaderKeepsNodes, Queue!Guards
  <2>2. item \in [Nodes -> Items \cup {NULL}]
    BY DEF Queue!IInv, Queue!QueueTypes, Queue!HeapTypeOK
  <2> QED BY <1>1, <2>1, <2>2 DEF Queue!DeqItem
<1>2. CASE Queue!DeqFree(t)
  BY <1>2 DEF Queue!DeqFree
<1>3. CASE ~Queue!DeqItem(t) /\ ~Queue!DeqFree(t)
  <2>1. retData' = retData
    BY <1>3
       DEF Queue!ThreadStep, Queue!EnqCall, Queue!DeqCall, Queue!LockStep, Queue!Sync,
       Queue!EnqStep, Queue!EnqLoad, Queue!EnqCheck, Queue!EnqRetry, Queue!EnqNext,
       Queue!EnqRecheck, Queue!EnqHelp, Queue!EnqLink, Queue!EnqSwing, Queue!EnqUnlock,
       Queue!DeqStep, Queue!DeqLoad, Queue!DeqCheck, Queue!DeqRetry, Queue!DeqTail,
       Queue!DeqNext, Queue!DeqRecheck, Queue!DeqHelp, Queue!DeqCas, Queue!DeqUnlock,
       Queue!ThreadExit, Queue!LeaveLoop, Queue!locals
  <2> QED BY <2>1
<1> QED BY <1>1, <1>2, <1>3

(* What an enqueue expects behind the last node is a node or nothing.      *)
LEMMA QueueExpects ==
  ASSUME Queue!IInv, NEW t \in Threads, Queue!ThreadStep(t),
         ptrnull \in [Threads -> Queue!NodeOrNull]
  PROVE  ptrnull' \in [Threads -> Queue!NodeOrNull]
<1>1. CASE Queue!EnqLink(t)
  <2>1. temp[t] \in Nodes
    BY <1>1, QueueFunctions, QueueRuns DEF Queue!EnqLink, Queue!Goto, Queue!IInv,
       Queue!ReaderKeepsNodes, Queue!Guards
  <2>2. next \in [Nodes -> Queue!NodeOrNull] /\ NULL \in Queue!NodeOrNull
    BY DEF Queue!IInv, Queue!QueueTypes, Queue!HeapTypeOK, Queue!NodeOrNull
  <2> QED BY <1>1, <2>1, <2>2 DEF Queue!EnqLink
<1>2. CASE ~Queue!EnqLink(t)
  <2>1. ptrnull' = ptrnull
    BY <1>2
       DEF Queue!ThreadStep, Queue!EnqCall, Queue!DeqCall, Queue!LockStep, Queue!Sync,
       Queue!EnqStep, Queue!EnqLoad, Queue!EnqCheck, Queue!EnqRetry, Queue!EnqNext,
       Queue!EnqRecheck, Queue!EnqHelp, Queue!EnqSwing, Queue!EnqUnlock,
       Queue!DeqStep, Queue!DeqLoad, Queue!DeqCheck, Queue!DeqRetry, Queue!DeqTail,
       Queue!DeqNext, Queue!DeqRecheck, Queue!DeqHelp, Queue!DeqCas, Queue!DeqItem,
       Queue!DeqUnlock, Queue!DeqFree, Queue!ThreadExit, Queue!LeaveLoop, Queue!locals
  <2> QED BY <2>1
<1> QED BY <1>1, <1>2

(* The types of the queue are kept.                                        *)
LEMMA QueueNextTypes ==
  ASSUME Queue!IInv, Queue!IInv', Queue!TypeOK, Queue!Counts', Queue!VersionBounded',
         [Queue!Next]_(Queue!vars)
  PROVE  Queue!TypeOK'
<1>0. Queue!Threads = Threads
  BY SameThreads
<1>1. Queue!URCUTypeOK'
  <2>1. updaterVersion' \in Versions
    BY QueueVersions DEF Queue!IInv
  <2>2. URCUTypeOK
    BY <1>0 DEF Queue!TypeOK, Queue!URCUTypeOK, URCUTypeOK, Queue!Versions, Versions
  <2>3. Grace(Queue!SectionLabels)
    BY <1>0
       DEF Queue!IInv, Queue!Grace, Grace, Queue!GraceTypes, GraceTypes,
           Queue!Announced, Announced,
       Queue!OldReadersHeld, OldReadersHeld, Queue!LoopAtStart, LoopAtStart
  <2>4. \/ SchemeStep(Queue!SectionLabels) \/ Elsewhere(Queue!SectionLabels)
        \/ UNCHANGED urcuVars
    <3>1. CASE Queue!Next
      BY <2>3, <3>1, QueueStep
    <3>2. CASE UNCHANGED Queue!vars
      BY <3>2 DEF Queue!vars, Queue!urcuVars, urcuVars, Queue!versionVars, versionVars,
         Queue!syncLocals, syncLocals
    <3> QED BY <3>1, <3>2
  <2>5. URCUTypeOK'
    BY <2>1, <2>2, <2>4, SchemeTypes
  <2> QED BY <1>0, <2>5 DEF Queue!URCUTypeOK, URCUTypeOK, Queue!Versions, Versions
<1>2. retData' \in [Threads -> Items \cup {NULL}]
  <2>1. CASE \E t \in Threads : Queue!ThreadStep(t)
    BY <1>0, <2>1, QueueReturns DEF Queue!TypeOK
  <2>2. CASE Queue!MainStep \/ UNCHANGED Queue!vars
    <3>1. retData' = retData
      BY <2>2
         DEF Queue!MainStep, Queue!Quit, Queue!Join, Queue!Destroy, Queue!vars,
             Queue!locals
    <3> QED BY <1>0, <3>1 DEF Queue!TypeOK
  <2> QED BY <1>0, <2>1, <2>2 DEF Queue!Next, Queue!Finished
<1>4. ptrnull' \in [Threads -> Queue!NodeOrNull]
  <2>1. CASE \E t \in Threads : Queue!ThreadStep(t)
    BY <1>0, <2>1, QueueExpects DEF Queue!TypeOK
  <2>2. CASE Queue!MainStep \/ UNCHANGED Queue!vars
    <3>1. ptrnull' = ptrnull
      BY <2>2
         DEF Queue!MainStep, Queue!Quit, Queue!Join, Queue!Destroy, Queue!vars,
             Queue!locals
    <3> QED BY <1>0, <3>1 DEF Queue!TypeOK
  <2> QED BY <1>0, <2>1, <2>2 DEF Queue!Next, Queue!Finished
<1>3. retired_nodes_count' \in [Threads -> 0..1]
  BY <1>0 DEF Queue!Counts
<1> QED BY <1>0, <1>1, <1>2, <1>3, <1>4 DEF Queue!TypeOK, Queue!IInv, Queue!QueueTypes

(* The constructor gives every variable its type.                          *)
LEMMA QueueInitTypes == Queue!Init => Queue!TypeOK
<1> SUFFICES ASSUME Queue!Init PROVE Queue!TypeOK
  OBVIOUS
<1>1. 0 \in Threads /\ Queue!Threads = Threads
  BY ThreadsAssumption, SameThreads DEF Threads
<1>2. UNASSIGNED \in Queue!Versions /\ 0 \in Queue!Versions
  BY VersionAssumption DEF Queue!Versions
<1>3. Queue!URCUTypeOK
  BY <1>1, <1>2 DEF Queue!Init, Queue!URCUInit, Queue!URCUTypeOK
<1>4. Queue!IInv
  BY QueueInitInv
<1> QED BY <1>1, <1>3, <1>4
           DEF Queue!TypeOK, Queue!IInv, Queue!QueueTypes, Queue!Init, Queue!NodeOrNull

-----------------------------------------------------------------------------
(* The same of the list.                                                   *)
LEMMA ListVersions ==
  ASSUME List!Grace(List!SectionLabels)', List!VersionBounded', calls' \in Nat
  PROVE  updaterVersion' \in Versions
<1>1. updaterVersion' \in Nat /\ List!Threads = Threads
  BY SameThreads DEF List!Grace, List!GraceTypes
<1>2. ASSUME NEW S \in SUBSET Threads PROVE Cardinality(S) \in Nat
  BY ThreadsFinite, FS_Subset, FS_CardinalityType
<1>3. Cardinality(ListAdvancing') \in Nat /\ Cardinality(ListAdvancingTwice') \in Nat
  BY <1>2 DEF ListAdvancing, ListAdvancingTwice
<1>4. /\ updaterVersion' + Cardinality(ListAdvancing') + Cardinality(ListAdvancingTwice')
           <= ListReach'
      /\ calls' <= IF List!Filling' THEN Cardinality(Elements) ELSE MaxCalls
  BY <1>1, ListCardinality
     DEF List!VersionBounded, ListAdvancing, ListAdvancingTwice, ListReach
<1>5. ListReach' <= 2 * (MaxCalls + Cardinality(Elements)) /\ ListReach' \in Nat
  BY <1>4, ListNumbers DEF ListReach
<1>6. updaterVersion' < UNASSIGNED
  BY <1>1, <1>3, <1>4, <1>5, ListAssumption, ListNumbers, VersionAssumption
<1> QED BY <1>1, <1>6, VersionAssumption DEF Versions

(* What a call finds of its key is a truth value.                          *)
LEMMA SeenType ==
  ASSUME NEW k, NEW S PROVE {k \in S} \in SUBSET BOOLEAN
OBVIOUS

(* The variables of the list that its invariant does not mention.          *)
OtherTypes ==
  /\ item \in [Nodes -> Elements \cup {NULL}]
  /\ tail \in List!NodeOrNull
  /\ key \in [Threads -> Elements \cup {NULL}]
  /\ calls \in Nat
  /\ seen \in [Threads -> SUBSET BOOLEAN]

(* A thread stores keys and truth values in them.                          *)
LEMMA ListStepOthers ==
  ASSUME List!IInv, OtherTypes, NEW t \in List!Threads, List!ThreadStep(t)
  PROVE  OtherTypes'
<1> USE SameThreads
        DEF OtherTypes, List!heapVars, List!listVars, List!findLocals, List!callVars
<1>1. CASE List!AddCall(t)
  <2>1. PICK n \in Nodes, k \in Elements :
          /\ List!BeginCall(t, "add", k, k \in List!Present) /\ List!New(n, k)
          /\ UNCHANGED tail
    BY <1>1 DEF List!AddCall
  <2> QED BY <2>1, SeenType DEF List!BeginCall, List!New
<1>2. CASE List!Call(t)
  <2>1. PICK k \in Elements, o \in {"remove", "contains"} :
          /\ List!BeginCall(t, o, k, k \in List!Present)
          /\ UNCHANGED <<item, tail>>
    BY <1>2 DEF List!Call
  <2> QED BY <2>1, SeenType DEF List!BeginCall
<1>3. CASE \/ List!LockStep(t) \/ List!ThreadExit(t) \/ List!Sync(t)
           \/ List!RemoveCas(t) \/ List!RemoveUnlock(t) \/ List!Unlock(t)
  BY <1>3
     DEF List!LockStep, List!ThreadExit, List!Sync, List!RemoveCas, List!RemoveUnlock,
     List!Unlock
<1>4. CASE \/ List!FindHead(t) \/ List!FindCheck(t) \/ List!FindAgain(t) \/ List!FindMoved(t)
           \/ List!FindMarked(t) \/ List!FindAdvances(t) \/ List!FindFollowsMarked(t)
           \/ List!FindHelp(t)
  BY <1>4 DEF List!FindHead, List!FindCheck, List!FindAgain, List!FindMoved,
     List!FindMarked, List!FindAdvances, List!FindFollowsMarked, List!FindHelp,
     List!TryAgain
<1>5. CASE List!FindNext(t) \/ List!FindEnds(t)
  <2>1. /\ UNCHANGED <<item, tail, calls>>
        /\ \/ UNCHANGED <<key, seen>>
           \/ /\ key' = [key EXCEPT ![t] = NULL]
              /\ seen' = [seen EXCEPT ![t] = {}]
    BY <1>5 DEF List!FindNext, List!FindEnds, List!FindReturns
  <2> QED BY <2>1
<1>6. CASE List!AddCas(t) \/ List!RemoveMark(t)
  <2>1. /\ UNCHANGED <<item, tail, calls>>
        /\ UNCHANGED <<key, seen>> \/ \E member \in BOOLEAN : List!Decides(t, member)
    BY <1>6 DEF List!AddCas, List!RemoveMark, List!TryAgain
  <2>2. ASSUME NEW member \in BOOLEAN, List!Decides(t, member)
        PROVE  /\ key' \in [Threads -> Elements \cup {NULL}]
               /\ seen' \in [Threads -> SUBSET BOOLEAN]
    BY <2>2 DEF List!Decides
  <2> QED BY <2>1, <2>2
<1>7. CASE List!AddDiscard(t) \/ List!RemoveFree(t) \/ List!Free(t)
  BY <1>7 DEF List!AddDiscard, List!RemoveFree, List!Free, List!Delete
<1> QED BY <1>1, <1>2, <1>3, <1>4, <1>5, <1>6, <1>7
        DEF List!ThreadStep, List!FindStep, List!CallStep

(* The types of the list are kept.                                         *)
LEMMA ListNextTypes ==
  ASSUME List!IInv, List!IInv', List!TypeOK, List!Counts', List!VersionBounded',
         [List!Next]_(List!vars)
  PROVE  List!TypeOK'
<1>0. List!Threads = Threads
  BY SameThreads
<1>1. OtherTypes'
  <2>1. OtherTypes
    BY <1>0 DEF OtherTypes, List!TypeOK, List!ListTypeOK
  <2>2. CASE \E t \in Threads : List!ThreadStep(t)
    BY <1>0, <2>1, <2>2, ListStepOthers
  <2>3. CASE List!Destroy
    BY <2>1, <2>3
       DEF List!Destroy, List!Delete, List!heapVars, List!callVars, OtherTypes,
           List!NodeOrNull
  <2>4. CASE List!Start \/ List!Quit \/ List!Join \/ UNCHANGED List!vars
    BY <2>1, <2>4
       DEF List!Start, List!StartThreads, List!Quit, List!Join, List!vars,
           List!heapVars,
       List!listVars, List!callVars, OtherTypes
  <2> QED BY <1>0, <2>2, <2>3, <2>4 DEF List!Next, List!MainStep, List!Finished
<1>2. List!URCUTypeOK'
  <2>1. updaterVersion' \in Versions
    BY <1>1, ListVersions DEF List!IInv, OtherTypes
  <2>2. URCUTypeOK
    BY <1>0 DEF List!TypeOK, List!URCUTypeOK, URCUTypeOK, List!Versions, Versions
  <2>3. Grace(List!SectionLabels)
    BY <1>0
       DEF List!IInv, List!Grace, Grace, List!GraceTypes, GraceTypes, List!Announced,
           Announced,
       List!OldReadersHeld, OldReadersHeld, List!LoopAtStart, LoopAtStart
  <2>4. \/ SchemeStep(List!SectionLabels) \/ Elsewhere(List!SectionLabels)
        \/ UNCHANGED urcuVars
    <3>1. CASE List!Next
      BY <2>3, <3>1, ListStep
    <3>2. CASE UNCHANGED List!vars
      BY <3>2 DEF List!vars, List!urcuVars, urcuVars, List!versionVars, versionVars,
         List!syncLocals, syncLocals
    <3> QED BY <3>1, <3>2
  <2>5. URCUTypeOK'
    BY <2>1, <2>2, <2>4, SchemeTypes
  <2> QED BY <1>0, <2>5 DEF List!URCUTypeOK, URCUTypeOK, List!Versions, Versions
<1>3. retired_nodes_count' \in [Threads -> Nat]
  BY <1>0 DEF List!Counts, List!IInv, List!ListTypes
<1> QED BY <1>0, <1>1, <1>2, <1>3
        DEF List!TypeOK, List!ListTypeOK, List!IInv, List!ListTypes, OtherTypes, List!Links

(* The constructor gives every variable its type.                          *)
LEMMA ListInitTypes == List!Init => List!TypeOK
<1> SUFFICES ASSUME List!Init PROVE List!TypeOK
  OBVIOUS
<1>1. 0 \in Threads /\ List!Threads = Threads
  BY ThreadsAssumption, SameThreads DEF Threads
<1>2. UNASSIGNED \in List!Versions /\ 0 \in List!Versions
  BY VersionAssumption DEF List!Versions
<1>3. List!URCUTypeOK
  BY <1>1, <1>2 DEF List!Init, List!URCUInit, List!URCUTypeOK
<1>4. List!IInv
  BY ListInitInv
<1>5. /\ item \in [Nodes -> Elements \cup {NULL}] /\ tail \in List!NodeOrNull
      /\ key \in [Threads -> Elements \cup {NULL}]
      /\ calls \in Nat /\ seen \in [Threads -> SUBSET BOOLEAN]
      /\ retired_nodes_count \in [Threads -> Nat]
  BY <1>1 DEF List!Init, List!ListInit, List!NodeOrNull
<1> QED BY <1>1, <1>3, <1>4, <1>5
        DEF List!TypeOK, List!ListTypeOK, List!IInv, List!ListTypes, List!Links

-----------------------------------------------------------------------------
(* The program.                                                            *)

(* Each constructor establishes the invariant of its structure.            *)
LEMMA InitInv == Init => StructureInv
BY StackInitInv, QueueInitInv, ListInitInv DEF Init, StructureInv, Of

(* A step of the program is one of the structure it runs.                  *)
LEMMA StepOfStructure ==
  ASSUME StructureInv, [Next]_vars
  PROVE  /\ structure' = structure
         /\ \/ /\ structure = "stack" /\ Stack!IInv
               /\ [Stack!Next]_(Stack!vars)
            \/ /\ structure = "queue" /\ Queue!IInv
               /\ [Queue!Next]_(Queue!vars)
            \/ /\ structure = "list" /\ List!IInv
               /\ [List!Next]_(List!vars)
<1>1. structure \in {"stack", "queue", "list"} /\ structure' = structure
  BY DEF StructureInv, Next, vars
<1>2. CASE UNCHANGED vars
  <2>1. UNCHANGED Stack!vars /\ UNCHANGED Queue!vars /\ UNCHANGED List!vars
    BY <1>2
       DEF vars, ofListOnly, heapVars, urcuVars, versionVars, syncLocals,
           Stack!vars, Stack!heapVars, Stack!urcuVars, Stack!versionVars,
           Stack!syncLocals, Stack!locals,
           Queue!vars, Queue!heapVars, Queue!urcuVars, Queue!versionVars,
           Queue!syncLocals, Queue!ends, Queue!locals,
           List!vars, List!heapVars, List!urcuVars, List!versionVars,
           List!syncLocals, List!listVars, List!findLocals, List!callVars
  <2> QED BY <1>1, <2>1 DEF StructureInv, Of
<1>3. CASE Next
  BY <1>1, <1>3 DEF StructureInv, Of, Next
<1> QED BY <1>2, <1>3

(* Every step of the program preserves the invariant.                      *)
LEMMA NextInv == StructureInv /\ [Next]_vars => StructureInv'
<1> SUFFICES ASSUME StructureInv, [Next]_vars PROVE StructureInv'
  OBVIOUS
<1>1. structure' = structure
  BY StepOfStructure
<1>2. CASE structure = "stack"
  <2>1. Stack!IInv'
    BY <1>2, StepOfStructure, StackNextInv
  <2> QED BY <1>1, <1>2, <2>1 DEF StructureInv, Of
<1>3. CASE structure = "queue"
  <2>1. Queue!IInv'
    BY <1>3, StepOfStructure, QueueNextInv
  <2> QED BY <1>1, <1>3, <2>1 DEF StructureInv, Of
<1>4. CASE structure = "list"
  <2>1. List!IInv'
    BY <1>4, StepOfStructure, ListNextInv
  <2> QED BY <1>1, <1>4, <2>1 DEF StructureInv, Of
<1> QED BY <1>2, <1>3, <1>4 DEF StructureInv

(* At first every node is in its place, and the version is 0.              *)
LEMMA InitAll == Init => IInv /\ TypeOK
<1>1. Stack!Init => /\ Stack!Placed /\ Stack!Drained /\ Stack!VersionBounded
                    /\ Stack!TypeOK
  BY StackInitPlaced, StackInitDrained, StackInitVersion, StackInitTypes
<1>2. Queue!Init => Queue!Placed /\ Queue!VersionBounded /\ Queue!TypeOK
  BY QueueInitPlaced, QueueInitVersion, QueueInitTypes
<1>3. List!Init => List!Placed /\ List!VersionBounded /\ List!TypeOK
  BY ListInitPlaced, ListInitVersion, ListInitTypes
<1> QED BY <1>1, <1>2, <1>3, InitInv
        DEF Init, IInv, Placed, VersionBounded, TypeOK, Of

(* A step of the stack keeps its nodes in their places, the version below  *)
(* its bound, and the types.                                               *)
LEMMA StackNextAll ==
  ASSUME Stack!IInv, Stack!Placed, Stack!Drained, Stack!VersionBounded, Stack!TypeOK,
         [Stack!Next]_(Stack!vars)
  PROVE  /\ Stack!Placed' /\ Stack!Drained' /\ Stack!VersionBounded' /\ Stack!TypeOK'
<1>1. Stack!IInv'
  BY StackNextInv
<1>2. Stack!Placed' /\ Stack!Counts /\ Stack!Counts'
  BY StackNextPlaces DEF Stack!Placed
<1>3. Stack!Drained'
  BY StackNextDrained DEF Stack!TypeOK
<1>4. Stack!VersionBounded'
  BY <1>2, StackNextVersion
<1> QED BY <1>1, <1>2, <1>3, <1>4, StackNextTypes

(* The same of the queue.                                                  *)
LEMMA QueueNextAll ==
  ASSUME Queue!IInv, Queue!Placed, Queue!VersionBounded, Queue!TypeOK,
         [Queue!Next]_(Queue!vars)
  PROVE  Queue!Placed' /\ Queue!VersionBounded' /\ Queue!TypeOK'
<1>1. Queue!IInv'
  BY QueueNextInv
<1>2. Queue!Placed' /\ Queue!Counts /\ Queue!Counts'
  BY QueueNextPlaces DEF Queue!Placed
<1>3. Queue!VersionBounded'
  BY <1>2, QueueNextVersion
<1> QED BY <1>1, <1>2, <1>3, QueueNextTypes

(* The same of the list.                                                   *)
LEMMA ListNextAll ==
  ASSUME List!IInv, List!Placed, List!VersionBounded, List!TypeOK,
         [List!Next]_(List!vars)
  PROVE  List!Placed' /\ List!VersionBounded' /\ List!TypeOK'
<1>1. List!IInv'
  BY ListNextInv
<1>2. List!Placed' /\ List!Counts'
  BY ListNextPlaces DEF List!Placed
<1>3. List!VersionBounded'
  BY ListNextVersion DEF List!TypeOK, List!ListTypeOK
<1> QED BY <1>1, <1>2, <1>3, ListNextTypes

(* With the types the invariant of the program is inductive.               *)
LEMMA NextAll == IInv /\ TypeOK /\ [Next]_vars => IInv' /\ TypeOK'
<1> SUFFICES ASSUME IInv, TypeOK, [Next]_vars PROVE IInv' /\ TypeOK'
  OBVIOUS
<1>1. StructureInv /\ StructureInv' /\ structure' = structure
  BY NextInv, StepOfStructure DEF IInv
<1>2. CASE structure = "stack"
  <2>1. /\ Stack!IInv /\ Stack!Placed /\ Stack!Drained /\ Stack!VersionBounded /\ Stack!TypeOK
        /\ [Stack!Next]_(Stack!vars)
    BY <1>1, <1>2, StepOfStructure DEF IInv, Placed, VersionBounded, TypeOK, Of
  <2>2. Stack!Placed' /\ Stack!Drained' /\ Stack!VersionBounded' /\ Stack!TypeOK'
    BY <2>1, StackNextAll
  <2> QED BY <1>1, <1>2, <2>2 DEF IInv, Placed, VersionBounded, TypeOK, Of
<1>3. CASE structure = "queue"
  <2>1. /\ Queue!IInv /\ Queue!Placed /\ Queue!VersionBounded /\ Queue!TypeOK
        /\ [Queue!Next]_(Queue!vars)
    BY <1>1, <1>3, StepOfStructure DEF IInv, Placed, VersionBounded, TypeOK, Of
  <2>2. Queue!Placed' /\ Queue!VersionBounded' /\ Queue!TypeOK'
    BY <2>1, QueueNextAll
  <2> QED BY <1>1, <1>3, <2>2 DEF IInv, Placed, VersionBounded, TypeOK, Of
<1>4. CASE structure = "list"
  <2>1. /\ List!IInv /\ List!Placed /\ List!VersionBounded /\ List!TypeOK
        /\ [List!Next]_(List!vars)
    BY <1>1, <1>4, StepOfStructure DEF IInv, Placed, VersionBounded, TypeOK, Of
  <2>2. List!Placed' /\ List!VersionBounded' /\ List!TypeOK'
    BY <2>1, ListNextAll
  <2> QED BY <1>1, <1>4, <2>2 DEF IInv, Placed, VersionBounded, TypeOK, Of
<1> QED BY <1>1, <1>2, <1>3, <1>4 DEF StructureInv

(* So it holds in every reachable state.                                   *)
LEMMA Inductive == Spec => [](IInv /\ TypeOK)
BY InitAll, NextAll, PTL DEF Spec

(* The invariant of whichever structure the program runs holds in every    *)
(* reachable state (urcu/Benchmark.cpp, main).                             *)
THEOREM Invariance == Spec => []IInv
BY Inductive, PTL

(* Every variable of the program keeps its type: in particular the version *)
(* stays below the two values that stand for readers outside a section.    *)
THEOREM TypeCorrectness == Spec => []TypeOK
BY Inductive, PTL

(* When synchronizeRCU returns, every reader that was inside its section   *)
(* when it was called has left that section, for any number of readers and *)
(* updaters and whatever the structure (urcu/URCU.hpp, synchronizeRCU).    *)
THEOREM GracePeriodHolds == Spec => []GracePeriod
<1>1. ASSUME IInv PROVE GracePeriod
  <2>1. Stack!IInv => Stack!GracePeriod
    BY DEF Stack!IInv, Stack!Grace, Stack!GraceTypes, Stack!OldReadersHeld,
           Stack!GracePeriod
  <2>2. Queue!IInv => Queue!GracePeriod
    BY DEF Queue!IInv, Queue!Grace, Queue!GraceTypes, Queue!OldReadersHeld,
           Queue!GracePeriod
  <2>3. List!IInv => List!GracePeriod
    BY DEF List!IInv, List!Grace, List!GraceTypes, List!OldReadersHeld,
           List!GracePeriod, List!FreeLabels
  <2> QED BY <1>1, <2>1, <2>2, <2>3 DEF IInv, StructureInv, Of, GracePeriod
<1> QED BY <1>1, Invariance, PTL

(* No thread ever accesses a deleted node: not a pop or a dequeue that     *)
(* reads the node it has validated while another thread has taken it out,  *)
(* not a find that goes on from a node it has unlinked itself.             *)
THEOREM MemorySafety == Spec => []MemorySafe
<1>1. IInv => MemorySafe
  BY StackIsMemorySafe, QueueIsMemorySafe, ListIsMemorySafe
     DEF IInv, StructureInv, Of, MemorySafe
<1> QED BY <1>1, Invariance, PTL

(* With each structure URCU implements SafeReclamation: a node that an     *)
(* operation found linked in its section is not deleted before the         *)
(* operation has let go of it.                                             *)
THEOREM SafeReclamationRefined == Spec => ReclaimsSafely
<1>1. Init => SMR!Init
  BY SameThreads, StackInitMaps, QueueInitMaps, ListInitMaps DEF Init
<1>2. ASSUME IInv, [Next]_vars PROVE [SMR!Next]_(SMR!vars)
  <2>1. StructureInv
    BY <1>2 DEF IInv
  <2> QED BY <1>2, <2>1, SameThreads, StepOfStructure, StackStepMaps, QueueStepMaps,
          ListStepMaps
<1> QED BY <1>1, <1>2, Invariance, PTL DEF Spec, ReclaimsSafely, SMR!Spec

(* Until the destructor has run, every allocated node of a stack or a list *)
(* is in exactly one place, so that none is lost and none freed twice; and *)
(* the destructor of the stack leaves none behind.                         *)
THEOREM OwnedOnce == Spec => []OneOwner
<1>1. IInv => OneOwner
  BY StackPlacedOwned, ListPlacedOwned
     DEF IInv, StructureInv, Placed, Of, OneOwner
<1> QED BY <1>1, Invariance, PTL

(* Once the threads are joined every count is back at 0 and no retired     *)
(* node is left: what the benchmark reports (urcu/Benchmark.cpp, main).    *)
THEOREM NothingUnreclaimed == Spec => []NoneUnreclaimed
<1>1. IInv => NoneUnreclaimed
  BY StackReclaims, QueueReclaims, ListReclaims
     DEF IInv, StructureInv, Placed, Of, NoneUnreclaimed
<1> QED BY <1>1, Invariance, PTL

=============================================================================
