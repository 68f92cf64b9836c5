-------------------------------- MODULE URCU --------------------------------
(***************************************************************************)
(* urcu/URCU.hpp: class URCU, read-copy-update with a version counter.  A  *)
(* reader announces the version it started at; synchronizeRCU advances the *)
(* version and waits for every reader that announced an older one.         *)
(*                                                                         *)
(* Every atomic access is one step.  The release store of readUnlock and   *)
(* the relaxed second store of readLock can only make a reader look older  *)
(* than it is for longer, so they are taken as seq_cst ones.  A local that *)
(* is not read again is reset.                                             *)
(***************************************************************************)
EXTENDS Heap, Benchmark

CONSTANTS
  UNASSIGNED,    \* the two versions below the largest uint64_t: greater than
  NOT_READING,   \*   every version the counter reaches
  MaxVersion     \* bound of the model: no call is made at a later version

ASSUME VersionAssumption ==
  /\ MaxVersion \in Nat /\ UNASSIGNED \in Nat /\ NOT_READING \in Nat
  /\ IsFiniteSet(Nodes)
  /\ MaxVersion + NumThreads + Cardinality(Nodes) < UNASSIGNED
  /\ UNASSIGNED < NOT_READING

VARIABLES
  updaterVersion,
  readersVersion,   \* readersVersion[thread_id]
  rv,               \* readLock: rv, then nrv
  waitFor,          \* synchronizeRCU: waitForVersion
  idx,              \* synchronizeRCU: i
  oldReaders        \* history: the readers inside their section when the
                    \* thread began synchronizeRCU that are still inside it

versionVars == <<updaterVersion, readersVersion>>
syncLocals == <<waitFor, idx>>
urcuVars == <<versionVars, rv, syncLocals, oldReaders>>

LockLabels == {"lock.load", "lock.store", "lock.check", "lock.fix"}
SyncLabels == {"sync.load", "sync.cas", "sync.spin"}

Versions == 0..NOT_READING

URCUTypeOK ==
  /\ updaterVersion \in Versions
  /\ readersVersion \in [Threads -> Versions]
  /\ rv \in [Threads -> Versions]
  /\ waitFor \in [Threads -> Versions]
  /\ idx \in [Threads -> Threads]
  /\ oldReaders \in [Threads -> SUBSET Threads]

URCUInit ==
  /\ updaterVersion = 0
  /\ readersVersion = [t \in Threads |-> UNASSIGNED]
  /\ rv = [t \in Threads |-> 0]
  /\ waitFor = [t \in Threads |-> 0]
  /\ idx = [t \in Threads |-> 0]
  /\ oldReaders = [t \in Threads |-> {}]

-----------------------------------------------------------------------------
(* readLock(thread_id); the caller goes on at done.                        *)
LockLoad(t) ==
  /\ Goto(t, "lock.load", "lock.store")
  /\ rv' = [rv EXCEPT ![t] = updaterVersion]
  /\ UNCHANGED <<versionVars, syncLocals, oldReaders>>

(* Locking again without readUnlock ends the section that was open.        *)
LockStore(t) ==
  /\ Goto(t, "lock.store", "lock.check")
  /\ readersVersion' = [readersVersion EXCEPT ![t] = rv[t]]
  /\ oldReaders' = [u \in Threads |-> oldReaders[u] \ {t}]
  /\ UNCHANGED <<updaterVersion, rv, syncLocals>>

(* The second look at the version only makes the reader look younger, so   *)
(* that fewer updaters wait for it: no safety property needs it.           *)
LockCheck(t, done) ==
  /\ Goto(t, "lock.check",
          IF updaterVersion = rv[t] THEN done ELSE "lock.fix")
  /\ rv' = [rv EXCEPT ![t] = IF updaterVersion = @ THEN 0 ELSE updaterVersion]
  /\ UNCHANGED <<versionVars, syncLocals, oldReaders>>

LockFix(t, done) ==
  /\ Goto(t, "lock.fix", done)
  /\ readersVersion' = [readersVersion EXCEPT ![t] = rv[t]]
  /\ rv' = [rv EXCEPT ![t] = 0]
  /\ UNCHANGED <<updaterVersion, syncLocals, oldReaders>>

ReadLock(t, done) ==
  LockLoad(t) \/ LockStore(t) \/ LockCheck(t, done) \/ LockFix(t, done)

(* readUnlock(thread_id).                                                  *)
ReadUnlock(t) ==
  /\ readersVersion' = [readersVersion EXCEPT ![t] = NOT_READING]
  /\ oldReaders' = [u \in Threads |-> oldReaders[u] \ {t}]
  /\ UNCHANGED <<updaterVersion, rv, syncLocals>>

-----------------------------------------------------------------------------
(* synchronizeRCU(); readers is the set of threads inside their section.   *)
SyncLoad(t, readers) ==
  /\ Goto(t, "sync.load", "sync.cas")
  /\ waitFor' = [waitFor EXCEPT ![t] = updaterVersion]
  /\ oldReaders' = [oldReaders EXCEPT ![t] = readers \ {t}]
  /\ UNCHANGED <<versionVars, rv, idx>>

\* fault: the version is not advanced
SyncCasNever(t) ==
  /\ Goto(t, "sync.cas", "sync.spin")
  /\ UNCHANGED urcuVars

(* A failed exchange means that another thread has advanced the version.   *)
SyncCas(t) ==
  /\ Goto(t, "sync.cas", "sync.spin")
  /\ updaterVersion' = IF updaterVersion = waitFor[t] THEN waitFor[t] + 1
                       ELSE updaterVersion
  /\ UNCHANGED <<readersVersion, rv, syncLocals, oldReaders>>

\* fault: readers that announced the current version are not waited for
ReaderIsOlder(t) == readersVersion[idx[t]] < waitFor[t]

ReaderIsOld(t) == readersVersion[idx[t]] <= waitFor[t]

(* One load of the spin: an old reader is asked again, without any change. *)
SyncSpin(t, done) ==
  /\ pc[t] = "sync.spin"
  /\ IF ReaderIsOld(t) THEN UNCHANGED <<pc, syncLocals>>
     ELSE IF idx[t] + 1 < NumThreads
          THEN idx' = [idx EXCEPT ![t] = @ + 1] /\ UNCHANGED <<pc, waitFor>>
          ELSE /\ Goto(t, "sync.spin", done)
               /\ idx' = [idx EXCEPT ![t] = 0]
               /\ waitFor' = [waitFor EXCEPT ![t] = 0]
  /\ UNCHANGED <<versionVars, rv, oldReaders>>

SynchronizeRCU(t, readers, done) ==
  SyncLoad(t, readers) \/ SyncCas(t) \/ SyncSpin(t, done)

-----------------------------------------------------------------------------
(* What keeps grace periods right, for a structure whose threads are       *)
(* inside their sections at the labels of section: no thread announces a   *)
(* version that the counter has not reached, and a thread that waits has   *)
(* passed, in its loop, none of the old readers it must wait for, each of  *)
(* which goes on announcing a version that it does wait for.               *)
OldReadersHeld(t) ==
  \A r \in oldReaders[t] :
    /\ pc[r] \notin {"lock.check", "lock.fix"}
    /\ pc[t] \in {"sync.cas", "sync.spin"}
    /\ readersVersion[r] <= waitFor[t]
    /\ idx[t] <= r

Announced(t, section) ==
  /\ pc[t] \in {"lock.store", "lock.check", "lock.fix"} =>
       rv[t] <= updaterVersion
  /\ pc[t] \in section \cup {"lock.check"} =>
       readersVersion[t] <= updaterVersion

LoopAtStart(t) == pc[t] # "sync.spin" => idx[t] = 0

GraceTypes ==
  /\ updaterVersion \in Nat
  /\ readersVersion \in [Threads -> Nat]
  /\ rv \in [Threads -> Nat]
  /\ waitFor \in [Threads -> Nat]
  /\ idx \in [Threads -> Threads]
  /\ oldReaders \in [Threads -> SUBSET Threads]
  /\ pc = [t \in Threads |-> pc[t]]

Grace(section) ==
  /\ GraceTypes
  /\ \A t \in Threads :
       Announced(t, section) /\ OldReadersHeld(t) /\ LoopAtStart(t)

=============================================================================
