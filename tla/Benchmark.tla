----------------------------- MODULE Benchmark -----------------------------
(***************************************************************************)
(* The client of every data structure: Benchmark.cpp, which is the same    *)
(* program in all four directories.  Threads 0, 1, ... call operations     *)
(* until the main thread, after its sleep, sets quit; the main thread      *)
(* joins them and deletes the structure, whose destructor first drains it  *)
(* by calling a removal as thread 0 until that returns nullptr.            *)
(*                                                                         *)
(* The threads may call any operation in any order, which includes the     *)
(* mixes that the rw_lambda of the three benchmarks choose at random.  A   *)
(* structure conjoins these actions with what it leaves unchanged.         *)
(***************************************************************************)
EXTENDS Integers

CONSTANT NumThreads   \* threads that call the structure

ASSUME ThreadsAssumption == NumThreads \in Nat \ {0}

Threads == 0..(NumThreads - 1)

VARIABLES
  pc,     \* the next shared access of each thread
  main    \* the main thread's progress

MainStates == {"filling", "sleeping", "joining", "draining", "deleting",
               "destroyed", "undefined"}

BenchmarkInit ==
  /\ pc = [t \in Threads |-> "idle"]
  /\ main = "sleeping"

Goto(t, from, to) == pc[t] = from /\ pc' = [pc EXCEPT ![t] = to]

(* A thread found quit false (the prefill of the main thread is a thread 0 *)
(* that calls before the others do).                                       *)
Calling == main = "sleeping"

DrainingAs(t) == main = "draining" /\ t = 0

QuitSignal == main = "sleeping" /\ main' = "joining" /\ UNCHANGED pc

LeaveLoop(t) ==
  /\ main = "joining"
  /\ Goto(t, "idle", "exited")
  /\ UNCHANGED main

JoinThreads ==
  /\ main = "joining" /\ main' = "draining"
  /\ \A t \in Threads : pc[t] = "exited"
  /\ pc' = [pc EXCEPT ![0] = "idle"]

(* A removal returns; nullptr ends the loop of the destructor.             *)
ReturnItem(isNull) ==
  main' = IF main = "draining" /\ isNull THEN "deleting" ELSE main

DeleteStructure == main = "deleting" /\ main' = "destroyed" /\ UNCHANGED pc

Destroyed == main = "destroyed"

=============================================================================
