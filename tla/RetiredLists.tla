---------------------------- MODULE RetiredLists ----------------------------
(***************************************************************************)
(* The loop over a retired list that hazard eras, interval-based           *)
(* reclamation and hazard pointers share:                                  *)
(*   for (i = 0; i < list.size(); i++) if (...) list.erase(begin + i), ... *)
(***************************************************************************)
EXTENDS Naturals, Sequences, FiniteSets

(* The entries of list at the indices of kept.                             *)
InOrder(list, kept) ==
  [j \in 1..Cardinality(kept) |->
     list[CHOOSE i \in kept : Cardinality({k \in kept : k <= i}) = j]]

(* What is left when the loop erases the nodes of S: the node behind an    *)
(* erased one moves into its place, and i++ passes over it.                *)
Survivors(list, S) ==
  LET erased[i \in 1..Len(list)] ==
        list[i] \in S /\ (i = 1 \/ ~erased[i - 1])
      kept == {i \in 1..Len(list) : ~erased[i]}
  IN  InOrder(list, kept)

Members(list) == {list[i] : i \in 1..Len(list)}

=============================================================================
