----------------------------- MODULE MCStackHP -----------------------------
(* StackHP for TLC: addresses are interchangeable.                         *)
EXTENDS StackHP

Symmetry == Permutations(Nodes)

=============================================================================
