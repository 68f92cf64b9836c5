---------------------------- MODULE MCQueueURCU ----------------------------
(* QueueURCU for TLC: addresses are interchangeable, and so are items.     *)
EXTENDS QueueURCU, TLC

Symmetry == Permutations(Nodes) \cup Permutations(Items)

=============================================================================
