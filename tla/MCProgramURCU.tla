--------------------------- MODULE MCProgramURCU ---------------------------
(* ProgramURCU for TLC: the addresses of Pool are interchangeable, and
   so are items.   *)
EXTENDS ProgramURCU, TLC

Symmetry == Permutations(Pool) \cup Permutations(Items)

=============================================================================
