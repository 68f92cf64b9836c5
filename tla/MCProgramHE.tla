---------------------------- MODULE MCProgramHE ----------------------------
(* ProgramHE for TLC: the addresses of Pool are interchangeable.           *)
EXTENDS ProgramHE, TLC

Symmetry == Permutations(Pool)

=============================================================================
