---------------------------- MODULE MCProgramIBR ----------------------------
(* ProgramIBR for TLC: the addresses of Pool are interchangeable.          *)
EXTENDS ProgramIBR, TLC

Symmetry == Permutations(Pool)

=============================================================================
