---------------------------- MODULE MCStackURCU ----------------------------
(* StackURCU for TLC, for liveness: without symmetry.                      *)
EXTENDS StackURCU

=============================================================================
