---------------------------- MODULE MCProgramHP ----------------------------
(* ProgramHP for TLC: the addresses of Pool are interchangeable.           *)
EXTENDS ProgramHP

Symmetry == Permutations(Pool)

(* Symmetry being unsound for liveness, the run of LockFree and Terminates *)
(* uses as much of it as the initial state allows: whatever address the    *)
(* first node of a stack or a queue has, the behaviours are those of a     *)
(* first node of this address, with the addresses of Pool renamed.         *)
FirstNode == CHOOSE n \in StackPool : TRUE

InitFrom == Init /\ FirstNode = Of(top, head, FirstNode)

LiveSpecFrom == InitFrom /\ [][Next]_vars /\ WF_vars(Next)

=============================================================================
