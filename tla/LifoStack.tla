----------------------------- MODULE LifoStack -----------------------------
(***************************************************************************)
(* A linearizable stack: each call of push or pop takes effect in one step *)
(* between its call and its return.  Elements are told apart by the token  *)
(* their push brought.  The stack starts empty, or, where elements are     *)
(* nodes, with the sentinel of the constructor, which no operation treats  *)
(* differently from a pushed node.                                         *)
(***************************************************************************)
EXTENDS Sequences

CONSTANTS Threads, Tokens, NULL

VARIABLES
  stk,    \* the elements, top first
  call,   \* what each thread is doing
  arg     \* the token it pushes, or the one its pop took (NULL: empty)

vars == <<stk, call, arg>>

Init ==
  /\ stk = <<>> \/ \E x \in Tokens : stk = <<x>>
  /\ call = [t \in Threads |-> "none"]
  /\ arg = [t \in Threads |-> NULL]

Become(t, from, to, x) ==
  /\ call[t] = from
  /\ call' = [call EXCEPT ![t] = to]
  /\ arg' = [arg EXCEPT ![t] = x]

CallPush(t, x) == Become(t, "none", "push", x) /\ UNCHANGED stk

CallPop(t) == Become(t, "none", "pop", NULL) /\ UNCHANGED stk

Push(t) == Become(t, "push", "done", NULL) /\ stk' = <<arg[t]>> \o stk

Pop(t) ==
  /\ call[t] = "pop" /\ stk # <<>>
  /\ Become(t, "pop", "done", Head(stk))
  /\ stk' = Tail(stk)

PopEmpty(t) ==
  /\ Become(t, "pop", "done", NULL)
  /\ stk = <<>>
  /\ UNCHANGED stk

Return(t) == Become(t, "done", "none", NULL) /\ UNCHANGED stk

Destroy ==
  /\ \A t \in Threads : call[t] = "none"
  /\ UNCHANGED <<call, arg>>
  /\ stk' = <<>>

Next ==
  \/ \E t \in Threads : /\ call'[t] # call[t]
                        /\ \/ \E x \in Tokens : CallPush(t, x)
                           \/ CallPop(t) \/ Push(t) \/ Pop(t) \/ PopEmpty(t)
                           \/ Return(t)
  \/ Destroy

Spec == Init /\ [][Next]_vars

=============================================================================
