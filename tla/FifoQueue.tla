----------------------------- MODULE FifoQueue -----------------------------
(***************************************************************************)
(* A linearizable queue: each call of enqueue or dequeue takes effect in   *)
(* one step between its call and its return.  Elements are told apart by   *)
(* the token their enqueue brought.                                        *)
(***************************************************************************)
EXTENDS Sequences

CONSTANTS Threads, Tokens, NULL

VARIABLES
  q,      \* the elements, oldest first
  call,   \* what each thread is doing
  arg     \* the token it enqueues, or the one it dequeued (NULL: empty)

vars == <<q, call, arg>>

Init ==
  /\ q = <<>>
  /\ call = [t \in Threads |-> "none"]
  /\ arg = [t \in Threads |-> NULL]

Become(t, from, to, x) ==
  /\ call[t] = from
  /\ call' = [call EXCEPT ![t] = to]
  /\ arg' = [arg EXCEPT ![t] = x]

CallEnqueue(t, x) == Become(t, "none", "enqueue", x) /\ UNCHANGED q

CallDequeue(t) == Become(t, "none", "dequeue", NULL) /\ UNCHANGED q

Enqueue(t) == Become(t, "enqueue", "done", NULL) /\ q' = Append(q, arg[t])

Dequeue(t) ==
  /\ call[t] = "dequeue" /\ q # <<>>
  /\ Become(t, "dequeue", "done", Head(q))
  /\ q' = Tail(q)

DequeueEmpty(t) ==
  /\ Become(t, "dequeue", "done", NULL)
  /\ q = <<>>
  /\ UNCHANGED q

Return(t) == Become(t, "done", "none", NULL) /\ UNCHANGED q

Destroy ==
  /\ \A t \in Threads : call[t] = "none"
  /\ UNCHANGED <<call, arg>>
  /\ q' = <<>>

Next ==
  \/ \E t \in Threads : /\ call'[t] # call[t]
                        /\ \/ \E x \in Tokens : CallEnqueue(t, x)
                           \/ CallDequeue(t) \/ Enqueue(t) \/ Dequeue(t)
                           \/ DequeueEmpty(t) \/ Return(t)
  \/ Destroy

Spec == Init /\ [][Next]_vars

=============================================================================
