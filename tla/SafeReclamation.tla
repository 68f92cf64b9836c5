-------------------------- MODULE SafeReclamation --------------------------
(***************************************************************************)
(* What the README promises of every scheme of the repository: "safe       *)
(* memory reclamation".  Nodes are allocated, linked into a structure,     *)
(* unlinked and finally reclaimed.  A thread may come to rely on a node it *)
(* finds linked (it guards the node), and a node some thread guards is not *)
(* reclaimed.  Data structures together with their scheme implement this   *)
(* module through INSTANCE ... WITH.                                       *)
(***************************************************************************)
CONSTANTS Threads, Nodes

VARIABLES
  status,   \* life cycle of every node
  guards    \* the nodes each thread may still access

vars == <<status, guards>>

Init ==
  /\ status \in [Nodes -> {"free", "linked"}]
  /\ guards = [t \in Threads |-> {}]

Move(S, from, to) ==
  /\ \A n \in S : status[n] = from
  /\ status' = [n \in Nodes |-> IF n \in S THEN to ELSE status[n]]
  /\ UNCHANGED guards

Unguarded(n) == \A t \in Threads : n \notin guards[t]

Allocate(n) == Move({n}, "free", "private")
Link(n)     == Move({n}, "private", "linked")
Unlink(n)   == Move({n}, "linked", "retired")
Discard(n)  == Move({n}, "private", "free")

Reclaim(n) == Move({n}, "retired", "free") /\ Unguarded(n)

Guard(t, n) ==
  /\ status[n] = "linked"
  /\ UNCHANGED status
  /\ guards' = [guards EXCEPT ![t] = @ \cup {n}]

(* One exchange unlinks n and leaves the thread with n's successor m.      *)
Advance(t, n, m) ==
  /\ status[n] = "linked" /\ status'[n] = "retired"
  /\ status[m] = "linked" /\ m # n
  /\ status' = [status EXCEPT ![n] = "retired"]
  /\ guards' = [guards EXCEPT ![t] = @ \cup {m}]

(* t gives up some of its guards.                                          *)
Release(t) ==
  /\ UNCHANGED status
  /\ guards' = [guards EXCEPT ![t] = @ \cap guards'[t]]

(* The structure is destroyed once no thread uses it.                      *)
Destroy ==
  /\ \A t \in Threads : guards[t] = {}
  /\ status' = [n \in Nodes |->
                  IF status'[n] = "free" THEN "free" ELSE status[n]]
  /\ UNCHANGED guards

Change(n) ==
  \/ Allocate(n) \/ Link(n) \/ Unlink(n) \/ Discard(n) \/ Reclaim(n)
  \/ \E t \in Threads, m \in Nodes : Advance(t, n, m)

Next ==
  \/ \E n \in Nodes : status'[n] # status[n] /\ Change(n)
  \/ \E t \in Threads : /\ guards'[t] # guards[t]
                        /\ Release(t) \/ \E n \in guards'[t] : Guard(t, n)
  \/ Destroy

Spec == Init /\ [][Next]_vars

=============================================================================
