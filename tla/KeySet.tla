------------------------------- MODULE KeySet -------------------------------
(***************************************************************************)
(* A linearizable set of keys with add, remove and contains.  A call that  *)
(* changes the set does so in one step; a call that does not must give an  *)
(* answer that was right at some moment since it began, for which seen     *)
(* records whether its key has been a member, FALSE and TRUE, meanwhile.   *)
(***************************************************************************)
CONSTANTS Threads, Keys, NoKey

VARIABLES
  keys,   \* the members
  call,   \* the operation each thread has begun and not yet decided
  key,    \* its argument
  seen    \* what k \in keys has been during the call

vars == <<keys, call, key, seen>>

Updates == {"add", "remove"}
Decided == {"true", "false"}      \* an operation that is about to return

Init ==
  /\ keys \in SUBSET Keys
  /\ call = [t \in Threads |-> "none"]
  /\ key = [t \in Threads |-> NoKey]
  /\ seen = [t \in Threads |-> {}]

Call(t, op, k) ==
  /\ call[t] = "none"
  /\ call' = [call EXCEPT ![t] = op]
  /\ key' = [key EXCEPT ![t] = k]
  /\ seen' = [seen EXCEPT ![t] = {k \in keys}]
  /\ UNCHANGED keys

Decide(t, op, answer) ==
  /\ call[t] = op
  /\ call' = [call EXCEPT ![t] = answer]
  /\ key' = [key EXCEPT ![t] = NoKey]

Change(t, member) ==
  /\ (key[t] \in keys) # member
  /\ keys' = IF member THEN keys \cup {key[t]} ELSE keys \ {key[t]}
  /\ seen' = [u \in Threads |->
                IF u = t THEN {}
                ELSE IF key[u] = key[t] THEN seen[u] \cup {member} ELSE seen[u]]

Add(t)    == Decide(t, "add", "true") /\ Change(t, TRUE)
Remove(t) == Decide(t, "remove", "true") /\ Change(t, FALSE)

Answer(t, op, member, answer) ==
  /\ Decide(t, op, answer)
  /\ member \in seen[t]
  /\ seen' = [seen EXCEPT ![t] = {}]
  /\ UNCHANGED keys

Refuse(t) ==
  \/ Answer(t, "add", TRUE, "false")
  \/ Answer(t, "remove", FALSE, "false")

Contains(t) ==
  \/ Answer(t, "contains", TRUE, "true")
  \/ Answer(t, "contains", FALSE, "false")

Return(t) ==
  /\ call[t] \in Decided
  /\ call' = [call EXCEPT ![t] = "none"]
  /\ UNCHANGED <<keys, key, seen>>

Destroy ==
  /\ \A t \in Threads : call[t] = "none"
  /\ UNCHANGED <<call, key, seen>>
  /\ keys' = {}

Next ==
  \/ \E t \in Threads :
       /\ call'[t] # call[t]
       /\ \/ \E op \in Updates \cup {"contains"}, k \in Keys : Call(t, op, k)
          \/ Add(t) \/ Remove(t) \/ Refuse(t) \/ Contains(t) \/ Return(t)
  \/ Destroy

Spec == Init /\ [][Next]_vars

=============================================================================
