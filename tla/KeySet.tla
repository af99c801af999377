------------------------------- MODULE KeySet -------------------------------
(***************************************************************************)
(* What the unique-identifier set promises to its callers (spec 4.1), with *)
(* no representation: a finite set of keys; insert(k) adds k when absent   *)
(* and reverts when present, remove(k) removes k when present and reverts  *)
(* when absent.  lastCall records the call and whether it succeeded, so   *)
(* that an implementation must change exactly the key it was called with. *)
(* Bytes32Set implements it.                                               *)
(***************************************************************************)
CONSTANT Keys

VARIABLES members, lastCall

vars == <<members, lastCall>>

Calls == [op : {"insert", "remove"}, key : Keys, ok : BOOLEAN]

Init ==
    /\ members = {}
    /\ lastCall = [op |-> "insert", key |-> CHOOSE k \in Keys : TRUE, ok |-> FALSE]

Insert(k) ==
    /\ members' = IF k \in members THEN members ELSE members \cup {k}
    /\ lastCall' = [op |-> "insert", key |-> k, ok |-> k \notin members]

Remove(k) ==
    /\ members' = members \ {k}
    /\ lastCall' = [op |-> "remove", key |-> k, ok |-> k \in members]

Next == \E k \in Keys : Insert(k) \/ Remove(k)

Spec == Init /\ [][Next]_vars
=============================================================================
