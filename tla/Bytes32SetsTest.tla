-------------------------- MODULE Bytes32SetsTest --------------------------
EXTENDS Bytes32Sets

(***************************************************************************)
(* The Bytes32Sets library used on its own, as the Bytes32SetsTest         *)
(* contract exposes it to Bytes32Sets.test.ts (insert, remove, exists,     *)
(* count, keyAtIndex).  A call that reverts leaves the set as it was;      *)
(* lastCall records each call and whether it succeeded, as the caller      *)
(* observes it.                                                            *)
(***************************************************************************)

VARIABLES set, lastCall

vars == <<set, lastCall>>

Init ==
    /\ set = EmptySet
    /\ lastCall = [op |-> "insert", key |-> CHOOSE k \in Keys : TRUE, ok |-> FALSE]

\* Mutant: insert appends without the DuplicateKey check.
InsertNoDuplicateCheck(k) ==
    /\ set' = SetInsert(set, k)
    /\ lastCall' = [op |-> "insert", key |-> k, ok |-> TRUE]

Insert(k) ==
    /\ set' = IF Exists(set, k) THEN set ELSE SetInsert(set, k)
    /\ lastCall' = [op |-> "insert", key |-> k, ok |-> ~Exists(set, k)]

Remove(k) ==
    /\ set' = IF Exists(set, k) THEN SetRemove(set, k) ELSE set
    /\ lastCall' = [op |-> "remove", key |-> k, ok |-> Exists(set, k)]

Next == \E k \in Keys : Insert(k) \/ Remove(k)

Spec == Init /\ [][Next]_vars

-----------------------------------------------------------------------------
TypeOK ==
    /\ set \in SetType
    /\ lastCall \in [op : {"insert", "remove"}, key : Keys, ok : BOOLEAN]

\* Spec 3: every present key appears exactly once in the array and its
\* reverse-index entry names its true slot; absent keys have no entry.
\* Breaking it takes an insert of two keys and the removal of the first,
\* the case the swap in remove() exists for; the unit test of that case
\* only looks at exists(), which a stale index still answers correctly.
IndexConsistent ==
    /\ \A i \in DOMAIN set.keys : set.index[set.keys[i]] = i
    /\ \A k \in Keys : Exists(set, k) =>
           /\ set.index[k] <= Count(set)
           /\ set.keys[set.index[k]] = k

\* insert(k) and remove(k) change the membership reported by exists()
\* in exactly the key they were called with, and revert exactly when the
\* key is already present (insert) or absent (remove): the library
\* refines the abstract KeySet specification.
Abstract == INSTANCE KeySet WITH members <- {k \in Keys : Exists(set, k)}

AbstractSpec == Abstract!Spec
=============================================================================
