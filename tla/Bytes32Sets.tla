----------------------------- MODULE Bytes32Sets ----------------------------
(***************************************************************************)
(* The ordered set of unique 32-byte identifiers (library Bytes32Sets,     *)
(* spec 4.1 and 9): an array of keys in insertion order and a reverse      *)
(* index from key to its 1-based slot, 0 meaning absent.  Removal moves    *)
(* the last key into the freed slot.  ToposCore keeps its certificate ids  *)
(* and source-subnet ids in such sets, ERC20Messaging its token keys and   *)
(* SubnetRegistrator its subnet ids.                                       *)
(*                                                                         *)
(* The Solidity library is not part of the TypeScript sources, so the      *)
(* operators below follow the spec; Bytes32SetsTest is the spec of the     *)
(* library on its own, as Bytes32Sets.test.ts drives it.                   *)
(***************************************************************************)
EXTENDS Naturals, Sequences, FiniteSets

CONSTANT Keys          \* the identifiers a run may use (model values)

\* A set value is a record [keys: Seq(Keys), index: [Keys -> Nat]].

EmptySet == [keys |-> << >>, index |-> [k \in Keys |-> 0]]

Exists(s, k) == s.index[k] # 0

Count(s) == Len(s.keys)

KeyAtIndex(s, i) == s.keys[i + 1]

Members(s) == {s.keys[i] : i \in DOMAIN s.keys}

\* insert(key): reverts "key already exists in the set." when present.
SetInsert(s, k) ==
    [keys  |-> Append(s.keys, k),
     index |-> [s.index EXCEPT ![k] = Len(s.keys) + 1]]

\* Mutant: the moved last key keeps its old slot number.
SetRemoveNoReindex(s, k) ==
    LET i    == s.index[k]
        last == s.keys[Len(s.keys)]
    IN  [keys  |-> SubSeq([s.keys EXCEPT ![i] = last], 1, Len(s.keys) - 1),
         index |-> [s.index EXCEPT ![k] = 0]]

\* Mutant: drops the last slot instead of the removed key's slot.
SetRemoveLast(s, k) ==
    LET last == s.keys[Len(s.keys)]
    IN  [keys  |-> SubSeq(s.keys, 1, Len(s.keys) - 1),
         index |-> [s.index EXCEPT ![last] = 0]]

\* remove(key): reverts "key does not exist in the set." when absent;
\* otherwise the last key is moved into the slot of the removed one.
SetRemove(s, k) ==
    LET i    == s.index[k]
        last == s.keys[Len(s.keys)]
    IN  [keys  |-> SubSeq([s.keys EXCEPT ![i] = last], 1, Len(s.keys) - 1),
         index |-> [s.index EXCEPT ![last] = i, ![k] = 0]]

SetType == [keys : Seq(Keys), index : [Keys -> 0 .. Cardinality(Keys)]]
=============================================================================
