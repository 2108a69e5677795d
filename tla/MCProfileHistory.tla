-------------------------- MODULE MCProfileHistory --------------------------
(* Small instances of ProfileHistory. *)
EXTENDS ProfileHistory, TLC

CONSTANTS Hello

Plain == [first_name |-> Hello, bio |-> Null, website |-> Null]

OneCreateBody == { Plain }
OnePatchBody == { [k \in {"bio"} |-> Hello] }
NoBulk == {}
GoodPair == { <<Plain, Plain>> }

Symmetry == Permutations(Workers) \cup Permutations(Ids) \cup Permutations(Users)
=============================================================================
