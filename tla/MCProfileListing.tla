-------------------------- MODULE MCProfileListing --------------------------
(* Small instances of ProfileListing. *)
EXTENDS ProfileListing, TLC

MCTimes == 0..3

Symmetry == Permutations(Ids)
=============================================================================
