------------------------------ MODULE MCServer ------------------------------
(* Small instances of Server: a user with two tokens, one of them with the role admin. *)
EXTENDS Server, TLC

CONSTANTS a1, u1, t1, t2

MCKeys == {a1, u1}
MCOwner == t1 :> u1 @@ t2 :> u1
=============================================================================
