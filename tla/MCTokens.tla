------------------------------ MODULE MCTokens ------------------------------
(* Small instances of TokenManager. *)
EXTENDS TokenManager, TLC
=============================================================================
