-------------------------- MODULE MCLimiterHistory --------------------------
(* Small instances of LimiterHistory. *)
EXTENDS LimiterHistory, TLC
=============================================================================
