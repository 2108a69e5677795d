--------------------------- MODULE MCTokenHistory ---------------------------
(* A small instance of TokenHistory. *)
EXTENDS TokenHistory, TLC
=============================================================================
