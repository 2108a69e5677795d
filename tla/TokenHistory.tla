---------------------------- MODULE TokenHistory ----------------------------
(***************************************************************************)
(* TokenManager with a record of the refresh tokens that were exchanged,   *)
(* to state what rotation is for.                                          *)
(***************************************************************************)
EXTENDS TokenManager

VARIABLE redeemed  \* tokens for which a client received a successor

hvars == <<vars, redeemed>>

\* The old tokens whose successor this step delivers.
Redeems == {old \in Tokens : \E w \in Workers :
               /\ job[w] # Idle
               /\ job[w].old = old
               /\ job[w].new \in held' \ held}

HInit == Init /\ redeemed = {}

HNext == Next /\ redeemed' = redeemed \cup Redeems

HSpec == HInit /\ [][HNext]_hvars

(***************************************************************************)
(* A refresh token is exchanged at most once (jwt_manager.go:55, "rotates  *)
(* refresh tokens").  The code does not see to it: two requests may both   *)
(* GET the token before either DELs it, and the error of a failed DEL is   *)
(* dropped (jwt_manager.go:64,78).                                         *)
(***************************************************************************)
RedeemedOnce == [][Redeems \cap redeemed = {}]_hvars
=============================================================================
