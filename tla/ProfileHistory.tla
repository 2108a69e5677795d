--------------------------- MODULE ProfileHistory ---------------------------
(***************************************************************************)
(* ProfileService with a record of the conditional writes it acknowledged, *)
(* to state what optimistic locking is for: of the clients that edited the *)
(* same version of a profile, at most one is told that it succeeded.       *)
(***************************************************************************)
EXTENDS ProfileService

VARIABLE won  \* the pairs <<id, version>> whose edit was acknowledged

hvars == <<vars, won>>

Succeeds(reply) ==
    reply.op \in {"put", "patch", "delete"} /\ reply.status \in {200, 204}

Edited(reply) == <<reply.id, reply.version>>

HInit == Init /\ won = {}

HNext ==
    /\ Next
    /\ won' = won \cup {Edited(r) : r \in {x \in {out'} : Succeeds(x)}}

HSpec == HInit /\ [][HNext]_hvars

(***************************************************************************)
(* No edit that started from a version which another edit had already      *)
(* replaced is acknowledged: PATCH and DELETE compare the version in the   *)
(* statement that writes (profile_repository.go:81,98,108), and no request *)
(* ever takes a stored version back.  PUT compares it in memory only       *)
(* (service.go:122) and breaks this when two requests overlap.             *)
(***************************************************************************)
AtMostOneWinner == [][Succeeds(out') => Edited(out') \notin won]_hvars
=============================================================================
