---------------------------- MODULE MCUserService ----------------------------
(* Small instances of UserService. *)
EXTENDS UserService, TLC

CONSTANTS i1, e1, p1, n1

\* An account whose last_password_hash was filled in by other means.
OneAccount ==
    i1 :> [email |-> e1, name |-> n1, image |-> Null, password |-> p1,
           seen |-> FALSE, readable |-> TRUE]

NoAccount == [id \in {} |-> NoRow]
=============================================================================
