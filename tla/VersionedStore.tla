--------------------------- MODULE VersionedStore ---------------------------
(***************************************************************************)
(* What a client of the profiles API is entitled to assume about stored    *)
(* profiles when it uses the "version" field for optimistic locking: a     *)
(* profile is inserted once at version 1, every edit moves it to exactly   *)
(* the next version, a removal is final, and one request changes profiles  *)
(* of one owner only.  Without Locking an edit may leave any version.  The *)
(* module says nothing of requests or of threads: it is the specification  *)
(* that ProfileService is shown to implement.                              *)
(***************************************************************************)
EXTENDS Naturals

CONSTANTS
    Users,  \* the owners
    Ids,    \* every profile identifier
    None,   \* the content of store[id] when there is no such profile
    Locking \* whether the version of a profile counts its edits

VARIABLES
    store,  \* store[id]: the stored profile, or None
    spent   \* identifiers that will never be inserted (again)

Init ==
    /\ store = [id \in Ids |-> None]
    /\ spent = {}

Insert(id) ==
    /\ store[id] = None
    /\ id \notin spent
    /\ id \in spent'
    /\ store'[id] # None
    /\ store'[id].version = 1
    /\ ~store'[id].deleted

Edit(id) ==
    /\ store[id] # None
    /\ store'[id] # None
    /\ Locking => store'[id].version = store[id].version + 1
    /\ store'[id].deleted = store[id].deleted

\* A soft delete; a bulk soft delete leaves the version alone.
Retire(id) ==
    /\ store[id] # None
    /\ store'[id] # None
    /\ store'[id] \in { [store[id] EXCEPT !.deleted = TRUE, !.version = v] :
                          v \in {store[id].version, store[id].version + 1} }

Erase(id) ==
    /\ store[id] # None
    /\ id \in spent
    /\ store'[id] = None

\* Profiles keep their owner, and a step belongs to one owner.
OwnedBy(u, id) ==
    /\ store[id]  # None => store[id].user_id  = u
    /\ store'[id] # None => store'[id].user_id = u

Next ==
    \E u \in Users, S \in SUBSET Ids :
        /\ spent \subseteq spent'
        /\ \A id \in Ids \ S : store'[id] = store[id]
        /\ \A id \in S : OwnedBy(u, id)
        /\ \/ \A id \in S : Insert(id)
           \/ \E id \in S : S = {id} /\ Edit(id)
           \/ \A id \in S : Retire(id)
           \/ \A id \in S : Erase(id)

svars == <<store, spent>>

Spec == Init /\ [][Next]_svars
=============================================================================
