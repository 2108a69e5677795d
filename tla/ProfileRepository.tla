------------------------- MODULE ProfileRepository -------------------------
(***************************************************************************)
(* The SQL statements of internal/infrastructure/db/profile_repository.go  *)
(* as operators on the profiles table.  A table is a function from the     *)
(* primary keys to rows, NoRow where there is none.  Three columns stand   *)
(* for the text columns: first_name for the NOT NULL ones, bio for the     *)
(* nullable ones that the service sanitises, website for the three URLs,   *)
(* which it stores as they came unless a PATCH names them.  deleted stands *)
(* for deleted_at IS NOT NULL.  Timestamps are left out: no statement      *)
(* modelled here reads one.                                                *)
(***************************************************************************)
EXTENDS Naturals

CONSTANTS
    Users,  \* user ids
    Ids,    \* profile ids (UUIDs)
    Texts,  \* non-empty sanitised texts
    Tagged, \* a URL with markup in it
    Empty,  \* the empty text
    Null,   \* SQL NULL, a nil *string, an absent JSON field
    NoRow   \* no row under this primary key

Stored == Texts \cup {Empty}

\* The row, and the Profile struct that is scanned from it or written to it.
Row == [user_id : Users, first_name : Stored, bio : Stored \cup {Null},
        website : Stored \cup {Tagged, Null}, version : Nat, deleted : BOOLEAN]

MaybeRow == Row \cup {NoRow}

ASSUME SentinelAssumption ==
    /\ NoRow \notin Row
    /\ Null \notin Stored
    /\ Empty \notin Texts
    /\ Tagged \notin Stored \cup {Null}

Present(t, id) == t[id] # NoRow

\* Mutant of Owned: WHERE id = ? alone.
OwnedByAnyone(t, id, u) == Present(t, id)

\* WHERE id = ? AND user_id = ?
Owned(t, id, u) == Present(t, id) /\ t[id].user_id = u

\* GetByID: ... AND (deleted_at IS NULL)
Visible(t, id, u) == Owned(t, id, u) /\ ~t[id].deleted

\* Mutants of AtVersion: no AND version = ?; no AND user_id = ?.
AtAnyVersion(t, id, u, v) == Owned(t, id, u)

AtVersionOfAnyone(t, id, u, v) == Present(t, id) /\ t[id].version = v

\* The optimistic lock of Patch and Delete: ... AND version = ?
AtVersion(t, id, u, v) == Owned(t, id, u) /\ t[id].version = v

\* Create: INSERT of one struct.
InsertRow(t, id, p) == [t EXCEPT ![id] = p]

\* BulkCreate: what COMMIT publishes once every INSERT of the batch ran.
InsertBatch(t, keys, batch) ==
    [id \in Ids |-> IF \E i \in DOMAIN keys : keys[i] = id
                    THEN batch[CHOOSE i \in DOMAIN keys : keys[i] = id]
                    ELSE t[id]]

\* Mutant of UpdateRow: deleted_at is written back as it was read.
UpdateWholeRow(t, id, p) == [t EXCEPT ![id] = p]

\* Update: every column of the struct but user_id and deleted_at.
UpdateRow(t, id, p) ==
    [t EXCEPT ![id] = [@ EXCEPT !.first_name = p.first_name,
                                !.bio = p.bio,
                                !.website = p.website,
                                !.version = p.version]]

\* Patch: SET the given columns, version = version + 1.
PatchRow(t, id, fields) ==
    LET set(k) == IF k \in DOMAIN fields THEN fields[k] ELSE t[id][k] IN
    [t EXCEPT ![id] = [t[id] EXCEPT !.first_name = set("first_name"),
                                    !.bio = set("bio"),
                                    !.website = set("website"),
                                    !.version = t[id].version + 1]]

\* NOT NULL constraint of first_name and last_name.
BreaksNotNull(fields) ==
    "first_name" \in DOMAIN fields /\ fields["first_name"] = Null

\* Delete, soft: SET deleted_at = ?, version = version + 1.
SoftDeleteRow(t, id) ==
    [t EXCEPT ![id] = [t[id] EXCEPT !.deleted = TRUE,
                                    !.version = t[id].version + 1]]

\* Delete, hard.
HardDeleteRow(t, id) == [t EXCEPT ![id] = NoRow]

\* Mutant of BulkDeleteRows: WHERE id IN (?) alone.
BulkDeleteAnyRows(t, u, S, hard) ==
    [id \in Ids |->
        IF ~(id \in S /\ Present(t, id)) THEN t[id]
        ELSE IF hard THEN NoRow
        ELSE [t[id] EXCEPT !.deleted = TRUE]]

\* BulkDelete: one statement over user_id = ? AND id IN (?); the soft form
\* neither compares nor increments the version.
BulkDeleteRows(t, u, S, hard) ==
    [id \in Ids |->
        IF ~(id \in S /\ Owned(t, id, u)) THEN t[id]
        ELSE IF hard THEN NoRow
        ELSE [t[id] EXCEPT !.deleted = TRUE]]
=============================================================================
