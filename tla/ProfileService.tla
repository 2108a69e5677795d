--------------------------- MODULE ProfileService ---------------------------
(***************************************************************************)
(* The profiles API: handlers, service and repository, as concurrent       *)
(* requests run them.  Each request is one goroutine; a step is everything *)
(* it does up to and including one database statement, so two requests     *)
(* interleave exactly at the statements.  A request that needs a second    *)
(* statement keeps its local variables in job[w] in between.               *)
(***************************************************************************)
EXTENDS ProfileRepository, FiniteSets

CONSTANTS
    Workers,       \* goroutines that serve requests
    Markup,        \* a non-empty raw text that sanitises to the empty text
    Bare,          \* what sanitising leaves of Tagged
    CreateBodies,  \* decoded CreateRequests that clients send
    PatchBodies,   \* decoded "fields" objects that clients send
    BulkBodies,    \* decoded "profiles" arrays that clients send
    Versions,      \* versions that clients name (bounds the stored ones); 0 if absent
    Ops,           \* the operations that clients call
    Faults         \* the ways in which a database statement may fail

OpNames == {"create", "bulk_create", "get", "put", "patch", "delete", "bulk_delete"}
PatchKeys == {"first_name", "bio", "website", "other"}  \* "other": not in the whitelist
Raw == Stored \cup {Markup, Tagged}

CreateRequest == [first_name : Raw, bio : Raw \cup {Null}, website : Raw \cup {Null}]
PatchFields   == UNION { [S -> Raw \cup {Null}] : S \in SUBSET PatchKeys }

ASSUME ProfileAssumption ==
    /\ Markup \notin Stored
    /\ Markup \notin {Null, Tagged}
    /\ Bare \in Stored
    /\ CreateBodies \subseteq CreateRequest
    /\ PatchBodies \subseteq PatchFields
    /\ \A b \in BulkBodies : /\ DOMAIN b \subseteq Nat
                             /\ \A i \in DOMAIN b : b[i] \in CreateBodies
    /\ Versions \subseteq Nat
    /\ Ops \subseteq OpNames
    /\ Faults \subseteq {"refused", "ack_lost"}

VARIABLES
    rows,    \* the profiles table
    issued,  \* UUIDs drawn so far (uuid.New never repeats one)
    job,     \* job[w]: the local variables of the request that w serves
    out      \* the reply that the step sent

vars == <<rows, issued, job, out>>

-----------------------------------------------------------------------------
(* Sanitising and validation *)

\* bluemonday strips markup and the result is trimmed; other JSON values pass.
sanitizeField(val) ==
    CASE val = Markup -> Empty [] val = Tagged -> Bare [] OTHER -> val

\* validator.Struct: "required" looks at the raw text, before sanitising, and
\* "url" accepts markup inside a URL but no text that is nothing else.
ValidCreate(body) == body.first_name # Empty /\ body.website \notin {Empty, Markup}

\* Mutant of assignOptionalFields: the sanitised and the raw fields swapped.
assignSwapped(p, body) ==
    [p EXCEPT !.bio = IF body.bio = Null THEN @ ELSE body.bio,
              !.website = IF body.website = Null THEN @ ELSE sanitizeField(body.website)]

\* An optional field that the request leaves out keeps the value it had.  The
\* three URLs (profile image, cover image, website) are not sanitised.
assignOptionalFields(p, body) ==
    [p EXCEPT !.bio = IF body.bio = Null THEN @ ELSE sanitizeField(body.bio),
              !.website = IF body.website = Null THEN @ ELSE body.website]

NewProfile(u, body) ==
    assignOptionalFields(
        [user_id |-> u, first_name |-> sanitizeField(body.first_name),
         bio |-> Null, website |-> Null, version |-> 1, deleted |-> FALSE], body)

\* The struct that Update writes back: the row it read, edited, one version on.
Replaced(p, body) ==
    [assignOptionalFields([p EXCEPT !.first_name = sanitizeField(body.first_name)], body)
        EXCEPT !.version = @ + 1]

Whitelisted(fields) ==
    [k \in DOMAIN fields \ {"other"} |-> sanitizeField(fields[k])]

-----------------------------------------------------------------------------
(* Replies *)

Idle == [op |-> "idle"]

NoReply == [op |-> "none", user |-> Null, id |-> Null, version |-> 0, status |-> 0,
            profile |-> NoRow, created |-> {}]

\* Sentinel errors to HTTP statuses; everything else is an internal error.
handleError(err) ==
    CASE err = "not_found" -> 404 [] err = "version_conflict" -> 409 [] OTHER -> 500

\* A reply about one profile.
Reply(op, u, id, v, status, p) ==
    [op |-> op, user |-> u, id |-> id, version |-> v, status |-> status,
     profile |-> p, created |-> {}]

Refusal(op, u, id, v, err) == Reply(op, u, id, v, handleError(err), NoRow)

\* A reply to a request that names no single profile.
Summary(op, u, status, created) ==
    [op |-> op, user |-> u, id |-> Null, version |-> 0, status |-> status,
     profile |-> NoRow, created |-> created]

Answer(w, reply) == job' = [job EXCEPT ![w] = Idle] /\ out' = reply

Continue(w, j) == job' = [job EXCEPT ![w] = j] /\ out' = NoReply

Starts(w, op) == op \in Ops /\ job[w] = Idle

Serves(w, op) == job[w].op = op

(***************************************************************************)
(* One data-changing statement.  "refused" fails without effect, as a lost *)
(* connection or a cancelled request context does; "ack_lost" takes effect *)
(* and the caller gets an error nevertheless.  A statement that a rollback *)
(* undoes has no effect, so before COMMIT a transaction is only refused.   *)
(***************************************************************************)
Outcomes == {"ok"} \cup Faults

Exec(outcome, hits, effect) ==
    rows' = IF hits /\ outcome # "refused" THEN effect ELSE rows

ReadFails == "refused" \in Faults

-----------------------------------------------------------------------------
(* Create *)

Create(w, u, body) ==
    /\ Starts(w, "create")
    /\ \/ /\ ~ValidCreate(body)
          /\ UNCHANGED <<rows, issued>>
          /\ Answer(w, Summary("create", u, handleError("validation"), {}))
       \/ /\ ValidCreate(body)
          /\ \E id \in Ids \ issued, outcome \in Outcomes :
                LET p == NewProfile(u, body) IN
                /\ issued' = issued \cup {id}
                /\ Exec(outcome, TRUE, InsertRow(rows, id, p))
                /\ Answer(w, IF outcome = "ok" THEN Reply("create", u, id, 0, 201, p)
                             ELSE Refusal("create", u, id, 0, "db"))

-----------------------------------------------------------------------------
(* BulkCreate: validate each payload, then one transaction whose result the *)
(* service ignores.                                                         *)

KeysOf(j) == {j.keys[i] : i \in DOMAIN j.keys}

BulkReply(w, u, keys) ==
    Answer(w, Summary("bulk_create", u, 207, {keys[i] : i \in DOMAIN keys}))

BulkCreate(w, u, bodies) ==
    LET valid == {i \in DOMAIN bodies : ValidCreate(bodies[i])} IN
    /\ Starts(w, "bulk_create")
    /\ \E keys \in [valid -> Ids \ issued] :
        /\ \A i, k \in valid : keys[i] = keys[k] => i = k
        /\ issued' = issued \cup {keys[i] : i \in valid}
        /\ UNCHANGED rows
        /\ \/ /\ valid # {}
              /\ Continue(w, [op |-> "bulk_create", user |-> u, keys |-> keys,
                              batch |-> [i \in valid |-> NewProfile(u, bodies[i])],
                              todo |-> valid])
           \/ /\ valid = {} \/ "refused" \in Faults  \* BeginTxx fails
              /\ BulkReply(w, u, keys)

\* The INSERTs run in order; the first that fails rolls the transaction back.
BulkInsert(w) ==
    /\ Serves(w, "bulk_create")
    /\ UNCHANGED <<rows, issued>>
    /\ \E i \in job[w].todo :
        /\ \A k \in job[w].todo : i <= k
        /\ \/ Continue(w, [job[w] EXCEPT !.todo = @ \ {i}])
           \/ /\ "refused" \in Faults
              /\ BulkReply(w, job[w].user, job[w].keys)

BulkCommit(w) ==
    /\ Serves(w, "bulk_create")
    /\ job[w].todo = {}
    /\ \E outcome \in Outcomes :
          Exec(outcome, TRUE, InsertBatch(rows, job[w].keys, job[w].batch))
    /\ BulkReply(w, job[w].user, job[w].keys)
    /\ UNCHANGED issued

-----------------------------------------------------------------------------
(* Get *)

Get(w, u, id) ==
    /\ Starts(w, "get")
    /\ UNCHANGED <<rows, issued>>
    /\ \/ /\ Visible(rows, id, u)
          /\ Answer(w, Reply("get", u, id, 0, 200, rows[id]))
       \/ /\ ~Visible(rows, id, u)
          /\ Answer(w, Refusal("get", u, id, 0, "not_found"))
       \/ ReadFails /\ Answer(w, Refusal("get", u, id, 0, "db"))

-----------------------------------------------------------------------------
(* Update (PUT): read, compare the version in memory, write unconditionally *)

Update(w, u, id, v, body) ==
    /\ Starts(w, "put")
    /\ UNCHANGED <<rows, issued>>
    /\ \/ /\ ValidCreate(body) /\ Visible(rows, id, u) /\ rows[id].version = v
          /\ Continue(w, [op |-> "put", user |-> u, id |-> id, version |-> v,
                          p |-> Replaced(rows[id], body)])
       \/ /\ ValidCreate(body) /\ Visible(rows, id, u) /\ rows[id].version # v
          /\ Answer(w, Refusal("put", u, id, v, "version_conflict"))
       \/ /\ ValidCreate(body) /\ ~Visible(rows, id, u)
          /\ Answer(w, Refusal("put", u, id, v, "not_found"))
       \/ /\ ~ValidCreate(body) \/ ReadFails
          /\ Answer(w, Refusal("put", u, id, v, "validation or db"))

UpdateWrite(w) ==
    LET j == job[w]
        hits == Owned(rows, j.id, j.user)
    IN
    /\ Serves(w, "put")
    /\ UNCHANGED issued
    /\ \E outcome \in Outcomes :
        /\ Exec(outcome, hits, UpdateRow(rows, j.id, j.p))
        /\ \/ /\ outcome = "ok" /\ hits
              /\ Answer(w, Reply("put", j.user, j.id, j.version, 200, j.p))
           \/ /\ outcome = "ok" /\ ~hits
              /\ Answer(w, Refusal("put", j.user, j.id, j.version, "not_found"))
           \/ /\ outcome # "ok"
              /\ Answer(w, Refusal("put", j.user, j.id, j.version, "db"))

-----------------------------------------------------------------------------
(* Patch: one conditional UPDATE, then a read of the row by id alone *)

Patch(w, u, id, v, fields) ==
    LET update == Whitelisted(fields)
        hits == AtVersion(rows, id, u, v)
        breaks == hits /\ BreaksNotNull(update)
    IN
    /\ Starts(w, "patch")
    /\ UNCHANGED issued
    /\ \/ /\ DOMAIN update = {} \/ breaks
          /\ UNCHANGED rows
          /\ Answer(w, Refusal("patch", u, id, v, "no valid fields or db"))
       \/ /\ DOMAIN update # {} /\ ~breaks
          /\ \E outcome \in Outcomes :
              /\ Exec(outcome, hits, PatchRow(rows, id, update))
              /\ \/ /\ outcome = "ok" /\ hits
                    /\ Continue(w, [op |-> "patch", user |-> u, id |-> id, version |-> v])
                 \/ /\ outcome = "ok" /\ ~hits
                    /\ Answer(w, Refusal("patch", u, id, v, "version_conflict"))
                 \/ /\ outcome # "ok"
                    /\ Answer(w, Refusal("patch", u, id, v, "db"))

\* fetchByID filters neither on the owner nor on deleted_at.
PatchFetch(w) ==
    LET j == job[w] IN
    /\ Serves(w, "patch")
    /\ UNCHANGED <<rows, issued>>
    /\ \/ /\ Present(rows, j.id)
          /\ Answer(w, Reply("patch", j.user, j.id, j.version, 200, rows[j.id]))
       \/ /\ ~Present(rows, j.id) \/ ReadFails
          /\ Answer(w, Refusal("patch", j.user, j.id, j.version, "db"))

-----------------------------------------------------------------------------
(* Delete: read, compare the version, then a conditional statement *)

Delete(w, u, id, hard, v) ==
    /\ Starts(w, "delete")
    /\ UNCHANGED <<rows, issued>>
    /\ \/ /\ Visible(rows, id, u) /\ rows[id].version = v
          /\ Continue(w, [op |-> "delete", user |-> u, id |-> id, version |-> v,
                          hard |-> hard])
       \/ /\ Visible(rows, id, u) /\ rows[id].version # v
          /\ Answer(w, Refusal("delete", u, id, v, "version_conflict"))
       \/ /\ ~Visible(rows, id, u)
          /\ Answer(w, Refusal("delete", u, id, v, "not_found"))
       \/ ReadFails /\ Answer(w, Refusal("delete", u, id, v, "db"))

\* The statement does not look at deleted_at; a miss is reported per branch.
DeleteWrite(w) ==
    LET j == job[w]
        hits == AtVersion(rows, j.id, j.user, j.version)
        miss == IF j.hard THEN "not_found" ELSE "version_conflict"
    IN
    /\ Serves(w, "delete")
    /\ UNCHANGED issued
    /\ \E outcome \in Outcomes :
        /\ Exec(outcome, hits, IF j.hard THEN HardDeleteRow(rows, j.id)
                               ELSE SoftDeleteRow(rows, j.id))
        /\ \/ /\ outcome = "ok" /\ hits
              /\ Answer(w, Reply("delete", j.user, j.id, j.version, 204, NoRow))
           \/ /\ outcome = "ok" /\ ~hits
              /\ Answer(w, Refusal("delete", j.user, j.id, j.version, miss))
           \/ /\ outcome # "ok"
              /\ Answer(w, Refusal("delete", j.user, j.id, j.version, "db"))

-----------------------------------------------------------------------------
(* BulkDelete: one statement *)

BulkDelete(w, u, S, hard) ==
    /\ Starts(w, "bulk_delete")
    /\ UNCHANGED issued
    /\ \/ /\ S = {}
          /\ UNCHANGED rows
          /\ Answer(w, Summary("bulk_delete", u, 500, {}))
       \/ /\ S # {}
          /\ \E outcome \in Outcomes :
              /\ Exec(outcome, TRUE, BulkDeleteRows(rows, u, S, hard))
              /\ Answer(w, Summary("bulk_delete", u,
                                   IF outcome = "ok" THEN 200 ELSE 500, {}))

-----------------------------------------------------------------------------
(* The process dies, losing every request in progress, and is started again. *)
(* An open transaction has published nothing; committed rows stay.           *)

Crash ==
    /\ \E w \in Workers : job[w] # Idle
    /\ job' = [w \in Workers |-> Idle]
    /\ out' = NoReply
    /\ UNCHANGED <<rows, issued>>

-----------------------------------------------------------------------------
(* The handlers: what a client may send.  The user id comes from the access *)
(* token; a request that fails to parse changes nothing and is left out.    *)

create(w) == \E u \in Users, body \in CreateBodies : Create(w, u, body)

bulkCreate(w) ==
    \/ \E u \in Users, bodies \in BulkBodies : BulkCreate(w, u, bodies)
    \/ BulkInsert(w)
    \/ BulkCommit(w)

get(w) == \E u \in Users, id \in Ids : Get(w, u, id)

update(w) ==
    \/ \E u \in Users, id \in Ids, v \in Versions, body \in CreateBodies :
          Update(w, u, id, v, body)
    \/ UpdateWrite(w)

patch(w) ==
    \/ \E u \in Users, id \in Ids, v \in Versions, fields \in PatchBodies :
          Patch(w, u, id, v, fields)
    \/ PatchFetch(w)

delete(w) ==
    \/ \E u \in Users, id \in Ids, hard \in BOOLEAN, v \in Versions :
          Delete(w, u, id, hard, v)
    \/ DeleteWrite(w)

bulkDelete(w) ==
    \E u \in Users, S \in SUBSET Ids, hard \in BOOLEAN : BulkDelete(w, u, S, hard)

Init ==
    /\ rows = [id \in Ids |-> NoRow]
    /\ issued = {}
    /\ job = [w \in Workers |-> Idle]
    /\ out = NoReply

Next ==
    \/ \E w \in Workers : create(w) \/ bulkCreate(w) \/ get(w) \/ update(w)
                          \/ patch(w) \/ delete(w) \/ bulkDelete(w)
    \/ Crash

Spec == Init /\ [][Next]_vars

-----------------------------------------------------------------------------
(* Types *)

\* What a request remembers between two statements.
Positions == UNION {DOMAIN b : b \in BulkBodies}

BulkJob(j) ==
    \E D \in SUBSET Positions :
        j \in [op : {"bulk_create"}, user : Users, keys : [D -> Ids],
               batch : [D -> Row], todo : SUBSET D]

PutJob == [op : {"put"}, user : Users, id : Ids, version : Versions, p : Row]

PatchJob == [op : {"patch"}, user : Users, id : Ids, version : Versions]

DeleteJob == [op : {"delete"}, user : Users, id : Ids, version : Versions,
              hard : BOOLEAN]

Job(j) == j = Idle \/ BulkJob(j) \/ j \in PutJob \cup PatchJob \cup DeleteJob

Answers == [op : OpNames \cup {"none"}, user : Users \cup {Null},
            id : Ids \cup {Null}, version : Versions \cup {0},
            status : {0, 200, 201, 204, 207, 404, 409, 500},
            profile : MaybeRow, created : SUBSET Ids]

(***************************************************************************)
(* Rows, requests and replies are well formed.  In a Row only the URLs may *)
(* hold markup (service.go:206-215), as POST and PUT store them raw; names *)
(* and the other texts have been through sanitizeField (service.go:231)    *)
(* whatever route they took into the table.                                *)
(***************************************************************************)
TypeOK ==
    /\ rows \in [Ids -> MaybeRow]
    /\ issued \subseteq Ids
    /\ DOMAIN job = Workers
    /\ \A w \in Workers : Job(job[w])
    /\ out \in Answers

-----------------------------------------------------------------------------
(* Safety *)

\* The UUIDs that a bulk request in progress is about to insert.
Pending == {w \in Workers : job[w].op = "bulk_create"}
Reserved == UNION {KeysOf(job[w]) : w \in Pending}

VS == INSTANCE VersionedStore
        WITH None <- NoRow, store <- rows, spent <- issued \ Reserved, Locking <- TRUE

PS == INSTANCE VersionedStore
        WITH None <- NoRow, store <- rows, spent <- issued \ Reserved, Locking <- FALSE

(***************************************************************************)
(* The table behaves as the versioned store that clients are promised:     *)
(* one insertion at version 1, edits by exactly one version, removal for   *)
(* good, one owner per request, whatever statements requests interleave,   *)
(* fail or lose in a crash.                                                *)
(***************************************************************************)
ImplementsVersionedStore == VS!Spec

(***************************************************************************)
(* Requests that overlap a PUT leave all of that but the version: also     *)
(* then nothing that was deleted comes back with the row that the PUT read *)
(* before (profile_repository.go:57), nothing moves to another owner, and  *)
(* no id is filled again.                                                  *)
(***************************************************************************)
ImplementsStore == PS!Spec

(***************************************************************************)
(* A profile is only ever sent to its owner.  The read that ends a PATCH   *)
(* has no user_id filter (profile_repository.go:183) and runs after other  *)
(* requests had their turn, so this rests on owners and ids never moving.  *)
(***************************************************************************)
ResponseOwned == out.profile # NoRow => out.profile.user_id = out.user

(***************************************************************************)
(* A profile that was deleted is never visible again, nor is its id reused,*)
(* also when a PUT that read it before the deletion writes its row after.  *)
(***************************************************************************)
Gone(id) ==
    /\ id \in issued \ Reserved
    /\ rows[id] # NoRow => rows[id].deleted

DeletedStaysDeleted == [][\A id \in Ids : Gone(id) => Gone(id)']_vars

(***************************************************************************)
(* What POST /profiles/bulk lists as created is stored: the "successes" of *)
(* service.go:62.  It fails as soon as a statement of the transaction does,*)
(* because the error is dropped (service.go:88) and one failed INSERT rolls*)
(* back the others, where openapi.yaml:375 announces partial success.      *)
(***************************************************************************)
CreatedAreStored ==
    out.op = "bulk_create" => \A id \in out.created : Present(rows, id)

(***************************************************************************)
(* The profile that a PATCH returns contains the patch: its version is     *)
(* past the one the client named, although the row is read separately.     *)
(***************************************************************************)
PatchReadBack ==
    out.op = "patch" /\ out.status = 200 => out.profile.version > out.version

(***************************************************************************)
(* What the requests in flight know agrees with the table.  A batch that   *)
(* is not committed is nobody else's and not yet visible; a PATCH about to *)
(* re-read its row by id alone still meets a row of its own user.          *)
(***************************************************************************)
RowsIssued == \A id \in Ids : Present(rows, id) => id \in issued

BatchesUnborn ==
    \A w \in Pending : \A i \in DOMAIN job[w].keys :
        LET id == job[w].keys[i]
            p  == job[w].batch[i]
        IN /\ id \in issued /\ ~Present(rows, id)
           /\ p.user_id = job[w].user /\ p.version = 1 /\ ~p.deleted

BatchesDisjoint ==
    \A w1, w2 \in Pending : w1 # w2 => KeysOf(job[w1]) \cap KeysOf(job[w2]) = {}

EditsOwned ==
    \A w \in Workers :
        /\ job[w].op = "put" => job[w].p.user_id = job[w].user
        /\ job[w].op = "patch" =>
              /\ job[w].id \in issued \ Reserved
              /\ Present(rows, job[w].id) => rows[job[w].id].user_id = job[w].user

RequestsConsistent ==
    TypeOK /\ RowsIssued /\ BatchesUnborn /\ BatchesDisjoint /\ EditsOwned
=============================================================================
