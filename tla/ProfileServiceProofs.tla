------------------------ MODULE ProfileServiceProofs ------------------------
(***************************************************************************)
(* Theorems about ProfileService, for any number of requests in progress,  *)
(* users, profiles, texts and versions.                                    *)
(***************************************************************************)
EXTENDS ProfileService, TLAPS

-----------------------------------------------------------------------------
(* The statements keep the table well formed *)

Table == [Ids -> MaybeRow]

LEMMA RowFields ==
    ASSUME NEW r \in Row, NEW f \in Stored, NEW v \in Nat, NEW d \in BOOLEAN
    PROVE  /\ [r EXCEPT !.first_name = f] \in Row
           /\ [r EXCEPT !.version = v] \in Row
           /\ [r EXCEPT !.deleted = d] \in Row
BY DEF Row

LEMMA SanitizeType ==
    ASSUME NEW body \in CreateBodies
    PROVE  /\ sanitizeField(body.first_name) \in Stored
           /\ body.bio # Null => sanitizeField(body.bio) \in Stored
           /\ ValidCreate(body) => body.website \in Stored \cup {Tagged, Null}
<1>1. body \in CreateRequest
  BY ProfileAssumption DEF ProfileAssumption
<1> QED
  BY <1>1, ProfileAssumption DEF ProfileAssumption, CreateRequest, Raw, Stored, sanitizeField,
     ValidCreate

LEMMA AssignType ==
    ASSUME NEW p \in Row, NEW body \in CreateBodies, ValidCreate(body)
    PROVE  LET q == assignOptionalFields(p, body) IN
           /\ q \in Row
           /\ q.user_id = p.user_id /\ q.version = p.version /\ q.deleted = p.deleted
BY SanitizeType DEF assignOptionalFields, Row

LEMMA NewProfileType ==
    ASSUME NEW u \in Users, NEW body \in CreateBodies, ValidCreate(body)
    PROVE  LET q == NewProfile(u, body) IN
           q \in Row /\ q.user_id = u /\ q.version = 1 /\ ~q.deleted
<1> DEFINE q == [user_id |-> u, first_name |-> sanitizeField(body.first_name),
                 bio |-> Null, website |-> Null, version |-> 1, deleted |-> FALSE]
<1>1. q \in Row
  BY SanitizeType DEF Row
<1> QED
  BY <1>1, AssignType DEF NewProfile

LEMMA ReplacedType ==
    ASSUME NEW r \in Row, NEW body \in CreateBodies, ValidCreate(body)
    PROVE  LET q == Replaced(r, body) IN
           /\ q \in Row
           /\ q.user_id = r.user_id /\ q.version = r.version + 1
<1> DEFINE f == [r EXCEPT !.first_name = sanitizeField(body.first_name)]
           g == assignOptionalFields(f, body)
<1>1. f \in Row /\ f.user_id = r.user_id /\ f.version = r.version
  BY SanitizeType DEF Row
<1>2. g \in Row /\ g.user_id = r.user_id /\ g.version = r.version
  BY <1>1, AssignType
<1>3. g.version + 1 \in Nat
  BY <1>2 DEF Row
<1>4. Replaced(r, body) = [g EXCEPT !.version = g.version + 1]
  BY DEF Replaced
<1> HIDE DEF g
<1> QED
  BY <1>2, <1>3, <1>4, RowFields DEF Row

LEMMA ReplyType ==
    ASSUME NEW op \in OpNames, NEW u \in Users, NEW id \in Ids, NEW v \in Versions \cup {0},
           NEW status \in {0, 200, 201, 204, 207, 404, 409, 500}, NEW p \in MaybeRow,
           rows' \in Table
    PROVE  Reply(op, u, id, v, status, p) \in Answers
BY DEF Reply, Answers, Table

LEMMA RefusalType ==
    ASSUME NEW op \in OpNames, NEW u \in Users, NEW id \in Ids, NEW v \in Versions \cup {0},
           NEW err, rows' \in Table
    PROVE  Refusal(op, u, id, v, err) \in Answers /\ Refusal(op, u, id, v, err).profile = NoRow
<1>1. handleError(err) \in {404, 409, 500}
  BY DEF handleError
<1>2. Refusal(op, u, id, v, err) \in Answers
  BY <1>1, ReplyType DEF Refusal, MaybeRow
<1> QED
  BY <1>2 DEF Refusal, Reply

LEMMA SummaryType ==
    ASSUME NEW op \in OpNames, NEW u \in Users, NEW status \in {200, 207, 500},
           NEW S \in SUBSET Ids
    PROVE  Summary(op, u, status, S) \in Answers /\ Summary(op, u, status, S).profile = NoRow
BY DEF Summary, Answers, MaybeRow

LEMMA NoReplyType == NoReply \in Answers
BY DEF NoReply, Answers, MaybeRow

LEMMA PatchRowType ==
    ASSUME NEW t \in Table, NEW id \in Ids, Present(t, id),
           NEW fields \in PatchBodies, ~BreaksNotNull(Whitelisted(fields))
    PROVE  /\ PatchRow(t, id, Whitelisted(fields)) \in Table
           /\ PatchRow(t, id, Whitelisted(fields))[id] \in Row
<1> DEFINE g == Whitelisted(fields)
           f == IF "first_name" \in DOMAIN g THEN g["first_name"] ELSE t[id].first_name
           b == IF "bio" \in DOMAIN g THEN g["bio"] ELSE t[id].bio
           s == IF "website" \in DOMAIN g THEN g["website"] ELSE t[id].website
<1>1. t[id] \in Row
  BY DEF Table, MaybeRow, Present
<1>2. PICK S \in SUBSET PatchKeys : fields \in [S -> Raw \cup {Null}]
  BY ProfileAssumption DEF ProfileAssumption, PatchFields
<1>3. DOMAIN g = S \ {"other"} /\ \A k \in DOMAIN g : g[k] = sanitizeField(fields[k])
  BY <1>2 DEF Whitelisted
<1>4. \A k \in DOMAIN g : g[k] \in Stored \cup {Null}
  BY <1>2, <1>3, ProfileAssumption DEF ProfileAssumption, sanitizeField, Raw, Stored
<1>5. "first_name" \in DOMAIN g => g["first_name"] \in Stored
  BY <1>4 DEF BreaksNotNull
<1>6. /\ f \in Stored /\ b \in Stored \cup {Null} /\ s \in Stored \cup {Tagged, Null}
      /\ t[id].version + 1 \in Nat
  BY <1>1, <1>4, <1>5 DEF Row
<1>7. PatchRow(t, id, g) =
        [t EXCEPT ![id] = [t[id] EXCEPT !.first_name = f, !.bio = b, !.website = s,
                                        !.version = t[id].version + 1]]
  <2> HIDE DEF g
  <2> QED BY Zenon DEF PatchRow
<1>8. [t[id] EXCEPT !.first_name = f, !.bio = b, !.website = s,
                    !.version = t[id].version + 1] \in Row
  <2> HIDE DEF f, b, s
  <2> QED BY <1>1, <1>6 DEF Row
<1> QED
  BY <1>7, <1>8 DEF Table, MaybeRow

LEMMA WritesType ==
    ASSUME NEW t \in Table, NEW id \in Ids, NEW p \in Row
    PROVE  /\ InsertRow(t, id, p) \in Table
           /\ Present(t, id) => UpdateRow(t, id, p) \in Table
           /\ Present(t, id) => SoftDeleteRow(t, id) \in Table
           /\ HardDeleteRow(t, id) \in Table
<1>1. InsertRow(t, id, p) \in Table
  BY DEF InsertRow, Table, MaybeRow
<1>2. Present(t, id) => UpdateRow(t, id, p) \in Table
  BY DEF UpdateRow, Table, MaybeRow, Present, Row
<1>3. ASSUME Present(t, id)
      PROVE  SoftDeleteRow(t, id) \in Table
  <2> DEFINE r == [t[id] EXCEPT !.deleted = TRUE, !.version = t[id].version + 1]
  <2>1. t[id] \in Row /\ t[id].version + 1 \in Nat
    BY <1>3 DEF Present, Table, MaybeRow, Row
  <2>2. r \in Row
    BY <2>1 DEF Row
  <2>3. SoftDeleteRow(t, id) = [t EXCEPT ![id] = r]
    BY DEF SoftDeleteRow
  <2> QED
    BY <2>2, <2>3 DEF Table, MaybeRow
<1>4. HardDeleteRow(t, id) \in Table
  BY DEF HardDeleteRow, Table, MaybeRow
<1> QED
  BY <1>1, <1>2, <1>3, <1>4

LEMMA BulkWritesType ==
    ASSUME NEW t \in Table
    PROVE  /\ \A u, S, hard : BulkDeleteRows(t, u, S, hard) \in Table
           /\ \A D : \A keys \in [D -> Ids], batch \in [D -> Row] :
                InsertBatch(t, keys, batch) \in Table
<1>1. ASSUME NEW u, NEW S, NEW hard
      PROVE  BulkDeleteRows(t, u, S, hard) \in Table
  BY DEF BulkDeleteRows, Owned, Present, Table, MaybeRow, Row
<1>2. ASSUME NEW D, NEW keys \in [D -> Ids], NEW batch \in [D -> Row]
      PROVE  InsertBatch(t, keys, batch) \in Table
  BY DEF InsertBatch, Table, MaybeRow
<1> QED
  BY <1>1, <1>2

-----------------------------------------------------------------------------
(* Type correctness *)

LEMMA ExecType ==
    ASSUME rows \in Table, NEW outcome, NEW hits, NEW effect,
           hits => effect \in Table, Exec(outcome, hits, effect)
    PROVE  rows' \in Table
BY DEF Exec

LEMMA AnswerType ==
    ASSUME TypeOK, rows' \in Table, issued' \subseteq Ids,
           NEW w \in Workers, NEW reply \in Answers, Answer(w, reply)
    PROVE  TypeOK'
BY DEF TypeOK, Answer, Job, Table

LEMMA ContinueType ==
    ASSUME TypeOK, rows' \in Table, issued' \subseteq Ids,
           NEW w \in Workers, NEW j, Job(j), Continue(w, j)
    PROVE  TypeOK'
BY NoReplyType DEF TypeOK, Continue, Table

LEMMA JobTypes ==
    ASSUME TypeOK, NEW w \in Workers
    PROVE  /\ job[w].op = "put" => job[w] \in PutJob
           /\ job[w].op = "patch" => job[w] \in PatchJob
           /\ job[w].op = "delete" => job[w] \in DeleteJob
           /\ job[w].op = "bulk_create" => BulkJob(job[w])
<1>1. Job(job[w])
  BY DEF TypeOK
<1> QED
  BY <1>1 DEF Job, Idle, BulkJob, PutJob, PatchJob, DeleteJob

LEMMA CreateType ==
    ASSUME TypeOK, NEW w \in Workers, NEW u \in Users, NEW body \in CreateBodies,
           Create(w, u, body)
    PROVE  TypeOK'
<1>1. rows \in Table /\ issued \subseteq Ids /\ "create" \in OpNames
  BY DEF TypeOK, Table, OpNames
<1>2. CASE ~ValidCreate(body)
  <2>1. Summary("create", u, handleError("validation"), {}) \in Answers
    BY <1>1, SummaryType DEF handleError
  <2> QED
    BY <1>1, <1>2, <2>1, AnswerType DEF Create
<1>3. CASE ValidCreate(body)
  <2> DEFINE p == NewProfile(u, body)
  <2>1. PICK id \in Ids \ issued, outcome \in Outcomes :
           /\ issued' = issued \cup {id}
           /\ Exec(outcome, TRUE, InsertRow(rows, id, p))
           /\ Answer(w, IF outcome = "ok" THEN Reply("create", u, id, 0, 201, p)
                        ELSE Refusal("create", u, id, 0, "db"))
    BY <1>3 DEF Create
  <2>2. p \in Row
    BY <1>3, NewProfileType
  <2> HIDE DEF p
  <2>3. rows' \in Table
    BY <1>1, <2>1, <2>2, WritesType, ExecType
  <2>4. /\ Reply("create", u, id, 0, 201, p) \in Answers
        /\ Refusal("create", u, id, 0, "db") \in Answers
    BY <1>1, <2>2, <2>3, ReplyType, RefusalType DEF MaybeRow
  <2>5. issued' \subseteq Ids
    BY <1>1, <2>1
  <2> QED
    BY <2>1, <2>3, <2>4, <2>5, AnswerType
<1> QED
  BY <1>2, <1>3

LEMMA BulkReplyType ==
    ASSUME TypeOK, rows' \in Table, issued' \subseteq Ids, NEW w \in Workers,
           NEW u \in Users, NEW D, NEW keys \in [D -> Ids], BulkReply(w, u, keys)
    PROVE  TypeOK'
<1>1. {keys[i] : i \in DOMAIN keys} \in SUBSET Ids
  OBVIOUS
<1> DEFINE r == Summary("bulk_create", u, 207, {keys[i] : i \in DOMAIN keys})
<1>2. r \in Answers
  BY <1>1, SummaryType DEF OpNames
<1>3. Answer(w, r)
  BY DEF BulkReply
<1> HIDE DEF r
<1> QED
  BY <1>2, <1>3, AnswerType

LEMMA BulkCreateType ==
    ASSUME TypeOK, NEW w \in Workers, NEW u \in Users, NEW bodies \in BulkBodies,
           BulkCreate(w, u, bodies)
    PROVE  TypeOK'
<1> DEFINE valid == {i \in DOMAIN bodies : ValidCreate(bodies[i])}
           batch == [i \in valid |-> NewProfile(u, bodies[i])]
<1>1. \A i \in valid : bodies[i] \in CreateBodies /\ ValidCreate(bodies[i])
  BY ProfileAssumption DEF ProfileAssumption
<1>2. valid \in SUBSET Positions
  BY DEF Positions
<1>3. batch \in [valid -> Row]
  BY <1>1, NewProfileType
<1>4. PICK keys \in [valid -> Ids \ issued] :
         /\ issued' = issued \cup {keys[i] : i \in valid}
         /\ UNCHANGED rows
         /\ \/ Continue(w, [op |-> "bulk_create", user |-> u, keys |-> keys,
                            batch |-> batch, todo |-> valid])
            \/ BulkReply(w, u, keys)
  BY DEF BulkCreate
<1>5. rows' \in Table /\ issued' \subseteq Ids /\ keys \in [valid -> Ids]
  BY <1>4 DEF TypeOK, Table
<1> DEFINE j == [op |-> "bulk_create", user |-> u, keys |-> keys,
                 batch |-> batch, todo |-> valid]
<1> HIDE DEF valid, batch
<1>6. Job(j)
  BY <1>2, <1>3, <1>5 DEF Job, BulkJob
<1> HIDE DEF j
<1>7. Continue(w, j) \/ BulkReply(w, u, keys)
  BY <1>4 DEF j
<1> QED
  BY <1>5, <1>6, <1>7, ContinueType, BulkReplyType

LEMMA BulkJobParts ==
    ASSUME NEW j, BulkJob(j)
    PROVE  \E D \in SUBSET Positions :
             /\ j.keys \in [D -> Ids] /\ j.batch \in [D -> Row]
             /\ j.user \in Users /\ j.todo \in SUBSET D
             /\ \A i : Job([j EXCEPT !.todo = j.todo \ {i}])
<1>1. PICK D \in SUBSET Positions :
         j \in [op : {"bulk_create"}, user : Users, keys : [D -> Ids],
                batch : [D -> Row], todo : SUBSET D]
  BY DEF BulkJob
<1>2. ASSUME NEW i
      PROVE  Job([j EXCEPT !.todo = j.todo \ {i}])
  <2>1. [j EXCEPT !.todo = j.todo \ {i}] \in
           [op : {"bulk_create"}, user : Users, keys : [D -> Ids],
            batch : [D -> Row], todo : SUBSET D]
    BY <1>1
  <2> QED
    BY <2>1 DEF Job, BulkJob
<1> QED
  BY <1>1, <1>2

LEMMA BulkStepsType ==
    ASSUME TypeOK, NEW w \in Workers, BulkInsert(w) \/ BulkCommit(w)
    PROVE  TypeOK'
<1>1. BulkJob(job[w])
  BY JobTypes DEF BulkInsert, BulkCommit, Serves
<1>2. PICK D \in SUBSET Positions :
         /\ job[w].keys \in [D -> Ids] /\ job[w].batch \in [D -> Row]
         /\ job[w].user \in Users
         /\ \A i : Job([job[w] EXCEPT !.todo = job[w].todo \ {i}])
  BY <1>1, BulkJobParts
<1>3. rows \in Table /\ issued \subseteq Ids
  BY DEF TypeOK, Table
<1>4. CASE BulkInsert(w)
  <2>1. rows' \in Table /\ issued' \subseteq Ids
    BY <1>3, <1>4 DEF BulkInsert
  <2>2. \/ \E i : Continue(w, [job[w] EXCEPT !.todo = job[w].todo \ {i}])
        \/ BulkReply(w, job[w].user, job[w].keys)
    BY <1>4 DEF BulkInsert
  <2> QED
    BY <1>2, <2>1, <2>2, ContinueType, BulkReplyType
<1>5. CASE BulkCommit(w)
  <2>1. InsertBatch(rows, job[w].keys, job[w].batch) \in Table
    BY <1>2, <1>3, BulkWritesType
  <2>2. rows' \in Table
    BY <1>3, <1>5, <2>1, ExecType DEF BulkCommit
  <2> QED
    BY <1>2, <1>3, <1>5, <2>2, BulkReplyType DEF BulkCommit
<1> QED
  BY <1>4, <1>5

LEMMA GetType ==
    ASSUME TypeOK, NEW w \in Workers, NEW u \in Users, NEW id \in Ids, Get(w, u, id)
    PROVE  TypeOK'
<1>1. rows' \in Table /\ issued' \subseteq Ids /\ rows[id] \in MaybeRow
  BY DEF TypeOK, Table, Get
<1>0. "get" \in OpNames
  BY DEF OpNames
<1>2. Reply("get", u, id, 0, 200, rows[id]) \in Answers
  BY <1>0, <1>1, ReplyType
<1>3. \A err : Refusal("get", u, id, 0, err) \in Answers
  BY <1>0, <1>1, RefusalType
<1> QED
  BY <1>1, <1>2, <1>3, AnswerType DEF Get

LEMMA UpdateType ==
    ASSUME TypeOK, NEW w \in Workers, NEW u \in Users, NEW id \in Ids,
           NEW v \in Versions, NEW body \in CreateBodies, Update(w, u, id, v, body)
    PROVE  TypeOK'
<1> DEFINE j == [op |-> "put", user |-> u, id |-> id, version |-> v,
                 p |-> Replaced(rows[id], body)]
<1>1. rows' \in Table /\ issued' \subseteq Ids
  BY DEF TypeOK, Table, Update
<1>2. \A err : Refusal("put", u, id, v, err) \in Answers
  BY <1>1, RefusalType DEF OpNames
<1>3. ASSUME ValidCreate(body), Visible(rows, id, u), Continue(w, j)
      PROVE  TypeOK'
  <2>1. rows[id] \in Row
    BY <1>3 DEF TypeOK, Visible, Owned, Present, MaybeRow
  <2>2. Job(j)
    BY <1>3, <2>1, ReplacedType DEF Job, PutJob
  <2> QED
    BY <1>1, <1>3, <2>2, ContinueType
<1> QED
  BY <1>1, <1>2, <1>3, AnswerType DEF Update

LEMMA UpdateWriteType ==
    ASSUME TypeOK, NEW w \in Workers, UpdateWrite(w)
    PROVE  TypeOK'
<1> DEFINE j == job[w]
           hits == Owned(rows, j.id, j.user)
<1>1. j \in PutJob
  BY JobTypes DEF UpdateWrite, Serves
<1>2. j.user \in Users /\ j.id \in Ids /\ j.version \in Versions /\ j.p \in Row
  BY <1>1 DEF PutJob
<1>3. hits => UpdateRow(rows, j.id, j.p) \in Table
  BY <1>2, WritesType DEF TypeOK, Table, Owned
<1>4. PICK outcome \in Outcomes :
         /\ Exec(outcome, hits, UpdateRow(rows, j.id, j.p))
         /\ \/ Answer(w, Reply("put", j.user, j.id, j.version, 200, j.p))
            \/ \E err : Answer(w, Refusal("put", j.user, j.id, j.version, err))
  BY DEF UpdateWrite
<1>5. rows \in Table /\ issued' \subseteq Ids
  BY DEF TypeOK, Table, UpdateWrite
<1> HIDE DEF j, hits
<1>6. rows' \in Table
  BY <1>3, <1>4, <1>5, ExecType
<1>7. /\ Reply("put", j.user, j.id, j.version, 200, j.p) \in Answers
      /\ \A err : Refusal("put", j.user, j.id, j.version, err) \in Answers
  BY <1>2, <1>6, ReplyType, RefusalType DEF OpNames, MaybeRow
<1> QED
  BY <1>4, <1>5, <1>6, <1>7, AnswerType

LEMMA PatchType ==
    ASSUME TypeOK, NEW w \in Workers, NEW u \in Users, NEW id \in Ids,
           NEW v \in Versions, NEW fields \in PatchBodies, Patch(w, u, id, v, fields)
    PROVE  TypeOK'
<1> DEFINE upd == Whitelisted(fields)
           hits == AtVersion(rows, id, u, v)
           breaks == hits /\ BreaksNotNull(upd)
           j == [op |-> "patch", user |-> u, id |-> id, version |-> v]
<1>1. rows \in Table /\ issued' \subseteq Ids
  BY DEF TypeOK, Table, Patch
<1>2. hits /\ ~breaks => PatchRow(rows, id, upd) \in Table
  BY <1>1, PatchRowType DEF AtVersion, Owned
<1>3. /\ \/ UNCHANGED rows
         \/ \E outcome \in Outcomes :
              ~breaks /\ Exec(outcome, hits, PatchRow(rows, id, upd))
      /\ \/ Continue(w, j)
         \/ \E err : Answer(w, Refusal("patch", u, id, v, err))
  BY DEF Patch
<1>4. Job(j)
  BY DEF Job, PatchJob
<1> HIDE DEF upd, hits, j
<1>5. rows' \in Table
  BY <1>1, <1>2, <1>3, ExecType
<1>6. \A err : Refusal("patch", u, id, v, err) \in Answers
  BY <1>5, RefusalType DEF OpNames
<1> QED
  BY <1>1, <1>3, <1>4, <1>5, <1>6, AnswerType, ContinueType

LEMMA PatchFetchType ==
    ASSUME TypeOK, NEW w \in Workers, PatchFetch(w)
    PROVE  TypeOK'
<1> DEFINE j == job[w]
<1>1. j \in PatchJob
  BY JobTypes DEF PatchFetch, Serves
<1>2. j.user \in Users /\ j.id \in Ids /\ j.version \in Versions
  BY <1>1 DEF PatchJob
<1>3. rows' \in Table /\ issued' \subseteq Ids /\ rows[j.id] \in MaybeRow
  BY <1>2 DEF TypeOK, Table, PatchFetch
<1>4. \/ Answer(w, Reply("patch", j.user, j.id, j.version, 200, rows[j.id]))
      \/ Answer(w, Refusal("patch", j.user, j.id, j.version, "db"))
  BY DEF PatchFetch
<1> HIDE DEF j
<1>5. /\ Reply("patch", j.user, j.id, j.version, 200, rows[j.id]) \in Answers
      /\ Refusal("patch", j.user, j.id, j.version, "db") \in Answers
  BY <1>2, <1>3, ReplyType, RefusalType DEF OpNames
<1> QED
  BY <1>3, <1>4, <1>5, AnswerType

LEMMA DeleteType ==
    ASSUME TypeOK, NEW w \in Workers, NEW u \in Users, NEW id \in Ids,
           NEW hard \in BOOLEAN, NEW v \in Versions, Delete(w, u, id, hard, v)
    PROVE  TypeOK'
<1> DEFINE j == [op |-> "delete", user |-> u, id |-> id, version |-> v, hard |-> hard]
<1>1. rows' \in Table /\ issued' \subseteq Ids
  BY DEF TypeOK, Table, Delete
<1>2. \A err : Refusal("delete", u, id, v, err) \in Answers
  BY <1>1, RefusalType DEF OpNames
<1>3. Job(j)
  BY DEF Job, DeleteJob
<1>4. Continue(w, j) \/ \E err : Answer(w, Refusal("delete", u, id, v, err))
  BY DEF Delete
<1> HIDE DEF j
<1> QED
  BY <1>1, <1>2, <1>3, <1>4, AnswerType, ContinueType

LEMMA DeleteWriteType ==
    ASSUME TypeOK, NEW w \in Workers, DeleteWrite(w)
    PROVE  TypeOK'
<1> DEFINE j == job[w]
           hits == AtVersion(rows, j.id, j.user, j.version)
           effect == IF j.hard THEN HardDeleteRow(rows, j.id)
                     ELSE SoftDeleteRow(rows, j.id)
<1>1. j \in DeleteJob
  BY JobTypes DEF DeleteWrite, Serves
<1>2. j.user \in Users /\ j.id \in Ids /\ j.version \in Versions
  BY <1>1 DEF DeleteJob
<1>3. rows \in Table /\ issued' \subseteq Ids
  BY DEF TypeOK, Table, DeleteWrite
<1>4. ASSUME hits PROVE effect \in Table
  <2>1. rows[j.id] \in Row
    BY <1>2, <1>3, <1>4 DEF AtVersion, Owned, Present, Table, MaybeRow
  <2> QED
    BY <1>2, <1>3, <1>4, <2>1, WritesType DEF AtVersion, Owned
<1>5. /\ \E outcome \in Outcomes : Exec(outcome, hits, effect)
      /\ \/ Answer(w, Reply("delete", j.user, j.id, j.version, 204, NoRow))
         \/ \E err : Answer(w, Refusal("delete", j.user, j.id, j.version, err))
  BY DEF DeleteWrite
<1> HIDE DEF j, hits, effect
<1>6. rows' \in Table
  BY <1>3, <1>4, <1>5, ExecType
<1>7. /\ Reply("delete", j.user, j.id, j.version, 204, NoRow) \in Answers
      /\ \A err : Refusal("delete", j.user, j.id, j.version, err) \in Answers
  BY <1>2, <1>6, ReplyType, RefusalType DEF OpNames, MaybeRow
<1> QED
  BY <1>3, <1>5, <1>6, <1>7, AnswerType

LEMMA BulkDeleteType ==
    ASSUME TypeOK, NEW w \in Workers, NEW u \in Users, NEW S \in SUBSET Ids,
           NEW hard \in BOOLEAN, BulkDelete(w, u, S, hard)
    PROVE  TypeOK'
<1>1. rows \in Table /\ issued' \subseteq Ids
  BY DEF TypeOK, Table, BulkDelete
<1>2. BulkDeleteRows(rows, u, S, hard) \in Table
  BY <1>1, BulkWritesType
<1>3. rows' \in Table
  BY <1>1, <1>2, ExecType DEF BulkDelete
<1>4. \A status \in {200, 500} : Summary("bulk_delete", u, status, {}) \in Answers
  BY SummaryType DEF OpNames
<1>5. \E status \in {200, 500} : Answer(w, Summary("bulk_delete", u, status, {}))
  BY DEF BulkDelete
<1> QED
  BY <1>1, <1>3, <1>4, <1>5, AnswerType

LEMMA CrashType ==
    ASSUME TypeOK, Crash
    PROVE  TypeOK'
BY NoReplyType DEF TypeOK, Crash, Job

LEMMA TypeStep ==
    ASSUME TypeOK, [Next]_vars
    PROVE  TypeOK'
<1>1. CASE UNCHANGED vars
  BY <1>1 DEF vars, TypeOK, Job, BulkJob, Positions, PutJob, PatchJob, DeleteJob
<1>2. CASE Crash
  BY <1>2, CrashType
<1>3. ASSUME NEW w \in Workers, create(w) PROVE TypeOK'
  BY <1>3, CreateType DEF create
<1>4. ASSUME NEW w \in Workers, bulkCreate(w) PROVE TypeOK'
  BY <1>4, BulkCreateType, BulkStepsType DEF bulkCreate
<1>5. ASSUME NEW w \in Workers, get(w) PROVE TypeOK'
  BY <1>5, GetType DEF get
<1>6. ASSUME NEW w \in Workers, update(w) PROVE TypeOK'
  BY <1>6, UpdateType, UpdateWriteType DEF update
<1>7. ASSUME NEW w \in Workers, patch(w) PROVE TypeOK'
  BY <1>7, PatchType, PatchFetchType DEF patch
<1>8. ASSUME NEW w \in Workers, delete(w) PROVE TypeOK'
  BY <1>8, DeleteType, DeleteWriteType DEF delete
<1>9. ASSUME NEW w \in Workers, bulkDelete(w) PROVE TypeOK'
  BY <1>9, BulkDeleteType DEF bulkDelete
<1> QED
  BY <1>1, <1>2, <1>3, <1>4, <1>5, <1>6, <1>7, <1>8, <1>9 DEF Next

(***************************************************************************)
(* However requests interleave, fail and crash, the table holds only well  *)
(* formed rows: names and nullable texts sanitised, only URLs perhaps raw. *)
(***************************************************************************)
THEOREM TypeCorrect == Spec => []TypeOK
<1>1. Init => TypeOK
  BY NoReplyType DEF Init, TypeOK, Job, MaybeRow
<1>2. TypeOK /\ [Next]_vars => TypeOK'
  BY TypeStep
<1> QED
  BY <1>1, <1>2, PTL DEF Spec

-----------------------------------------------------------------------------
(* Consistency of the requests in flight, and what follows from it *)

Inv == RequestsConsistent /\ ResponseOwned

\* No row is born, and those that stay keep their owner and their deletion.
Ages(t1, t2) ==
    \A id \in Ids :
        \/ t2[id] = t1[id]
        \/ /\ Present(t1, id)
           /\ \/ t2[id] = NoRow
              \/ /\ t2[id].user_id = t1[id].user_id
                 /\ t1[id].deleted => t2[id].deleted

\* What every step guarantees about ids that are gone and batches in flight.
GoneStep ==
    \A id \in Ids : /\ Gone(id) => Gone(id)'
                    /\ id \in issued \ Reserved => id \in issued' \ Reserved'

LEMMA ReservedMember ==
    \A id : id \in Reserved <=>
        \E w \in Workers : /\ job[w].op = "bulk_create"
                           /\ \E i \in DOMAIN job[w].keys : job[w].keys[i] = id
BY DEF Reserved, Pending, KeysOf

LEMMA ReservedMemberNext ==
    \A id : id \in Reserved' <=>
        \E w \in Workers : /\ job'[w].op = "bulk_create"
                           /\ \E i \in DOMAIN job'[w].keys : job'[w].keys[i] = id
BY DEF Reserved, Pending, KeysOf

StepGoal == RequestsConsistent' /\ GoneStep

\* A request answers, or gives way to one that is no batch.
LEMMA AgingStep ==
    ASSUME RequestsConsistent, TypeOK', Ages(rows, rows'), issued' = issued,
           NEW w \in Workers, NEW j, job' = [job EXCEPT ![w] = j],
           j.op # "bulk_create",
           j.op = "put" => j.p.user_id = j.user,
           j.op = "patch" => /\ j.id \in Ids
                             /\ j.id \in issued \ Reserved
                             /\ Present(rows, j.id) => rows[j.id].user_id = j.user
    PROVE  StepGoal
<1>0. /\ \A x \in Workers \ {w} : job'[x] = job[x]
      /\ job'[w] = j
      /\ DOMAIN job = Workers
  BY DEF RequestsConsistent, TypeOK
<1>1. \A x \in Ids : x \in Reserved' => x \in Reserved
  BY <1>0, ReservedMember, ReservedMemberNext
<1>2. RowsIssued'
  BY DEF RequestsConsistent, RowsIssued, Ages, Present
<1>3. BatchesUnborn'
  <2> SUFFICES ASSUME NEW x \in Workers, job'[x].op = "bulk_create",
                      NEW i \in DOMAIN job'[x].keys
               PROVE  LET id == job'[x].keys[i]
                          p  == job'[x].batch[i]
                      IN /\ id \in issued' /\ ~Present(rows', id)
                         /\ p.user_id = job'[x].user /\ p.version = 1 /\ ~p.deleted
    BY DEF BatchesUnborn, Pending
  <2>1. x # w /\ job'[x] = job[x]
    BY <1>0
  <2>2. job[x].keys[i] \in Ids
    BY <2>1, JobTypes DEF RequestsConsistent, BulkJob
  <2> QED
    BY <2>1, <2>2 DEF RequestsConsistent, BatchesUnborn, Pending, Ages, Present
<1>4. BatchesDisjoint'
  BY <1>0 DEF RequestsConsistent, BatchesDisjoint, Pending
<1>5. EditsOwned'
  <2> SUFFICES ASSUME NEW x \in Workers
               PROVE  /\ job'[x].op = "put" => job'[x].p.user_id = job'[x].user
                      /\ job'[x].op = "patch" =>
                            /\ job'[x].id \in issued' /\ job'[x].id \notin Reserved'
                            /\ Present(rows', job'[x].id) =>
                                  rows'[job'[x].id].user_id = job'[x].user
    BY DEF EditsOwned
  <2>1. job'[x].op = "put" => job'[x].p.user_id = job'[x].user
    BY <1>0 DEF RequestsConsistent, EditsOwned
  <2>2. ASSUME job'[x].op = "patch"
        PROVE  /\ job'[x].id \in Ids
               /\ job'[x].id \in issued /\ job'[x].id \notin Reserved
               /\ Present(rows, job'[x].id) => rows[job'[x].id].user_id = job'[x].user
    <3>1. CASE x = w
      BY <1>0, <2>2, <3>1
    <3>2. CASE x # w
      BY <1>0, <2>2, <3>2, JobTypes DEF RequestsConsistent, EditsOwned, PatchJob
    <3> QED BY <3>1, <3>2
  <2> QED
    BY <1>1, <2>1, <2>2 DEF Ages, Present
<1>6. GoneStep
  BY <1>1 DEF GoneStep, Gone, Ages, Present
<1> QED
  BY <1>2, <1>3, <1>4, <1>5, <1>6 DEF StepGoal, RequestsConsistent

LEMMA WritesAge ==
    ASSUME NEW t \in Table, NEW id \in Ids, Present(t, id)
    PROVE  /\ \A p \in Row : Ages(t, UpdateRow(t, id, p))
           /\ \A f : Ages(t, PatchRow(t, id, f))
           /\ Ages(t, SoftDeleteRow(t, id))
           /\ Ages(t, HardDeleteRow(t, id))
<1>0. t[id] \in Row
  BY DEF Table, Present, MaybeRow
<1>1. ASSUME NEW p \in Row PROVE Ages(t, UpdateRow(t, id, p))
  BY <1>0 DEF Ages, UpdateRow, Table, Row
<1>2. ASSUME NEW f PROVE Ages(t, PatchRow(t, id, f))
  BY <1>0 DEF Ages, PatchRow, Table, Row
<1>3. Ages(t, SoftDeleteRow(t, id))
  BY <1>0 DEF Ages, SoftDeleteRow, Table, Row
<1>4. Ages(t, HardDeleteRow(t, id))
  BY DEF Ages, HardDeleteRow, Table
<1> QED
  BY <1>1, <1>2, <1>3, <1>4

LEMMA BulkDeleteAges ==
    ASSUME NEW t \in Table, NEW u, NEW S, NEW hard
    PROVE  Ages(t, BulkDeleteRows(t, u, S, hard))
BY DEF Ages, BulkDeleteRows, Table, Owned, Present, MaybeRow, Row

LEMMA ExecAges ==
    ASSUME NEW outcome, NEW hits, NEW effect,
           hits => Ages(rows, effect), Exec(outcome, hits, effect)
    PROVE  Ages(rows, rows')
BY DEF Exec, Ages

LEMMA ReplyProfile ==
    /\ \A op, u, id, v, status, p : Reply(op, u, id, v, status, p).profile = p
                                    /\ Reply(op, u, id, v, status, p).user = u
    /\ \A op, u, id, v, err : Refusal(op, u, id, v, err).profile = NoRow
    /\ \A op, u, status, S : Summary(op, u, status, S).profile = NoRow
    /\ NoReply.profile = NoRow
BY DEF Reply, Refusal, Summary, NoReply

LEMMA AnswerStep ==
    ASSUME RequestsConsistent, TypeOK', Ages(rows, rows'), issued' = issued,
           NEW w \in Workers, NEW r, Answer(w, r),
           r.profile # NoRow => r.profile.user_id = r.user
    PROVE  StepGoal /\ ResponseOwned'
<1>1. Idle.op = "idle"
  BY DEF Idle
<1>2. job' = [job EXCEPT ![w] = Idle] /\ out' = r
  BY DEF Answer
<1>3. StepGoal
  BY <1>1, <1>2, AgingStep
<1> QED
  BY <1>2, <1>3 DEF ResponseOwned

LEMMA GetStep ==
    ASSUME RequestsConsistent, TypeOK', NEW w \in Workers, NEW u \in Users, NEW id \in Ids,
           Get(w, u, id)
    PROVE  StepGoal /\ ResponseOwned'
<1>1. Ages(rows, rows') /\ issued' = issued
  BY DEF Get, Ages
<1>2. PICK r : Answer(w, r) /\ (r.profile # NoRow => r.profile.user_id = r.user)
  BY ReplyProfile DEF Get, Visible, Owned
<1> QED
  BY <1>1, <1>2, AnswerStep

LEMMA UpdateStep ==
    ASSUME RequestsConsistent, TypeOK', NEW w \in Workers, NEW u \in Users, NEW id \in Ids,
           NEW v \in Versions, NEW body \in CreateBodies, Update(w, u, id, v, body)
    PROVE  StepGoal /\ ResponseOwned'
<1> DEFINE j == [op |-> "put", user |-> u, id |-> id, version |-> v,
                 p |-> Replaced(rows[id], body)]
<1>1. Ages(rows, rows') /\ issued' = issued
  BY DEF Update, Ages
<1>2. ASSUME NEW err, Answer(w, Refusal("put", u, id, v, err))
      PROVE  StepGoal /\ ResponseOwned'
  BY <1>1, <1>2, ReplyProfile, AnswerStep
<1>3. ASSUME ValidCreate(body), Visible(rows, id, u), Continue(w, j)
      PROVE  StepGoal /\ ResponseOwned'
  <2>1. rows[id] \in Row /\ rows[id].user_id = u
    BY <1>3 DEF RequestsConsistent, TypeOK, Visible, Owned, Present, MaybeRow
  <2>2. j.op = "put" /\ j.user = u /\ j.p.user_id = u
    BY <1>3, <2>1, ReplacedType
  <2> HIDE DEF j
  <2>3. job' = [job EXCEPT ![w] = j] /\ out' = NoReply
    BY <1>3 DEF Continue
  <2>4. StepGoal
    BY <1>1, <2>2, <2>3, AgingStep
  <2> QED
    BY <2>3, <2>4, ReplyProfile DEF ResponseOwned
<1> QED
  BY <1>2, <1>3 DEF Update

LEMMA UpdateWriteStep ==
    ASSUME RequestsConsistent, TypeOK', NEW w \in Workers, UpdateWrite(w)
    PROVE  StepGoal /\ ResponseOwned'
<1> DEFINE j == job[w]
           hits == Owned(rows, j.id, j.user)
<1>1. j \in PutJob /\ j.p.user_id = j.user /\ rows \in Table
  BY JobTypes DEF RequestsConsistent, EditsOwned, UpdateWrite, Serves, TypeOK, Table
<1>2. j.id \in Ids /\ j.p \in Row
  BY <1>1 DEF PutJob
<1>3. hits => Ages(rows, UpdateRow(rows, j.id, j.p))
  BY <1>1, <1>2, WritesAge DEF Owned
<1>4. /\ issued' = issued
      /\ \E outcome : Exec(outcome, hits, UpdateRow(rows, j.id, j.p))
      /\ \/ Answer(w, Reply("put", j.user, j.id, j.version, 200, j.p))
         \/ \E err : Answer(w, Refusal("put", j.user, j.id, j.version, err))
  BY DEF UpdateWrite
<1> HIDE DEF j, hits
<1>5. Ages(rows, rows')
  BY <1>3, <1>4, ExecAges
<1> QED
  BY <1>1, <1>4, <1>5, ReplyProfile, AnswerStep

LEMMA PatchStep ==
    ASSUME RequestsConsistent, TypeOK', NEW w \in Workers, NEW u \in Users, NEW id \in Ids,
           NEW v \in Versions, NEW fields \in PatchBodies, Patch(w, u, id, v, fields)
    PROVE  StepGoal /\ ResponseOwned'
<1> DEFINE hits == AtVersion(rows, id, u, v)
           effect == PatchRow(rows, id, Whitelisted(fields))
           j == [op |-> "patch", user |-> u, id |-> id, version |-> v]
<1>1. /\ issued' = issued
      /\ UNCHANGED rows \/ \E outcome : Exec(outcome, hits, effect)
      /\ \/ hits /\ Continue(w, j)
         \/ \E err : Answer(w, Refusal("patch", u, id, v, err))
  BY DEF Patch
<1>2. hits => Ages(rows, effect)
  BY WritesAge DEF RequestsConsistent, TypeOK, Table, AtVersion, Owned
<1>3. hits => /\ id \in issued /\ id \notin Reserved
              /\ rows[id].user_id = u
  <2>1. hits => Present(rows, id) /\ rows[id].user_id = u
    BY DEF AtVersion, Owned
  <2>2. Present(rows, id) => id \in issued /\ id \notin Reserved
    BY ReservedMember DEF RequestsConsistent, RowsIssued, BatchesUnborn, Pending
  <2> QED
    BY <2>1, <2>2
<1>4. j.op = "patch" /\ j.id = id /\ j.user = u
  OBVIOUS
<1> HIDE DEF hits, effect, j
<1>5. Ages(rows, rows')
  BY <1>1, <1>2, ExecAges DEF Ages
<1>6. ASSUME NEW err, Answer(w, Refusal("patch", u, id, v, err))
      PROVE  StepGoal /\ ResponseOwned'
  BY <1>1, <1>5, <1>6, ReplyProfile, AnswerStep
<1>7. ASSUME hits, Continue(w, j)
      PROVE  StepGoal /\ ResponseOwned'
  <2>1. job' = [job EXCEPT ![w] = j] /\ out' = NoReply
    BY <1>7 DEF Continue
  <2>2. StepGoal
    BY <1>1, <1>3, <1>4, <1>5, <1>7, <2>1, AgingStep
  <2> QED
    BY <2>1, <2>2, ReplyProfile DEF ResponseOwned
<1> QED
  BY <1>1, <1>6, <1>7

LEMMA PatchFetchStep ==
    ASSUME RequestsConsistent, TypeOK', NEW w \in Workers, PatchFetch(w)
    PROVE  StepGoal /\ ResponseOwned'
<1> DEFINE j == job[w]
<1>1. Present(rows, j.id) => rows[j.id].user_id = j.user
  BY DEF RequestsConsistent, EditsOwned, PatchFetch, Serves
<1>2. Ages(rows, rows') /\ issued' = issued
  BY DEF PatchFetch, Ages
<1>3. \/ Present(rows, j.id)
         /\ Answer(w, Reply("patch", j.user, j.id, j.version, 200, rows[j.id]))
      \/ Answer(w, Refusal("patch", j.user, j.id, j.version, "db"))
  BY DEF PatchFetch
<1> HIDE DEF j
<1> QED
  BY <1>1, <1>2, <1>3, ReplyProfile, AnswerStep

LEMMA DeleteStep ==
    ASSUME RequestsConsistent, TypeOK', NEW w \in Workers, NEW u \in Users, NEW id \in Ids,
           NEW hard \in BOOLEAN, NEW v \in Versions, Delete(w, u, id, hard, v)
    PROVE  StepGoal /\ ResponseOwned'
<1> DEFINE j == [op |-> "delete", user |-> u, id |-> id, version |-> v, hard |-> hard]
<1>1. Ages(rows, rows') /\ issued' = issued
  BY DEF Delete, Ages
<1>2. Continue(w, j) \/ \E err : Answer(w, Refusal("delete", u, id, v, err))
  BY DEF Delete
<1>3. j.op = "delete"
  OBVIOUS
<1> HIDE DEF j
<1>4. ASSUME NEW err, Answer(w, Refusal("delete", u, id, v, err))
      PROVE  StepGoal /\ ResponseOwned'
  BY <1>1, <1>4, ReplyProfile, AnswerStep
<1>5. ASSUME Continue(w, j)
      PROVE  StepGoal /\ ResponseOwned'
  <2>1. job' = [job EXCEPT ![w] = j] /\ out' = NoReply
    BY <1>5 DEF Continue
  <2>2. StepGoal
    BY <1>1, <1>3, <2>1, AgingStep
  <2> QED
    BY <2>1, <2>2, ReplyProfile DEF ResponseOwned
<1> QED
  BY <1>2, <1>4, <1>5

LEMMA DeleteWriteStep ==
    ASSUME RequestsConsistent, TypeOK', NEW w \in Workers, DeleteWrite(w)
    PROVE  StepGoal /\ ResponseOwned'
<1> DEFINE j == job[w]
           hits == AtVersion(rows, j.id, j.user, j.version)
           effect == IF j.hard THEN HardDeleteRow(rows, j.id)
                     ELSE SoftDeleteRow(rows, j.id)
<1>1. j \in DeleteJob /\ rows \in Table
  BY JobTypes DEF RequestsConsistent, DeleteWrite, Serves, TypeOK, Table
<1>2. hits => Ages(rows, effect)
  BY <1>1, WritesAge DEF AtVersion, Owned, DeleteJob
<1>3. /\ issued' = issued
      /\ \E outcome : Exec(outcome, hits, effect)
      /\ \/ Answer(w, Reply("delete", j.user, j.id, j.version, 204, NoRow))
         \/ \E err : Answer(w, Refusal("delete", j.user, j.id, j.version, err))
  BY DEF DeleteWrite
<1> HIDE DEF j, hits, effect
<1>4. Ages(rows, rows')
  BY <1>2, <1>3, ExecAges
<1> QED
  BY <1>3, <1>4, ReplyProfile, AnswerStep

LEMMA BulkDeleteStep ==
    ASSUME RequestsConsistent, TypeOK', NEW w \in Workers, NEW u \in Users,
           NEW S \in SUBSET Ids, NEW hard \in BOOLEAN, BulkDelete(w, u, S, hard)
    PROVE  StepGoal /\ ResponseOwned'
<1>1. /\ issued' = issued
      /\ UNCHANGED rows \/ \E outcome : Exec(outcome, TRUE, BulkDeleteRows(rows, u, S, hard))
      /\ \E status : Answer(w, Summary("bulk_delete", u, status, {}))
  BY DEF BulkDelete
<1>2. Ages(rows, BulkDeleteRows(rows, u, S, hard))
  BY BulkDeleteAges DEF RequestsConsistent, TypeOK, Table
<1>3. Ages(rows, rows')
  BY <1>1, <1>2, ExecAges DEF Ages
<1> QED
  BY <1>1, <1>3, ReplyProfile, AnswerStep

\* The id of a batch in flight has been issued and has no row.
LEMMA ReservedUnborn ==
    ASSUME RequestsConsistent, NEW x \in Reserved
    PROVE  x \in Ids /\ x \in issued /\ ~Present(rows, x)
<1>1. PICK w \in Workers : /\ job[w].op = "bulk_create"
                           /\ \E i \in DOMAIN job[w].keys : job[w].keys[i] = x
  BY ReservedMember
<1>2. PICK i \in DOMAIN job[w].keys : job[w].keys[i] = x
  BY <1>1
<1>3. BulkJob(job[w])
  BY <1>1, JobTypes DEF RequestsConsistent
<1> QED
  BY <1>1, <1>2, <1>3 DEF RequestsConsistent, BatchesUnborn, Pending, BulkJob

\* Fresh ids are issued; rows may be born under the ones not reserved.
LEMMA BirthStep ==
    ASSUME RequestsConsistent, TypeOK', NEW w \in Workers, job[w] = Idle,
           \A x \in Workers : job'[x] = job[x],
           NEW fresh \in SUBSET (Ids \ issued), issued' = issued \cup fresh,
           \A id \in Ids \ fresh : rows'[id] = rows[id]
    PROVE  StepGoal
<1>1. \A x : x \in Reserved' <=> x \in Reserved
  BY ReservedMember, ReservedMemberNext
<1>2. \A x \in Reserved : x \in Ids /\ x \in issued /\ x \notin fresh
  BY ReservedUnborn
<1>3. RowsIssued'
  BY DEF RequestsConsistent, RowsIssued, Present
<1>4. BatchesUnborn'
  <2> SUFFICES ASSUME NEW x \in Workers, job[x].op = "bulk_create",
                      NEW i \in DOMAIN job[x].keys
               PROVE  LET id == job[x].keys[i]
                          p  == job[x].batch[i]
                      IN /\ id \in issued' /\ ~Present(rows', id)
                         /\ p.user_id = job[x].user /\ p.version = 1 /\ ~p.deleted
    BY DEF BatchesUnborn, Pending
  <2>1. job[x].keys[i] \in Reserved
    BY ReservedMember
  <2> QED
    BY <1>2, <2>1 DEF RequestsConsistent, BatchesUnborn, Pending, Present
<1>5. BatchesDisjoint'
  BY DEF RequestsConsistent, BatchesDisjoint, Pending
<1>6. EditsOwned'
  <2>1. ASSUME NEW x \in Workers, job[x].op = "patch"
        PROVE  job[x].id \in Ids \ fresh
    BY <2>1, JobTypes DEF RequestsConsistent, EditsOwned, PatchJob
  <2> QED
    BY <1>1, <2>1 DEF RequestsConsistent, EditsOwned, Present
<1>7. GoneStep
  BY <1>1 DEF GoneStep, Gone, Present
<1> QED
  BY <1>3, <1>4, <1>5, <1>6, <1>7 DEF StepGoal, RequestsConsistent

LEMMA AnswerFromIdle ==
    ASSUME RequestsConsistent, NEW w \in Workers, job[w] = Idle, NEW r, Answer(w, r)
    PROVE  (\A x \in Workers : job'[x] = job[x]) /\ out' = r
BY DEF RequestsConsistent, TypeOK, Answer

LEMMA CreateStep ==
    ASSUME RequestsConsistent, TypeOK', NEW w \in Workers, NEW u \in Users,
           NEW body \in CreateBodies, Create(w, u, body)
    PROVE  StepGoal /\ ResponseOwned'
<1>0. job[w] = Idle
  BY DEF Create, Starts
<1>1. CASE ~ValidCreate(body)
  <2>1. /\ Ages(rows, rows') /\ issued' = issued
        /\ Answer(w, Summary("create", u, handleError("validation"), {}))
    BY <1>1 DEF Create, Ages
  <2> QED
    BY <2>1, ReplyProfile, AnswerStep
<1>2. CASE ValidCreate(body)
  <2> DEFINE p == NewProfile(u, body)
  <2>1. PICK id \in Ids \ issued, outcome \in Outcomes :
           /\ issued' = issued \cup {id}
           /\ Exec(outcome, TRUE, InsertRow(rows, id, p))
           /\ Answer(w, IF outcome = "ok" THEN Reply("create", u, id, 0, 201, p)
                        ELSE Refusal("create", u, id, 0, "db"))
    BY <1>2 DEF Create
  <2>2. p.user_id = u
    BY <1>2, NewProfileType
  <2> HIDE DEF p
  <2>3. \A x \in Ids \ {id} : rows'[x] = rows[x]
    BY <2>1 DEF Exec, InsertRow, RequestsConsistent, TypeOK
  <2>4. PICK r : /\ Answer(w, r)
                 /\ r.profile # NoRow => r.profile.user_id = r.user
    BY <2>1, <2>2, ReplyProfile
  <2>5. (\A x \in Workers : job'[x] = job[x]) /\ out' = r
    BY <1>0, <2>4, AnswerFromIdle
  <2>6. StepGoal
    BY <1>0, <2>1, <2>3, <2>5, BirthStep
  <2> QED
    BY <2>4, <2>5, <2>6 DEF ResponseOwned
<1> QED
  BY <1>1, <1>2

\* A batch is announced: its ids are issued and reserved, the table stays.
LEMMA ReserveStep ==
    ASSUME RequestsConsistent, TypeOK', NEW w \in Workers, job[w] = Idle, rows' = rows,
           NEW D, NEW keys \in [D -> Ids \ issued], NEW batch \in [D -> Row],
           NEW u, NEW todo,
           issued' = issued \cup {keys[i] : i \in D},
           job' = [job EXCEPT ![w] = [op |-> "bulk_create", user |-> u, keys |-> keys,
                                      batch |-> batch, todo |-> todo]],
           \A i \in D : batch[i].user_id = u /\ batch[i].version = 1 /\ ~batch[i].deleted
    PROVE  StepGoal
<1> DEFINE fresh == {keys[i] : i \in D}
<1>1. /\ \A x \in Workers \ {w} : job'[x] = job[x]
      /\ job'[w].op = "bulk_create" /\ job'[w].user = u
      /\ job'[w].keys = keys /\ job'[w].batch = batch
      /\ job[w].op = "idle"
  BY DEF RequestsConsistent, TypeOK, Idle
<1>2. \A x : x \in Reserved' <=> x \in Reserved \/ x \in fresh
  BY <1>1, ReservedMember, ReservedMemberNext
<1>3. \A x \in Reserved : x \in issued /\ x \notin fresh
  BY ReservedUnborn
<1>4. RowsIssued'
  BY DEF RequestsConsistent, RowsIssued, Present
<1>5. BatchesUnborn'
  <2> SUFFICES ASSUME NEW x \in Workers, job'[x].op = "bulk_create",
                      NEW i \in DOMAIN job'[x].keys
               PROVE  LET id == job'[x].keys[i]
                          p  == job'[x].batch[i]
                      IN /\ id \in issued' /\ ~Present(rows', id)
                         /\ p.user_id = job'[x].user /\ p.version = 1 /\ ~p.deleted
    BY DEF BatchesUnborn, Pending
  <2>1. CASE x = w
    BY <1>1, <2>1 DEF RequestsConsistent, RowsIssued
  <2>2. CASE x # w
    BY <1>1, <2>2 DEF RequestsConsistent, BatchesUnborn, Pending
  <2> QED
    BY <2>1, <2>2
<1>6. BatchesDisjoint'
  <2>1. KeysOf(job'[w]) = fresh
    BY <1>1 DEF KeysOf
  <2>2. \A x \in Workers \ {w} : job'[x].op = "bulk_create" =>
            KeysOf(job'[x]) = KeysOf(job[x]) /\ KeysOf(job[x]) \subseteq Reserved
    BY <1>1 DEF Reserved, Pending
  <2>3. ASSUME NEW x \in Workers \ {w}, job'[x].op = "bulk_create"
        PROVE  KeysOf(job'[x]) \cap KeysOf(job'[w]) = {}
    BY <1>3, <2>1, <2>2, <2>3
  <2>4. ASSUME NEW x \in Workers \ {w}, job'[x].op = "bulk_create",
               NEW y \in Workers \ {w}, job'[y].op = "bulk_create", x # y
        PROVE  KeysOf(job'[x]) \cap KeysOf(job'[y]) = {}
    BY <1>1, <2>4 DEF RequestsConsistent, BatchesDisjoint, Pending
  <2> QED
    BY <2>3, <2>4 DEF BatchesDisjoint, Pending
<1>7. EditsOwned'
  <2> SUFFICES ASSUME NEW x \in Workers
               PROVE  /\ job'[x].op = "put" => job'[x].p.user_id = job'[x].user
                      /\ job'[x].op = "patch" =>
                            /\ job'[x].id \in issued' /\ job'[x].id \notin Reserved'
                            /\ Present(rows', job'[x].id) =>
                                  rows'[job'[x].id].user_id = job'[x].user
    BY DEF EditsOwned
  <2>1. CASE x = w
    BY <1>1, <2>1
  <2>2. CASE x # w
    BY <1>1, <1>2, <2>2 DEF RequestsConsistent, EditsOwned
  <2> QED
    BY <2>1, <2>2
<1>8. GoneStep
  BY <1>2 DEF GoneStep, Gone
<1> QED
  BY <1>4, <1>5, <1>6, <1>7, <1>8 DEF StepGoal, RequestsConsistent

LEMMA BulkCreateStep ==
    ASSUME RequestsConsistent, TypeOK', NEW w \in Workers, NEW u \in Users,
           NEW bodies \in BulkBodies, BulkCreate(w, u, bodies)
    PROVE  StepGoal /\ ResponseOwned'
<1> DEFINE valid == {i \in DOMAIN bodies : ValidCreate(bodies[i])}
           batch == [i \in valid |-> NewProfile(u, bodies[i])]
<1>1. \A i \in valid : bodies[i] \in CreateBodies /\ ValidCreate(bodies[i])
  BY ProfileAssumption DEF ProfileAssumption
<1>2. /\ batch \in [valid -> Row]
      /\ \A i \in valid : batch[i].user_id = u /\ batch[i].version = 1 /\ ~batch[i].deleted
  BY <1>1, NewProfileType
<1>3. PICK keys \in [valid -> Ids \ issued] :
         /\ issued' = issued \cup {keys[i] : i \in valid}
         /\ UNCHANGED rows
         /\ \/ Continue(w, [op |-> "bulk_create", user |-> u, keys |-> keys,
                            batch |-> batch, todo |-> valid])
            \/ BulkReply(w, u, keys)
  BY DEF BulkCreate
<1>4. job[w] = Idle
  BY DEF BulkCreate, Starts
<1> HIDE DEF valid, batch
<1>5. CASE BulkReply(w, u, keys)
  <2>1. PICK r : Answer(w, r) /\ r.profile = NoRow
    BY <1>5, ReplyProfile DEF BulkReply
  <2>2. (\A x \in Workers : job'[x] = job[x]) /\ out' = r
    BY <1>4, <2>1, AnswerFromIdle
  <2>3. {keys[i] : i \in valid} \in SUBSET (Ids \ issued)
    OBVIOUS
  <2>4. StepGoal
    BY <1>3, <1>4, <2>2, <2>3, BirthStep
  <2> QED
    BY <2>1, <2>2, <2>4 DEF ResponseOwned
<1>6. CASE Continue(w, [op |-> "bulk_create", user |-> u, keys |-> keys,
                        batch |-> batch, todo |-> valid])
  <2>1. StepGoal
    BY <1>2, <1>3, <1>4, <1>6, ReserveStep DEF Continue
  <2> QED
    BY <1>6, <2>1, ReplyProfile DEF Continue, ResponseOwned
<1> QED
  BY <1>3, <1>5, <1>6

LEMMA BulkInsertStep ==
    ASSUME RequestsConsistent, TypeOK', NEW w \in Workers, BulkInsert(w)
    PROVE  StepGoal /\ ResponseOwned'
<1>1. rows' = rows /\ issued' = issued /\ Ages(rows, rows') /\ job[w].op = "bulk_create"
  BY DEF BulkInsert, Serves, Ages
<1>2. CASE BulkReply(w, job[w].user, job[w].keys)
  BY <1>1, <1>2, ReplyProfile, AnswerStep DEF BulkReply
<1>3. ASSUME NEW i, Continue(w, [job[w] EXCEPT !.todo = job[w].todo \ {i}])
      PROVE  StepGoal /\ ResponseOwned'
  <2>1. \E D : job[w] \in [op : {"bulk_create"}, user : Users, keys : [D -> Ids],
                           batch : [D -> Row], todo : SUBSET D]
    BY <1>1, JobTypes DEF RequestsConsistent, BulkJob
  <2>2. \A x \in Workers : /\ job'[x].op = job[x].op
                           /\ x # w => job'[x] = job[x]
    BY <1>3, <2>1 DEF Continue, RequestsConsistent, TypeOK
  <2>3. /\ job'[w].keys = job[w].keys /\ job'[w].batch = job[w].batch
        /\ job'[w].user = job[w].user
    BY <1>3, <2>1 DEF Continue, RequestsConsistent, TypeOK
  <2>4. \A x : x \in Reserved' <=> x \in Reserved
    BY <2>2, <2>3, ReservedMember, ReservedMemberNext
  <2>5. RowsIssued'
    BY <1>1 DEF RequestsConsistent, RowsIssued, Present
  <2>6. BatchesUnborn'
    BY <1>1, <2>2, <2>3 DEF RequestsConsistent, BatchesUnborn, Pending, Present
  <2>7. BatchesDisjoint'
    BY <2>2, <2>3 DEF RequestsConsistent, BatchesDisjoint, Pending, KeysOf
  <2>8. EditsOwned'
    <3>1. \A x \in Workers : job[x].op \in {"put", "patch"} => job'[x] = job[x]
      BY <1>1, <2>2
    <3> QED
      BY <1>1, <2>2, <2>4, <3>1 DEF RequestsConsistent, EditsOwned, Present
  <2>9. GoneStep
    BY <1>1, <2>4 DEF GoneStep, Gone
  <2>10. ResponseOwned'
    BY <1>3, ReplyProfile DEF Continue, ResponseOwned
  <2> QED
    BY <2>5, <2>6, <2>7, <2>8, <2>9, <2>10 DEF StepGoal, RequestsConsistent
<1> QED
  BY <1>2, <1>3 DEF BulkInsert

LEMMA BulkCommitStep ==
    ASSUME RequestsConsistent, TypeOK', NEW w \in Workers, BulkCommit(w)
    PROVE  StepGoal /\ ResponseOwned'
<1> DEFINE keys == job[w].keys
           batch == job[w].batch
           mine == KeysOf(job[w])
<1>1. /\ job[w].op = "bulk_create" /\ issued' = issued
      /\ rows' = rows \/ rows' = InsertBatch(rows, keys, batch)
      /\ BulkReply(w, job[w].user, keys)
  BY DEF BulkCommit, Serves, Exec
<1>2. PICK r : Answer(w, r) /\ r.profile = NoRow
  BY <1>1, ReplyProfile DEF BulkReply
<1>3. /\ \A x \in Workers \ {w} : job'[x] = job[x]
      /\ job'[w].op = "idle"
      /\ ResponseOwned'
  BY <1>2 DEF Answer, RequestsConsistent, TypeOK, Idle, ResponseOwned
<1>4. PICK D : keys \in [D -> Ids] /\ batch \in [D -> Row]
  BY <1>1, JobTypes DEF RequestsConsistent, BulkJob
<1>5. \A x \in Ids \ mine : rows'[x] = rows[x]
  BY <1>1, <1>4 DEF InsertBatch, KeysOf, RequestsConsistent, TypeOK
<1>7. mine \subseteq Reserved /\ \A x \in Reserved : x \in Ids /\ x \in issued
  BY <1>1, ReservedUnborn DEF Reserved, Pending
<1>8. \A x \in Workers \ {w} : job[x].op = "bulk_create" =>
          \A i \in DOMAIN job[x].keys : job[x].keys[i] \in Ids \ mine
  <2>1. ASSUME NEW x \in Workers \ {w}, job[x].op = "bulk_create",
               NEW i \in DOMAIN job[x].keys
        PROVE  job[x].keys[i] \in Ids \ mine
    <3>1. job[x].keys[i] \in KeysOf(job[x]) /\ job[x].keys[i] \in Reserved
      BY <2>1, ReservedMember DEF KeysOf
    <3> QED
      BY <1>1, <1>7, <2>1, <3>1 DEF RequestsConsistent, BatchesDisjoint, Pending
  <2> QED
    BY <2>1
<1>9. \A x : x \in Reserved' => x \in Reserved
  BY <1>3, ReservedMember, ReservedMemberNext
<1> HIDE DEF keys, batch, mine
<1>10. RowsIssued'
  BY <1>1, <1>5, <1>7 DEF RequestsConsistent, RowsIssued, Present
<1>11. BatchesUnborn'
  BY <1>1, <1>3, <1>5, <1>8 DEF RequestsConsistent, BatchesUnborn, Pending, Present
<1>12. BatchesDisjoint'
  BY <1>3 DEF RequestsConsistent, BatchesDisjoint, Pending
<1>13. EditsOwned'
  <2>1. ASSUME NEW x \in Workers, job'[x].op = "patch"
        PROVE  job'[x] = job[x] /\ job[x].id \in Ids \ mine
    BY <1>3, <1>7, <2>1, JobTypes DEF RequestsConsistent, EditsOwned, PatchJob
  <2>2. ASSUME NEW x \in Workers, job'[x].op = "put"
        PROVE  job'[x] = job[x]
    BY <1>3, <2>2
  <2> QED
    BY <1>1, <1>5, <1>9, <2>1, <2>2 DEF RequestsConsistent, EditsOwned, Present
<1>14. GoneStep
  BY <1>1, <1>5, <1>7, <1>9 DEF GoneStep, Gone
<1> QED
  BY <1>3, <1>10, <1>11, <1>12, <1>13, <1>14 DEF StepGoal, RequestsConsistent

LEMMA CrashStep ==
    ASSUME RequestsConsistent, TypeOK', Crash
    PROVE  StepGoal /\ ResponseOwned'
<1>1. /\ \A w \in Workers : job'[w].op = "idle"
      /\ rows' = rows /\ issued' = issued /\ out' = NoReply
  BY DEF Crash, Idle
<1>2. \A x : x \notin Reserved'
  BY <1>1, ReservedMemberNext
<1>3. RowsIssued' /\ BatchesUnborn' /\ BatchesDisjoint' /\ EditsOwned'
  BY <1>1 DEF RequestsConsistent, RowsIssued, BatchesUnborn, BatchesDisjoint, EditsOwned,
              Pending, Present
<1>4. GoneStep
  BY <1>1, <1>2 DEF GoneStep, Gone
<1> QED
  BY <1>1, <1>3, <1>4, ReplyProfile DEF StepGoal, RequestsConsistent, ResponseOwned

LEMMA InvStep ==
    ASSUME Inv, [Next]_vars
    PROVE  Inv' /\ GoneStep
<1>0. RequestsConsistent /\ TypeOK'
  BY TypeStep DEF Inv, RequestsConsistent
<1>1. CASE UNCHANGED vars
  <2>0. rows' = rows /\ issued' = issued /\ job' = job /\ out' = out
    BY <1>1 DEF vars
  <2>1. Inv'
    <3>1. RowsIssued' /\ ResponseOwned'
      BY <2>0 DEF Inv, RequestsConsistent, RowsIssued, ResponseOwned, Present
    <3>2. BatchesUnborn'
      BY <2>0, <1>0 DEF RequestsConsistent, BatchesUnborn, Pending, Present
    <3>3. BatchesDisjoint'
      BY <2>0, <1>0 DEF RequestsConsistent, BatchesDisjoint, Pending
    <3>4. Reserved' = Reserved
      BY <2>0 DEF Reserved, Pending, KeysOf
    <3>5. EditsOwned'
      BY <2>0, <1>0, <3>4 DEF RequestsConsistent, EditsOwned, Present
    <3> QED
      BY <1>0, <3>1, <3>2, <3>3, <3>5 DEF Inv, RequestsConsistent
  <2>2. GoneStep
    BY <1>1 DEF vars, GoneStep, Gone, Reserved, Pending, KeysOf
  <2> QED
    BY <2>1, <2>2
<1> DEFINE Goal == StepGoal /\ ResponseOwned'
<1>2. CASE Crash
  BY <1>0, <1>2, CrashStep DEF StepGoal, Inv
<1>3. ASSUME NEW w \in Workers, create(w) PROVE Goal
  BY <1>0, <1>3, CreateStep DEF create
<1>4. ASSUME NEW w \in Workers, bulkCreate(w) PROVE Goal
  BY <1>0, <1>4, BulkCreateStep, BulkInsertStep, BulkCommitStep DEF bulkCreate
<1>5. ASSUME NEW w \in Workers, get(w) PROVE Goal
  BY <1>0, <1>5, GetStep DEF get
<1>6. ASSUME NEW w \in Workers, update(w) PROVE Goal
  BY <1>0, <1>6, UpdateStep, UpdateWriteStep DEF update
<1>7. ASSUME NEW w \in Workers, patch(w) PROVE Goal
  BY <1>0, <1>7, PatchStep, PatchFetchStep DEF patch
<1>8. ASSUME NEW w \in Workers, delete(w) PROVE Goal
  BY <1>0, <1>8, DeleteStep, DeleteWriteStep DEF delete
<1>9. ASSUME NEW w \in Workers, bulkDelete(w) PROVE Goal
  BY <1>0, <1>9, BulkDeleteStep DEF bulkDelete
<1>10. Goal => Inv' /\ GoneStep
  BY DEF StepGoal, Inv
<1> HIDE DEF Goal
<1> QED
  BY <1>1, <1>2, <1>3, <1>4, <1>5, <1>6, <1>7, <1>8, <1>9, <1>10 DEF Next

LEMMA InvInit == Init => Inv
BY NoReplyType, ReplyProfile DEF Init, Inv, RequestsConsistent, TypeOK, Job, MaybeRow, RowsIssued,
   BatchesUnborn, BatchesDisjoint, EditsOwned, ResponseOwned, Pending, Present, Idle

(***************************************************************************)
(* What a request in flight remembers stays true of the table: batches are *)
(* disjoint and unborn, and a PATCH re-reads a row of its own user.        *)
(***************************************************************************)
THEOREM Consistency == Spec => []RequestsConsistent
<1>1. Inv => RequestsConsistent
  BY DEF Inv
<1> QED
  BY <1>1, InvInit, InvStep, PTL DEF Spec

(***************************************************************************)
(* A profile is only ever sent to its owner (profile_repository.go:183).   *)
(***************************************************************************)
THEOREM Ownership == Spec => []ResponseOwned
<1>1. Inv => ResponseOwned
  BY DEF Inv
<1> QED
  BY <1>1, InvInit, InvStep, PTL DEF Spec

(***************************************************************************)
(* A deletion is final, whatever a PUT that was under way writes back.     *)
(***************************************************************************)
THEOREM DeletionIsFinal == Spec => DeletedStaysDeleted
<1>1. Inv /\ [Next]_vars => GoneStep
  BY InvStep
<1>2. GoneStep => [\A id \in Ids : Gone(id) => Gone(id)']_vars
  BY DEF GoneStep
<1> QED
  BY <1>1, <1>2, InvInit, InvStep, PTL DEF Spec, DeletedStaysDeleted

-----------------------------------------------------------------------------
(* What a bulk creation reports *)

\* COMMIT fills every id of the batch.
LEMMA BatchInserted ==
    ASSUME RequestsConsistent, NEW w \in Workers, job[w].op = "bulk_create",
           rows' = InsertBatch(rows, job[w].keys, job[w].batch)
    PROVE  \A id \in KeysOf(job[w]) : rows'[id] # NoRow
<1> DEFINE keys == job[w].keys
           batch == job[w].batch
<1>1. PICK D : keys \in [D -> Ids] /\ batch \in [D -> Row]
  BY JobTypes DEF RequestsConsistent, BulkJob
<1>2. ASSUME NEW id \in KeysOf(job[w])
      PROVE  rows'[id] # NoRow
  <2>1. PICK i \in D : keys[i] = id
    BY <1>1, <1>2 DEF KeysOf
  <2>2. id \in Ids
    BY <1>1, <2>1
  <2>3. (CHOOSE k \in DOMAIN keys : keys[k] = id) \in D
    BY <1>1, <2>1
  <2>4. rows'[id] \in Row
    BY <1>1, <2>1, <2>2, <2>3 DEF InsertBatch
  <2> QED
    BY <2>4, SentinelAssumption DEF SentinelAssumption
<1> QED
  BY <1>2

\* Only the last step of a bulk creation reports anything as created.
LEMMA CreatedNothing ==
    /\ NoReply.created = {}
    /\ \A op, u, id, v, status, p : Reply(op, u, id, v, status, p).created = {}
    /\ \A op, u, id, v, err : Refusal(op, u, id, v, err).created = {}
    /\ \A op, u, status, S : Summary(op, u, status, S).created = S
BY DEF NoReply, Reply, Refusal, Summary

LEMMA CreatedStep ==
    ASSUME RequestsConsistent, "refused" \notin Faults, CreatedAreStored, [Next]_vars
    PROVE  CreatedAreStored'
<1> DEFINE Goal == \A id \in out'.created : Present(rows', id)
<1>1. CASE UNCHANGED vars
  BY <1>1 DEF vars, CreatedAreStored, Present
<1>2. ASSUME out'.created = {} PROVE Goal
  BY <1>2
<1>3. CASE Crash
  BY <1>3, CreatedNothing DEF Crash, CreatedAreStored
<1>4. ASSUME NEW w \in Workers, bulkCreate(w) PROVE Goal
  <2>1. CASE BulkCommit(w)
    <3>1. rows' = InsertBatch(rows, job[w].keys, job[w].batch) /\ job[w].op = "bulk_create"
      BY <2>1 DEF BulkCommit, Exec, Outcomes, Serves
    <3>2. out'.created = KeysOf(job[w])
      BY <2>1, CreatedNothing DEF BulkCommit, BulkReply, Answer, KeysOf
    <3> QED
      BY <3>1, <3>2, BatchInserted DEF Present
  <2>2. CASE BulkInsert(w)
    BY <1>2, <2>2, CreatedNothing DEF BulkInsert, Continue
  <2>3. ASSUME NEW u \in Users, NEW bodies \in BulkBodies, BulkCreate(w, u, bodies)
        PROVE  Goal
    <3> DEFINE valid == {i \in DOMAIN bodies : ValidCreate(bodies[i])}
    <3>1. PICK keys \in [valid -> Ids \ issued] :
             (\E j : Continue(w, j)) \/ (valid = {} /\ BulkReply(w, u, keys))
      BY <2>3 DEF BulkCreate
    <3> HIDE DEF valid
    <3>2. (\E j : Continue(w, j)) => out'.created = {}
      BY CreatedNothing DEF Continue
    <3>3. valid = {} /\ BulkReply(w, u, keys) => out'.created = {}
      BY CreatedNothing DEF BulkReply, Answer
    <3> QED
      BY <1>2, <3>1, <3>2, <3>3
  <2> QED
    BY <1>4, <2>1, <2>2, <2>3 DEF bulkCreate
<1>5. ASSUME NEW w \in Workers, create(w) PROVE out'.created = {}
  <2>1. PICK u \in Users, body \in CreateBodies : Create(w, u, body)
    BY <1>5 DEF create
  <2>2. \/ Answer(w, Summary("create", u, handleError("validation"), {}))
        \/ \E id, p : Answer(w, Reply("create", u, id, 0, 201, p))
        \/ \E id : Answer(w, Refusal("create", u, id, 0, "db"))
    BY <2>1 DEF Create
  <2> QED
    BY <2>2, CreatedNothing DEF Answer
<1>6. ASSUME NEW w \in Workers, get(w) PROVE out'.created = {}
  BY <1>6, CreatedNothing DEF get, Get, Answer
<1>7. ASSUME NEW w \in Workers, update(w) PROVE out'.created = {}
  <2>1. ASSUME NEW u \in Users, NEW id \in Ids, NEW v \in Versions, NEW body \in CreateBodies,
               Update(w, u, id, v, body)
        PROVE  out'.created = {}
    <3>1. \/ \E j : Continue(w, j)
          \/ \E err : Answer(w, Refusal("put", u, id, v, err))
      BY <2>1 DEF Update
    <3> QED
      BY <3>1, CreatedNothing DEF Answer, Continue
  <2>2. CASE UpdateWrite(w)
    BY <2>2, CreatedNothing DEF UpdateWrite, Answer
  <2> QED
    BY <1>7, <2>1, <2>2 DEF update
<1>8. ASSUME NEW w \in Workers, patch(w) PROVE out'.created = {}
  <2>1. ASSUME NEW u \in Users, NEW id \in Ids, NEW v \in Versions, NEW fields \in PatchBodies,
               Patch(w, u, id, v, fields)
        PROVE  out'.created = {}
    <3>1. \/ \E j : Continue(w, j)
          \/ \E err : Answer(w, Refusal("patch", u, id, v, err))
      BY <2>1 DEF Patch
    <3> QED
      BY <3>1, CreatedNothing DEF Answer, Continue
  <2>2. CASE PatchFetch(w)
    BY <2>2, CreatedNothing DEF PatchFetch, Answer
  <2> QED
    BY <1>8, <2>1, <2>2 DEF patch
<1>9. ASSUME NEW w \in Workers, delete(w) PROVE out'.created = {}
  BY <1>9, CreatedNothing DEF delete, Delete, DeleteWrite, Answer, Continue
<1>10. ASSUME NEW w \in Workers, bulkDelete(w) PROVE out'.created = {}
  <2>1. \E u, status : Answer(w, Summary("bulk_delete", u, status, {}))
    BY <1>10 DEF bulkDelete, BulkDelete
  <2> QED
    BY <2>1, CreatedNothing DEF Answer
<1>11. Goal => CreatedAreStored'
  BY DEF CreatedAreStored
<1> HIDE DEF Goal
<1>12. ASSUME Next PROVE Goal \/ CreatedAreStored'
  BY <1>2, <1>3, <1>4, <1>5, <1>6, <1>7, <1>8, <1>9, <1>10, <1>12 DEF Next
<1> QED
  BY <1>1, <1>11, <1>12

(***************************************************************************)
(* Unless BEGIN or an INSERT fails, or COMMIT without effect, what a bulk   *)
(* creation lists as created is stored, whatever else is under way and     *)
(* also if the acknowledgement of COMMIT is lost.  The dropped error       *)
(* (service.go:88) is thus all that makes the reply wrong;                 *)
(* ProfileBulkReply shows that it does.                                    *)
(***************************************************************************)
THEOREM CreatedUnlessRefused ==
    ASSUME "refused" \notin Faults
    PROVE  Spec => []CreatedAreStored
<1>1. Init => CreatedAreStored
  BY DEF Init, NoReply, CreatedAreStored
<1>2. Inv /\ CreatedAreStored /\ [Next]_vars => CreatedAreStored'
  BY CreatedStep DEF Inv
<1> QED
  BY <1>1, <1>2, InvInit, InvStep, PTL DEF Spec
=============================================================================
