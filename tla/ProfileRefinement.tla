-------------------------- MODULE ProfileRefinement --------------------------
(***************************************************************************)
(* ProfileService implements VersionedStore, for any number of requests in *)
(* progress, unless two requests overlap and PUT is used.                  *)
(***************************************************************************)
EXTENDS ProfileServiceProofs, ProfileHistory

\* PUT compares the version before its statement: it needs to be alone.
PutAlone == "put" \notin Ops \/ \A w1, w2 \in Workers : w1 = w2

\* Then the row that a PUT read is still the stored one when it writes.
PutFresh ==
    \A w \in Workers : job[w].op = "put" =>
        /\ "put" \in Ops
        /\ Present(rows, job[w].id)
        /\ job[w].version = rows[job[w].id].version
        /\ job[w].p.version = rows[job[w].id].version + 1

SpentGrows == issued \ Reserved \subseteq issued' \ Reserved'

LEMMA FactsOfInv ==
    ASSUME Inv, [Next]_vars
    PROVE  /\ RequestsConsistent /\ TypeOK' /\ SpentGrows
           /\ rows \in Table /\ rows' \in Table
           /\ \A id \in Ids : Present(rows, id) => id \in issued \ Reserved
<1>1. RequestsConsistent /\ TypeOK'
  BY TypeStep DEF Inv, RequestsConsistent
<1>2. SpentGrows
  BY <1>1, InvStep DEF SpentGrows, GoneStep, RequestsConsistent, TypeOK
<1>3. rows \in Table /\ rows' \in Table
  BY <1>1 DEF RequestsConsistent, TypeOK, Table
<1>4. \A id \in Ids : Present(rows, id) => id \in issued \ Reserved
  BY <1>1, ReservedUnborn DEF RequestsConsistent, RowsIssued
<1> QED
  BY <1>1, <1>2, <1>3, <1>4

-----------------------------------------------------------------------------
(* The steps of the store *)

LEMMA StoreQuiet ==
    ASSUME SpentGrows, NEW u \in Users, rows' = rows
    PROVE  VS!Next
<1>1. /\ issued \ Reserved \subseteq (issued \ Reserved)'
      /\ \A id \in Ids \ {} : rows'[id] = rows[id]
      /\ {} \in SUBSET Ids
  BY DEF SpentGrows
<1> QED
  BY <1>1 DEF VS!Next

LEMMA StoreOne ==
    ASSUME SpentGrows, NEW u \in Users, NEW id \in Ids,
           \A x \in Ids \ {id} : rows'[x] = rows[x],
           VS!OwnedBy(u, id),
           VS!Insert(id) \/ VS!Edit(id) \/ VS!Retire(id) \/ VS!Erase(id)
    PROVE  VS!Next
<1>1. /\ issued \ Reserved \subseteq (issued \ Reserved)'
      /\ {id} \in SUBSET Ids
  BY DEF SpentGrows
<1> QED
  BY <1>1 DEF VS!Next

LEMMA StorePatch ==
    ASSUME NEW id \in Ids, rows \in Table, NEW f, Present(rows, id),
           rows'[id] \in Row, rows' = PatchRow(rows, id, f)
    PROVE  VS!Edit(id) /\ VS!OwnedBy(rows[id].user_id, id)
           /\ \A x \in Ids \ {id} : rows'[x] = rows[x]
<1>1. rows[id] \in Row
  BY DEF Table, MaybeRow, Present
<1>2. /\ rows'[id].version = rows[id].version + 1
      /\ rows'[id].deleted = rows[id].deleted
      /\ rows'[id].user_id = rows[id].user_id
      /\ \A x \in Ids \ {id} : rows'[x] = rows[x]
  BY <1>1 DEF PatchRow, Table, Row
<1>3. rows'[id] # NoRow
  BY SentinelAssumption DEF SentinelAssumption
<1> QED
  BY <1>1, <1>2, <1>3 DEF VS!Edit, VS!OwnedBy, Present

LEMMA StoreUpdate ==
    ASSUME NEW id \in Ids, rows \in Table, NEW p \in Row, Present(rows, id),
           p.version = rows[id].version + 1, rows' = UpdateRow(rows, id, p)
    PROVE  VS!Edit(id) /\ VS!OwnedBy(rows[id].user_id, id)
           /\ \A x \in Ids \ {id} : rows'[x] = rows[x]
<1>1. rows[id] \in Row
  BY DEF Table, MaybeRow, Present
<1>2. /\ rows'[id].version = rows[id].version + 1
      /\ rows'[id].deleted = rows[id].deleted
      /\ rows'[id].user_id = rows[id].user_id
      /\ rows'[id] \in Row
      /\ \A x \in Ids \ {id} : rows'[x] = rows[x]
  BY <1>1 DEF UpdateRow, Table, Row
<1>3. rows'[id] # NoRow
  BY <1>2, SentinelAssumption DEF SentinelAssumption
<1> QED
  BY <1>1, <1>2, <1>3 DEF VS!Edit, VS!OwnedBy, Present

LEMMA StoreSoftDelete ==
    ASSUME NEW id \in Ids, rows \in Table, Present(rows, id),
           rows' = SoftDeleteRow(rows, id)
    PROVE  VS!Retire(id) /\ VS!OwnedBy(rows[id].user_id, id)
           /\ \A x \in Ids \ {id} : rows'[x] = rows[x]
<1> DEFINE r == rows[id]
           q == [r EXCEPT !.deleted = TRUE, !.version = r.version + 1]
<1>1. r \in Row /\ r.version + 1 \in Nat
  BY DEF Table, MaybeRow, Present, Row
<1>2. q \in Row /\ q.user_id = r.user_id
  BY <1>1 DEF Row
<1>3. /\ rows'[id] = q
      /\ \A x \in Ids \ {id} : rows'[x] = rows[x]
  BY DEF SoftDeleteRow, Table
<1>4. rows'[id] # NoRow
  BY <1>2, <1>3, SentinelAssumption DEF SentinelAssumption
<1> QED
  BY <1>1, <1>2, <1>3, <1>4 DEF VS!Retire, VS!OwnedBy, Present

LEMMA StoreHardDelete ==
    ASSUME NEW id \in Ids, rows \in Table, Present(rows, id), id \in issued \ Reserved,
           rows' = HardDeleteRow(rows, id)
    PROVE  VS!Erase(id) /\ VS!OwnedBy(rows[id].user_id, id)
           /\ \A x \in Ids \ {id} : rows'[x] = rows[x]
BY DEF HardDeleteRow, Table, VS!Erase, VS!OwnedBy, Present

-----------------------------------------------------------------------------
(* The steps of the service *)

LEMMA RefineCreate ==
    ASSUME Inv, [Next]_vars, NEW w \in Workers, NEW u \in Users, NEW body \in CreateBodies,
           Create(w, u, body)
    PROVE  VS!Next
<1>0. /\ SpentGrows /\ rows \in Table
      /\ \A id \in Ids : Present(rows, id) => id \in issued \ Reserved
  BY FactsOfInv
<1>1. CASE rows' = rows
  BY <1>0, <1>1, StoreQuiet
<1>2. CASE rows' # rows
  <2>0. ValidCreate(body)
    BY <1>2 DEF Create
  <2>1. PICK id \in Ids \ issued : /\ issued' = issued \cup {id}
                                   /\ rows' = InsertRow(rows, id, NewProfile(u, body))
    BY <1>2 DEF Create, Exec
  <2>2. job[w] = Idle /\ \A x \in Workers : job'[x] = job[x]
    BY FactsOfInv DEF Create, Starts, Answer, RequestsConsistent, TypeOK
  <2>3. id \notin Reserved'
    BY <2>1, <2>2, FactsOfInv, ReservedUnborn, ReservedMember, ReservedMemberNext
  <2> DEFINE p == NewProfile(u, body)
  <2>4. p \in Row /\ p.user_id = u /\ p.version = 1 /\ ~p.deleted
    BY <2>0, NewProfileType
  <2> HIDE DEF p
  <2>5. rows'[id] = p /\ (\A x \in Ids \ {id} : rows'[x] = rows[x]) /\ rows[id] = NoRow
    BY <1>0, <2>1 DEF InsertRow, Table, p, Present
  <2>6. p # NoRow
    BY <2>4, SentinelAssumption DEF SentinelAssumption
  <2>7. VS!Insert(id) /\ VS!OwnedBy(u, id)
    BY <2>1, <2>3, <2>4, <2>5, <2>6 DEF VS!Insert, VS!OwnedBy
  <2> QED
    BY <1>0, <2>5, <2>7, StoreOne
<1> QED
  BY <1>1, <1>2

LEMMA RefineCommit ==
    ASSUME Inv, [Next]_vars, NEW w \in Workers, BulkCommit(w)
    PROVE  VS!Next
<1> DEFINE keys == job[w].keys
           batch == job[w].batch
           mine == KeysOf(job[w])
           u == job[w].user
<1>0. /\ SpentGrows /\ rows \in Table /\ RequestsConsistent
      /\ \A id \in Ids : Present(rows, id) => id \in issued \ Reserved
  BY FactsOfInv
<1>1. /\ job[w].op = "bulk_create" /\ issued' = issued
      /\ rows' = rows \/ rows' = InsertBatch(rows, keys, batch)
  BY DEF BulkCommit, Serves, Exec
<1>2. PICK D : keys \in [D -> Ids] /\ batch \in [D -> Row] /\ u \in Users
  BY <1>0, <1>1, JobTypes DEF RequestsConsistent, BulkJob
<1>3. CASE rows' = rows
  BY <1>0, <1>2, <1>3, StoreQuiet
<1>4. CASE rows' = InsertBatch(rows, keys, batch)
  <2>1. \A x \in Ids \ mine : rows'[x] = rows[x]
    BY <1>2, <1>4 DEF InsertBatch, KeysOf
  <2>2. ASSUME NEW x \in mine
        PROVE  VS!Insert(x) /\ VS!OwnedBy(u, x) /\ x \in Ids
    <3> DEFINE k == CHOOSE i \in DOMAIN keys : keys[i] = x
    <3>1. k \in D /\ keys[k] = x /\ x \in Ids
      BY <1>2 DEF KeysOf
    <3>2. rows'[x] = batch[k]
      BY <1>2, <1>4, <3>1 DEF InsertBatch
    <3> HIDE DEF k
    <3>3. /\ rows'[x] \in Row /\ rows'[x].user_id = u
          /\ rows'[x].version = 1 /\ ~rows'[x].deleted
          /\ x \in issued /\ rows[x] = NoRow
      BY <1>0, <1>1, <1>2, <3>1, <3>2
      DEF RequestsConsistent, BatchesUnborn, Pending, Present
    <3>4. rows'[x] # NoRow
      BY <3>3, SentinelAssumption DEF SentinelAssumption
    <3>5. x \in Reserved
      BY <1>1 DEF Reserved, Pending
    <3>6. x \notin Reserved'
      <4>1. /\ \A y \in Workers \ {w} : job'[y] = job[y]
            /\ job'[w].op = "idle"
        BY <1>0 DEF BulkCommit, BulkReply, Answer, RequestsConsistent, TypeOK, Idle
      <4>2. ASSUME NEW y \in Workers \ {w}, job[y].op = "bulk_create"
            PROVE  x \notin KeysOf(job[y])
        BY <1>0, <1>1, <4>2 DEF RequestsConsistent, BatchesDisjoint, Pending
      <4>3. ASSUME x \in Reserved' PROVE FALSE
        <5>1. PICK y \in Workers : /\ job'[y].op = "bulk_create"
                                   /\ \E i \in DOMAIN job'[y].keys : job'[y].keys[i] = x
          BY <4>3, ReservedMemberNext
        <5> QED
          BY <4>1, <4>2, <5>1 DEF KeysOf
      <4> QED
        BY <4>3
    <3> QED
      BY <1>1, <3>1, <3>3, <3>4, <3>5, <3>6 DEF VS!Insert, VS!OwnedBy
  <2> HIDE DEF mine
  <2>3. /\ issued \ Reserved \subseteq (issued \ Reserved)'
        /\ mine \in SUBSET Ids
    BY <1>0, <2>2 DEF SpentGrows
  <2> QED
    BY <1>2, <2>1, <2>2, <2>3 DEF VS!Next
<1> QED
  BY <1>1, <1>3, <1>4

LEMMA RefineUpdateWrite ==
    ASSUME Inv, [Next]_vars, PutFresh, NEW w \in Workers, UpdateWrite(w)
    PROVE  VS!Next
<1> DEFINE j == job[w]
<1>0. SpentGrows /\ rows \in Table
  BY FactsOfInv
<1>1. j \in PutJob
  BY JobTypes, FactsOfInv DEF RequestsConsistent, UpdateWrite, Serves
<1>2. j.id \in Ids /\ j.p \in Row /\ j.user \in Users
  BY <1>1 DEF PutJob
<1>3. Present(rows, j.id) /\ j.p.version = rows[j.id].version + 1
  BY DEF PutFresh, UpdateWrite, Serves
<1>4. \/ rows' = rows
      \/ rows' = UpdateRow(rows, j.id, j.p) /\ rows[j.id].user_id = j.user
  BY DEF UpdateWrite, Exec, Owned
<1> HIDE DEF j
<1> QED
  BY <1>0, <1>2, <1>3, <1>4, StoreQuiet, StoreUpdate, StoreOne

LEMMA RefinePatch ==
    ASSUME Inv, [Next]_vars, NEW w \in Workers, NEW u \in Users, NEW id \in Ids,
           NEW v \in Versions, NEW fields \in PatchBodies, Patch(w, u, id, v, fields)
    PROVE  VS!Next
<1> DEFINE f == Whitelisted(fields)
<1>0. SpentGrows /\ rows \in Table
  BY FactsOfInv
<1>1. \/ rows' = rows
      \/ /\ AtVersion(rows, id, u, v) /\ ~BreaksNotNull(f)
         /\ rows' = PatchRow(rows, id, f)
  BY DEF Patch, Exec
<1>2. AtVersion(rows, id, u, v) => Present(rows, id) /\ rows[id].user_id = u
  BY DEF AtVersion, Owned
<1>3. Present(rows, id) /\ ~BreaksNotNull(f) => PatchRow(rows, id, f)[id] \in Row
  BY <1>0, PatchRowType
<1> HIDE DEF f
<1> QED
  BY <1>0, <1>1, <1>2, <1>3, StoreQuiet, StorePatch, StoreOne

LEMMA RefineDeleteWrite ==
    ASSUME Inv, [Next]_vars, NEW w \in Workers, DeleteWrite(w)
    PROVE  VS!Next
<1> DEFINE j == job[w]
<1>0. /\ SpentGrows /\ rows \in Table
      /\ \A id \in Ids : Present(rows, id) => id \in issued \ Reserved
  BY FactsOfInv
<1>1. j \in DeleteJob
  BY JobTypes, FactsOfInv DEF RequestsConsistent, DeleteWrite, Serves
<1>2. j.id \in Ids /\ j.user \in Users
  BY <1>1 DEF DeleteJob
<1>3. \/ rows' = rows
      \/ /\ Present(rows, j.id) /\ rows[j.id].user_id = j.user
         /\ \/ rows' = HardDeleteRow(rows, j.id)
            \/ rows' = SoftDeleteRow(rows, j.id)
  BY DEF DeleteWrite, Exec, AtVersion, Owned
<1> HIDE DEF j
<1> QED
  BY <1>0, <1>2, <1>3, StoreQuiet, StoreSoftDelete, StoreHardDelete, StoreOne

LEMMA RefineBulkDelete ==
    ASSUME Inv, [Next]_vars, NEW w \in Workers, NEW u \in Users, NEW S \in SUBSET Ids,
           NEW hard \in BOOLEAN, BulkDelete(w, u, S, hard)
    PROVE  VS!Next
<1> DEFINE T == {id \in S : Owned(rows, id, u)}
<1>0. /\ SpentGrows /\ rows \in Table
      /\ \A id \in Ids : Present(rows, id) => id \in issued \ Reserved
  BY FactsOfInv
<1>1. rows' = rows \/ rows' = BulkDeleteRows(rows, u, S, hard)
  BY DEF BulkDelete, Exec
<1>2. ASSUME rows' = BulkDeleteRows(rows, u, S, hard)
      PROVE  VS!Next
  <2>1. \A id \in Ids \ T : rows'[id] = rows[id]
    BY <1>2 DEF BulkDeleteRows
  <2>2. ASSUME NEW id \in T
        PROVE  /\ VS!OwnedBy(u, id)
               /\ hard => VS!Erase(id)
               /\ ~hard => VS!Retire(id)
    <3>1. id \in Ids /\ Present(rows, id) /\ rows[id].user_id = u
      BY DEF Owned
    <3>2. rows[id] \in Row
      BY <1>0, <3>1 DEF Table, MaybeRow, Present
    <3>3. CASE hard
      <4>1. rows'[id] = NoRow
        BY <1>2, <3>1, <3>3 DEF BulkDeleteRows
      <4> QED
        BY <1>0, <3>1, <3>3, <4>1 DEF VS!Erase, VS!OwnedBy, Present
    <3>4. CASE ~hard
      <4> DEFINE q == [rows[id] EXCEPT !.deleted = TRUE]
      <4>1. rows'[id] = q
        BY <1>2, <3>1, <3>4 DEF BulkDeleteRows
      <4>2. q \in Row /\ q.user_id = u
        BY <3>1, <3>2 DEF Row
      <4>3. q = [rows[id] EXCEPT !.deleted = TRUE, !.version = rows[id].version]
        BY <3>2 DEF Row
      <4>4. q # NoRow
        BY <4>2, SentinelAssumption DEF SentinelAssumption
      <4> HIDE DEF q
      <4> QED
        BY <3>1, <3>4, <4>1, <4>2, <4>3, <4>4 DEF VS!Retire, VS!OwnedBy, Present
    <3> QED
      BY <3>3, <3>4
  <2> HIDE DEF T
  <2>3. issued \ Reserved \subseteq (issued \ Reserved)'
    BY <1>0 DEF SpentGrows
  <2>4. T \in SUBSET Ids
    BY DEF T
  <2>5. (\A id \in T : VS!Erase(id)) \/ (\A id \in T : VS!Retire(id))
    BY <2>2
  <2> QED
    BY <2>1, <2>2, <2>3, <2>4, <2>5 DEF VS!Next
<1> QED
  BY <1>0, <1>1, <1>2, StoreQuiet

LEMMA RefineCrash ==
    ASSUME Inv, [Next]_vars, Crash
    PROVE  [VS!Next]_VS!svars
<1>0. RequestsConsistent /\ SpentGrows /\ rows' = rows /\ issued' = issued
  BY FactsOfInv DEF Crash
<1>1. CASE Reserved = {}
  <2>1. \A x : x \notin Reserved'
    BY ReservedMemberNext DEF Crash, Idle
  <2>2. (issued \ Reserved)' = issued \ Reserved
    BY <1>0, <1>1, <2>1
  <2> QED
    BY <1>0, <2>2 DEF VS!svars
<1>2. CASE Reserved # {}
  <2>1. PICK w \in Workers : job[w].op = "bulk_create"
    BY <1>2, ReservedMember
  <2>2. job[w].user \in Users
    BY <1>0, <2>1, JobTypes DEF RequestsConsistent, BulkJob
  <2> QED
    BY <1>0, <2>2, StoreQuiet
<1> QED
  BY <1>1, <1>2

-----------------------------------------------------------------------------
(* Refinement *)

\* A step of worker w that does not leave it in the middle of a PUT.
NoPut(w) == \E j : job' = [job EXCEPT ![w] = j] /\ j.op # "put"

LEMMA AnswerNoPut ==
    ASSUME NEW w \in Workers, NEW r, Answer(w, r)
    PROVE  NoPut(w)
<1>1. Idle.op # "put" /\ job' = [job EXCEPT ![w] = Idle]
  BY DEF Answer, Idle
<1> QED
  BY <1>1, Zenon DEF NoPut

LEMMA ContinueNoPut ==
    ASSUME NEW w \in Workers, NEW j, j.op # "put", Continue(w, j)
    PROVE  NoPut(w)
BY Zenon DEF Continue, NoPut

LEMMA StepsNoPut ==
    ASSUME RequestsConsistent, NEW w \in Workers,
           \/ create(w) \/ bulkCreate(w) \/ get(w) \/ patch(w) \/ delete(w) \/ bulkDelete(w)
           \/ UpdateWrite(w)
    PROVE  NoPut(w)
<1>1. CASE create(w)
  BY <1>1, AnswerNoPut DEF create, Create
<1>2. CASE bulkCreate(w)
  <2>1. CASE \E u \in Users, bodies \in BulkBodies : BulkCreate(w, u, bodies)
    <3>1. PICK u, keys, batch, todo :
             \/ Continue(w, [op |-> "bulk_create", user |-> u, keys |-> keys,
                             batch |-> batch, todo |-> todo])
             \/ BulkReply(w, u, keys)
      BY <2>1 DEF BulkCreate
    <3> QED
      BY <3>1, AnswerNoPut, ContinueNoPut DEF BulkReply
  <2>2. CASE BulkInsert(w)
    <3>1. \E D : job[w] \in [op : {"bulk_create"}, user : Users, keys : [D -> Ids],
                             batch : [D -> Row], todo : SUBSET D]
      BY <2>2, JobTypes DEF BulkInsert, Serves, RequestsConsistent, BulkJob
    <3>2. \A i : [job[w] EXCEPT !.todo = job[w].todo \ {i}].op # "put"
      BY <3>1
    <3>3. \/ \E i : Continue(w, [job[w] EXCEPT !.todo = job[w].todo \ {i}])
          \/ BulkReply(w, job[w].user, job[w].keys)
      BY <2>2 DEF BulkInsert
    <3> QED
      BY <3>2, <3>3, AnswerNoPut, ContinueNoPut DEF BulkReply
  <2>3. CASE BulkCommit(w)
    BY <2>3, AnswerNoPut DEF BulkCommit, BulkReply
  <2> QED
    BY <1>2, <2>1, <2>2, <2>3 DEF bulkCreate
<1>3. CASE get(w)
  BY <1>3, AnswerNoPut DEF get, Get
<1>4. CASE patch(w)
  <2>1. ASSUME NEW u, NEW id, NEW v, NEW fields, Patch(w, u, id, v, fields)
        PROVE  NoPut(w)
    <3>1. \/ Continue(w, [op |-> "patch", user |-> u, id |-> id, version |-> v])
          \/ \E r : Answer(w, r)
      BY <2>1 DEF Patch
    <3> QED
      BY <3>1, AnswerNoPut, ContinueNoPut
  <2>2. CASE PatchFetch(w)
    BY <2>2, AnswerNoPut DEF PatchFetch
  <2> QED
    BY <1>4, <2>1, <2>2 DEF patch
<1>5. CASE delete(w)
  <2>1. ASSUME NEW u, NEW id, NEW hard, NEW v, Delete(w, u, id, hard, v)
        PROVE  NoPut(w)
    <3>1. \/ Continue(w, [op |-> "delete", user |-> u, id |-> id, version |-> v,
                          hard |-> hard])
          \/ \E r : Answer(w, r)
      BY <2>1 DEF Delete
    <3> QED
      BY <3>1, AnswerNoPut, ContinueNoPut
  <2>2. CASE DeleteWrite(w)
    BY <2>2, AnswerNoPut DEF DeleteWrite
  <2> QED
    BY <1>5, <2>1, <2>2 DEF delete
<1>6. CASE bulkDelete(w)
  BY <1>6, AnswerNoPut DEF bulkDelete, BulkDelete
<1>7. CASE UpdateWrite(w)
  BY <1>7, AnswerNoPut DEF UpdateWrite
<1> QED
  BY <1>1, <1>2, <1>3, <1>4, <1>5, <1>6, <1>7

LEMMA PutFreshStep ==
    ASSUME Inv, [Next]_vars, PutFresh, PutAlone
    PROVE  PutFresh'
<1>0. RequestsConsistent
  BY DEF Inv
<1> SUFFICES ASSUME NEW w \in Workers, job'[w].op = "put"
             PROVE  /\ "put" \in Ops
                    /\ Present(rows', job'[w].id)
                    /\ job'[w].version = rows'[job'[w].id].version
                    /\ job'[w].p.version = rows'[job'[w].id].version + 1
  BY DEF PutFresh
<1>1. CASE UNCHANGED vars
  BY <1>1 DEF PutFresh, Present, vars
<1>2. CASE Crash
  BY <1>2 DEF Crash, Idle
<1>3. ASSUME NEW x \in Workers, NoPut(x)
      PROVE  FALSE
  <2>1. x # w /\ job'[w] = job[w]
    BY <1>0, <1>3 DEF NoPut, RequestsConsistent, TypeOK
  <2> QED
    BY <2>1 DEF PutFresh, PutAlone
<1>4. ASSUME NEW x \in Workers, NEW u \in Users, NEW id \in Ids, NEW v \in Versions,
             NEW body \in CreateBodies, Update(x, u, id, v, body)
      PROVE  /\ "put" \in Ops
             /\ Present(rows', job'[w].id)
             /\ job'[w].version = rows'[job'[w].id].version
             /\ job'[w].p.version = rows'[job'[w].id].version + 1
  <2> DEFINE j == [op |-> "put", user |-> u, id |-> id, version |-> v,
                   p |-> Replaced(rows[id], body)]
  <2>1. "put" \in Ops /\ x = w
    BY <1>4 DEF Update, Starts, PutAlone
  <2>2. \/ ValidCreate(body) /\ Visible(rows, id, u) /\ Continue(x, j)
        \/ \E r : Answer(x, r)
    BY <1>4 DEF Update
  <2>3. ~NoPut(x)
    BY <1>3
  <2>4. ValidCreate(body) /\ Visible(rows, id, u) /\ Continue(x, j)
    BY <2>2, <2>3, AnswerNoPut
  <2>5. job'[w] = j /\ rows' = rows
    BY <1>0, <1>4, <2>1, <2>4 DEF Continue, Update, RequestsConsistent, TypeOK
  <2>6. Present(rows, id) /\ rows[id] \in Row
    BY <1>0, <2>4 DEF Visible, Owned, Present, RequestsConsistent, TypeOK, MaybeRow
  <2>7. j.id = id /\ j.version = v /\ j.p.version = rows[id].version + 1
    BY <2>4, <2>6, ReplacedType
  <2>8. rows[id].version = v
    BY <1>3, <1>4, <2>1, AnswerNoPut DEF Update
  <2> HIDE DEF j
  <2> QED
    BY <2>1, <2>5, <2>6, <2>7, <2>8
<1> QED
  BY <1>0, <1>1, <1>2, <1>3, <1>4, StepsNoPut DEF Next, update

\* Every step but the second statement of a PUT is one of the versioned store.
LEMMA RefineOthers ==
    ASSUME Inv, [Next]_vars
    PROVE  [VS!Next]_VS!svars \/ \E w \in Workers : UpdateWrite(w)
<1>0. RequestsConsistent /\ SpentGrows
  BY FactsOfInv
<1>1. CASE UNCHANGED vars
  BY <1>1 DEF vars, VS!svars, Reserved, Pending, KeysOf
<1>2. CASE Crash
  BY <1>2, RefineCrash
<1>3. ASSUME NEW w \in Workers, create(w) PROVE VS!Next
  BY <1>3, RefineCreate DEF create
<1>4. ASSUME NEW w \in Workers, bulkCreate(w) PROVE VS!Next
  <2>1. ASSUME NEW u \in Users, NEW bodies \in BulkBodies, BulkCreate(w, u, bodies)
        PROVE  VS!Next
    BY <1>0, <2>1, StoreQuiet DEF BulkCreate
  <2>2. CASE BulkInsert(w)
    <3>1. job[w].user \in Users /\ rows' = rows
      BY <1>0, <2>2, JobTypes DEF BulkInsert, Serves, BulkJob, RequestsConsistent
    <3> QED
      BY <1>0, <3>1, StoreQuiet
  <2> QED
    BY <1>4, <2>1, <2>2, RefineCommit DEF bulkCreate
<1>5. ASSUME NEW w \in Workers, get(w) PROVE VS!Next
  BY <1>0, <1>5, StoreQuiet DEF get, Get
<1>6. ASSUME NEW w \in Workers, update(w) PROVE VS!Next \/ UpdateWrite(w)
  <2>1. ASSUME NEW u \in Users, NEW id \in Ids, NEW v \in Versions, NEW body \in CreateBodies,
               Update(w, u, id, v, body)
        PROVE  VS!Next
    BY <1>0, <2>1, StoreQuiet DEF Update
  <2> QED
    BY <1>6, <2>1 DEF update
<1>7. ASSUME NEW w \in Workers, patch(w) PROVE VS!Next
  <2>1. CASE PatchFetch(w)
    <3>1. job[w].user \in Users /\ rows' = rows
      BY <1>0, <2>1, JobTypes DEF PatchFetch, Serves, PatchJob, RequestsConsistent
    <3> QED
      BY <1>0, <3>1, StoreQuiet
  <2> QED
    BY <1>7, <2>1, RefinePatch DEF patch
<1>8. ASSUME NEW w \in Workers, delete(w) PROVE VS!Next
  <2>1. ASSUME NEW u \in Users, NEW id \in Ids, NEW hard \in BOOLEAN, NEW v \in Versions,
               Delete(w, u, id, hard, v)
        PROVE  VS!Next
    BY <1>0, <2>1, StoreQuiet DEF Delete
  <2> QED
    BY <1>8, <2>1, RefineDeleteWrite DEF delete
<1>9. ASSUME NEW w \in Workers, bulkDelete(w) PROVE VS!Next
  BY <1>9, RefineBulkDelete DEF bulkDelete
<1> QED
  BY <1>1, <1>2, <1>3, <1>4, <1>5, <1>6, <1>7, <1>8, <1>9 DEF Next

LEMMA RefineNext ==
    ASSUME Inv, [Next]_vars, PutFresh
    PROVE  [VS!Next]_VS!svars
BY RefineOthers, RefineUpdateWrite

(***************************************************************************)
(* The profiles table is a versioned store: one insertion per id, edits by *)
(* exactly one version, final removal, one owner per request, for any      *)
(* number of overlapping requests, failed statements and crashes, as long  *)
(* as a PUT does not overlap another request.                              *)
(***************************************************************************)
THEOREM Refinement ==
    ASSUME PutAlone
    PROVE  Spec => ImplementsVersionedStore
<1>1. Init => VS!Init /\ PutFresh
  BY DEF Init, VS!Init, PutFresh, Idle
<1>2. Inv /\ PutFresh /\ [Next]_vars => PutFresh'
  BY PutFreshStep
<1>3. Inv /\ PutFresh /\ [Next]_vars => [VS!Next]_VS!svars
  BY RefineNext
<1> QED
  BY <1>1, <1>2, <1>3, InvInit, InvStep, PTL DEF Spec, ImplementsVersionedStore, VS!Spec

-----------------------------------------------------------------------------
(* With overlapping PUTs *)

\* The store that counts edits is one that need not.
LEMMA VersionedIsPlain ==
    ASSUME VS!Next
    PROVE  PS!Next
BY DEF VS!Next, VS!Insert, VS!Edit, VS!Retire, VS!Erase, VS!OwnedBy,
       PS!Next, PS!Insert, PS!Edit, PS!Retire, PS!Erase, PS!OwnedBy

\* A PUT writes no column but texts and the version, into a row of its user.
LEMMA PlainUpdate ==
    ASSUME Inv, [Next]_vars, NEW w \in Workers, UpdateWrite(w)
    PROVE  PS!Next
<1> DEFINE j == job[w]
<1>0. SpentGrows /\ rows \in Table
  BY FactsOfInv
<1>1. j \in PutJob
  BY JobTypes, FactsOfInv DEF RequestsConsistent, UpdateWrite, Serves
<1>2. j.id \in Ids /\ j.p \in Row /\ j.user \in Users
  BY <1>1 DEF PutJob
<1>3. \/ rows' = rows
      \/ /\ rows' = UpdateRow(rows, j.id, j.p)
         /\ Present(rows, j.id) /\ rows[j.id].user_id = j.user
  BY DEF UpdateWrite, Exec, Owned
<1> HIDE DEF j
<1>4. CASE rows' = rows
  BY <1>0, <1>2, <1>4, StoreQuiet, VersionedIsPlain
<1>5. CASE /\ rows' = UpdateRow(rows, j.id, j.p)
           /\ Present(rows, j.id) /\ rows[j.id].user_id = j.user
  <2>1. rows[j.id] \in Row
    BY <1>0, <1>2, <1>5 DEF Table, MaybeRow, Present
  <2>2. /\ rows'[j.id] \in Row
        /\ rows'[j.id].deleted = rows[j.id].deleted
        /\ rows'[j.id].user_id = rows[j.id].user_id
        /\ \A x \in Ids \ {j.id} : rows'[x] = rows[x]
    BY <1>0, <1>2, <1>5, <2>1 DEF UpdateRow, Table, Row
  <2>3. rows'[j.id] # NoRow
    BY <2>2, SentinelAssumption DEF SentinelAssumption
  <2>4. PS!Edit(j.id) /\ PS!OwnedBy(j.user, j.id)
    BY <1>5, <2>2, <2>3 DEF PS!Edit, PS!OwnedBy, Present
  <2>5. issued \ Reserved \subseteq (issued \ Reserved)' /\ {j.id} \in SUBSET Ids
    BY <1>0, <1>2 DEF SpentGrows
  <2> QED
    BY <1>2, <2>2, <2>4, <2>5 DEF PS!Next
<1> QED
  BY <1>3, <1>4, <1>5

(***************************************************************************)
(* Whatever requests overlap, PUTs included, the profiles table is a store *)
(* of single insertions, final removals and one owner per request: a PUT   *)
(* that overlaps others can undo their edits and the count of them, never  *)
(* a deletion (profile_repository.go:57).                                  *)
(***************************************************************************)
THEOREM PlainRefinement == Spec => ImplementsStore
<1>1. Init => PS!Init
  BY DEF Init, PS!Init
<1>2. Inv /\ [Next]_vars => [PS!Next]_PS!svars
  BY RefineOthers, PlainUpdate, VersionedIsPlain DEF VS!svars, PS!svars
<1> QED
  BY <1>1, <1>2, InvInit, InvStep, PTL DEF Spec, ImplementsStore, PS!Spec

-----------------------------------------------------------------------------
(* What a PATCH reads back *)

\* A PATCH that wrote its row is about to read a version past the named one.
PatchAhead ==
    \A w \in Workers :
        job[w].op = "patch" /\ Present(rows, job[w].id) =>
            job[w].version < rows[job[w].id].version

\* A step of worker w that neither leaves it in a PATCH nor answers one.
NoPatch(w) ==
    /\ \E j : job' = [job EXCEPT ![w] = j] /\ j.op # "patch"
    /\ out'.op = "patch" => out'.status # 200

LEMMA ReplyKind ==
    /\ \A op, u, id, v, status, p : Reply(op, u, id, v, status, p).op = op
    /\ \A op, u, id, v, err : /\ Refusal(op, u, id, v, err).op = op
                              /\ Refusal(op, u, id, v, err).status \notin {200, 204}
    /\ \A op, u, status, S : Summary(op, u, status, S).op = op
    /\ NoReply.op = "none"
BY DEF Reply, Refusal, Summary, NoReply, handleError

\* A step of worker w that has nothing to do with PUT, PATCH and DELETE.
Elsewhere(w) ==
    /\ \E j : job' = [job EXCEPT ![w] = j] /\ j.op # "patch"
    /\ out'.op \notin {"put", "patch", "delete"}

LEMMA AnswerElsewhere ==
    ASSUME NEW w \in Workers, NEW r, Answer(w, r), r.op \notin {"put", "patch", "delete"}
    PROVE  Elsewhere(w)
<1>1. Idle.op # "patch" /\ job' = [job EXCEPT ![w] = Idle] /\ out' = r
  BY DEF Answer, Idle
<1> QED
  BY <1>1, Zenon DEF Elsewhere

LEMMA ContinueElsewhere ==
    ASSUME NEW w \in Workers, NEW j, j.op # "patch", Continue(w, j)
    PROVE  Elsewhere(w)
<1>1. out'.op \notin {"put", "patch", "delete"} /\ job' = [job EXCEPT ![w] = j]
  BY ReplyKind DEF Continue
<1> QED
  BY <1>1, Zenon DEF Elsewhere

LEMMA AnswerNoPatch ==
    ASSUME NEW w \in Workers, NEW r, Answer(w, r), r.op = "patch" => r.status # 200
    PROVE  NoPatch(w)
<1>1. Idle.op # "patch" /\ job' = [job EXCEPT ![w] = Idle] /\ out' = r
  BY DEF Answer, Idle
<1> QED
  BY <1>1, Zenon DEF NoPatch

LEMMA ContinueNoPatch ==
    ASSUME NEW w \in Workers, NEW j, j.op # "patch", Continue(w, j)
    PROVE  NoPatch(w)
<1>1. out'.op # "patch" /\ job' = [job EXCEPT ![w] = j]
  BY ReplyKind DEF Continue
<1> QED
  BY <1>1, Zenon DEF NoPatch

LEMMA StepsElsewhere ==
    ASSUME RequestsConsistent, NEW w \in Workers,
           create(w) \/ bulkCreate(w) \/ get(w) \/ bulkDelete(w)
    PROVE  Elsewhere(w)
<1>0. \A u, keys : BulkReply(w, u, keys) => Elsewhere(w)
  BY ReplyKind, AnswerElsewhere DEF BulkReply
<1>1. CASE create(w)
  <2>1. PICK r : Answer(w, r) /\ r.op = "create"
    <3>1. PICK u \in Users, body \in CreateBodies : Create(w, u, body)
      BY <1>1 DEF create
    <3>2. CASE \E err : Answer(w, Summary("create", u, err, {}))
      BY <3>2, ReplyKind
    <3>3. CASE \E id, outcome, p :
                  Answer(w, IF outcome = "ok" THEN Reply("create", u, id, 0, 201, p)
                            ELSE Refusal("create", u, id, 0, "db"))
      <4>1. PICK id, outcome, p :
                  Answer(w, IF outcome = "ok" THEN Reply("create", u, id, 0, 201, p)
                            ELSE Refusal("create", u, id, 0, "db"))
        BY <3>3
      <4> DEFINE r == IF outcome = "ok" THEN Reply("create", u, id, 0, 201, p)
                      ELSE Refusal("create", u, id, 0, "db")
      <4>2. r.op = "create" /\ Answer(w, r)
        BY <4>1, ReplyKind
      <4> HIDE DEF r
      <4> QED
        BY <4>2
    <3>4. (\E err : Answer(w, Summary("create", u, err, {})))
            \/ \E id, outcome, p :
                  Answer(w, IF outcome = "ok" THEN Reply("create", u, id, 0, 201, p)
                            ELSE Refusal("create", u, id, 0, "db"))
      BY <3>1 DEF Create
    <3> QED
      BY <3>2, <3>3, <3>4
  <2> QED
    BY <2>1, AnswerElsewhere
<1>2. CASE bulkCreate(w)
  <2>1. CASE \E u \in Users, bodies \in BulkBodies : BulkCreate(w, u, bodies)
    <3>1. PICK u, keys, batch, todo :
             \/ Continue(w, [op |-> "bulk_create", user |-> u, keys |-> keys,
                             batch |-> batch, todo |-> todo])
             \/ BulkReply(w, u, keys)
      BY <2>1 DEF BulkCreate
    <3> QED
      BY <1>0, <3>1, ContinueElsewhere
  <2>2. CASE BulkInsert(w)
    <3>1. \E D : job[w] \in [op : {"bulk_create"}, user : Users, keys : [D -> Ids],
                             batch : [D -> Row], todo : SUBSET D]
      BY <2>2, JobTypes DEF BulkInsert, Serves, RequestsConsistent, BulkJob
    <3>2. \A i : [job[w] EXCEPT !.todo = job[w].todo \ {i}].op # "patch"
      BY <3>1
    <3>3. \/ \E i : Continue(w, [job[w] EXCEPT !.todo = job[w].todo \ {i}])
          \/ BulkReply(w, job[w].user, job[w].keys)
      BY <2>2 DEF BulkInsert
    <3> QED
      BY <1>0, <3>2, <3>3, ContinueElsewhere
  <2>3. CASE BulkCommit(w)
    BY <1>0, <2>3 DEF BulkCommit
  <2> QED
    BY <1>2, <2>1, <2>2, <2>3 DEF bulkCreate
<1>3. CASE get(w)
  BY <1>3, ReplyKind, AnswerElsewhere DEF get, Get
<1>4. CASE bulkDelete(w)
  <2>1. PICK u, status : Answer(w, Summary("bulk_delete", u, status, {}))
    BY <1>4 DEF bulkDelete, BulkDelete
  <2> QED
    BY <2>1, ReplyKind, AnswerElsewhere
<1> QED
  BY <1>1, <1>2, <1>3, <1>4

LEMMA StepsNoPatch ==
    ASSUME RequestsConsistent, NEW w \in Workers,
           create(w) \/ bulkCreate(w) \/ get(w) \/ update(w) \/ delete(w) \/ bulkDelete(w)
    PROVE  NoPatch(w)
<1>1. CASE update(w)
  <2>1. ASSUME NEW u, NEW id, NEW v, NEW body, Update(w, u, id, v, body)
        PROVE  NoPatch(w)
    <3>1. \/ Continue(w, [op |-> "put", user |-> u, id |-> id, version |-> v,
                          p |-> Replaced(rows[id], body)])
          \/ \E err : Answer(w, Refusal("put", u, id, v, err))
      BY <2>1 DEF Update
    <3> QED
      BY <3>1, ReplyKind, AnswerNoPatch, ContinueNoPatch
  <2>2. CASE UpdateWrite(w)
    BY <2>2, ReplyKind, AnswerNoPatch DEF UpdateWrite
  <2> QED
    BY <1>1, <2>1, <2>2 DEF update
<1>2. CASE delete(w)
  <2>1. ASSUME NEW u, NEW id, NEW hard, NEW v, Delete(w, u, id, hard, v)
        PROVE  NoPatch(w)
    <3>1. \/ Continue(w, [op |-> "delete", user |-> u, id |-> id, version |-> v,
                          hard |-> hard])
          \/ \E err : Answer(w, Refusal("delete", u, id, v, err))
      BY <2>1 DEF Delete
    <3> QED
      BY <3>1, ReplyKind, AnswerNoPatch, ContinueNoPatch
  <2>2. CASE DeleteWrite(w)
    BY <2>2, ReplyKind, AnswerNoPatch DEF DeleteWrite
  <2> QED
    BY <1>2, <2>1, <2>2 DEF delete
<1>3. CASE create(w) \/ bulkCreate(w) \/ get(w) \/ bulkDelete(w)
  BY <1>3, StepsElsewhere DEF Elsewhere, NoPatch
<1> QED
  BY <1>1, <1>2, <1>3

\* The store never takes a version back, nor fills a place it has used.
LEMMA VersionsRise ==
    ASSUME Inv, [Next]_vars, PutFresh, NEW id \in Ids, id \in issued \ Reserved,
           Present(rows', id)
    PROVE  /\ Present(rows, id)
           /\ rows[id].version \in Nat /\ rows'[id].version \in Nat
           /\ rows[id].version <= rows'[id].version
<1>1. rows \in Table /\ rows' \in Table
  BY FactsOfInv
<1>2. CASE rows' = rows
  BY <1>1, <1>2 DEF Table, MaybeRow, Present, Row
<1>3. CASE VS!Next
  <2>1. PICK S \in SUBSET Ids :
           /\ \A x \in Ids \ S : rows'[x] = rows[x]
           /\ \/ \A x \in S : VS!Insert(x)
              \/ \E x \in S : S = {x} /\ VS!Edit(x)
              \/ \A x \in S : VS!Retire(x)
              \/ \A x \in S : VS!Erase(x)
    BY <1>3 DEF VS!Next
  <2>2. rows'[id] = rows[id] \/ VS!Edit(id) \/ VS!Retire(id)
    BY <2>1 DEF VS!Insert, VS!Erase, Present
  <2>3. Present(rows, id)
    BY <2>2 DEF VS!Edit, VS!Retire, Present
  <2>4. rows[id] \in Row /\ rows'[id] \in Row
    BY <1>1, <2>3 DEF Table, MaybeRow, Present
  <2>5. rows[id].version \in Nat /\ rows'[id].version \in Nat
    BY <2>4 DEF Row
  <2>6. CASE VS!Edit(id)
    BY <2>3, <2>5, <2>6 DEF VS!Edit
  <2>7. CASE VS!Retire(id)
    <3>1. PICK v \in {rows[id].version, rows[id].version + 1} :
             rows'[id] = [rows[id] EXCEPT !.deleted = TRUE, !.version = v]
      BY <2>7 DEF VS!Retire
    <3>2. rows'[id].version = v
      BY <2>4, <3>1 DEF Row
    <3> QED
      BY <2>3, <2>5, <3>1, <3>2
  <2> QED
    BY <2>2, <2>3, <2>5, <2>6, <2>7
<1> QED
  BY <1>2, <1>3, RefineNext DEF VS!svars

LEMMA PatchStepAhead ==
    ASSUME Inv, NEW w \in Workers, NEW u \in Users, NEW id \in Ids, NEW v \in Versions,
           NEW fields \in PatchBodies, Patch(w, u, id, v, fields)
    PROVE  \/ NoPatch(w)
           \/ /\ job' = [job EXCEPT ![w] = [op |-> "patch", user |-> u, id |-> id, version |-> v]]
              /\ AtVersion(rows, id, u, v)
              /\ v < rows'[id].version
              /\ out'.op # "patch"
<1> DEFINE j == [op |-> "patch", user |-> u, id |-> id, version |-> v]
           edits == Whitelisted(fields)
           hits == AtVersion(rows, id, u, v)
<1>1. CASE \E err : Answer(w, Refusal("patch", u, id, v, err))
  BY <1>1, ReplyKind, AnswerNoPatch
<1>2. CASE hits /\ Continue(w, j) /\ Exec("ok", hits, PatchRow(rows, id, edits))
  <2>1. rows \in Table /\ rows[id] \in Row /\ rows[id].version = v
    BY <1>2 DEF Inv, RequestsConsistent, TypeOK, Table, AtVersion, Owned, Present, MaybeRow
  <2>2. rows' = PatchRow(rows, id, edits)
    BY <1>2 DEF Exec
  <2>3. rows'[id].version = v + 1 /\ v \in Nat
    BY <2>1, <2>2 DEF PatchRow, Table, Row
  <2> QED
    BY <1>2, <2>3, ReplyKind DEF Continue
<1> QED
  BY <1>1, <1>2 DEF Patch

LEMMA PatchAheadStep ==
    ASSUME Inv, [Next]_vars, PutFresh, PatchAhead, PatchReadBack
    PROVE  PatchAhead' /\ PatchReadBack'
<1>0. RequestsConsistent /\ DOMAIN job = Workers
  BY DEF Inv, RequestsConsistent, TypeOK
\* Requests that wait meanwhile stay ahead.
<1>1. ASSUME NEW x \in Workers, job'[x] = job[x], job[x].op = "patch",
             Present(rows', job[x].id)
      PROVE  job[x].version < rows'[job[x].id].version
  <2>1. job[x] \in PatchJob /\ job[x].id \in issued \ Reserved
    BY <1>0, <1>1, JobTypes DEF RequestsConsistent, EditsOwned
  <2>2. job[x].id \in Ids /\ job[x].version \in Nat
    BY <2>1, ProfileAssumption DEF PatchJob
  <2> QED
    BY <1>1, <2>1, <2>2, VersionsRise DEF PatchAhead
<1>2. ASSUME NEW w \in Workers, NoPatch(w)
      PROVE  PatchAhead' /\ PatchReadBack'
  <2>1. /\ job'[w].op # "patch"
        /\ \A x \in Workers \ {w} : job'[x] = job[x]
    BY <1>0, <1>2 DEF NoPatch
  <2>2. PatchAhead'
    BY <1>1, <2>1 DEF PatchAhead, Present
  <2>3. PatchReadBack'
    BY <1>2 DEF NoPatch, PatchReadBack
  <2> QED
    BY <2>2, <2>3
<1>3. CASE UNCHANGED vars
  BY <1>3 DEF vars, PatchAhead, PatchReadBack, Present
<1>4. CASE Crash
  BY <1>4, ReplyKind DEF Crash, Idle, PatchAhead, PatchReadBack
<1>5. ASSUME NEW w \in Workers, NEW u \in Users, NEW id \in Ids, NEW v \in Versions,
             NEW fields \in PatchBodies, Patch(w, u, id, v, fields)
      PROVE  PatchAhead' /\ PatchReadBack'
  <2> DEFINE j == [op |-> "patch", user |-> u, id |-> id, version |-> v]
  <2>1. CASE job' = [job EXCEPT ![w] = j] /\ v < rows'[id].version /\ out'.op # "patch"
    <3>1. /\ job'[w] = j /\ j.id = id /\ j.version = v
          /\ \A x \in Workers \ {w} : job'[x] = job[x]
      BY <1>0, <2>1
    <3>2. PatchAhead'
      BY <1>1, <2>1, <3>1 DEF PatchAhead, Present
    <3> QED
      BY <2>1, <3>2 DEF PatchReadBack
  <2> QED
    BY <1>2, <1>5, <2>1, PatchStepAhead
<1>6. ASSUME NEW w \in Workers, PatchFetch(w)
      PROVE  PatchAhead' /\ PatchReadBack'
  <2>1. job[w].op = "patch" /\ \E r : Answer(w, r)
    BY <1>6 DEF PatchFetch, Serves
  <2>2. /\ job'[w] = Idle
        /\ \A x \in Workers \ {w} : job'[x] = job[x]
    BY <1>0, <2>1 DEF Answer
  <2>3. PatchAhead'
    BY <1>1, <2>2 DEF PatchAhead, Present, Idle
  <2>4. \/ out'.status # 200
        \/ /\ Present(rows, job[w].id)
           /\ out'.profile = rows[job[w].id] /\ out'.version = job[w].version
    BY <1>6, ReplyKind DEF PatchFetch, Answer, Reply
  <2>5. job[w] \in PatchJob /\ rows \in Table
    BY <1>0, <2>1, JobTypes DEF RequestsConsistent, TypeOK, Table
  <2>6. Present(rows, job[w].id) => rows[job[w].id].version \in Nat
    BY <2>5 DEF PatchJob, Table, MaybeRow, Present, Row
  <2>7. job[w].version \in Nat
    BY <2>5, ProfileAssumption DEF PatchJob
  <2>8. PatchReadBack'
    BY <2>1, <2>4, <2>6, <2>7 DEF PatchAhead, PatchReadBack
  <2> QED
    BY <2>3, <2>8
<1> QED
  BY <1>0, <1>2, <1>3, <1>4, <1>5, <1>6, StepsNoPatch DEF Next, patch

(***************************************************************************)
(* What a PATCH returns contains the patch, whoever else writes or deletes *)
(* the row before it is read back, as long as no PUT overlaps: a PUT may   *)
(* set the version back (service.go:122).                                  *)
(***************************************************************************)
THEOREM PatchIsReadBack ==
    ASSUME PutAlone
    PROVE  Spec => []PatchReadBack
<1>1. Init => PutFresh /\ PatchAhead /\ PatchReadBack
  BY ReplyKind DEF Init, PutFresh, PatchAhead, PatchReadBack, Idle
<1>2. Inv /\ PutFresh /\ [Next]_vars => PutFresh'
  BY PutFreshStep
<1>3. Inv /\ PutFresh /\ PatchAhead /\ PatchReadBack /\ [Next]_vars
        => PatchAhead' /\ PatchReadBack'
  BY PatchAheadStep
<1> QED
  BY <1>1, <1>2, <1>3, InvInit, InvStep, PTL DEF Spec

-----------------------------------------------------------------------------
(* One winner *)

\* The store has moved past every acknowledged edit.
WonBehind ==
    /\ won \subseteq Ids \X Nat
    /\ \A id \in Ids, v \in Nat : <<id, v>> \in won =>
          /\ id \in issued \ Reserved
          /\ Present(rows, id) => v < rows[id].version

\* A PATCH that waits for its second statement will be the first to succeed
\* with its version, and is alone with it.
Patching == {w \in Workers : job[w].op = "patch"}

PatchesOpen ==
    \A w \in Patching :
        /\ Edited(job[w]) \notin won
        /\ \A x \in Patching \ {w} : Edited(job[x]) # Edited(job[w])

WonInv == PutFresh /\ PatchAhead /\ PatchReadBack /\ WonBehind /\ PatchesOpen

\* The step replaces the version that it acknowledges.
Wins(reply) ==
    /\ reply.id \in Ids /\ Present(rows, reply.id)
    /\ reply.version = rows[reply.id].version
    /\ Present(rows', reply.id) => reply.version < rows'[reply.id].version

LEMMA UpdateWins ==
    ASSUME Inv, [Next]_vars, PutFresh, NEW w \in Workers, update(w), Succeeds(out')
    PROVE  Wins(out')
<1>1. CASE UpdateWrite(w)
  <2> DEFINE j == job[w]
  <2>0. rows \in Table /\ j \in PutJob
    BY <1>1, JobTypes, FactsOfInv DEF RequestsConsistent, UpdateWrite, Serves
  <2>1. /\ j.id \in Ids /\ j.p \in Row /\ Present(rows, j.id)
        /\ j.version = rows[j.id].version /\ j.p.version = rows[j.id].version + 1
    BY <1>1, <2>0 DEF PutJob, PutFresh, UpdateWrite, Serves
  <2>2. /\ out' = Reply("put", j.user, j.id, j.version, 200, j.p)
        /\ rows' = UpdateRow(rows, j.id, j.p)
    BY <1>1, ReplyKind DEF UpdateWrite, Exec, Answer, Succeeds
  <2> HIDE DEF j
  <2>3. out'.id = j.id /\ out'.version = j.version
    BY <2>2 DEF Reply
  <2>4. rows[j.id] \in Row
    BY <2>0, <2>1 DEF Table, MaybeRow, Present
  <2>5. rows'[j.id].version = rows[j.id].version + 1 /\ rows[j.id].version \in Nat
    BY <2>0, <2>1, <2>2, <2>4 DEF UpdateRow, Table, Row
  <2> QED
    BY <2>1, <2>3, <2>5 DEF Wins
<1>2. ASSUME NEW u, NEW id, NEW v, NEW body, Update(w, u, id, v, body)
      PROVE  FALSE
  <2>1. out' = NoReply \/ \E err : out' = Refusal("put", u, id, v, err)
    BY <1>2 DEF Update, Answer, Continue
  <2> QED
    BY <2>1, ReplyKind DEF Succeeds
<1> QED
  BY <1>1, <1>2 DEF update

LEMMA DeleteWins ==
    ASSUME Inv, [Next]_vars, NEW w \in Workers, delete(w), Succeeds(out')
    PROVE  Wins(out')
<1>1. CASE DeleteWrite(w)
  <2> DEFINE j == job[w]
  <2>0. rows \in Table /\ j \in DeleteJob
    BY <1>1, JobTypes, FactsOfInv DEF RequestsConsistent, DeleteWrite, Serves
  <2>1. /\ out' = Reply("delete", j.user, j.id, j.version, 204, NoRow)
        /\ AtVersion(rows, j.id, j.user, j.version)
        /\ rows' = HardDeleteRow(rows, j.id) \/ rows' = SoftDeleteRow(rows, j.id)
    BY <1>1, ReplyKind DEF DeleteWrite, Exec, Answer, Succeeds
  <2>2. j.id \in Ids /\ Present(rows, j.id) /\ j.version = rows[j.id].version
    BY <2>0, <2>1 DEF DeleteJob, AtVersion, Owned
  <2> HIDE DEF j
  <2>3. out'.id = j.id /\ out'.version = j.version
    BY <2>1 DEF Reply
  <2>4. rows[j.id] \in Row
    BY <2>0, <2>2 DEF Table, MaybeRow, Present
  <2>5. Present(rows', j.id) => rows[j.id].version < rows'[j.id].version
    <3>1. rows[j.id].version \in Nat
      BY <2>4 DEF Row
    <3>2. CASE rows' = HardDeleteRow(rows, j.id)
      BY <2>0, <2>2, <3>2 DEF HardDeleteRow, Table, Present
    <3>3. CASE rows' = SoftDeleteRow(rows, j.id)
      <4>1. rows'[j.id].version = rows[j.id].version + 1
        BY <2>0, <2>2, <2>4, <3>3 DEF SoftDeleteRow, Table, Row
      <4> QED
        BY <3>1, <4>1
    <3> QED
      BY <2>1, <3>2, <3>3
  <2> QED
    BY <2>2, <2>3, <2>5 DEF Wins
<1>2. ASSUME NEW u, NEW id, NEW hard, NEW v, Delete(w, u, id, hard, v)
      PROVE  FALSE
  <2>1. out' = NoReply \/ \E err : out' = Refusal("delete", u, id, v, err)
    BY <1>2 DEF Delete, Answer, Continue
  <2> QED
    BY <2>1, ReplyKind DEF Succeeds
<1> QED
  BY <1>1, <1>2 DEF delete

LEMMA PatchSilent ==
    ASSUME NEW w, NEW u, NEW id, NEW v, NEW fields, Patch(w, u, id, v, fields)
    PROVE  ~Succeeds(out')
<1>1. out' = NoReply \/ \E err : out' = Refusal("patch", u, id, v, err)
  BY DEF Patch, Answer, Continue
<1> QED
  BY <1>1, ReplyKind DEF Succeeds

\* Whatever a step does, the store stays past the edits acknowledged so far.
LEMMA WonKept ==
    ASSUME Inv, [Next]_vars, PutFresh, WonBehind, NEW id \in Ids, NEW v \in Nat,
           <<id, v>> \in won
    PROVE  /\ id \in (issued \ Reserved)'
           /\ Present(rows', id) => v < rows'[id].version
<1>1. id \in issued \ Reserved /\ (Present(rows, id) => v < rows[id].version)
  BY DEF WonBehind
<1>2. id \in (issued \ Reserved)'
  BY <1>1, FactsOfInv DEF SpentGrows
<1>3. ASSUME Present(rows', id) PROVE v < rows'[id].version
  BY <1>1, <1>3, VersionsRise
<1> QED
  BY <1>2, <1>3

\* A request that leaves no PATCH open acknowledges nothing, or an edit of the
\* stored version, which no PATCH and no earlier edit can have had.
LEMMA WonMoves ==
    ASSUME Inv, [Next]_vars, WonInv, NEW w \in Workers, NoPatch(w),
           won' = won \cup {Edited(r) : r \in {x \in {out'} : Succeeds(x)}},
           Succeeds(out') => Wins(out')
    PROVE  WonBehind' /\ PatchesOpen' /\ (Succeeds(out') => Edited(out') \notin won)
<1>0. RequestsConsistent /\ DOMAIN job = Workers /\ rows \in Table
  BY FactsOfInv DEF RequestsConsistent, TypeOK
<1>1. Patching' \subseteq Patching \ {w} /\ \A x \in Patching' : job'[x] = job[x]
  BY <1>0 DEF NoPatch, Patching
<1>2. CASE ~Succeeds(out')
  <2>1. won' = won
    BY <1>2
  <2>2. WonBehind'
    BY <2>1, WonKept DEF WonInv, WonBehind
  <2>3. PatchesOpen'
    BY <1>1, <2>1 DEF WonInv, PatchesOpen, Edited
  <2> QED
    BY <1>2, <2>2, <2>3
<1>3. CASE Succeeds(out')
  <2> DEFINE id == out'.id
             v == out'.version
  <2>1. /\ id \in Ids /\ Present(rows, id) /\ v = rows[id].version
        /\ Present(rows', id) => v < rows'[id].version
    BY <1>3 DEF Wins
  <2>2. v \in Nat
    BY <1>0, <2>1 DEF Table, MaybeRow, Present, Row
  <2>3. won' = won \cup {<<id, v>>} /\ Edited(out') = <<id, v>>
    BY <1>3 DEF Edited
  <2>4. id \in issued \ Reserved /\ id \in (issued \ Reserved)'
    BY <2>1, FactsOfInv DEF SpentGrows
  <2> HIDE DEF id, v
  <2>5. <<id, v>> \notin won
    BY <2>1, <2>2 DEF WonInv, WonBehind
  <2>6. WonBehind'
    <3>1. won' \subseteq Ids \X Nat
      BY <2>1, <2>2, <2>3 DEF WonInv, WonBehind
    <3>2. ASSUME NEW i \in Ids, NEW n \in Nat, <<i, n>> \in won'
          PROVE  /\ i \in (issued \ Reserved)'
                 /\ Present(rows', i) => n < rows'[i].version
      <4>1. CASE <<i, n>> \in won
        BY <4>1, WonKept DEF WonInv
      <4>2. CASE i = id /\ n = v
        BY <2>1, <2>4, <4>2
      <4> QED
        BY <2>3, <3>2, <4>1, <4>2
    <3> QED
      BY <3>1, <3>2 DEF WonBehind
  <2>7. ASSUME NEW x \in Patching
        PROVE  Edited(job[x]) # <<id, v>>
    <3>1. job[x].op = "patch" /\ x \in Workers
      BY DEF Patching
    <3>2. job[x].version \in Nat
      BY <1>0, <3>1, JobTypes, ProfileAssumption DEF RequestsConsistent, PatchJob
    <3>3. job[x].id = id => job[x].version < v
      BY <2>1, <3>1 DEF WonInv, PatchAhead
    <3> QED
      BY <2>2, <3>2, <3>3 DEF Edited
  <2>8. PatchesOpen'
    BY <1>1, <2>3, <2>7 DEF WonInv, PatchesOpen, Edited
  <2> QED
    BY <2>3, <2>5, <2>6, <2>8
<1> QED
  BY <1>2, <1>3

LEMMA WonPatch ==
    ASSUME Inv, [Next]_vars, WonInv, NEW w \in Workers, NEW u \in Users, NEW id \in Ids,
           NEW v \in Versions, NEW fields \in PatchBodies, Patch(w, u, id, v, fields),
           won' = won \cup {Edited(r) : r \in {x \in {out'} : Succeeds(x)}}
    PROVE  WonBehind' /\ PatchesOpen' /\ (Succeeds(out') => Edited(out') \notin won)
<1> DEFINE j == [op |-> "patch", user |-> u, id |-> id, version |-> v]
<1>0. RequestsConsistent /\ DOMAIN job = Workers /\ v \in Nat
  BY FactsOfInv, ProfileAssumption DEF RequestsConsistent, TypeOK
<1>1. ~Succeeds(out') /\ won' = won
  BY PatchSilent
<1>2. CASE NoPatch(w)
  BY <1>1, <1>2, WonMoves
<1>3. CASE job' = [job EXCEPT ![w] = j] /\ AtVersion(rows, id, u, v)
  <2>1. Present(rows, id) /\ rows[id].version = v
    BY <1>3 DEF AtVersion, Owned
  <2>2. <<id, v>> \notin won
    BY <1>0, <2>1 DEF WonInv, WonBehind
  <2>3. ASSUME NEW x \in Patching
        PROVE  Edited(job[x]) # <<id, v>>
    <3>1. job[x].op = "patch" /\ x \in Workers
      BY DEF Patching
    <3>2. job[x].version \in Nat
      BY <1>0, <3>1, JobTypes, ProfileAssumption DEF RequestsConsistent, PatchJob
    <3>3. job[x].id = id => job[x].version < v
      BY <2>1, <3>1 DEF WonInv, PatchAhead
    <3> QED
      BY <1>0, <3>2, <3>3 DEF Edited
  <2>4. /\ Edited(job'[w]) = <<id, v>>
        /\ \A x \in Patching' \ {w} : x \in Patching /\ job'[x] = job[x]
    BY <1>0, <1>3 DEF Edited, Patching
  <2>5. PatchesOpen'
    BY <1>1, <2>2, <2>3, <2>4 DEF WonInv, PatchesOpen, Edited
  <2>6. WonBehind'
    BY <1>1, WonKept DEF WonInv, WonBehind
  <2> QED
    BY <1>1, <2>5, <2>6
<1> QED
  BY <1>2, <1>3, PatchStepAhead

LEMMA WonFetch ==
    ASSUME Inv, [Next]_vars, WonInv, NEW w \in Workers, PatchFetch(w),
           won' = won \cup {Edited(r) : r \in {x \in {out'} : Succeeds(x)}}
    PROVE  WonBehind' /\ PatchesOpen' /\ (Succeeds(out') => Edited(out') \notin won)
<1> DEFINE id == job[w].id
           v == job[w].version
<1>0. RequestsConsistent /\ DOMAIN job = Workers /\ rows' = rows
  BY FactsOfInv DEF RequestsConsistent, TypeOK, PatchFetch
<1>1. w \in Patching /\ job[w] \in PatchJob /\ job[w].op = "patch"
  BY <1>0, JobTypes DEF PatchFetch, Serves, Patching, RequestsConsistent
<1>2. /\ id \in Ids /\ v \in Nat /\ id \in issued \ Reserved
      /\ Present(rows, id) => v < rows[id].version
  BY <1>0, <1>1, ProfileAssumption
  DEF PatchJob, RequestsConsistent, EditsOwned, WonInv, PatchAhead
<1>3. job' = [job EXCEPT ![w] = Idle]
  BY DEF PatchFetch, Answer
<1>4. Patching' \subseteq Patching \ {w} /\ \A x \in Patching' : job'[x] = job[x]
  BY <1>0, <1>3 DEF Patching, Idle
<1>5. ASSUME Succeeds(out') PROVE Edited(out') = <<id, v>> /\ won' = won \cup {<<id, v>>}
  <2>1. out' = Reply("patch", job[w].user, id, v, 200, rows[id])
    BY <1>5, ReplyKind DEF PatchFetch, Answer, Succeeds
  <2> QED
    BY <1>5, <2>1 DEF Reply, Edited
<1>6. won' = won \/ won' = won \cup {<<id, v>>}
  BY <1>5
<1>7. Edited(job[w]) = <<id, v>> /\ <<id, v>> \notin won
  BY <1>1 DEF WonInv, PatchesOpen, Edited
<1> HIDE DEF id, v
<1>8. WonBehind'
  <2>1. won' \subseteq Ids \X Nat
    BY <1>2, <1>6 DEF WonInv, WonBehind
  <2>2. ASSUME NEW i \in Ids, NEW n \in Nat, <<i, n>> \in won'
        PROVE  /\ i \in (issued \ Reserved)'
               /\ Present(rows', i) => n < rows'[i].version
    <3>1. CASE <<i, n>> \in won
      BY <3>1, WonKept DEF WonInv
    <3>2. CASE i = id /\ n = v
      BY <1>0, <1>2, <3>2, FactsOfInv DEF SpentGrows
    <3> QED
      BY <1>6, <2>2, <3>1, <3>2
  <2> QED
    BY <2>1, <2>2 DEF WonBehind
<1>9. PatchesOpen'
  BY <1>1, <1>4, <1>6, <1>7 DEF WonInv, PatchesOpen, Edited
<1> QED
  BY <1>5, <1>7, <1>8, <1>9

LEMMA WonStep ==
    ASSUME PutAlone, Inv, WonInv, [HNext]_hvars
    PROVE  WonInv' /\ [Succeeds(out') => Edited(out') \notin won]_hvars
<1>1. [Next]_vars
  BY DEF HNext, hvars
<1>2. PutFresh' /\ PatchAhead' /\ PatchReadBack'
  BY <1>1, PutFreshStep, PatchAheadStep DEF WonInv
<1> DEFINE Goal == WonBehind' /\ PatchesOpen' /\ (Succeeds(out') => Edited(out') \notin won)
<1>3. CASE UNCHANGED hvars
  <2>1. WonBehind' /\ PatchesOpen'
    BY <1>3 DEF hvars, vars, WonInv, WonBehind, PatchesOpen, Patching, Edited, Reserved,
                Pending, KeysOf, Present
  <2> QED
    BY <1>2, <1>3, <2>1 DEF WonInv
<1>4. CASE HNext
  <2>1. /\ Next
        /\ won' = won \cup {Edited(r) : r \in {x \in {out'} : Succeeds(x)}}
    BY <1>4 DEF HNext
  <2>2. ASSUME Crash PROVE Goal
    <3>1. ~Succeeds(out') /\ Patching' = {}
      BY <2>2, ReplyKind DEF Crash, Succeeds, Patching, Idle
    <3>2. won' = won
      BY <2>1, <3>1
    <3> QED
      BY <1>1, <3>1, <3>2, WonKept DEF WonInv, WonBehind, PatchesOpen
  <2>3. ASSUME NEW w \in Workers,
               create(w) \/ bulkCreate(w) \/ get(w) \/ bulkDelete(w)
        PROVE  Goal
    <3>1. Elsewhere(w) /\ NoPatch(w) /\ ~Succeeds(out')
      BY <1>1, <2>3, FactsOfInv, StepsElsewhere, StepsNoPatch DEF Elsewhere, Succeeds
    <3> QED
      BY <1>1, <2>1, <3>1, WonMoves
  <2>4. ASSUME NEW w \in Workers, update(w) \/ delete(w)
        PROVE  Goal
    <3>1. NoPatch(w) /\ (Succeeds(out') => Wins(out'))
      BY <1>1, <2>4, FactsOfInv, StepsNoPatch, UpdateWins, DeleteWins DEF WonInv
    <3> QED
      BY <1>1, <2>1, <3>1, WonMoves
  <2>5. ASSUME NEW w \in Workers, patch(w)
        PROVE  Goal
    BY <1>1, <2>1, <2>5, WonPatch, WonFetch DEF patch
  <2>6. Goal
    BY <2>1, <2>2, <2>3, <2>4, <2>5 DEF Next
  <2> QED
    BY <1>2, <2>6 DEF WonInv
<1> QED
  BY <1>3, <1>4

(***************************************************************************)
(* Of the clients that edited the same version of a profile, at most one   *)
(* is told that it succeeded, by PUT, PATCH or DELETE, for any number of   *)
(* overlapping requests, failed statements and crashes, as long as a PUT   *)
(* does not overlap another request (service.go:122).                      *)
(***************************************************************************)
THEOREM OneWinner ==
    ASSUME PutAlone
    PROVE  HSpec => AtMostOneWinner
<1>1. HInit => WonInv
  <2> SUFFICES ASSUME HInit
               PROVE  WonInv
    OBVIOUS
  <2>1. PutFresh /\ PatchAhead /\ PatchReadBack /\ Patching = {}
    BY ReplyKind
    DEF HInit, Init, PutFresh, PatchAhead, PatchReadBack, Patching, Idle
  <2> QED
    BY <2>1 DEF HInit, WonInv, WonBehind, PatchesOpen
<1>2. Inv /\ WonInv /\ [HNext]_hvars
        => WonInv' /\ [Succeeds(out') => Edited(out') \notin won]_hvars
  BY WonStep
<1>3. HInit => Inv
  BY InvInit DEF HInit
<1>4. Inv /\ [HNext]_hvars => Inv'
  BY InvStep DEF HNext, hvars
<1> QED
  BY <1>1, <1>2, <1>3, <1>4, PTL DEF HSpec, AtMostOneWinner
=============================================================================
