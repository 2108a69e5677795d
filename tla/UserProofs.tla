----------------------------- MODULE UserProofs -----------------------------
(***************************************************************************)
(* What UserService guarantees for any accounts, any number of concurrent  *)
(* requests and every set of faults.                                       *)
(***************************************************************************)
EXTENDS UserService, TLAPS

Table == [Ids -> User \cup {NoRow}]

\* Accounts stay, with their address and password.
Kept(t) ==
    \A id \in Ids : Present(rows, id) =>
        /\ Present(t, id)
        /\ t[id].email = rows[id].email
        /\ t[id].password = rows[id].password

\* What every step gives, beside the invariant.
StepGoal ==
    /\ AccountsConsistent'
    /\ Kept(rows')
    /\ TokensToOwner'
    /\ ConflictIsTrue'

Quiet == TokensToOwner' /\ ConflictIsTrue'

-----------------------------------------------------------------------------
(* The table *)

LEMMA UnionFields ==
    ASSUME NEW t \in Table, NEW id \in Ids, Present(t, id)
    PROVE  t[id] \in User
BY DEF Table, Present

LEMMA KeptRefl == Kept(rows)
BY DEF Kept

LEMMA InsertTable ==
    ASSUME rows \in Table, UniqueEmails, NEW id \in Ids, ~Present(rows, id),
           NEW u \in User, ~Taken(rows, u.email)
    PROVE  LET t == InsertRow(rows, id, u) IN
           /\ t \in Table /\ Kept(t) /\ Present(t, id)
           /\ t[id].email = u.email /\ t[id].password = u.password
           /\ \A a, b \in Ids : Present(t, a) /\ Present(t, b) /\ t[a].email = t[b].email
                                => a = b
<1> DEFINE n == [u EXCEPT !.readable = FALSE, !.seen = FALSE]
           t == InsertRow(rows, id, u)
<1>1. n \in User /\ n.email = u.email /\ n.password = u.password
  BY DEF User
<1>2. t = [rows EXCEPT ![id] = n]
  BY DEF InsertRow
<1> HIDE DEF n, t
<1>3. t \in Table /\ t[id] = n /\ \A a \in Ids \ {id} : t[a] = rows[a]
  BY <1>1, <1>2 DEF Table
<1>4. n # NoRow
  BY <1>1, UserAssumption
<1>5. Kept(t)
  BY <1>3 DEF Kept, Present
<1>6. Present(t, id)
  BY <1>3, <1>4 DEF Present
<1>7. ASSUME NEW a \in Ids, NEW b \in Ids, Present(t, a), Present(t, b),
             t[a].email = t[b].email
      PROVE  a = b
  <2>1. CASE a # id /\ b # id
    BY <1>3, <1>7, <2>1 DEF UniqueEmails, Present
  <2>2. CASE a = id /\ b # id
    BY <1>1, <1>3, <1>7, <2>2 DEF Taken, Present
  <2>3. CASE a # id /\ b = id
    BY <1>1, <1>3, <1>7, <2>3 DEF Taken, Present
  <2> QED
    BY <2>1, <2>2, <2>3
<1> QED
  BY <1>1, <1>3, <1>5, <1>6, <1>7 DEF t

LEMMA UpdateTable ==
    ASSUME rows \in Table, UniqueEmails, NEW id \in Ids, Present(rows, id),
           NEW u \in User, u.password = rows[id].password
    PROVE  LET t == UpdateRow(rows, id, u) IN
           /\ t \in Table /\ Kept(t)
           /\ \A a, b \in Ids : Present(t, a) /\ Present(t, b) /\ t[a].email = t[b].email
                                => a = b
<1> DEFINE n == [rows[id] EXCEPT !.name = u.name, !.image = u.image,
                                 !.password = u.password, !.seen = u.seen]
           t == UpdateRow(rows, id, u)
<1>1. rows[id] \in User
  BY UnionFields
<1>2. n \in User /\ n.email = rows[id].email /\ n.password = rows[id].password
  BY <1>1 DEF User
<1>3. t = [rows EXCEPT ![id] = n]
  BY DEF UpdateRow
<1> HIDE DEF n, t
<1>4. t \in Table /\ t[id] = n /\ \A a \in Ids \ {id} : t[a] = rows[a]
  BY <1>2, <1>3 DEF Table
<1>5. n # NoRow
  BY <1>2, UserAssumption
<1>6. \A a \in Ids : (Present(t, a) <=> Present(rows, a))
                     /\ (Present(t, a) => /\ t[a].email = rows[a].email
                                          /\ t[a].password = rows[a].password)
  BY <1>2, <1>4, <1>5 DEF Present
<1>7. Kept(t)
  BY <1>6 DEF Kept
<1>8. ASSUME NEW a \in Ids, NEW b \in Ids, Present(t, a), Present(t, b),
             t[a].email = t[b].email
      PROVE  a = b
  BY <1>6, <1>8 DEF UniqueEmails
<1> QED
  BY <1>4, <1>7, <1>8 DEF t

\* A request that agrees with the table agrees with every later one.
LEMMA AgreesLasts ==
    ASSUME NEW t, Kept(t), NEW j, Agrees(rows, j)
    PROVE  Agrees(t, j)
BY DEF Agrees, Kept

-----------------------------------------------------------------------------
(* Every step changes the request of one worker, and keeps the table well.  *)

LEMMA StepRule ==
    ASSUME AccountsConsistent, NEW w \in Workers, NEW j \in Jobs \cup {Idle},
           job' = [job EXCEPT ![w] = j], j # Idle => Agrees(rows', j),
           rows' \in Table, Kept(rows'), UniqueEmails', out' \in Replies,
           signedIn' \subseteq Ids, \A id \in signedIn' : Present(rows', id)
    PROVE  AccountsConsistent'
<1>1. TypeOK'
  BY DEF AccountsConsistent, TypeOK, Table
<1>2. ASSUME NEW v \in Workers, job'[v] # Idle
      PROVE  Agrees(rows', job'[v])
  <2>1. CASE v = w
    BY <1>2, <2>1 DEF AccountsConsistent, TypeOK
  <2>2. CASE v # w
    <3>1. job'[v] = job[v]
      BY <2>2 DEF AccountsConsistent, TypeOK
    <3>2. Agrees(rows, job[v])
      BY <1>2, <3>1 DEF AccountsConsistent
    <3> QED
      BY <3>1, <3>2, AgreesLasts
  <2> QED
    BY <2>1, <2>2
<1> QED
  BY <1>1, <1>2 DEF AccountsConsistent

\* The table and the sessions stay as they are.
LEMMA QuietRule ==
    ASSUME AccountsConsistent, NEW w \in Workers, NEW j \in Jobs \cup {Idle},
           job' = [job EXCEPT ![w] = j], j # Idle => Agrees(rows, j),
           rows' = rows, signedIn' = signedIn, out' \in Replies
    PROVE  AccountsConsistent' /\ Kept(rows')
<1>1. Kept(rows')
  BY KeptRefl
<1>2. rows' \in Table /\ UniqueEmails' /\ signedIn' \subseteq Ids
  BY DEF AccountsConsistent, TypeOK, Table, UniqueEmails, Present
<1>3. \A id \in signedIn' : Present(rows', id)
  BY DEF AccountsConsistent
<1> QED
  BY <1>1, <1>2, <1>3, StepRule

LEMMA RefusalType ==
    ASSUME NEW op \in OpNames, NEW status \in {401, 404, 409, 500},
           NEW email \in Emails \cup {Null}, NEW w, Refuse(w, op, status, email)
    PROVE  /\ job' = [job EXCEPT ![w] = Idle]
           /\ out' \in Replies /\ out'.status = status /\ out'.email = email
           /\ TokensToOwner'
BY DEF Refuse, Answer, Reply, Replies, TokensToOwner

LEMMA ContinueType ==
    ASSUME NEW w, NEW j, Continue(w, j)
    PROVE  /\ job' = [job EXCEPT ![w] = j] /\ out' \in Replies
           /\ Quiet
BY DEF Continue, NoReply, Replies, Quiet, TokensToOwner, ConflictIsTrue

LEMMA RequestType ==
    ASSUME NEW op \in OpNames, NEW step \in {"insert", "write", "issue"},
           NEW id \in Ids \cup {NoRow}, NEW u \in User,
           NEW email \in Emails \cup {Null}, NEW password \in Passwords \cup {Null}
    PROVE  LET j == Request(op, step, id, u, email, password) IN
           /\ j \in Jobs /\ j # Idle
           /\ j.op = op /\ j.step = step /\ j.id = id /\ j.user = u
           /\ j.email = email /\ j.password = password
BY DEF Request, Jobs, Idle

\* A request in progress.
LEMMA JobType ==
    ASSUME AccountsConsistent, NEW w \in Workers, job[w].step # "idle"
    PROVE  job[w] \in Jobs /\ job[w] # Idle /\ Agrees(rows, job[w])
BY DEF AccountsConsistent, TypeOK, Idle

-----------------------------------------------------------------------------
(* The steps *)

LEMMA RegisterStep ==
    ASSUME AccountsConsistent, NEW w \in Workers, NEW email \in Emails,
           NEW password \in Passwords, NEW name \in Names \cup {Markup},
           NEW image \in Images \cup {Null}, Register(w, email, password, name, image)
    PROVE  StepGoal
<1> DEFINE u == [email |-> email, name |-> name, image |-> image,
                 password |-> password, seen |-> FALSE, readable |-> FALSE]
           j == Request("register", "insert", NoRow, u, email, password)
<1>1. rows' = rows /\ signedIn' = signedIn
  BY DEF Register
<1>2. CASE Refuse(w, "register", 500, email)
  <2>1. job' = [job EXCEPT ![w] = Idle] /\ out' \in Replies /\ Quiet
    BY <1>2, RefusalType DEF OpNames, Quiet, ConflictIsTrue
  <2> QED
    BY <1>1, <2>1, QuietRule DEF StepGoal, Quiet
<1>3. CASE /\ \E a \in Ids : Readable(rows, a) /\ rows[a].email = email
           /\ Refuse(w, "register", 409, email)
  <2>1. job' = [job EXCEPT ![w] = Idle] /\ out' \in Replies /\ TokensToOwner'
        /\ out'.email = email
    BY <1>3, RefusalType DEF OpNames
  <2>2. ConflictIsTrue'
    BY <1>1, <1>3, <2>1 DEF ConflictIsTrue, Taken, Readable, Present
  <2> QED
    BY <1>1, <2>1, <2>2, QuietRule DEF StepGoal
<1>4. CASE name # Markup /\ Continue(w, j)
  <2>1. u \in User
    BY <1>4 DEF User
  <2>2. /\ j \in Jobs /\ j # Idle /\ j.op = "register" /\ j.step = "insert"
        /\ j.user = u /\ j.email = email /\ j.password = password
    BY <2>1, RequestType DEF OpNames
  <2>3. Agrees(rows, j)
    BY <2>2 DEF Agrees
  <2> HIDE DEF j
  <2>4. job' = [job EXCEPT ![w] = j] /\ out' \in Replies /\ Quiet
    BY <1>4, ContinueType
  <2> QED
    BY <1>1, <2>2, <2>3, <2>4, QuietRule DEF StepGoal, Quiet
<1>5. sanitize(name) # Blank => name # Markup
  BY DEF sanitize
<1> QED
  BY <1>2, <1>3, <1>4, <1>5 DEF Register

LEMMA InsertStep ==
    ASSUME AccountsConsistent, NEW w \in Workers, RegisterInsert(w)
    PROVE  StepGoal
<1> DEFINE j == job[w]
           taken == Taken(rows, j.email)
<1>1. j \in Jobs /\ j # Idle /\ Agrees(rows, j) /\ j.step = "insert" /\ signedIn' = signedIn
  BY JobType DEF RegisterInsert
<1>2. j.op = "register" /\ j.user.email = j.email /\ j.user.password = j.password
      /\ j.user \in User /\ j.email \in Emails
  BY <1>1 DEF Agrees, Jobs, User
<1>3. PICK id \in Ids, outcome \in Outcomes :
        /\ ~Present(rows, id)
        /\ IF taken THEN rows' = rows ELSE Exec(outcome, InsertRow(rows, id, j.user))
        /\ \/ /\ isDuplicate(taken, outcome)
              /\ Refuse(w, "register", 409, j.email)
           \/ /\ ~isDuplicate(taken, outcome) /\ outcome # "ok"
              /\ Refuse(w, "register", 500, j.email)
           \/ /\ ~isDuplicate(taken, outcome) /\ outcome = "ok"
              /\ Continue(w, [j EXCEPT !.step = "issue", !.id = id])
  BY DEF RegisterInsert
<1>4. rows \in Table /\ UniqueEmails
  BY DEF AccountsConsistent, TypeOK, Table
<1> DEFINE t == InsertRow(rows, id, j.user)
<1>5. ~taken => /\ t \in Table /\ Kept(t) /\ Present(t, id)
                /\ t[id].email = j.user.email /\ t[id].password = j.user.password
                /\ \A a, b \in Ids : Present(t, a) /\ Present(t, b) /\ t[a].email = t[b].email
                                     => a = b
  BY <1>2, <1>3, <1>4, InsertTable
<1>6. \/ rows' = rows
      \/ ~taken /\ rows' = t
  BY <1>3 DEF Exec
<1>7. outcome = "ok" /\ ~taken => rows' = t
  BY <1>3 DEF Exec
<1> HIDE DEF j, t
<1>8. rows' \in Table /\ Kept(rows') /\ UniqueEmails'
  <2>1. CASE rows' = rows
    BY <1>4, <2>1, KeptRefl DEF UniqueEmails, Present
  <2>2. CASE ~taken /\ rows' = t
    BY <1>5, <2>2 DEF UniqueEmails
  <2> QED
    BY <1>6, <2>1, <2>2
<1>9. signedIn' \subseteq Ids /\ \A a \in signedIn' : Present(rows', a)
  BY <1>1, <1>8 DEF AccountsConsistent, TypeOK, Kept
<1>10. CASE isDuplicate(taken, outcome) /\ Refuse(w, "register", 409, j.email)
  <2>1. job' = [job EXCEPT ![w] = Idle] /\ out' \in Replies /\ TokensToOwner'
        /\ out'.email = j.email
    BY <1>2, <1>10, RefusalType DEF OpNames
  <2>2. taken /\ rows' = rows
    BY <1>3, <1>10 DEF isDuplicate
  <2>3. ConflictIsTrue'
    BY <2>1, <2>2 DEF ConflictIsTrue, Taken, Present
  <2> QED
    BY <1>8, <1>9, <2>1, <2>3, StepRule DEF StepGoal
<1>11. CASE Refuse(w, "register", 500, j.email)
  <2>1. job' = [job EXCEPT ![w] = Idle] /\ out' \in Replies /\ Quiet
    BY <1>2, <1>11, RefusalType DEF OpNames, Quiet, ConflictIsTrue
  <2> QED
    BY <1>8, <1>9, <2>1, StepRule DEF StepGoal, Quiet
<1>12. CASE /\ ~isDuplicate(taken, outcome) /\ outcome = "ok"
            /\ Continue(w, [j EXCEPT !.step = "issue", !.id = id])
  <2> DEFINE k == [j EXCEPT !.step = "issue", !.id = id]
  <2>1. ~taken /\ rows' = t
    BY <1>7, <1>12 DEF isDuplicate
  <2>2. /\ k \in Jobs /\ k # Idle /\ k.op = "register" /\ k.step = "issue" /\ k.id = id
        /\ k.user = j.user /\ k.email = j.email /\ k.password = j.password
    BY <1>1, <1>2 DEF Jobs, Idle
  <2> HIDE DEF k
  <2>3. Agrees(rows', k)
    BY <1>2, <1>5, <2>1, <2>2 DEF Agrees
  <2>4. job' = [job EXCEPT ![w] = k] /\ out' \in Replies /\ Quiet
    BY <1>12, ContinueType DEF k
  <2> QED
    BY <1>8, <1>9, <2>2, <2>3, <2>4, StepRule DEF StepGoal, Quiet
<1> QED
  BY <1>3, <1>10, <1>11, <1>12

LEMMA LoginStep ==
    ASSUME AccountsConsistent, NEW w \in Workers, NEW email \in Emails,
           NEW password \in Passwords, Login(w, email, password)
    PROVE  StepGoal
<1>1. rows' = rows /\ signedIn' = signedIn /\ rows \in Table
  BY DEF Login, AccountsConsistent, TypeOK, Table
<1>2. ASSUME NEW id \in Ids, Readable(rows, id), rows[id].email = email,
             Matches(rows[id], password),
             Continue(w, Request("login", "write", id, [rows[id] EXCEPT !.seen = TRUE],
                                 email, password))
      PROVE  StepGoal
  <2> DEFINE u == [rows[id] EXCEPT !.seen = TRUE]
             j == Request("login", "write", id, u, email, password)
  <2>1. rows[id] \in User
    BY <1>1, <1>2, UnionFields DEF Readable
  <2>2. u \in User /\ u.email = email /\ u.password = password
        /\ u.password = rows[id].password
    BY <1>2, <2>1 DEF User, Matches
  <2>3. /\ j \in Jobs /\ j # Idle /\ j.op = "login" /\ j.step = "write" /\ j.id = id
        /\ j.user = u /\ j.email = email /\ j.password = password
    BY <2>2, RequestType DEF OpNames
  <2> HIDE DEF u
  <2>4. Agrees(rows, j)
    BY <1>2, <2>2, <2>3 DEF Agrees, Readable
  <2>5. job' = [job EXCEPT ![w] = j] /\ out' \in Replies /\ Quiet
    BY <1>2, ContinueType DEF u
  <2> HIDE DEF j
  <2> QED
    BY <1>1, <2>3, <2>4, <2>5, QuietRule DEF StepGoal, Quiet
<1>3. CASE Answer(w, Reply("login", 401, NoRow, email, password))
  <2>1. job' = [job EXCEPT ![w] = Idle] /\ out' \in Replies /\ Quiet
    BY <1>3 DEF Answer, Reply, Replies, OpNames, Quiet, TokensToOwner, ConflictIsTrue
  <2> QED
    BY <1>1, <2>1, QuietRule DEF StepGoal, Quiet
<1> QED
  BY <1>2, <1>3 DEF Login

\* A statement that writes back the struct of a request.
LEMMA WriteBack ==
    ASSUME AccountsConsistent, NEW w \in Workers, job[w].step = "write",
           NEW outcome \in Outcomes, signedIn' = signedIn,
           Exec(outcome, UpdateRow(rows, job[w].id, job[w].user))
    PROVE  /\ rows' \in Table /\ Kept(rows') /\ UniqueEmails'
           /\ signedIn' \subseteq Ids /\ \A a \in signedIn' : Present(rows', a)
<1> DEFINE j == job[w]
           t == UpdateRow(rows, j.id, j.user)
<1>1. j \in Jobs /\ j # Idle /\ Agrees(rows, j)
  BY JobType
<1>2. j.id \in Ids /\ Present(rows, j.id) /\ j.user \in User
      /\ j.user.password = rows[j.id].password
  BY <1>1 DEF Agrees, Jobs
<1>3. rows \in Table /\ UniqueEmails
  BY DEF AccountsConsistent, TypeOK, Table
<1>4. /\ t \in Table /\ Kept(t)
      /\ \A a, b \in Ids : Present(t, a) /\ Present(t, b) /\ t[a].email = t[b].email
                           => a = b
  BY <1>2, <1>3, UpdateTable
<1>5. rows' = rows \/ rows' = t
  BY DEF Exec
<1> HIDE DEF t
<1>6. rows' \in Table /\ Kept(rows') /\ UniqueEmails'
  BY <1>3, <1>4, <1>5, KeptRefl DEF UniqueEmails, Present
<1> QED
  BY <1>6 DEF AccountsConsistent, TypeOK, Kept

LEMMA LoginWriteStep ==
    ASSUME AccountsConsistent, NEW w \in Workers, LoginWrite(w)
    PROVE  StepGoal
<1> DEFINE j == job[w]
           k == [j EXCEPT !.step = "issue"]
<1>1. j.step = "write" /\ signedIn' = signedIn /\ Continue(w, k)
  BY DEF LoginWrite
<1>2. PICK outcome \in Outcomes : Exec(outcome, UpdateRow(rows, j.id, j.user))
  BY DEF LoginWrite
<1>3. /\ rows' \in Table /\ Kept(rows') /\ UniqueEmails'
      /\ signedIn' \subseteq Ids /\ \A a \in signedIn' : Present(rows', a)
  BY <1>1, <1>2, WriteBack
<1>4. j \in Jobs /\ j # Idle /\ Agrees(rows, j)
  BY <1>1, JobType
<1>5. Agrees(rows', j)
  BY <1>3, <1>4, AgreesLasts
<1> HIDE DEF j
<1>6. k \in Jobs /\ k # Idle /\ Agrees(rows', k)
  BY <1>1, <1>4, <1>5 DEF Jobs, Idle, Agrees
<1>7. job' = [job EXCEPT ![w] = k] /\ out' \in Replies /\ Quiet
  BY <1>1, ContinueType
<1> HIDE DEF k
<1> QED
  BY <1>3, <1>6, <1>7, StepRule DEF StepGoal, Quiet

LEMMA RefreshStep ==
    ASSUME AccountsConsistent, NEW w \in Workers, NEW id \in signedIn, Refresh(w, id)
    PROVE  StepGoal
<1>1. rows' = rows /\ signedIn' = signedIn /\ rows \in Table /\ id \in Ids
  BY DEF Refresh, AccountsConsistent, TypeOK, Table
<1>2. CASE /\ Readable(rows, id)
           /\ Continue(w, Request("refresh", "issue", id, rows[id], Null, Null))
  <2> DEFINE j == Request("refresh", "issue", id, rows[id], Null, Null)
  <2>1. rows[id] \in User
    BY <1>1, <1>2, UnionFields DEF Readable
  <2>2. /\ j \in Jobs /\ j # Idle /\ j.op = "refresh" /\ j.step = "issue" /\ j.id = id
        /\ j.user = rows[id] /\ j.email = Null
    BY <1>1, <2>1, RequestType DEF OpNames
  <2>3. Agrees(rows, j)
    BY <1>1, <1>2, <2>2 DEF Agrees, Readable
  <2>4. job' = [job EXCEPT ![w] = j] /\ out' \in Replies /\ Quiet
    BY <1>2, ContinueType
  <2> HIDE DEF j
  <2> QED
    BY <1>1, <2>2, <2>3, <2>4, QuietRule DEF StepGoal, Quiet
<1>3. CASE Refuse(w, "refresh", 401, Null)
  <2>1. job' = [job EXCEPT ![w] = Idle] /\ out' \in Replies /\ Quiet
    BY <1>3, RefusalType DEF OpNames, Quiet, ConflictIsTrue
  <2> QED
    BY <1>1, <2>1, QuietRule DEF StepGoal, Quiet
<1> QED
  BY <1>2, <1>3 DEF Refresh

LEMMA IssueStep ==
    ASSUME AccountsConsistent, NEW w \in Workers, IssueTokens(w)
    PROVE  StepGoal
<1> DEFINE j == job[w]
<1>1. j \in Jobs /\ j # Idle /\ Agrees(rows, j) /\ j.step = "issue" /\ rows' = rows
  BY JobType DEF IssueTokens
<1>2. /\ j.id \in Ids /\ Present(rows, j.id) /\ j.op \in OpNames
      /\ j.email \in Emails \cup {Null} /\ j.password \in Passwords \cup {Null}
      /\ j.op \in {"register", "login"} => /\ rows[j.id].email = j.email
                                           /\ rows[j.id].password = j.password
  BY <1>1 DEF Agrees, Jobs
<1>3. rows' \in Table /\ UniqueEmails' /\ Kept(rows')
  BY <1>1, KeptRefl DEF AccountsConsistent, TypeOK, Table, UniqueEmails, Present
<1>4. signedIn \subseteq Ids /\ \A a \in signedIn : Present(rows', a)
  BY <1>1 DEF AccountsConsistent, TypeOK
<1>5. CASE /\ signedIn' = signedIn \cup {j.id}
           /\ Answer(w, Reply(j.op, IF j.op = "register" THEN 201 ELSE 200,
                              j.id, j.email, j.password))
  <2>1. signedIn' \subseteq Ids /\ \A a \in signedIn' : Present(rows', a)
    BY <1>1, <1>2, <1>4, <1>5
  <2>2. /\ job' = [job EXCEPT ![w] = Idle]
        /\ out' = [op |-> j.op, status |-> IF j.op = "register" THEN 201 ELSE 200,
                   id |-> j.id, email |-> j.email, password |-> j.password]
    BY <1>5 DEF Answer, Reply
  <2> HIDE DEF j
  <2>3. out' \in Replies
    BY <1>2, <2>2 DEF Replies
  <2>4. Quiet
    BY <1>1, <1>2, <2>2 DEF Quiet, TokensToOwner, ConflictIsTrue, Present
  <2> QED
    BY <1>3, <2>1, <2>2, <2>3, <2>4, StepRule DEF StepGoal, Quiet
<1>6. CASE /\ signedIn' = signedIn
           /\ Refuse(w, j.op, IF j.op = "refresh" THEN 401 ELSE 500, j.email)
  <2>1. job' = [job EXCEPT ![w] = Idle] /\ out' \in Replies /\ Quiet
    BY <1>2, <1>6, RefusalType DEF Quiet, ConflictIsTrue
  <2> QED
    BY <1>1, <1>6, <2>1, QuietRule DEF StepGoal, Quiet
<1> QED
  BY <1>5, <1>6 DEF IssueTokens

LEMMA GetMeStep ==
    ASSUME AccountsConsistent, NEW w \in Workers, NEW id \in signedIn, GetMe(w, id)
    PROVE  StepGoal
<1>1. rows' = rows /\ signedIn' = signedIn /\ id \in Ids
  BY DEF GetMe, AccountsConsistent, TypeOK
<1>2. job' = [job EXCEPT ![w] = Idle] /\ out' \in Replies /\ Quiet
  <2>1. CASE Answer(w, Reply("getMe", 200, id, Null, Null))
    <3>1. /\ job' = [job EXCEPT ![w] = Idle]
          /\ out' = [op |-> "getMe", status |-> 200, id |-> id, email |-> Null,
                     password |-> Null]
      BY <2>1 DEF Answer, Reply
    <3> QED
      BY <1>1, <3>1 DEF Replies, OpNames, Quiet, TokensToOwner, ConflictIsTrue
  <2>2. CASE Refuse(w, "getMe", 404, Null)
    <3>1. "getMe" \in OpNames /\ Null \in Emails \cup {Null}
      BY DEF OpNames
    <3>2. /\ job' = [job EXCEPT ![w] = Idle] /\ out' \in Replies /\ out'.status = 404
          /\ TokensToOwner'
      BY <2>2, <3>1, RefusalType
    <3> QED
      BY <3>2 DEF Quiet, ConflictIsTrue
  <2> QED
    BY <2>1, <2>2 DEF GetMe
<1> QED
  BY <1>1, <1>2, QuietRule DEF StepGoal, Quiet

LEMMA UpdateMeStep ==
    ASSUME AccountsConsistent, NEW w \in Workers, NEW id \in signedIn,
           NEW name \in Names \cup {Markup}, NEW image \in Images \cup {Null},
           UpdateMe(w, id, name, image)
    PROVE  StepGoal
<1>1. rows' = rows /\ signedIn' = signedIn /\ rows \in Table /\ id \in Ids
  BY DEF UpdateMe, AccountsConsistent, TypeOK, Table
<1> DEFINE u == [rows[id] EXCEPT !.name = sanitize(name),
                                 !.image = IF image = Null THEN @ ELSE image]
           j == Request("updateMe", "write", id, u, Null, Null)
<1>2. CASE Readable(rows, id) /\ Continue(w, j)
  <2>1. rows[id] \in User
    BY <1>1, <1>2, UnionFields DEF Readable
  <2>2. sanitize(name) \in Names \cup {Blank}
    BY DEF sanitize
  <2>3. u \in User /\ u.email = rows[id].email /\ u.password = rows[id].password
    BY <2>1, <2>2 DEF User
  <2> HIDE DEF u
  <2>4. /\ j \in Jobs /\ j # Idle /\ j.op = "updateMe" /\ j.step = "write" /\ j.id = id
        /\ j.user = u /\ j.email = Null
    BY <1>1, <2>3, RequestType DEF OpNames
  <2>5. Agrees(rows, j)
    BY <1>1, <1>2, <2>3, <2>4 DEF Agrees, Readable
  <2>6. job' = [job EXCEPT ![w] = j] /\ out' \in Replies /\ Quiet
    BY <1>2, ContinueType
  <2> HIDE DEF j
  <2> QED
    BY <1>1, <2>4, <2>5, <2>6, QuietRule DEF StepGoal, Quiet
<1>3. CASE Refuse(w, "updateMe", 404, Null)
  <2>1. job' = [job EXCEPT ![w] = Idle] /\ out' \in Replies /\ Quiet
    BY <1>3, RefusalType DEF OpNames, Quiet, ConflictIsTrue
  <2> QED
    BY <1>1, <2>1, QuietRule DEF StepGoal, Quiet
<1> QED
  BY <1>2, <1>3 DEF UpdateMe

LEMMA UpdateMeWriteStep ==
    ASSUME AccountsConsistent, NEW w \in Workers, UpdateMeWrite(w)
    PROVE  StepGoal
<1> DEFINE j == job[w]
<1>1. j.step = "write" /\ signedIn' = signedIn
  BY DEF UpdateMeWrite
<1>2. PICK outcome \in Outcomes :
        /\ Exec(outcome, UpdateRow(rows, j.id, j.user))
        /\ Answer(w, Reply("updateMe", IF outcome = "ok" THEN 200 ELSE 500,
                           j.id, Null, Null))
  BY DEF UpdateMeWrite
<1>3. /\ rows' \in Table /\ Kept(rows') /\ UniqueEmails'
      /\ signedIn' \subseteq Ids /\ \A a \in signedIn' : Present(rows', a)
  BY <1>1, <1>2, WriteBack
<1>4. j.id \in Ids \cup {NoRow}
  BY <1>1, JobType DEF Jobs
<1> HIDE DEF j
<1>5. job' = [job EXCEPT ![w] = Idle] /\ out' \in Replies /\ Quiet
  BY <1>2, <1>4 DEF Answer, Reply, Replies, OpNames, Quiet, TokensToOwner, ConflictIsTrue
<1> QED
  BY <1>3, <1>5, StepRule DEF StepGoal, Quiet

LEMMA CrashStep ==
    ASSUME AccountsConsistent, Crash
    PROVE  StepGoal
<1>1. /\ rows' = rows /\ signedIn' = signedIn /\ out' = NoReply
      /\ job' = [w \in Workers |-> Idle]
  BY DEF Crash
<1>2. TypeOK' /\ UniqueEmails' /\ Kept(rows')
  BY <1>1, KeptRefl
     DEF AccountsConsistent, TypeOK, UniqueEmails, Present, NoReply, Replies
<1>3. AccountsConsistent'
  BY <1>1, <1>2 DEF AccountsConsistent
<1>4. TokensToOwner' /\ ConflictIsTrue'
  BY <1>1 DEF TokensToOwner, ConflictIsTrue, NoReply
<1> QED
  BY <1>2, <1>3, <1>4 DEF StepGoal

LEMMA NextStep ==
    ASSUME AccountsConsistent, Next
    PROVE  StepGoal
<1>1. CASE Crash
  BY <1>1, CrashStep
<1>2. ASSUME NEW w \in Workers, register(w)
      PROVE  StepGoal
  BY <1>2, RegisterStep, InsertStep DEF register
<1>3. ASSUME NEW w \in Workers, login(w)
      PROVE  StepGoal
  BY <1>3, LoginStep, LoginWriteStep DEF login
<1>4. ASSUME NEW w \in Workers, updateMe(w)
      PROVE  StepGoal
  BY <1>4, UpdateMeStep, UpdateMeWriteStep DEF updateMe
<1>5. ASSUME NEW w \in Workers, IssueTokens(w)
      PROVE  StepGoal
  BY <1>5, IssueStep
<1>6. ASSUME NEW w \in Workers, NEW id \in signedIn, Refresh(w, id) \/ GetMe(w, id)
      PROVE  StepGoal
  BY <1>6, RefreshStep, GetMeStep
<1> QED
  BY <1>1, <1>2, <1>3, <1>4, <1>5, <1>6 DEF Next

LEMMA InitHolds ==
    ASSUME Init
    PROVE  AccountsConsistent /\ TokensToOwner /\ ConflictIsTrue
<1>1. rows \in Table
  BY UserAssumption DEF Init, Table
<1>2. TypeOK
  BY <1>1 DEF Init, TypeOK, Table, NoReply, Replies
<1>3. UniqueEmails
  BY UserAssumption DEF Init, UniqueEmails, Present
<1>4. AccountsConsistent
  BY <1>2, <1>3 DEF Init, AccountsConsistent
<1> QED
  BY <1>4 DEF Init, TokensToOwner, ConflictIsTrue, NoReply

LEMMA StutterHolds ==
    ASSUME AccountsConsistent, UNCHANGED vars
    PROVE  AccountsConsistent' /\ Kept(rows')
<1>1. Kept(rows')
  BY KeptRefl DEF vars
<1>2. TypeOK' /\ UniqueEmails'
  BY DEF vars, AccountsConsistent, TypeOK, UniqueEmails, Present
<1> QED
  BY <1>1, <1>2 DEF vars, AccountsConsistent

-----------------------------------------------------------------------------
(* The theorems *)

(***************************************************************************)
(* Accounts are well formed, no two share an address, and what requests    *)
(* remember agrees with the table (user/service.go:56-183).                *)
(***************************************************************************)
THEOREM Accounts == Spec => []AccountsConsistent
<1>1. Init => AccountsConsistent
  BY InitHolds
<1>2. AccountsConsistent /\ [Next]_vars => AccountsConsistent'
  BY NextStep, StutterHolds DEF StepGoal
<1> QED
  BY <1>1, <1>2, PTL DEF Spec

(***************************************************************************)
(* Register and Login (user/service.go:56,108) give tokens only to a       *)
(* client that sent the account's address and password.                    *)
(***************************************************************************)
THEOREM Sessions == Spec => []TokensToOwner
<1>1. Init => TokensToOwner
  BY InitHolds
<1>2. AccountsConsistent /\ TokensToOwner /\ [Next]_vars => TokensToOwner'
  <2>1. ASSUME TokensToOwner, UNCHANGED vars
        PROVE  TokensToOwner'
    BY <2>1 DEF vars, TokensToOwner, Present
  <2> QED
    BY <2>1, NextStep DEF StepGoal
<1> QED
  BY <1>1, <1>2, Accounts, PTL DEF Spec

(***************************************************************************)
(* A 409 of Register (user/service.go:68,89) is true when it is sent.      *)
(***************************************************************************)
THEOREM Conflicts == Spec => []ConflictIsTrue
<1>1. Init => ConflictIsTrue
  BY InitHolds
<1>2. AccountsConsistent /\ ConflictIsTrue /\ [Next]_vars => ConflictIsTrue'
  <2>1. ASSUME ConflictIsTrue, UNCHANGED vars
        PROVE  ConflictIsTrue'
    BY <2>1 DEF vars, ConflictIsTrue, Taken, Present
  <2> QED
    BY <2>1, NextStep DEF StepGoal
<1> QED
  BY <1>1, <1>2, Accounts, PTL DEF Spec

(***************************************************************************)
(* The whole-row UPDATE of user_repository.go:36 never changes an address  *)
(* or a password, however stale the struct that it writes back.            *)
(***************************************************************************)
THEOREM Identities == Spec => IdentityKept
<1>1. AccountsConsistent /\ [Next]_vars
      => [\A id \in Ids : Present(rows, id) =>
             /\ Present(rows', id)
             /\ rows'[id].email = rows[id].email
             /\ rows'[id].password = rows[id].password]_vars
  BY NextStep, StutterHolds DEF StepGoal, Kept
<1> QED
  BY <1>1, Accounts, PTL DEF Spec, IdentityKept

-----------------------------------------------------------------------------
(***************************************************************************)
(* Who comes back.  A NULL last_password_hash (user/model.go:20) hides a   *)
(* row from every SELECT, and no statement fills it in, so the accounts    *)
(* that can be read are those that could be at the start.                  *)
(***************************************************************************)

\* Accounts that were imported with a last_password_hash.
Returning(id) == id \in DOMAIN Imported /\ Imported[id].readable

\* A request has read the account that it goes on with, or has just stored it.
HasRead(j) == j.step \in {"write", "issue"} /\ j.op # "register" => Returning(j.id)

ReadersFixed(t) ==
    /\ \A id \in Ids : Readable(t, id) <=> Returning(id)
    /\ \A id \in DOMAIN Imported : Present(t, id)

ReaderInv ==
    /\ ReadersFixed(rows)
    /\ \A w \in Workers : job[w] # Idle => HasRead(job[w])

\* Only imported accounts get an answer other than that of their registration.
OnlyImportedReturn == out.status = 200 => Returning(out.id)

\* No login with the address and password of an imported account fails.
ImportedLogsIn ==
    out.op = "login" /\ out.status # 200 =>
        \A id \in Ids : Returning(id) /\ rows[id].email = out.email
                        => rows[id].password # out.password

\* What every step does about it.
ReaderGoal ==
    /\ ReadersFixed(rows')
    /\ \A w \in Workers : job'[w] # job[w] /\ job'[w] # Idle => HasRead(job'[w])
    /\ OnlyImportedReturn'
    /\ Faults = {} => ImportedLogsIn'

Unrelated == OnlyImportedReturn' /\ (Faults = {} => ImportedLogsIn')

LEMMA InsertUnread ==
    ASSUME rows \in Table, ReadersFixed(rows), NEW id \in Ids, ~Present(rows, id),
           NEW u \in User
    PROVE  ReadersFixed(InsertRow(rows, id, u))
<1> DEFINE n == [u EXCEPT !.readable = FALSE, !.seen = FALSE]
           t == InsertRow(rows, id, u)
<1>1. n \in User /\ ~n.readable
  BY DEF User
<1>2. t = [rows EXCEPT ![id] = n]
  BY DEF InsertRow
<1> HIDE DEF n, t
<1>3. t[id] = n /\ \A a \in Ids \ {id} : t[a] = rows[a]
  BY <1>2 DEF Table
<1>4. id \notin DOMAIN Imported /\ ~Returning(id)
  BY DEF ReadersFixed, Returning
<1>5. DOMAIN Imported \subseteq Ids
  BY UserAssumption
<1>6. ReadersFixed(t)
  BY <1>1, <1>3, <1>4, <1>5 DEF ReadersFixed, Readable, Present
<1> QED
  BY <1>6 DEF t

LEMMA UpdateUnread ==
    ASSUME rows \in Table, ReadersFixed(rows), NEW id \in Ids, Present(rows, id),
           NEW u \in User
    PROVE  ReadersFixed(UpdateRow(rows, id, u))
<1> DEFINE n == [rows[id] EXCEPT !.name = u.name, !.image = u.image,
                                 !.password = u.password, !.seen = u.seen]
           t == UpdateRow(rows, id, u)
<1>1. rows[id] \in User
  BY UnionFields
<1>2. n \in User /\ n.readable = rows[id].readable
  BY <1>1 DEF User
<1>3. t = [rows EXCEPT ![id] = n]
  BY DEF UpdateRow
<1> HIDE DEF n, t
<1>4. t[id] = n /\ \A a \in Ids \ {id} : t[a] = rows[a]
  BY <1>3 DEF Table
<1>5. n # NoRow /\ DOMAIN Imported \subseteq Ids
  BY <1>2, UserAssumption
<1>6. ReadersFixed(t)
  BY <1>2, <1>4, <1>5 DEF ReadersFixed, Readable, Present
<1> QED
  BY <1>6 DEF t

\* The step changes the request of one worker.
LEMMA OneRequest ==
    ASSUME AccountsConsistent, NEW w \in Workers, NEW j, job' = [job EXCEPT ![w] = j],
           j # Idle => HasRead(j)
    PROVE  \A v \in Workers : job'[v] # job[v] /\ job'[v] # Idle => HasRead(job'[v])
BY DEF AccountsConsistent, TypeOK

LEMMA ContinueUnread ==
    ASSUME NEW w, NEW j, Continue(w, j)
    PROVE  job' = [job EXCEPT ![w] = j] /\ Unrelated
BY DEF Continue, NoReply, Unrelated, OnlyImportedReturn, ImportedLogsIn

LEMMA RegisterUnread ==
    ASSUME AccountsConsistent, ReaderInv, NEW w \in Workers, register(w)
    PROVE  ReaderGoal
<1>1. rows \in Table /\ ReadersFixed(rows)
  BY DEF AccountsConsistent, TypeOK, Table, ReaderInv
<1>2. ASSUME NEW email \in Emails, NEW password \in Passwords,
             NEW name \in Names \cup {Markup}, NEW image \in Images \cup {Null},
             Register(w, email, password, name, image)
      PROVE  ReaderGoal
  <2> DEFINE j == Request("register", "insert", NoRow,
                    [email |-> email, name |-> name, image |-> image,
                     password |-> password, seen |-> FALSE, readable |-> FALSE],
                    email, password)
  <2>1. rows' = rows
    BY <1>2 DEF Register
  <2>2. ASSUME NEW status \in {409, 500}, Refuse(w, "register", status, email)
        PROVE  ReaderGoal
    <3>1. job' = [job EXCEPT ![w] = Idle] /\ Unrelated
      BY <2>2 DEF Refuse, Answer, Reply, Unrelated, OnlyImportedReturn, ImportedLogsIn
    <3> QED
      BY <1>1, <2>1, <3>1, OneRequest DEF ReaderGoal, Unrelated
  <2>3. CASE Continue(w, j)
    <3>1. HasRead(j)
      BY DEF HasRead, Request
    <3> HIDE DEF j
    <3>2. job' = [job EXCEPT ![w] = j] /\ Unrelated
      BY <2>3, ContinueUnread
    <3> QED
      BY <1>1, <2>1, <3>1, <3>2, OneRequest DEF ReaderGoal, Unrelated
  <2> QED
    BY <1>2, <2>2, <2>3 DEF Register
<1>3. CASE RegisterInsert(w)
  <2> DEFINE j == job[w]
             taken == Taken(rows, j.email)
             k(id) == [j EXCEPT !.step = "issue", !.id = id]
  <2>1. j \in Jobs /\ Agrees(rows, j) /\ j.step = "insert"
    BY <1>3, JobType DEF RegisterInsert
  <2>2. j.op = "register" /\ j.user \in User
    BY <2>1 DEF Agrees, Jobs
  <2>3. PICK id \in Ids, outcome \in Outcomes :
          /\ ~Present(rows, id)
          /\ IF taken THEN rows' = rows ELSE Exec(outcome, InsertRow(rows, id, j.user))
          /\ \/ Refuse(w, "register", 409, j.email)
             \/ Refuse(w, "register", 500, j.email)
             \/ Continue(w, k(id))
    BY <1>3 DEF RegisterInsert
  <2>4. rows' = rows \/ rows' = InsertRow(rows, id, j.user)
    BY <2>3 DEF Exec
  <2>5. ReadersFixed(rows')
    BY <1>1, <2>2, <2>3, <2>4, InsertUnread
  <2>6. HasRead(k(id))
    BY <2>1, <2>2 DEF HasRead, Jobs
  <2> HIDE DEF j, k
  <2>7. ASSUME NEW status \in {409, 500}, Refuse(w, "register", status, j.email)
        PROVE  ReaderGoal
    <3>1. job' = [job EXCEPT ![w] = Idle] /\ Unrelated
      BY <2>7 DEF Refuse, Answer, Reply, Unrelated, OnlyImportedReturn, ImportedLogsIn
    <3> QED
      BY <2>5, <3>1, OneRequest DEF ReaderGoal, Unrelated
  <2>8. CASE Continue(w, k(id))
    <3>1. job' = [job EXCEPT ![w] = k(id)] /\ Unrelated
      BY <2>8, ContinueUnread
    <3> QED
      BY <2>5, <2>6, <3>1, OneRequest DEF ReaderGoal, Unrelated
  <2> QED
    BY <2>3, <2>7, <2>8
<1> QED
  BY <1>2, <1>3 DEF register

LEMMA LoginUnread ==
    ASSUME AccountsConsistent, ReaderInv, NEW w \in Workers, login(w)
    PROVE  ReaderGoal
<1>1. rows \in Table /\ ReadersFixed(rows)
  BY DEF AccountsConsistent, TypeOK, Table, ReaderInv
<1>2. ASSUME NEW email \in Emails, NEW password \in Passwords, Login(w, email, password)
      PROVE  ReaderGoal
  <2>1. rows' = rows
    BY <1>2 DEF Login
  <2>2. ASSUME NEW id \in Ids, Readable(rows, id),
               Continue(w, Request("login", "write", id, [rows[id] EXCEPT !.seen = TRUE],
                                   email, password))
        PROVE  ReaderGoal
    <3> DEFINE j == Request("login", "write", id, [rows[id] EXCEPT !.seen = TRUE],
                            email, password)
    <3>1. HasRead(j)
      BY <1>1, <2>2 DEF HasRead, Request, ReadersFixed
    <3>2. job' = [job EXCEPT ![w] = j] /\ Unrelated
      BY <2>2, ContinueUnread
    <3> HIDE DEF j
    <3> QED
      BY <1>1, <2>1, <3>1, <3>2, OneRequest DEF ReaderGoal, Unrelated
  <2>3. ASSUME \/ "refused" \in Faults
               \/ \A id \in Ids : Readable(rows, id) /\ rows[id].email = email
                                  => ~Matches(rows[id], password),
               Answer(w, Reply("login", 401, NoRow, email, password))
        PROVE  ReaderGoal
    <3>1. /\ job' = [job EXCEPT ![w] = Idle]
          /\ out'.status = 401 /\ out'.email = email /\ out'.password = password
      BY <2>3 DEF Answer, Reply
    <3>2. OnlyImportedReturn'
      BY <3>1 DEF OnlyImportedReturn
    <3>3. Faults = {} => ImportedLogsIn'
      BY <1>1, <2>1, <2>3, <3>1 DEF ImportedLogsIn, ReadersFixed, Matches
    <3> QED
      BY <1>1, <2>1, <3>1, <3>2, <3>3, OneRequest DEF ReaderGoal
  <2> QED
    BY <1>2, <2>2, <2>3 DEF Login
<1>3. CASE LoginWrite(w)
  <2> DEFINE j == job[w]
             k == [j EXCEPT !.step = "issue"]
  <2>1. j \in Jobs /\ j # Idle /\ Agrees(rows, j) /\ j.step = "write"
    BY <1>3, JobType DEF LoginWrite
  <2>2. j.op = "login" /\ j.id \in Ids /\ Present(rows, j.id) /\ j.user \in User
        /\ HasRead(j)
    BY <1>3, <2>1 DEF LoginWrite, Agrees, Jobs, ReaderInv
  <2>3. rows' = rows \/ rows' = UpdateRow(rows, j.id, j.user)
    BY <1>3 DEF LoginWrite, Exec
  <2>4. ReadersFixed(rows')
    BY <1>1, <2>2, <2>3, UpdateUnread
  <2>5. HasRead(k)
    BY <2>1, <2>2 DEF HasRead, Jobs
  <2>6. job' = [job EXCEPT ![w] = k] /\ Unrelated
    BY <1>3, ContinueUnread DEF LoginWrite
  <2> HIDE DEF k
  <2> QED
    BY <2>4, <2>5, <2>6, OneRequest DEF ReaderGoal, Unrelated
<1> QED
  BY <1>2, <1>3 DEF login

LEMMA UpdateMeUnread ==
    ASSUME AccountsConsistent, ReaderInv, NEW w \in Workers, updateMe(w)
    PROVE  ReaderGoal
<1>1. rows \in Table /\ ReadersFixed(rows) /\ signedIn \subseteq Ids
  BY DEF AccountsConsistent, TypeOK, Table, ReaderInv
<1>2. ASSUME NEW id \in signedIn, NEW name \in Names \cup {Markup},
             NEW image \in Images \cup {Null}, UpdateMe(w, id, name, image)
      PROVE  ReaderGoal
  <2> DEFINE j == Request("updateMe", "write", id,
                    [rows[id] EXCEPT !.name = sanitize(name),
                                     !.image = IF image = Null THEN @ ELSE image],
                    Null, Null)
  <2>1. rows' = rows
    BY <1>2 DEF UpdateMe
  <2>2. CASE Readable(rows, id) /\ Continue(w, j)
    <3>1. HasRead(j)
      BY <1>1, <2>2 DEF HasRead, Request, ReadersFixed
    <3>2. job' = [job EXCEPT ![w] = j] /\ Unrelated
      BY <2>2, ContinueUnread
    <3> HIDE DEF j
    <3> QED
      BY <1>1, <2>1, <3>1, <3>2, OneRequest DEF ReaderGoal, Unrelated
  <2>3. CASE Refuse(w, "updateMe", 404, Null)
    <3>1. job' = [job EXCEPT ![w] = Idle] /\ Unrelated
      BY <2>3 DEF Refuse, Answer, Reply, Unrelated, OnlyImportedReturn, ImportedLogsIn
    <3> QED
      BY <1>1, <2>1, <3>1, OneRequest DEF ReaderGoal, Unrelated
  <2> QED
    BY <1>2, <2>2, <2>3 DEF UpdateMe
<1>3. CASE UpdateMeWrite(w)
  <2> DEFINE j == job[w]
  <2>1. j \in Jobs /\ j # Idle /\ Agrees(rows, j) /\ j.step = "write"
    BY <1>3, JobType DEF UpdateMeWrite
  <2>2. j.op = "updateMe" /\ j.id \in Ids /\ Present(rows, j.id) /\ j.user \in User
        /\ Returning(j.id)
    BY <1>3, <2>1 DEF UpdateMeWrite, Agrees, Jobs, ReaderInv, HasRead
  <2>3. PICK outcome \in Outcomes :
          /\ Exec(outcome, UpdateRow(rows, j.id, j.user))
          /\ Answer(w, Reply("updateMe", IF outcome = "ok" THEN 200 ELSE 500,
                             j.id, Null, Null))
    BY <1>3 DEF UpdateMeWrite
  <2>4. ReadersFixed(rows')
    BY <1>1, <2>2, <2>3, UpdateUnread DEF Exec
  <2>5. job' = [job EXCEPT ![w] = Idle] /\ Unrelated
    BY <2>2, <2>3 DEF Answer, Reply, Unrelated, OnlyImportedReturn, ImportedLogsIn
  <2> QED
    BY <2>4, <2>5, OneRequest DEF ReaderGoal, Unrelated
<1> QED
  BY <1>2, <1>3 DEF updateMe

LEMMA IssueUnread ==
    ASSUME AccountsConsistent, ReaderInv, NEW w \in Workers, IssueTokens(w)
    PROVE  ReaderGoal
<1> DEFINE j == job[w]
<1>1. j \in Jobs /\ j # Idle /\ j.step = "issue" /\ rows' = rows /\ HasRead(j)
  BY JobType DEF IssueTokens, ReaderInv
<1>2. CASE Answer(w, Reply(j.op, IF j.op = "register" THEN 201 ELSE 200,
                           j.id, j.email, j.password))
  <2>1. job' = [job EXCEPT ![w] = Idle] /\ Unrelated
    BY <1>1, <1>2 DEF Answer, Reply, HasRead, Unrelated, OnlyImportedReturn, ImportedLogsIn
  <2> QED
    BY <1>1, <2>1, OneRequest DEF ReaderGoal, Unrelated, ReaderInv
<1>3. CASE /\ Faults # {} \/ j.op = "refresh"
           /\ Refuse(w, j.op, IF j.op = "refresh" THEN 401 ELSE 500, j.email)
  <2>1. job' = [job EXCEPT ![w] = Idle] /\ Unrelated
    BY <1>3 DEF Refuse, Answer, Reply, Unrelated, OnlyImportedReturn, ImportedLogsIn
  <2> QED
    BY <1>1, <2>1, OneRequest DEF ReaderGoal, Unrelated, ReaderInv
<1> QED
  BY <1>2, <1>3 DEF IssueTokens

LEMMA SessionUnread ==
    ASSUME AccountsConsistent, ReaderInv, NEW w \in Workers, NEW id \in signedIn,
           Refresh(w, id) \/ GetMe(w, id)
    PROVE  ReaderGoal
<1>1. rows' = rows /\ ReadersFixed(rows) /\ id \in Ids
  BY DEF Refresh, GetMe, AccountsConsistent, TypeOK, ReaderInv
<1>2. CASE /\ Readable(rows, id)
           /\ Continue(w, Request("refresh", "issue", id, rows[id], Null, Null))
  <2> DEFINE j == Request("refresh", "issue", id, rows[id], Null, Null)
  <2>1. HasRead(j)
    BY <1>1, <1>2 DEF HasRead, Request, ReadersFixed
  <2>2. job' = [job EXCEPT ![w] = j] /\ Unrelated
    BY <1>2, ContinueUnread
  <2> HIDE DEF j
  <2> QED
    BY <1>1, <2>1, <2>2, OneRequest DEF ReaderGoal, Unrelated
<1>3. CASE Readable(rows, id) /\ Answer(w, Reply("getMe", 200, id, Null, Null))
  <2>1. job' = [job EXCEPT ![w] = Idle] /\ Unrelated
    BY <1>1, <1>3
       DEF Answer, Reply, ReadersFixed, Unrelated, OnlyImportedReturn, ImportedLogsIn
  <2> QED
    BY <1>1, <2>1, OneRequest DEF ReaderGoal, Unrelated
<1>4. CASE Refuse(w, "refresh", 401, Null) \/ Refuse(w, "getMe", 404, Null)
  <2>1. job' = [job EXCEPT ![w] = Idle] /\ Unrelated
    BY <1>4 DEF Refuse, Answer, Reply, Unrelated, OnlyImportedReturn, ImportedLogsIn
  <2> QED
    BY <1>1, <2>1, OneRequest DEF ReaderGoal, Unrelated
<1> QED
  BY <1>2, <1>3, <1>4 DEF Refresh, GetMe

LEMMA ReaderStep ==
    ASSUME AccountsConsistent, ReaderInv, Next
    PROVE  ReaderGoal
<1>1. CASE Crash
  <2>1. rows' = rows /\ out' = NoReply /\ \A w \in Workers : job'[w] = Idle
    BY <1>1 DEF Crash
  <2>2. Unrelated
    BY <2>1 DEF NoReply, Unrelated, OnlyImportedReturn, ImportedLogsIn
  <2> QED
    BY <2>1, <2>2 DEF ReaderGoal, ReaderInv, Unrelated
<1> QED
  BY <1>1, RegisterUnread, LoginUnread, UpdateMeUnread, IssueUnread, SessionUnread DEF Next

LEMMA ReaderInduction == Spec => []ReaderInv
<1>1. Init => ReaderInv
  BY UserAssumption DEF Init, ReaderInv, ReadersFixed, Readable, Present, Returning, User
<1>2. AccountsConsistent /\ ReaderInv /\ [Next]_vars => ReaderInv'
  <2>1. ASSUME ReaderInv, UNCHANGED vars
        PROVE  ReaderInv'
    BY <2>1 DEF vars, ReaderInv
  <2>2. ASSUME AccountsConsistent, ReaderInv, Next
        PROVE  ReaderInv'
    BY <2>2, ReaderStep DEF ReaderGoal, ReaderInv
  <2> QED
    BY <2>1, <2>2
<1> QED
  BY <1>1, <1>2, Accounts, PTL DEF Spec

(***************************************************************************)
(* Nobody who registered through the service ever logs in, refreshes a     *)
(* token or sees an account: every answer 200 is for an account that was   *)
(* imported with a last_password_hash (user/model.go:20,                   *)
(* user_repository.go:21), whatever requests overlap or fail.              *)
(***************************************************************************)
THEOREM RegistrantsLockedOut == Spec => []OnlyImportedReturn
<1>1. Init => OnlyImportedReturn
  BY DEF Init, NoReply, OnlyImportedReturn
<1>2. AccountsConsistent /\ ReaderInv /\ OnlyImportedReturn /\ [Next]_vars
      => OnlyImportedReturn'
  BY ReaderStep DEF ReaderGoal, vars, OnlyImportedReturn
<1> QED
  BY <1>1, <1>2, Accounts, ReaderInduction, PTL DEF Spec

(***************************************************************************)
(* That column is all that stands in the way of scripts/demo_seed.go:64:   *)
(* while no statement and no token operation fails, a login with the       *)
(* address and password of an account that was imported with it is         *)
(* answered 200, whoever registers, logs in or updates an account at the   *)
(* same time (service.go:108-137).                                         *)
(***************************************************************************)
THEOREM ImportedCanLogin ==
    ASSUME Faults = {}
    PROVE  Spec => []ImportedLogsIn
<1>1. Init => ImportedLogsIn
  BY DEF Init, NoReply, ImportedLogsIn
<1>2. AccountsConsistent /\ ReaderInv /\ ImportedLogsIn /\ [Next]_vars => ImportedLogsIn'
  BY ReaderStep DEF ReaderGoal, vars, ImportedLogsIn
<1> QED
  BY <1>1, <1>2, Accounts, ReaderInduction, PTL DEF Spec
=============================================================================
