----------------------------- MODULE UserService -----------------------------
(***************************************************************************)
(* Accounts: registration, login, refresh and self-service updates over    *)
(* the users table, as concurrent requests run them.  A step is what a     *)
(* request does up to and including one SQL statement or one call of the   *)
(* token manager, of which only success or failure matters here (see       *)
(* TokenManager).  E-mail addresses are in lower case, as the service      *)
(* stores and looks them up.                                               *)
(***************************************************************************)
EXTENDS Naturals

CONSTANTS
    Ids,        \* user ids (UUIDs)
    Emails,     \* addresses
    Passwords,  \* passwords, and the bcrypt hashes that match them
    Names,      \* sanitised names of two letters or more
    Images,     \* URLs of pictures
    Markup,     \* a raw name that sanitises to Blank
    Blank,      \* the empty name
    Null,       \* no picture
    NoRow,      \* no row under this primary key
    Imported,   \* the accounts that are in the table at the start
    Workers,    \* goroutines that serve requests
    Ops,        \* the operations that clients call
    Faults      \* the ways in which a statement or the token manager may fail

\* readable: last_password_hash is not NULL, so the row scans into User.
User == [email : Emails, name : Names \cup {Blank}, image : Images \cup {Null},
         password : Passwords, seen : BOOLEAN, readable : BOOLEAN]

OpNames == {"register", "login", "refresh", "getMe", "updateMe"}

ASSUME UserAssumption ==
    /\ NoRow \notin User
    /\ NoRow \notin Ids
    /\ Markup \notin Names \cup {Blank}
    /\ Blank \notin Names
    /\ DOMAIN Imported \subseteq Ids
    /\ \A a \in DOMAIN Imported : Imported[a] \in User
    /\ \A a, b \in DOMAIN Imported : Imported[a].email = Imported[b].email => a = b
    /\ Ops \subseteq OpNames
    /\ Faults \subseteq {"refused", "ack_lost"}

VARIABLES
    rows,      \* the users table
    signedIn,  \* accounts for which a client received tokens
    job,       \* job[w]: the request that w serves
    out        \* the reply that the step sent

vars == <<rows, signedIn, job, out>>

-----------------------------------------------------------------------------
(* The repository *)

Present(t, id) == t[id] # NoRow

\* SELECT * scans a NULL last_password_hash into a Go string, and fails.
Readable(t, id) == Present(t, id) /\ t[id].readable

\* Mutant of Taken: the table has no UNIQUE constraint.
NeverTaken(t, email) == FALSE

\* UNIQUE (email)
Taken(t, email) == \E id \in Ids : Present(t, id) /\ t[id].email = email

\* INSERT names neither last_password_hash, whose default is NULL, nor
\* last_login_at.
InsertRow(t, id, u) == [t EXCEPT ![id] = [u EXCEPT !.readable = FALSE, !.seen = FALSE]]

\* Mutant of UpdateRow: no WHERE id = ?.
UpdateEveryRow(t, id, u) ==
    [a \in Ids |-> IF Present(t, a)
                   THEN [t[a] EXCEPT !.name = u.name, !.image = u.image,
                                     !.password = u.password, !.seen = u.seen]
                   ELSE NoRow]

\* UPDATE writes back the struct that the request read, but for the address.
UpdateRow(t, id, u) ==
    [t EXCEPT ![id] = [@ EXCEPT !.name = u.name, !.image = u.image,
                                !.password = u.password, !.seen = u.seen]]

Outcomes == {"ok"} \cup Faults

Exec(outcome, effect) == rows' = IF outcome = "refused" THEN rows ELSE effect

-----------------------------------------------------------------------------
(* Requests and replies *)

Idle == [step |-> "idle"]

\* email and password are what the client sent.
Request(op, step, id, user, email, password) ==
    [op |-> op, step |-> step, id |-> id, user |-> user,
     email |-> email, password |-> password]

NoReply == [op |-> "none", status |-> 0, id |-> NoRow, email |-> Null, password |-> Null]

Reply(op, status, id, email, password) ==
    [op |-> op, status |-> status, id |-> id, email |-> email, password |-> password]

Continue(w, j) == job' = [job EXCEPT ![w] = j] /\ out' = NoReply

Answer(w, reply) == job' = [job EXCEPT ![w] = Idle] /\ out' = reply

Refuse(w, op, status, email) == Answer(w, Reply(op, status, NoRow, email, Null))

Starts(w, op) == op \in Ops /\ job[w] = Idle

sanitize(name) == IF name = Markup THEN Blank ELSE name

-----------------------------------------------------------------------------
(***************************************************************************)
(* Register sanitises the name, validates, and looks the address up; an    *)
(* error of the look-up is taken for "not there".                          *)
(***************************************************************************)
Register(w, email, password, name, image) ==
    LET known == \E a \in Ids : Readable(rows, a) /\ rows[a].email = email IN
    /\ Starts(w, "register")
    /\ UNCHANGED <<rows, signedIn>>
    /\ \/ /\ sanitize(name) = Blank
          /\ Refuse(w, "register", 500, email)
       \/ /\ sanitize(name) # Blank
          /\ known
          /\ Refuse(w, "register", 409, email)
       \/ /\ sanitize(name) # Blank
          /\ ~known \/ "refused" \in Faults
          /\ Continue(w, Request("register", "insert", NoRow,
                [email |-> email, name |-> name, image |-> image,
                 password |-> password, seen |-> FALSE, readable |-> FALSE],
                email, password))

\* Mutant of isDuplicate: every error is taken for a duplicate address.
isError(taken, outcome) == taken \/ outcome # "ok"

\* The UNIQUE constraint decides; only its error becomes ErrDuplicateEmail.
isDuplicate(taken, outcome) == taken /\ outcome = "ok"

RegisterInsert(w) ==
    LET j == job[w]
        taken == Taken(rows, j.email)
    IN
    /\ j.step = "insert"
    /\ UNCHANGED signedIn
    /\ \E id \in Ids, outcome \in Outcomes :
        /\ ~Present(rows, id)
        /\ IF taken THEN UNCHANGED rows ELSE Exec(outcome, InsertRow(rows, id, j.user))
        /\ \/ /\ isDuplicate(taken, outcome)
              /\ Refuse(w, "register", 409, j.email)
           \/ /\ ~isDuplicate(taken, outcome) /\ outcome # "ok"
              /\ Refuse(w, "register", 500, j.email)
           \/ /\ ~isDuplicate(taken, outcome) /\ outcome = "ok"
              /\ Continue(w, [j EXCEPT !.step = "issue", !.id = id])

\* Mutant of Matches: CompareHashAndPassword is not called.
AnyPassword(u, password) == TRUE

\* bcrypt.CompareHashAndPassword
Matches(u, password) == u.password = password

\* Login reads the account and compares the password.
Login(w, email, password) ==
    /\ Starts(w, "login")
    /\ UNCHANGED <<rows, signedIn>>
    /\ \/ \E id \in Ids :
            /\ Readable(rows, id) /\ rows[id].email = email
            /\ Matches(rows[id], password)
            /\ Continue(w, Request("login", "write", id, [rows[id] EXCEPT !.seen = TRUE],
                                   email, password))
       \/ /\ \/ "refused" \in Faults
             \/ \A id \in Ids : Readable(rows, id) /\ rows[id].email = email
                                => ~Matches(rows[id], password)
          /\ Answer(w, Reply("login", 401, NoRow, email, password))

\* ... and writes back all that it read; an error of that is ignored.
LoginWrite(w) ==
    LET j == job[w] IN
    /\ j.step = "write" /\ j.op = "login"
    /\ UNCHANGED signedIn
    /\ \E outcome \in Outcomes : Exec(outcome, UpdateRow(rows, j.id, j.user))
    /\ Continue(w, [j EXCEPT !.step = "issue"])

\* Refresh looks up the account that the refresh token names.
Refresh(w, id) ==
    /\ Starts(w, "refresh")
    /\ UNCHANGED <<rows, signedIn>>
    /\ \/ /\ Readable(rows, id)
          /\ Continue(w, Request("refresh", "issue", id, rows[id], Null, Null))
       \/ /\ ~Readable(rows, id) \/ "refused" \in Faults
          /\ Refuse(w, "refresh", 401, Null)

\* The token manager issues or rotates tokens, or fails.
IssueTokens(w) ==
    LET j == job[w] IN
    /\ j.step = "issue"
    /\ UNCHANGED rows
    /\ \/ /\ signedIn' = signedIn \cup {j.id}
          /\ Answer(w, Reply(j.op, IF j.op = "register" THEN 201 ELSE 200,
                             j.id, j.email, j.password))
       \/ /\ Faults # {} \/ j.op = "refresh"
          /\ UNCHANGED signedIn
          /\ Refuse(w, j.op, IF j.op = "refresh" THEN 401 ELSE 500, j.email)

\* GetMe takes every error for a missing account.
GetMe(w, id) ==
    /\ Starts(w, "getMe")
    /\ UNCHANGED <<rows, signedIn>>
    /\ \/ Readable(rows, id) /\ Answer(w, Reply("getMe", 200, id, Null, Null))
       \/ /\ ~Readable(rows, id) \/ "refused" \in Faults
          /\ Refuse(w, "getMe", 404, Null)

\* UpdateMe validates the raw name; a picture that is left out stays.
UpdateMe(w, id, name, image) ==
    /\ Starts(w, "updateMe")
    /\ UNCHANGED <<rows, signedIn>>
    /\ \/ /\ Readable(rows, id)
          /\ Continue(w, Request("updateMe", "write", id,
                [rows[id] EXCEPT !.name = sanitize(name),
                                 !.image = IF image = Null THEN @ ELSE image],
                Null, Null))
       \/ /\ ~Readable(rows, id) \/ "refused" \in Faults
          /\ Refuse(w, "updateMe", 404, Null)

UpdateMeWrite(w) ==
    LET j == job[w] IN
    /\ j.step = "write" /\ j.op = "updateMe"
    /\ UNCHANGED signedIn
    /\ \E outcome \in Outcomes :
        /\ Exec(outcome, UpdateRow(rows, j.id, j.user))
        /\ Answer(w, Reply("updateMe", IF outcome = "ok" THEN 200 ELSE 500,
                           j.id, Null, Null))

\* The process dies with every request in progress, and is started again.
Crash ==
    /\ \E w \in Workers : job[w] # Idle
    /\ job' = [w \in Workers |-> Idle]
    /\ out' = NoReply
    /\ UNCHANGED <<rows, signedIn>>

-----------------------------------------------------------------------------
Init ==
    /\ rows = [id \in Ids |-> IF id \in DOMAIN Imported THEN Imported[id] ELSE NoRow]
    /\ signedIn = {}
    /\ job = [w \in Workers |-> Idle]
    /\ out = NoReply

register(w) ==
    \/ \E email \in Emails, password \in Passwords, name \in Names \cup {Markup},
          image \in Images \cup {Null} : Register(w, email, password, name, image)
    \/ RegisterInsert(w)

login(w) ==
    \/ \E email \in Emails, password \in Passwords : Login(w, email, password)
    \/ LoginWrite(w)

updateMe(w) ==
    \/ \E id \in signedIn, name \in Names \cup {Markup}, image \in Images \cup {Null} :
          UpdateMe(w, id, name, image)
    \/ UpdateMeWrite(w)

\* Refresh and access tokens are those that clients received.
Next ==
    \/ \E w \in Workers : register(w) \/ login(w) \/ updateMe(w) \/ IssueTokens(w)
    \/ \E w \in Workers, id \in signedIn : Refresh(w, id) \/ GetMe(w, id)
    \/ Crash

Spec == Init /\ [][Next]_vars

-----------------------------------------------------------------------------
Jobs == [op : OpNames, step : {"insert", "write", "issue"}, id : Ids \cup {NoRow},
         user : User, email : Emails \cup {Null}, password : Passwords \cup {Null}]

Replies == [op : OpNames \cup {"none"}, status : {0, 200, 201, 401, 404, 409, 500},
            id : Ids \cup {NoRow}, email : Emails \cup {Null},
            password : Passwords \cup {Null}]

\* Rows, requests and replies are well formed; no raw name is ever stored.
TypeOK ==
    /\ rows \in [Ids -> User \cup {NoRow}]
    /\ signedIn \subseteq Ids
    /\ job \in [Workers -> Jobs \cup {Idle}]
    /\ out \in Replies

\* Two accounts never share an address, although look-ups race insertions.
UniqueEmails ==
    \A a, b \in Ids : Present(rows, a) /\ Present(rows, b) /\ rows[a].email = rows[b].email
                      => a = b

\* The account that a request read is still the one that it names.
Agrees(t, j) ==
    /\ j.step = "insert" =>
          j.op = "register" /\ j.user.email = j.email /\ j.user.password = j.password
    /\ j.step \in {"write", "issue"} =>
          /\ j.id \in Ids /\ Present(t, j.id)
          /\ t[j.id].email = j.user.email /\ t[j.id].password = j.user.password
          /\ j.op \in {"register", "login"} =>
                j.user.email = j.email /\ j.user.password = j.password
    /\ j.op \in {"refresh", "updateMe"} => j.email = Null

(***************************************************************************)
(* What the requests in flight remember agrees with the table, and tokens  *)
(* are out for stored accounts only.                                       *)
(***************************************************************************)
AccountsConsistent ==
    /\ TypeOK
    /\ UniqueEmails
    /\ \A w \in Workers : job[w] # Idle => Agrees(rows, job[w])
    /\ \A id \in signedIn : Present(rows, id)

(***************************************************************************)
(* Tokens go to a client that gave the address and the password of the     *)
(* stored account, whatever happened between its statements: nobody gets   *)
(* the account of another registration that won the race for the address.  *)
(***************************************************************************)
TokensToOwner ==
    out.op \in {"register", "login"} /\ out.status \in {200, 201} =>
        /\ Present(rows, out.id)
        /\ rows[out.id].email = out.email
        /\ rows[out.id].password = out.password

(***************************************************************************)
(* "email already registered" (service.go:18) is true when it is said: an  *)
(* account with that address is stored, whichever of the look-up and the   *)
(* constraint noticed it, and no failure is mistaken for it.               *)
(***************************************************************************)
ConflictIsTrue == out.status = 409 => Taken(rows, out.email)

(***************************************************************************)
(* An account keeps its address and password, although Login and UpdateMe  *)
(* write back the password hash of the row that they read.                 *)
(***************************************************************************)
IdentityKept ==
    [][\A id \in Ids : Present(rows, id) =>
          /\ Present(rows', id)
          /\ rows'[id].email = rows[id].email
          /\ rows'[id].password = rows[id].password]_vars

(***************************************************************************)
(* scripts/demo_seed.go:64: who registered logs in with the same address   *)
(* and password.  It cannot: the row is not readable (user/model.go:20).    *)
(***************************************************************************)
RegisteredCanLogin ==
    out.op = "login" /\ out.status = 401 =>
        ~\E id \in signedIn : /\ rows[id].email = out.email
                              /\ rows[id].password = out.password
=============================================================================
