----------------------------- MODULE Middleware -----------------------------
(***************************************************************************)
(* The chain that the router puts before every handler: CORS, optional     *)
(* authentication, the limiter of the address and that of the user, the    *)
(* request log, authentication, the admin check.  A step of a request ends *)
(* at one access to shared state: a limiter, the clock, the log.  The two  *)
(* memory limiters have the same quota and no key in common, so they are   *)
(* one MemoryLimiter.                                                      *)
(***************************************************************************)
EXTENDS MemoryLimiter, LogBuffer

CONSTANTS
    Addresses,   \* keys "ip:<client address>"
    Users,       \* keys "user:<id>"
    Tokens,      \* access tokens that were issued
    Owner,       \* Owner[t]: the user that t names
    Admins,      \* tokens whose role is admin
    Workers,     \* connections, a goroutine each
    Panics,      \* whether handlers may panic
    None         \* no token, no user

Routes == {"public", "own", "admin"}

ASSUME MiddlewareAssumption ==
    /\ Keys = Addresses \cup Users
    /\ Owner \in [Tokens -> Users]
    /\ Admins \subseteq Tokens
    /\ None \notin Tokens \cup Keys
    /\ Panics \in BOOLEAN

VARIABLES
    redis,     \* whether the limiters are over Redis
    expired,   \* access tokens that no longer parse
    job,       \* job[w]: the request on connection w
    lines,     \* LogBuffer.data
    finished   \* every line this process appended, oldest first

mvars == <<vars, redis, expired, job, lines, finished>>

Idle == [step |-> "idle"]

\* A connection that was accepted and has not sent its request yet.
NewConn == [step |-> "new"]

parses(t) == t # None /\ t \notin expired

\* Mutant of OptionalAuth: the router has no OptionalAuth.
NoOptionalAuth(t) == None

\* OptionalAuth: an invalid token is taken for none.
OptionalAuth(t) == IF parses(t) THEN Owner[t] ELSE None

Request(step, a, t, route, u, passed) ==
    [step |-> step, addr |-> a, token |-> t, route |-> route, user |-> u,
     passed |-> passed, status |-> 0]

\* The reply is sent, and the connection with it is over.
Answered(w) == job' = [job EXCEPT ![w] = Idle]

Continue(w, j) == job' = [job EXCEPT ![w] = j]

KeepLog == UNCHANGED <<lines, finished>>

KeepLimiter == UNCHANGED store /\ reply' = Silence

-----------------------------------------------------------------------------
(***************************************************************************)
(* A limiter's verdict.  Over Redis it may be any, and an error lets the   *)
(* request pass (see RedisLimiter).                                        *)
(***************************************************************************)
Passes(k) ==
    \/ ~redis /\ Allow(k) /\ reply'.allowed
    \/ redis /\ UNCHANGED store /\ reply' = Info(k, TRUE, 0)

Refuses(k) ==
    \/ ~redis /\ Allow(k) /\ ~reply'.allowed
    \/ redis /\ UNCHANGED store /\ reply' = Info(k, FALSE, 0)

\* CORS answers an OPTIONS request, before any limiter and the log.
Preflight(w) ==
    /\ job[w] = NewConn
    /\ Answered(w)
    /\ KeepLimiter /\ KeepLog
    /\ UNCHANGED <<redis, expired>>

\* CORS, OptionalAuth, and RateLimit as far as the address.
RateLimitAddress(w, a, t, route) ==
    LET u == OptionalAuth(t) IN
    /\ job[w] = NewConn
    /\ \/ Refuses(a) /\ Answered(w)
       \/ /\ Passes(a)
          /\ Continue(w, Request(IF u = None THEN "route" ELSE "user", a, t, route, u, {a}))
    /\ KeepLog
    /\ UNCHANGED <<redis, expired>>

\* RateLimit goes on with the user that OptionalAuth found.
RateLimitUser(w) ==
    LET j == job[w] IN
    /\ j.step = "user"
    /\ \/ Refuses(j.user) /\ Answered(w)
       \/ /\ Passes(j.user)
          /\ Continue(w, [j EXCEPT !.step = "route", !.passed = @ \cup {j.user}])
    /\ KeepLog
    /\ UNCHANGED <<redis, expired>>

\* AuthMiddleware parses the token again.
AuthMiddleware(j) == parses(j.token)

\* AdminOnly looks at the role that the token names.
AdminOnly(j) == j.token \in Admins

\* A request goes through the checks of its route, in this order.
Verdict(j) ==
    CASE j.route # "public" /\ ~AuthMiddleware(j) -> 401
      [] j.route = "admin" /\ AuthMiddleware(j) /\ ~AdminOnly(j) -> 403
      [] OTHER -> 200

\* The handler, unless authentication aborts; 200 stands for all it answers.
Handle(w) ==
    LET j == job[w] IN
    /\ j.step = "route"
    /\ \/ Continue(w, [j EXCEPT !.step = "log", !.status = Verdict(j)])
       \/ Panics /\ Verdict(j) = 200 /\ Answered(w)  \* gin.Recovery: 500 and no line
    /\ KeepLimiter /\ KeepLog
    /\ UNCHANGED <<redis, expired>>

\* RequestLogger, after the handler; then the reply is complete.
RequestLogger(w) ==
    LET j == job[w] IN
    /\ j.step = "log"
    /\ lines' = AppendLine(lines, j.status)
    /\ finished' = Append(finished, j.status)
    /\ Answered(w)
    /\ KeepLimiter
    /\ UNCHANGED <<redis, expired>>

\* exp of an access token goes by.
Expire(t) ==
    /\ t \in Tokens \ expired
    /\ expired' = expired \cup {t}
    /\ KeepLimiter /\ KeepLog
    /\ UNCHANGED <<redis, job>>

ClockTick ==
    /\ Tick
    /\ KeepLog
    /\ UNCHANGED <<redis, expired, job>>

Proceed(w) == RateLimitUser(w) \/ Handle(w) \/ RequestLogger(w)

MInit ==
    /\ Init
    /\ redis = FALSE
    /\ expired = {}
    /\ job = [w \in Workers |-> Idle]
    /\ lines = <<>> /\ finished = <<>>

InProgress(w) == job[w].step \in {"user", "route", "log"}

-----------------------------------------------------------------------------
(***************************************************************************)
(* A handler never runs unthrottled: its request passed the limiter of its *)
(* address, and, if it acts for a user, the limiter of that user, although *)
(* the user is authenticated only after the throttling, by a second look   *)
(* at a token that may have expired since the first.                       *)
(***************************************************************************)
HandlersThrottled ==
    \A w \in Workers : job[w].step = "log" /\ job[w].status = 200 =>
        /\ job[w].addr \in job[w].passed
        /\ job[w].route # "public" => Owner[job[w].token] \in job[w].passed

(***************************************************************************)
(* The log buffer holds the newest lines of this process, in the order in  *)
(* which the requests finished, and as many as fit, though it is cut at    *)
(* one end and extended at the other by concurrent requests.               *)
(***************************************************************************)
LogIsRecent == lines = Newest(finished, Cap)
=============================================================================
