---------------------------- MODULE ServerProofs ----------------------------
(***************************************************************************)
(* For every number of connections, users and tokens, every limit and      *)
(* every size of the log: no handler runs unthrottled, none meets a closed *)
(* database, the exit status tells the truth, and the log is the newest    *)
(* part of what happened.                                                  *)
(***************************************************************************)
EXTENDS Server, BucketProofs, SequenceTheorems

Statuses == {200, 401, 403}

(* The log *)

LEMMA CapType == Cap \in Nat \ {0}
BY LogAssumption DEF Cap

LEMMA NewestType ==
    ASSUME NEW S, NEW s \in Seq(S), NEW n \in Nat \ {0}
    PROVE  /\ Newest(s, n) \in Seq(S)
           /\ Len(Newest(s, n)) = IF Len(s) <= n THEN Len(s) ELSE n
           /\ \A i \in 1..Len(Newest(s, n)) :
                 Newest(s, n)[i] = s[i + Len(s) - Len(Newest(s, n))]
<1>1. CASE Len(s) <= n
  BY <1>1 DEF Newest
<1>2. CASE ~(Len(s) <= n)
  <2>1. Len(s) \in Nat /\ Len(s) - n + 1 \in 1..Len(s)
    BY <1>2
  <2>2. Newest(s, n) = SubSeq(s, Len(s) - n + 1, Len(s))
    BY <1>2 DEF Newest
  <2> QED  BY <1>2, <2>1, <2>2
<1> QED  BY <1>1, <1>2

\* The newest lines stay the newest when a line is appended to both.
LEMMA AppendKeepsNewest ==
    ASSUME NEW S, NEW s \in Seq(S), NEW x \in S
    PROVE  AppendLine(Newest(s, Cap), x) = Newest(Append(s, x), Cap)
<1> DEFINE old == Newest(s, Cap)
           all == Append(s, x)
           a == AppendLine(old, x)
           b == Newest(all, Cap)
<1>1. /\ old \in Seq(S) /\ Len(old) = (IF Len(s) <= Cap THEN Len(s) ELSE Cap)
      /\ \A i \in 1..Len(old) : old[i] = s[i + Len(s) - Len(old)]
  BY CapType, NewestType
<1>2. /\ all \in Seq(S) /\ Len(all) = Len(s) + 1 /\ Len(s) \in Nat
      /\ \A i \in 1..Len(s) : all[i] = s[i]
      /\ all[Len(s) + 1] = x
  OBVIOUS
<1>3. /\ b \in Seq(S) /\ Len(b) = (IF Len(all) <= Cap THEN Len(all) ELSE Cap)
      /\ \A i \in 1..Len(b) : b[i] = all[i + Len(all) - Len(b)]
  BY <1>2, CapType, NewestType
<1>4. /\ a \in Seq(S) /\ Len(a) = Len(b)
      /\ \A i \in 1..Len(a) : a[i] = b[i]
  <2>1. CASE Len(old) >= Cap
    <3>1. a = Append(Tail(old), x) /\ Len(old) = Cap /\ Len(b) = Cap
      BY <1>1, <1>2, <1>3, <2>1, CapType DEF AppendLine
    <3>2. /\ Tail(old) \in Seq(S) /\ Len(Tail(old)) = Cap - 1
          /\ \A i \in 1..(Cap - 1) : Tail(old)[i] = old[i + 1]
      BY <1>1, <3>1, CapType
    <3>3. /\ a \in Seq(S) /\ Len(a) = Cap /\ a[Cap] = x
          /\ \A i \in 1..(Cap - 1) : a[i] = old[i + 1]
      <4> HIDE DEF old, a
      <4> QED  BY <3>1, <3>2, CapType
    <3> HIDE DEF old, a, b, all
    <3>4. ASSUME NEW i \in 1..Cap PROVE a[i] = b[i]
      <4>1. b[i] = all[i + Len(s) + 1 - Cap]
        <5>1. i \in 1..Len(b) /\ i + Len(all) - Len(b) = i + Len(s) + 1 - Cap
          BY <1>2, <3>1, CapType
        <5>2. b[i] = all[i + Len(all) - Len(b)]
          BY <1>3, <5>1
        <5> QED  BY <5>1, <5>2
      <4>2. CASE i = Cap
        BY <1>2, <3>3, <4>1, <4>2
      <4>3. CASE i # Cap
        <5>1. a[i] = old[i + 1]
          BY <3>3, <4>3, CapType
        <5>2. old[i + 1] = s[i + 1 + Len(s) - Cap]
          <6>1. i + 1 \in 1..Len(old) /\ i + 1 + Len(s) - Len(old) = i + 1 + Len(s) - Cap
            BY <1>2, <3>1, <4>3, CapType
          <6>2. old[i + 1] = s[(i + 1) + Len(s) - Len(old)]
            BY <1>1, <6>1
          <6> QED  BY <6>1, <6>2
        <5>3. i + 1 + Len(s) - Cap \in 1..Len(s)
          BY <1>1, <1>2, <3>1, <4>3, CapType
        <5> QED  BY <1>2, <4>1, <5>1, <5>2, <5>3, CapType
      <4> QED  BY <4>2, <4>3
    <3> QED  BY <3>1, <3>3, <3>4
  <2>2. CASE ~(Len(old) >= Cap)
    <3>1. old = s /\ b = all /\ a = all
      BY <1>1, <1>2, <2>2, CapType DEF Newest, AppendLine
    <3> QED  BY <1>2, <3>1
  <2> QED  BY <2>1, <2>2
<1> QED  BY <1>3, <1>4, SeqEqual

-----------------------------------------------------------------------------
(* Types, in three parts: the limiter, the requests, the process *)

RequestTypeOK ==
    /\ redis \in BOOLEAN
    /\ expired \subseteq Tokens
    /\ job \in [Workers -> JobType]
    /\ lines \in Seq(Statuses)
    /\ finished \in Seq(Statuses)

LifeTypeOK ==
    /\ phase \in {"down", "starting", "connected", "serving", "draining", "closing"}
    /\ listener \in {"closed", "open", "failed"}
    /\ signalled \in BOOLEAN
    /\ handles \subseteq {"database", "redis"}
    /\ exit \in {"none", "success", "failure", "killed"}
    /\ accepted \in 0..MaxRequests

LEMMA KeepLimiterType ==
    ASSUME TypeOK, KeepLimiter
    PROVE  TypeOK'
BY SilenceType DEF KeepLimiter, TypeOK, Infos

LEMMA VerdictType ==
    ASSUME TypeOK, NEW k \in Keys, Passes(k) \/ Refuses(k)
    PROVE  TypeOK'
<1>1. 0 \in 0..(Limit + Burst)
  BY LimiterAssumption
<1>2. CASE redis
  BY <1>1, <1>2, InfoType DEF Passes, Refuses, TypeOK, Infos
<1>3. CASE ~redis
  BY <1>3, AllowType DEF Passes, Refuses
<1> QED  BY <1>2, <1>3

LEMMA IdleType == Idle \in JobType /\ NewConn \in JobType
BY DEF JobType

LEMMA RequestType ==
    ASSUME NEW j \in JobType
    PROVE  /\ j.step = "user" => j \in RequestsAt("user", Users, {0})
           /\ j.step = "route" => j \in RequestsAt("route", Users \cup {None}, {0})
           /\ j.step = "log" => j \in RequestsAt("log", Users \cup {None}, Statuses)
           /\ j.step = "idle" => j = Idle
           /\ j.step = "new" => j = NewConn
           /\ j.step \in {"user", "route", "log", "idle", "new"}
BY DEF JobType, Idle, NewConn, RequestsAt, Statuses

\* The request r after its handler has answered it with the status v.
AnsweredWith(r, v) == [r EXCEPT !.step = "log", !.status = v]

LEMMA AnsweredType ==
    ASSUME NEW us, NEW before, NEW after,
           NEW r \in RequestsAt("route", us, before), NEW v \in after
    PROVE  AnsweredWith(r, v) \in RequestsAt("log", us, after)
BY DEF AnsweredWith, RequestsAt

\* The steps of a request, as far as types go.
LEMMA ServeType ==
    ASSUME TypeOK, RequestTypeOK, NEW w \in Workers, Serve(w)
    PROVE  TypeOK' /\ RequestTypeOK' /\ UNCHANGED lifecycle
<1>1. UNCHANGED lifecycle /\ TypeOK /\ RequestTypeOK
  BY DEF Serve
<1>2. CASE Preflight(w)
  BY <1>1, <1>2, IdleType, KeepLimiterType
     DEF Preflight, Answered, KeepLog, RequestTypeOK
<1>3. ASSUME NEW a \in Addresses, NEW t \in Tokens \cup {None}, NEW route \in Routes,
             RateLimitAddress(w, a, t, route)
      PROVE  TypeOK' /\ RequestTypeOK'
  <2> DEFINE u == OptionalAuth(t)
             j == Request(IF u = None THEN "route" ELSE "user", a, t, route, u, {a})
  <2>1. a \in Keys /\ u \in Users \cup {None}
    BY MiddlewareAssumption DEF OptionalAuth, parses
  <2>2. TypeOK'
    BY <1>1, <1>3, <2>1, VerdictType DEF RateLimitAddress
  <2>3. j \in JobType
    BY <2>1 DEF Request, JobType, RequestsAt
  <2>4. job' = [job EXCEPT ![w] = Idle] \/ job' = [job EXCEPT ![w] = j]
    BY <1>3 DEF RateLimitAddress, Answered, Continue
  <2>5. UNCHANGED <<redis, expired, lines, finished>>
    BY <1>3 DEF RateLimitAddress, KeepLog
  <2> HIDE DEF j
  <2>6. job' \in [Workers -> JobType]
    BY <1>1, <2>3, <2>4, IdleType DEF RequestTypeOK
  <2> QED  BY <1>1, <2>2, <2>5, <2>6 DEF RequestTypeOK
<1>4. CASE RateLimitUser(w)
  <2> DEFINE j == [job[w] EXCEPT !.step = "route", !.passed = @ \cup {job[w].user}]
  <2>1. job[w] \in JobType /\ job[w].step = "user"
    BY <1>1, <1>4 DEF RateLimitUser, RequestTypeOK
  <2>2. /\ job[w] \in RequestsAt("user", Users, {0})
        /\ job[w].user \in Users
    BY <2>1, RequestType DEF RequestsAt
  <2>3. CASE job[w].user \in Keys
    <3>1. TypeOK'
      BY <1>1, <1>4, <2>3, VerdictType DEF RateLimitUser
    <3>2. j \in JobType
      <4>1. PICK r \in RequestsAt("user", Users, {0}) : r = job[w]
        BY <2>2
      <4>2. r.user \in Keys
        BY <2>3, <4>1
      <4>3. [r EXCEPT !.step = "route", !.passed = @ \cup {r.user}]
               \in RequestsAt("route", Users \cup {None}, {0})
        BY <4>1, <4>2 DEF RequestsAt
      <4> QED  BY <4>1, <4>3 DEF JobType
    <3>3. job' = [job EXCEPT ![w] = Idle] \/ job' = [job EXCEPT ![w] = j]
      BY <1>4 DEF RateLimitUser, Answered, Continue
    <3>4. UNCHANGED <<redis, expired, lines, finished>>
      BY <1>4 DEF RateLimitUser, KeepLog
    <3> HIDE DEF j
    <3>5. job' \in [Workers -> JobType]
      BY <1>1, <3>2, <3>3, IdleType DEF RequestTypeOK
    <3> QED  BY <1>1, <3>1, <3>4, <3>5 DEF RequestTypeOK
  <2> QED  BY <2>2, <2>3, MiddlewareAssumption
<1>5. CASE Handle(w)
  <2> DEFINE j == [job[w] EXCEPT !.step = "log", !.status = Verdict(job[w])]
  <2>1. job[w] \in JobType /\ job[w].step = "route"
    BY <1>1, <1>5 DEF Handle, RequestTypeOK
  <2>2. Verdict(job[w]) \in {200, 401, 403} /\ job[w] \in RequestsAt("route", Users \cup {None}, {0})
    <3>1. Verdict(job[w]) \in {200, 401, 403}
      BY DEF Verdict
    <3> QED  BY <2>1, <3>1, RequestType
  <2>3. j \in JobType
    <3>1. j = AnsweredWith(job[w], Verdict(job[w]))
      BY DEF AnsweredWith
    <3> HIDE DEF j
    <3>2. AnsweredWith(job[w], Verdict(job[w]))
             \in RequestsAt("log", Users \cup {None}, {200, 401, 403})
      BY <2>2, AnsweredType
    <3> QED  BY <3>1, <3>2 DEF JobType
  <2>4. job' = [job EXCEPT ![w] = Idle] \/ job' = [job EXCEPT ![w] = j]
    BY <1>5 DEF Handle, Answered, Continue
  <2>5. UNCHANGED <<redis, expired, lines, finished>> /\ TypeOK'
    BY <1>1, <1>5, KeepLimiterType DEF Handle, KeepLog
  <2> HIDE DEF j
  <2>6. job' \in [Workers -> JobType]
    BY <1>1, <2>3, <2>4, IdleType DEF RequestTypeOK
  <2> QED  BY <1>1, <2>5, <2>6 DEF RequestTypeOK
<1>6. CASE RequestLogger(w)
  <2>1. job[w] \in JobType /\ job[w].step = "log"
    BY <1>1, <1>6 DEF RequestLogger, RequestTypeOK
  <2>2. TypeOK' /\ UNCHANGED <<redis, expired>> /\ job' \in [Workers -> JobType]
    BY <1>1, <1>6, IdleType, KeepLimiterType DEF RequestLogger, Answered, RequestTypeOK
  <2>3. job[w].status \in Statuses
    BY <2>1, RequestType DEF RequestsAt
  <2>4. lines' \in Seq(Statuses) /\ finished' \in Seq(Statuses)
    <3>1. lines' = AppendLine(lines, job[w].status)
          /\ finished' = Append(finished, job[w].status)
      BY <1>6 DEF RequestLogger
    <3>2. lines \in Seq(Statuses) /\ finished \in Seq(Statuses)
      BY <1>1 DEF RequestTypeOK
    <3>3. Len(lines) >= Cap => Tail(lines) \in Seq(Statuses)
      BY <3>2, CapType
    <3> QED  BY <2>3, <3>1, <3>2, <3>3 DEF AppendLine
  <2> QED  BY <1>1, <2>2, <2>4 DEF RequestTypeOK
<1> QED  BY <1>1, <1>2, <1>3, <1>4, <1>5, <1>6 DEF Serve, Proceed

Types == TypeOK /\ RequestTypeOK /\ LifeTypeOK

LEMMA EndsType ==
    ASSUME Types, NEW how \in {"success", "failure", "killed"}, Ends(how)
    PROVE  Types'
<1>1. TypeOK'
  BY RestartType DEF Types, Ends
<1>2. RequestTypeOK'
  <2>1. job' \in [Workers -> JobType]
    BY IdleType DEF Ends
  <2>2. <<>> \in Seq(Statuses)
    OBVIOUS
  <2> QED  BY <2>1, <2>2 DEF Types, RequestTypeOK, Ends
<1>3. LifeTypeOK'
  <2>1. 0 \in 0..MaxRequests
    BY ServerAssumption
  <2> QED  BY <2>1 DEF LifeTypeOK, Ends
<1> QED  BY <1>1, <1>2, <1>3 DEF Types

LEMMA KeepRequestsType ==
    ASSUME Types, KeepRequests, redis' \in BOOLEAN
    PROVE  TypeOK' /\ RequestTypeOK'
<1>1. TypeOK'
  BY KeepLimiterType DEF Types, KeepRequests
<1> QED  BY <1>1 DEF Types, RequestTypeOK, KeepRequests, KeepLog

\* The steps of main, the listener and signals that end nothing.
Stays == Start \/ ConnectDatabase \/ ConnectRedis \/ BeginShutdown \/ ShutdownDone
         \/ CloseRedis \/ CloseDatabase \/ Listen \/ Signal

Exits == StartFails \/ RunFails \/ ShutdownTimeout \/ Return \/ Kill

LEMMA StaysType ==
    ASSUME Types, Stays
    PROVE  Types'
<1>1. CASE Start
  <2>1. TypeOK'
    BY <1>1, KeepLimiterType DEF Types, Start
  <2> QED
    BY <1>1, <2>1 DEF Types, RequestTypeOK, LifeTypeOK, Start, KeepLog
<1>2. CASE ~Start
  <2>1. KeepRequests
    BY <1>2 DEF Stays, ConnectDatabase, ConnectRedis, BeginShutdown, ShutdownDone,
                CloseRedis, CloseDatabase, Listen, Signal
  <2>2. redis' \in BOOLEAN
    BY <1>2 DEF Stays, ConnectDatabase, ConnectRedis, BeginShutdown, ShutdownDone,
                CloseRedis, CloseDatabase, Listen, Signal, Types, RequestTypeOK
  <2>3. LifeTypeOK'
    <3>1. exit' = exit /\ accepted' = accepted
      BY <2>1 DEF KeepRequests
    <3>2. LifeTypeOK
      BY DEF Types
    <3>3. CASE ConnectDatabase
      BY <3>1, <3>2, <3>3 DEF LifeTypeOK, ConnectDatabase
    <3>4. CASE ConnectRedis
      BY <3>1, <3>2, <3>4 DEF LifeTypeOK, ConnectRedis
    <3>5. CASE BeginShutdown
      BY <3>1, <3>2, <3>5 DEF LifeTypeOK, BeginShutdown
    <3>6. CASE ShutdownDone
      BY <3>1, <3>2, <3>6 DEF LifeTypeOK, ShutdownDone
    <3>7. CASE CloseRedis \/ CloseDatabase
      BY <3>1, <3>2, <3>7 DEF LifeTypeOK, CloseRedis, CloseDatabase
    <3>8. CASE Listen
      BY <3>1, <3>2, <3>8 DEF LifeTypeOK, Listen
    <3>9. CASE Signal
      BY <3>1, <3>2, <3>9 DEF LifeTypeOK, Signal
    <3> QED  BY <1>2, <3>3, <3>4, <3>5, <3>6, <3>7, <3>8, <3>9 DEF Stays
  <2> QED  BY <2>1, <2>2, <2>3, KeepRequestsType DEF Types
<1> QED  BY <1>1, <1>2

LEMMA ExitsType ==
    ASSUME Types, Exits
    PROVE  Types'
BY EndsType DEF Exits, StartFails, RunFails, ShutdownTimeout, Return, Kill

LEMMA ConnectionsType ==
    ASSUME Types, NEW w \in Workers, Accept(w) \/ DropConnection(w)
    PROVE  Types'
<1>1. TypeOK'
  BY KeepLimiterType DEF Types, Accept, DropConnection
<1>2. RequestTypeOK'
  <2>1. job' = [job EXCEPT ![w] = NewConn] \/ job' = [job EXCEPT ![w] = Idle]
    BY DEF Accept, DropConnection, Answered
  <2>2. job' \in [Workers -> JobType]
    BY <2>1, IdleType DEF Types, RequestTypeOK
  <2> QED  BY <2>2 DEF Types, RequestTypeOK, Accept, DropConnection, KeepLog
<1>3. LifeTypeOK'
  <2>1. LifeTypeOK
    BY DEF Types
  <2>2. CASE Accept(w)
    <3>1. accepted' \in 0..MaxRequests
      BY <2>1, <2>2, ServerAssumption DEF LifeTypeOK, Accept
    <3> QED  BY <2>1, <2>2, <3>1 DEF LifeTypeOK, Accept
  <2>3. CASE DropConnection(w)
    BY <2>1, <2>3 DEF LifeTypeOK, DropConnection, lifecycle
  <2> QED  BY <2>2, <2>3
<1> QED  BY <1>1, <1>2, <1>3 DEF Types

LEMMA TimeType ==
    ASSUME Types, Time
    PROVE  Types'
<1>1. UNCHANGED lifecycle
  BY DEF Time
<1>2. CASE ClockTick
  BY <1>1, <1>2, TickType
     DEF ClockTick, KeepLog, Types, RequestTypeOK, LifeTypeOK, lifecycle
<1>3. ASSUME NEW t \in Tokens, Expire(t) PROVE Types'
  BY <1>1, <1>3, KeepLimiterType
     DEF Expire, KeepLog, Types, RequestTypeOK, LifeTypeOK, lifecycle
<1> QED  BY <1>2, <1>3 DEF Time

\* Every step is one of these.
LEMMA Steps ==
    ASSUME [SNext]_svars
    PROVE  \/ Stays \/ Exits \/ Time \/ UNCHANGED svars
           \/ \E w \in Workers : Accept(w) \/ DropConnection(w) \/ Serve(w)
BY DEF SNext, Main, Connection, Stays, Exits

LEMMA StutterType ==
    ASSUME Types, UNCHANGED svars
    PROVE  Types'
BY DEF Types, TypeOK, RequestTypeOK, LifeTypeOK, svars, mvars, vars

-----------------------------------------------------------------------------
(***************************************************************************)
(* Throttling.  Each stage of a request knows more of the limiters it      *)
(* passed; who is nobody to OptionalAuth has a token that does not parse,  *)
(* and never will again.                                                   *)
(***************************************************************************)
ThrottledBy(j, gone) ==
    j.step \in {"user", "route", "log"} =>
        /\ j.addr \in j.passed
        /\ j.user = None => j.token = None \/ j.token \in gone
        /\ j.user # None => j.token \in Tokens /\ j.user = Owner[j.token]
        /\ j.step # "user" /\ j.user # None => j.user \in j.passed
        /\ j.step = "log" /\ j.status = 200 /\ j.route # "public" => j.user # None

Throttled == \A w \in Workers : ThrottledBy(job[w], expired)

LEMMA ThrottledIdle == \A gone : ThrottledBy(Idle, gone) /\ ThrottledBy(NewConn, gone)
BY DEF ThrottledBy, Idle, NewConn

LEMMA ThrottledStays ==
    ASSUME Throttled, job' = job, expired \subseteq expired'
    PROVE  Throttled'
BY DEF Throttled, ThrottledBy

\* One request moves on, and no token changes.
LEMMA ThrottledMove ==
    ASSUME Types, Throttled, expired' = expired,
           NEW w \in Workers, NEW j, ThrottledBy(j, expired),
           job' = [job EXCEPT ![w] = j]
    PROVE  Throttled'
<1> SUFFICES ASSUME NEW v \in Workers PROVE ThrottledBy(job'[v], expired')
  BY DEF Throttled
<1>1. DOMAIN job = Workers
  BY DEF Types, RequestTypeOK
<1>2. CASE v = w
  BY <1>1, <1>2
<1>3. CASE v # w
  <2>1. job'[v] = job[v] /\ ThrottledBy(job[v], expired)
    BY <1>1, <1>3 DEF Throttled
  <2> QED  BY <2>1
<1> QED  BY <1>2, <1>3

LEMMA ServeThrottled ==
    ASSUME Types, Throttled, NEW w \in Workers, Serve(w)
    PROVE  Throttled'
<1>1. job[w] \in JobType /\ ThrottledBy(job[w], expired)
  BY DEF Types, RequestTypeOK, Throttled
<1>2. CASE Preflight(w) \/ RequestLogger(w)
  BY <1>2, ThrottledIdle, ThrottledMove DEF Preflight, RequestLogger, Answered
<1>3. ASSUME NEW a \in Addresses, NEW t \in Tokens \cup {None}, NEW route \in Routes,
             RateLimitAddress(w, a, t, route)
      PROVE  Throttled'
  <2> DEFINE u == OptionalAuth(t)
             j == Request(IF u = None THEN "route" ELSE "user", a, t, route, u, {a})
  <2>1. /\ u = None => t = None \/ t \in expired
        /\ u # None => t \in Tokens /\ u = Owner[t]
    BY MiddlewareAssumption DEF OptionalAuth, parses
  <2>2. ThrottledBy(j, expired)
    BY <2>1 DEF ThrottledBy, Request
  <2>3. job' = [job EXCEPT ![w] = Idle] \/ job' = [job EXCEPT ![w] = j]
    BY <1>3 DEF RateLimitAddress, Answered, Continue
  <2>4. expired' = expired
    BY <1>3 DEF RateLimitAddress
  <2> HIDE DEF j
  <2> QED  BY <2>2, <2>3, <2>4, ThrottledIdle, ThrottledMove
<1>4. CASE RateLimitUser(w)
  <2> DEFINE j == [job[w] EXCEPT !.step = "route", !.passed = @ \cup {job[w].user}]
  <2>1. job[w] \in RequestsAt("user", Users, {0})
    BY <1>1, <1>4, RequestType DEF RateLimitUser
  <2>2. /\ j.step = "route" /\ j.passed = job[w].passed \cup {job[w].user}
        /\ j.addr = job[w].addr /\ j.user = job[w].user /\ j.token = job[w].token
    BY <2>1 DEF RequestsAt
  <2>3. job[w].step = "user"
    BY <2>1 DEF RequestsAt
  <2>4. job' = [job EXCEPT ![w] = Idle] \/ job' = [job EXCEPT ![w] = j]
    BY <1>4 DEF RateLimitUser, Answered, Continue
  <2>5. expired' = expired
    BY <1>4 DEF RateLimitUser
  <2> HIDE DEF j
  <2>6. ThrottledBy(j, expired)
    BY <1>1, <2>2, <2>3 DEF ThrottledBy
  <2> QED  BY <2>4, <2>5, <2>6, ThrottledIdle, ThrottledMove
<1>5. CASE Handle(w)
  <2> DEFINE j == [job[w] EXCEPT !.step = "log", !.status = Verdict(job[w])]
  <2>1. job[w] \in RequestsAt("route", Users \cup {None}, {0})
    BY <1>1, <1>5, RequestType DEF Handle
  <2>2. /\ j.step = "log" /\ j.status = Verdict(job[w]) /\ j.route = job[w].route
        /\ j.passed = job[w].passed /\ j.addr = job[w].addr
        /\ j.user = job[w].user /\ j.token = job[w].token
    BY <2>1 DEF RequestsAt
  <2>3. job[w].step = "route"
    BY <2>1 DEF RequestsAt
  <2>4. Verdict(job[w]) = 200 /\ job[w].route # "public" => parses(job[w].token)
    BY DEF Verdict, AuthMiddleware
  <2>5. job' = [job EXCEPT ![w] = Idle] \/ job' = [job EXCEPT ![w] = j]
    BY <1>5 DEF Handle, Answered, Continue
  <2>6. expired' = expired
    BY <1>5 DEF Handle
  <2> HIDE DEF j
  <2>7. ThrottledBy(j, expired)
    BY <1>1, <2>2, <2>3, <2>4 DEF ThrottledBy, parses
  <2> QED  BY <2>5, <2>6, <2>7, ThrottledIdle, ThrottledMove
<1> QED  BY <1>2, <1>3, <1>4, <1>5 DEF Serve, Proceed

-----------------------------------------------------------------------------
(***************************************************************************)
(* The life of the process.  Requests exist only while it serves or        *)
(* drains, and then the database is open; main returns only when drained.  *)
(***************************************************************************)
LifeInv ==
    /\ \A w \in Workers : job[w] # Idle => phase \in {"serving", "draining"}
    /\ phase \in {"serving", "draining"} =>
          "database" \in handles /\ (redis => "redis" \in handles)
    /\ phase = "connected" => "database" \in handles
    /\ listener = "open" => phase = "serving"
    /\ phase \in {"draining", "closing"} => signalled

LEMMA EndsLife ==
    ASSUME NEW how, Ends(how)
    PROVE  LifeInv' /\ Throttled'
BY ThrottledIdle DEF Ends, LifeInv, Throttled

LEMMA StaysLife ==
    ASSUME Types, LifeInv, Throttled, Stays
    PROVE  LifeInv' /\ Throttled'
<1>1. job' = job /\ expired' = expired
  BY DEF Stays, Start, KeepRequests, ConnectDatabase, ConnectRedis, BeginShutdown,
         ShutdownDone, CloseRedis, CloseDatabase, Listen, Signal
<1>2. Throttled'
  BY <1>1, ThrottledStays
<1>3. CASE Start
  BY <1>1, <1>2, <1>3 DEF Start, LifeInv
<1>4. CASE ConnectDatabase
  BY <1>1, <1>2, <1>4 DEF ConnectDatabase, LifeInv
<1>5. CASE ConnectRedis
  BY <1>1, <1>2, <1>5 DEF ConnectRedis, LifeInv
<1>6. CASE BeginShutdown
  BY <1>1, <1>2, <1>6 DEF BeginShutdown, LifeInv
<1>7. CASE ShutdownDone
  BY <1>1, <1>2, <1>7 DEF ShutdownDone, LifeInv
<1>8. CASE CloseRedis \/ CloseDatabase
  BY <1>1, <1>2, <1>8 DEF CloseRedis, CloseDatabase, LifeInv
<1>9. CASE Listen \/ Signal
  BY <1>1, <1>2, <1>9 DEF Listen, Signal, LifeInv
<1> QED
  BY <1>2, <1>3, <1>4, <1>5, <1>6, <1>7, <1>8, <1>9 DEF Stays

LEMMA ConnectionsLife ==
    ASSUME Types, LifeInv, Throttled,
           NEW w \in Workers, Accept(w) \/ DropConnection(w)
    PROVE  LifeInv' /\ Throttled'
<1>1. /\ job' = [job EXCEPT ![w] = NewConn] \/ job' = [job EXCEPT ![w] = Idle]
      /\ expired' = expired
  BY DEF Accept, DropConnection, Answered
<1>2. Throttled'
  BY <1>1, ThrottledIdle, ThrottledMove
<1>3. UNCHANGED <<phase, redis, handles, listener, signalled>>
  BY DEF Accept, DropConnection, lifecycle
<1>4. phase \in {"serving", "draining"}
  BY DEF Accept, DropConnection, LifeInv, NewConn, Idle
<1> QED  BY <1>2, <1>3, <1>4 DEF LifeInv

LEMMA ServeLife ==
    ASSUME Types, LifeInv, NEW w \in Workers, Serve(w)
    PROVE  LifeInv'
<1>1. job[w] # Idle
  <2>1. job[w] = NewConn \/ job[w].step \in {"user", "route", "log"}
    BY DEF Serve, Proceed, Preflight, RateLimitAddress, RateLimitUser, Handle, RequestLogger
  <2>2. NewConn # Idle /\ Idle.step = "idle"
    BY DEF NewConn, Idle
  <2> QED  BY <2>1, <2>2
<1>2. UNCHANGED <<phase, redis, handles, listener, signalled>>
  BY DEF Serve, Proceed, Preflight, RateLimitAddress, RateLimitUser, Handle,
         RequestLogger, lifecycle
<1> QED  BY <1>1, <1>2 DEF LifeInv

LEMMA TimeLife ==
    ASSUME LifeInv, Throttled, Time
    PROVE  LifeInv' /\ Throttled'
<1>1. /\ job' = job /\ expired \subseteq expired'
      /\ UNCHANGED <<phase, redis, handles, listener, signalled>>
  BY DEF Time, ClockTick, Expire, lifecycle
<1> QED  BY <1>1, ThrottledStays DEF LifeInv

-----------------------------------------------------------------------------
(* The log *)

\* Only RequestLogger and the end of the process touch the log.
LEMMA LogKept ==
    ASSUME Types, LogIsRecent, [SNext]_svars
    PROVE  LogIsRecent'
<1>1. CASE Exits
  BY <1>1, CapType
     DEF Exits, StartFails, RunFails, ShutdownTimeout, Return, Kill, Ends, LogIsRecent, Newest
<1>2. ASSUME NEW w \in Workers, Serve(w), RequestLogger(w) PROVE LogIsRecent'
  <2>1. job[w].status \in Statuses
    BY <1>2, RequestType DEF Types, RequestTypeOK, RequestLogger, RequestsAt
  <2>2. /\ lines' = AppendLine(lines, job[w].status)
        /\ finished' = Append(finished, job[w].status)
    BY <1>2 DEF RequestLogger
  <2>3. lines = Newest(finished, Cap) /\ finished \in Seq(Statuses)
    BY DEF LogIsRecent, Types, RequestTypeOK
  <2> QED  BY <2>1, <2>2, <2>3, AppendKeepsNewest DEF LogIsRecent
<1>3. CASE UNCHANGED <<lines, finished>>
  BY <1>3 DEF LogIsRecent
<1>4. ASSUME NEW w \in Workers, Serve(w), ~RequestLogger(w)
      PROVE  UNCHANGED <<lines, finished>>
  BY <1>4 DEF Serve, Proceed, Preflight, RateLimitAddress, RateLimitUser, Handle, KeepLog
<1>5. Stays \/ Time \/ UNCHANGED svars => UNCHANGED <<lines, finished>>
  BY DEF Stays, Start, KeepRequests, KeepLog, ConnectDatabase, ConnectRedis, BeginShutdown,
         ShutdownDone, CloseRedis, CloseDatabase, Listen, Signal, Time, ClockTick, Expire,
         svars, mvars
<1>6. ASSUME NEW w \in Workers, Accept(w) \/ DropConnection(w)
      PROVE  UNCHANGED <<lines, finished>>
  BY <1>6 DEF Accept, DropConnection, KeepLog
<1> QED  BY <1>1, <1>2, <1>3, <1>4, <1>5, <1>6, Steps

-----------------------------------------------------------------------------
(* The inductive invariant *)

ServerInv == Types /\ LogIsRecent /\ Throttled /\ LifeInv

LEMMA InitServer == SInit => ServerInv
<1> SUFFICES ASSUME SInit PROVE ServerInv
  OBVIOUS
<1>1. TypeOK
  BY SilenceType DEF SInit, MInit, Init, TypeOK, Infos
<1>2. RequestTypeOK
  <2>1. job \in [Workers -> JobType]
    BY IdleType DEF SInit, MInit
  <2>2. <<>> \in Seq(Statuses)
    OBVIOUS
  <2> QED  BY <2>1, <2>2 DEF SInit, MInit, RequestTypeOK
<1>3. LifeTypeOK
  <2>1. 0 \in 0..MaxRequests
    BY ServerAssumption
  <2> QED  BY <2>1 DEF SInit, LifeTypeOK
<1>4. LogIsRecent
  BY CapType DEF SInit, MInit, LogIsRecent, Newest
<1>5. Throttled /\ LifeInv
  BY ThrottledIdle DEF SInit, MInit, Throttled, LifeInv
<1> QED  BY <1>1, <1>2, <1>3, <1>4, <1>5 DEF ServerInv, Types

LEMMA ServerStep ==
    ASSUME ServerInv, [SNext]_svars
    PROVE  ServerInv'
<1>1. Types /\ LogIsRecent /\ Throttled /\ LifeInv
  BY DEF ServerInv
<1>2. LogIsRecent'
  BY <1>1, LogKept
<1>3. CASE Stays
  BY <1>1, <1>2, <1>3, StaysType, StaysLife DEF ServerInv
<1>4. CASE Exits
  <2>1. PICK how \in {"success", "failure", "killed"} : Ends(how)
    BY <1>4 DEF Exits, StartFails, RunFails, ShutdownTimeout, Return, Kill
  <2> QED  BY <1>1, <1>2, <1>4, <2>1, ExitsType, EndsLife DEF ServerInv
<1>5. CASE Time
  BY <1>1, <1>2, <1>5, TimeType, TimeLife DEF ServerInv
<1>6. ASSUME NEW w \in Workers, Accept(w) \/ DropConnection(w)
      PROVE  ServerInv'
  BY <1>1, <1>2, <1>6, ConnectionsType, ConnectionsLife DEF ServerInv
<1>7. ASSUME NEW w \in Workers, Serve(w)
      PROVE  ServerInv'
  <2>1. TypeOK' /\ RequestTypeOK' /\ UNCHANGED lifecycle
    BY <1>1, <1>7, ServeType DEF Types
  <2>2. Types'
    BY <1>1, <2>1 DEF Types, LifeTypeOK, lifecycle
  <2> QED  BY <1>1, <1>2, <1>7, <2>2, ServeThrottled, ServeLife DEF ServerInv
<1>8. CASE UNCHANGED svars
  <2>1. Throttled' /\ LifeInv'
    BY <1>1, <1>8 DEF Throttled, LifeInv, svars, mvars
  <2> QED  BY <1>1, <1>2, <1>8, <2>1, StutterType DEF ServerInv
<1> QED  BY <1>3, <1>4, <1>5, <1>6, <1>7, <1>8, Steps

LEMMA ServerInduction == SSpec => []ServerInv
BY InitServer, ServerStep, PTL DEF SSpec

-----------------------------------------------------------------------------
(* Theorems *)

(***************************************************************************)
(* The types, among them that the log buffer never outgrows its limit      *)
(* (logbuffer.go:23).                                                      *)
(***************************************************************************)
THEOREM ServerTypeCorrect == SSpec => []ServerTypeOK
<1>1. ServerInv => ServerTypeOK
  <2> SUFFICES ASSUME ServerInv PROVE ServerTypeOK
    OBVIOUS
  <2>1. Types /\ lines = Newest(finished, Cap) /\ finished \in Seq(Statuses)
    BY DEF ServerInv, LogIsRecent, Types, RequestTypeOK
  <2>2. Len(lines) <= Cap
    BY <2>1, CapType, NewestType
  <2> QED  BY <2>1, <2>2 DEF Types, RequestTypeOK, LifeTypeOK, ServerTypeOK, Statuses
<1> QED  BY <1>1, ServerInduction, PTL

(***************************************************************************)
(* No handler runs for an address or a user whose limiter did not let the  *)
(* request pass (ratelimit.go:18-38), for any interleaving of requests     *)
(* with the expiry of their tokens.                                        *)
(***************************************************************************)
THEOREM EveryHandlerThrottled == SSpec => []HandlersThrottled
<1>1. ServerInv => HandlersThrottled
  BY DEF ServerInv, Throttled, ThrottledBy, HandlersThrottled
<1> QED  BY <1>1, ServerInduction, PTL

(***************************************************************************)
(* The log buffer is the newest part of the history, for every limit       *)
(* (logbuffer.go:21-28).                                                   *)
(***************************************************************************)
THEOREM LogAlwaysRecent == SSpec => []LogIsRecent
<1>1. ServerInv => LogIsRecent
  BY DEF ServerInv
<1> QED  BY <1>1, ServerInduction, PTL

(***************************************************************************)
(* No request meets a closed database or Redis (main.go:50, 57), for any   *)
(* number of connections.                                                  *)
(***************************************************************************)
THEOREM HandlesStayOpen == SSpec => []HandlesOpen
<1>1. ServerInv => HandlesOpen
  <2> SUFFICES ASSUME ServerInv, NEW w \in Workers, InProgress(w)
               PROVE  "database" \in handles /\ (redis => "redis" \in handles)
    BY DEF HandlesOpen
  <2>1. job[w] # Idle
    BY DEF InProgress, Idle
  <2> QED  BY <2>1 DEF ServerInv, LifeInv
<1> QED  BY <1>1, ServerInduction, PTL

(***************************************************************************)
(* Success is reported only for a requested stop that cut nothing off      *)
(* (server.go:36-49, main.go:103).                                         *)
(***************************************************************************)
THEOREM ExitTellsTheTruth == SSpec => CleanExit
<1>1. ASSUME ServerInv, SNext, Up, ~Up', exit' = "success"
      PROVE  signalled /\ handles = {} /\ \A w \in Workers : ~InProgress(w)
  <2>1. CASE Return
    <3>1. \A w \in Workers : job[w] = Idle
      BY <1>1, <2>1 DEF Return, ServerInv, LifeInv
    <3> QED  BY <1>1, <2>1, <3>1 DEF Return, ServerInv, LifeInv, InProgress, Idle
  <2>2. CASE StartFails \/ RunFails \/ ShutdownTimeout \/ Kill
    BY <1>1, <2>2 DEF StartFails, RunFails, ShutdownTimeout, Kill, Ends
  <2>3. CASE Stays
    BY <1>1, <2>3 DEF Stays, Up, Start, ConnectDatabase, ConnectRedis, BeginShutdown,
                      ShutdownDone, CloseRedis, CloseDatabase, Listen, Signal
  <2>4. ASSUME NEW w \in Workers, Accept(w) \/ DropConnection(w) \/ Serve(w)
        PROVE  FALSE
    BY <1>1, <2>4 DEF Accept, DropConnection, Serve, lifecycle, Up
  <2>5. CASE Time
    BY <1>1, <2>5 DEF Time, lifecycle, Up
  <2> QED
    BY <1>1, <2>1, <2>2, <2>3, <2>4, <2>5 DEF SNext, Main, Connection, Stays
<1>2. ServerInv /\ [SNext]_svars =>
        [Up /\ ~Up' /\ exit' = "success" =>
           /\ signalled
           /\ handles = {}
           /\ \A w \in Workers : ~InProgress(w)]_svars
  BY <1>1
<1> QED  BY <1>2, ServerInduction, PTL DEF SSpec, CleanExit
=============================================================================
