---------------------------- MODULE TokenManager ----------------------------
(***************************************************************************)
(* auth.Manager: refresh tokens that are issued, stored under their jti,   *)
(* exchanged for new ones and revoked, by concurrent requests, over a      *)
(* Redis that may fail or, in a process that found no Redis when it        *)
(* started, over a map of its own.  A step ends at one store command, or   *)
(* where the reply reaches its client or is lost.  Access tokens are not   *)
(* stored and are left out; the signature of a token that a client         *)
(* presents is taken to be right.                                          *)
(***************************************************************************)
EXTENDS Naturals

CONSTANTS
    Users,      \* user ids
    Tokens,     \* refresh tokens, named by their jti
    Workers,    \* goroutines that serve requests
    Lifetime,   \* RefreshTokenTTL, in ticks
    MaxVersion, \* bound on JWT_SECRET_VERSION
    Redis,      \* whether REDIS_ADDR names a Redis
    Faults,     \* ways in which a Redis command may fail
    None        \* no token, no claims

\* What a token says, with the ticks left until it expires.
Claims == [user : Users, sv : 1..MaxVersion, left : 0..Lifetime]

ASSUME TokenAssumption ==
    /\ Lifetime \in Nat \ {0}
    /\ MaxVersion \in Nat \ {0}
    /\ Redis \in BOOLEAN
    /\ Faults \subseteq {"refused", "ack_lost"}
    /\ ~Redis => Faults = {}
    /\ None \notin Tokens \cup Claims

VARIABLES
    claims,   \* claims[t]: what t says; left is the time to its "exp"
    store,    \* store[t]: time for which the key refresh:<t> stays, 0 if absent
    parked,   \* the keys in Redis while the process uses its map
    online,   \* whether the manager was given a Redis client
    held,     \* tokens that reached a client
    version,  \* JWT_SECRET_VERSION of the running process
    job       \* job[w]: the request that w serves

vars == <<claims, store, parked, online, held, version, job>>

Idle == [step |-> "idle"]

Minted == {t \in Tokens : claims[t] # None}

\* The token is signed by this secret, not expired, and of this version.
parses(t) == t \in Minted /\ claims[t].left > 0 /\ claims[t].sv = version

stored(t) == store[t] > 0

\* t waits in Redis for a process that uses it.
Parked(t) == parked[t] > 0

\* Mutant of issueRefresh: exp is a tick late.
issueRefreshLate(t, u) ==
    /\ t \notin Minted
    /\ claims' = [claims EXCEPT ![t] = [user |-> u, sv |-> version, left |-> Lifetime + 1]]

\* A new jti, with its lifetime starting now.
issueRefresh(t, u) ==
    /\ t \notin Minted
    /\ claims' = [claims EXCEPT ![t] = [user |-> u, sv |-> version, left |-> Lifetime]]

\* The Redis command took effect, whatever its caller was told.
Outcomes == {"ok"} \cup IF online THEN Faults ELSE {}

Command(outcome, effect) == store' = IF outcome = "refused" THEN store ELSE effect

Goto(w, next) == job' = [job EXCEPT ![w] = next]

Fail(w) == Goto(w, Idle) /\ UNCHANGED held

Deliver(w, t) == Goto(w, Idle) /\ held' = held \cup {t}

Persisting(t, old) == [step |-> "persist", new |-> t, old |-> old]

Revoking(t, old) == [step |-> "revoke", new |-> t, old |-> old]

\* Nothing is left but to send t, which replaces old.
Replying(t, old) == [step |-> "reply", new |-> t, old |-> old]

-----------------------------------------------------------------------------
\* Register and Login: a token that replaces none.
IssueTokens(w, u) ==
    /\ job[w] = Idle
    /\ \E t \in Tokens :
          /\ issueRefresh(t, u)
          /\ job' = [job EXCEPT ![w] = Persisting(t, None)]
    /\ UNCHANGED <<store, parked, online, held, version>>

(***************************************************************************)
(* RefreshTokens up to the GET of the presented token, and the minting of  *)
(* its successor.  A refusal leaves the state alone and is left out, but   *)
(* for the step that it takes.                                             *)
(***************************************************************************)
ensureRefreshValid(t) == stored(t)

\* Mutant of RefreshTokens: the old token is revoked before the new one is stored.
RefreshRevokingFirst(w, u, old) ==
    /\ job[w] = Idle
    /\ parses(old)
    /\ claims[old].user = u
    /\ ensureRefreshValid(old)
    /\ store' = [store EXCEPT ![old] = 0]
    /\ \E t \in Tokens :
          /\ issueRefresh(t, u)
          /\ job' = [job EXCEPT ![w] = Persisting(t, old)]
    /\ UNCHANGED <<parked, online, held, version>>

RefreshTokens(w, u, old) ==
    /\ job[w] = Idle
    /\ parses(old)
    /\ claims[old].user = u
    /\ ensureRefreshValid(old)
    /\ \E t \in Tokens :
          /\ issueRefresh(t, u)
          /\ job' = [job EXCEPT ![w] = Persisting(t, old)]
    /\ UNCHANGED <<store, parked, online, held, version>>

\* user.Service.Refresh takes the user from the token (ExtractUserID).
Refresh(w, old) == RefreshTokens(w, claims[old].user, old)

\* A token is stored: the one that it replaces, if any, is revoked next.
Stored(new, old) == IF old = None THEN Replying(new, None) ELSE Revoking(new, old)

\* Mutant of persistRefresh: its error is ignored.
persistQuietly(w) ==
    LET j == job[w] IN
    /\ j.step = "persist"
    /\ UNCHANGED <<claims, parked, online, version>>
    /\ \E outcome \in Outcomes : Command(outcome, [store EXCEPT ![j.new] = Lifetime])
    /\ Goto(w, Stored(j.new, j.old))
    /\ UNCHANGED held

\* Mutant of persistRefresh: the old token gets a last tick of grace.
persistWithGrace(w) ==
    LET j == job[w] IN
    /\ j.step = "persist"
    /\ UNCHANGED <<claims, parked, online, version>>
    /\ \E outcome \in Outcomes :
        /\ Command(outcome, [t \in Tokens |-> CASE t = j.new -> Lifetime
                                                [] t = j.old -> 1
                                                [] OTHER -> store[t]])
        /\ \/ outcome # "ok" /\ Fail(w)
           \/ outcome = "ok" /\ Goto(w, Stored(j.new, j.old)) /\ UNCHANGED held

persistRefresh(w) ==
    LET j == job[w] IN
    /\ j.step = "persist"
    /\ UNCHANGED <<claims, parked, online, version>>
    /\ \E outcome \in Outcomes :
        /\ Command(outcome, [store EXCEPT ![j.new] = Lifetime])
        /\ \/ outcome # "ok" /\ Fail(w)
           \/ outcome = "ok" /\ Goto(w, Stored(j.new, j.old)) /\ UNCHANGED held

\* Whether the old token is gone or not, the new one is sent.
revoke(w) ==
    /\ job[w].step = "revoke"
    /\ \E outcome \in Outcomes : Command(outcome, [store EXCEPT ![job[w].old] = 0])
    /\ Goto(w, Replying(job[w].new, job[w].old))
    /\ UNCHANGED <<claims, parked, online, held, version>>

\* The answer arrives, or its client is gone.
Reply(w) ==
    /\ job[w].step = "reply"
    /\ Deliver(w, job[w].new) \/ Fail(w)
    /\ UNCHANGED <<claims, store, parked, online, version>>

-----------------------------------------------------------------------------
Less(n) == IF n = 0 THEN 0 ELSE n - 1

\* Mutant of Tick: SET was called without RefreshTokenTTL.
TickKeepingKeys ==
    /\ claims' = [t \in Tokens |->
                    IF t \in Minted THEN [claims[t] EXCEPT !.left = Less(claims[t].left)]
                    ELSE None]
    /\ UNCHANGED <<store, parked, online, held, version, job>>

Aged(keys) == [t \in Tokens |-> Less(keys[t])]

\* Time passes.  Redis drops a key after RefreshTokenTTL; the map keeps it.
Tick ==
    /\ claims' = [t \in Tokens |->
                    IF t \in Minted THEN [claims[t] EXCEPT !.left = Less(claims[t].left)]
                    ELSE None]
    /\ store' = IF online THEN Aged(store) ELSE store
    /\ parked' = Aged(parked)
    /\ UNCHANGED <<online, held, version, job>>

NoKeys == [t \in Tokens |-> 0]

\* What Redis holds, whether the process uses it or not.
InRedis == IF online THEN store ELSE parked

\* Redis answers when the process starts, or the process begins an empty map.
Backend(found) ==
    /\ online' = found
    /\ store' = IF found THEN InRedis ELSE NoKeys
    /\ parked' = IF found THEN NoKeys ELSE InRedis

\* A crash or a deployment, perhaps with a new JWT_SECRET_VERSION.
Restart ==
    /\ \E v \in version..MaxVersion : version' = v
    /\ \E found \in {FALSE, Redis} : Backend(found)
    /\ job' = [w \in Workers |-> Idle]
    /\ UNCHANGED <<claims, held>>

Init ==
    /\ claims = [t \in Tokens |-> None]
    /\ store = NoKeys
    /\ parked = NoKeys
    /\ online \in {FALSE, Redis}
    /\ held = {}
    /\ version = 1
    /\ job = [w \in Workers |-> Idle]

Serve(w) == persistRefresh(w) \/ revoke(w) \/ Reply(w)

Next ==
    \/ \E w \in Workers, u \in Users : IssueTokens(w, u)
    \/ \E w \in Workers, old \in held : Refresh(w, old)
    \/ \E w \in Workers : Serve(w)
    \/ Tick
    \/ Restart

Spec == Init /\ [][Next]_vars

\* Time passes.
FairSpec == Spec /\ WF_vars(Tick)

-----------------------------------------------------------------------------
Jobs == [step : {"persist", "revoke", "reply"}, new : Tokens, old : Tokens \cup {None}]

\* Well-formed claims, keys and requests; clients hold minted tokens only.
TypeOK ==
    /\ claims \in [Tokens -> Claims \cup {None}]
    /\ store \in [Tokens -> 0..Lifetime]
    /\ parked \in [Tokens -> 0..Lifetime]
    /\ online \in BOOLEAN
    /\ held \subseteq Minted
    /\ version \in 1..MaxVersion
    /\ job \in [Workers -> Jobs \cup {Idle}]

(***************************************************************************)
(* What the requests in flight know agrees with the store: the token that  *)
(* a request is about to send is its own and nobody's yet, expires no      *)
(* sooner than the one that it replaces, and is stored before that one is  *)
(* revoked; a key never goes before the token that it stands for expires,  *)
(* and none is in the map and in Redis at a time.                          *)
(***************************************************************************)
RequestsInOrder ==
    /\ \A w \in {v \in Workers : job[v] # Idle} :
          LET new == job[w].new
              old == job[w].old
          IN /\ new \in Minted \ held
             /\ ~Parked(new)
             /\ claims[new].sv = version
             /\ old # None => /\ old \in held
                              /\ claims[old].user = claims[new].user
                              /\ claims[old].left <= claims[new].left
             /\ job[w].step = "revoke" => old # None
             /\ job[w].step # "persist" => claims[new].left <= store[new]
    /\ \A w1, w2 \in {v \in Workers : job[v] # Idle} :
          w1 # w2 => job[w1].new # job[w2].new

KeysOutlive ==
    \A t \in Tokens : /\ stored(t) => t \in Minted /\ claims[t].left <= store[t]
                      /\ Parked(t) => t \in Minted /\ claims[t].left <= parked[t]

OneHome == \A t \in Tokens : ~(stored(t) /\ Parked(t))

VersionsPast == \A t \in Minted : claims[t].sv <= version

TokenInv == TypeOK /\ RequestsInOrder /\ KeysOutlive /\ OneHome /\ VersionsPast

\* A refresh with t would succeed now.
Accepted(t) == parses(t) /\ ensureRefreshValid(t)

(***************************************************************************)
(* A refresh token that is sent to a client is in the store by then, and   *)
(* its key outlives its signature: it works unless it expired on the way.  *)
(***************************************************************************)
DeliveredUsable ==
    [][\A t \in held' \ held : claims'[t].left > 0 => Accepted(t)']_vars

\* The step lets t expire.
Expires(t) == claims'[t].left = 0 \/ version' # version

\* Some request has a token that works, in place of t, and only has to send it.
Replaced(t) ==
    \E w \in Workers : job[w].step = "reply" /\ job[w].old = t /\ Accepted(job[w].new)

(***************************************************************************)
(* While the secret version stays, a token that worked stops working       *)
(* before it expires only once the request that exchanges it has stored    *)
(* the successor and is about to send it (RefreshTokens persists before it *)
(* revokes, and returns no error afterwards), or when a restart ends the   *)
(* map that held it or loses sight of Redis.  A reply lost after that, or  *)
(* a process that stops before it sends the reply, does leave the client   *)
(* without a token: the code cannot help it.                               *)
(***************************************************************************)
NeverStranded ==
    [][\A t \in held : Accepted(t) /\ ~Accepted(t)' =>
          \/ Expires(t)
          \/ Replaced(t)'
          \/ Restart /\ (~online \/ ~online')]_vars

(***************************************************************************)
(* A token that a client holds and that no longer works never works again, *)
(* although another request may hold a GET that still saw it.  Only what   *)
(* waits in Redis comes back, when a restart finds Redis again after one   *)
(* that fell back to the map (main.go:58); and a token that stops working  *)
(* otherwise than by a restart, as one that is revoked does, does not wait *)
(* there.  One whose DEL failed did not stop working: it may still be set  *)
(* aside by a restart and work again after a later one.                    *)
(***************************************************************************)
DeadStaysDead ==
    [][\A t \in held :
          /\ ~Accepted(t) /\ ~(Parked(t) /\ Restart) => ~Accepted(t)'
          /\ Accepted(t) /\ ~Accepted(t)' /\ ~Restart => ~Parked(t)']_vars

(***************************************************************************)
(* Redis keeps no refresh token for ever, not even one that its client     *)
(* abandoned, that a lost acknowledgement orphaned, or that no process has *)
(* looked at since a restart.                                              *)
(***************************************************************************)
KeysExpire == \A t \in Tokens : InRedis[t] > 0 ~> InRedis[t] = 0
=============================================================================
