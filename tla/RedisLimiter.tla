---------------------------- MODULE RedisLimiter ----------------------------
(***************************************************************************)
(* The rate limiter that main.go installs when Redis answers: one DECR per *)
(* request, shared by every process.  DECR takes a missing key for 0 and   *)
(* answers -1, so its reply is never redis.Nil and the branch that would   *)
(* SET the key to the limit (limiter.go:83-91) is never entered.           *)
(***************************************************************************)
EXTENDS Integers

CONSTANTS
    Keys,      \* rate limited clients
    Limit,     \* requests per minute, at least 1
    MaxCalls,  \* bound on the requests of a key
    Missing    \* no such key in Redis

VARIABLES
    counter,  \* counter[k]: the integer under the key, or Missing
    recent,   \* recent[k]: requests that k made in this minute
    reply     \* what the step told the middleware

vars == <<counter, recent, reply>>

Silence == [key |-> Missing, allowed |-> TRUE]

\* The reply of DECR, and the value that it leaves.
Decr(val) == IF val = Missing THEN -1 ELSE val - 1

Answer(k, allowed) == reply' = [key |-> k, allowed |-> allowed]

Allow(k) ==
    /\ recent[k] < MaxCalls
    /\ counter[k] # Missing => counter[k] > -MaxCalls
    /\ recent' = [recent EXCEPT ![k] = @ + 1]
    /\ LET remaining == Decr(counter[k]) IN
        /\ counter' = [counter EXCEPT ![k] = remaining]
        /\ Answer(k, remaining >= 0)

\* Redis does not answer: the middleware lets the request pass.
AllowUnanswered(k) ==
    /\ recent[k] < MaxCalls
    /\ recent' = [recent EXCEPT ![k] = @ + 1]
    /\ UNCHANGED counter
    /\ Answer(k, TRUE)

\* A new minute.  The key has no expiry: only SET would have given it one.
NewMinute ==
    /\ recent' = [k \in Keys |-> 0]
    /\ reply' = Silence
    /\ UNCHANGED counter

Init ==
    /\ counter = [k \in Keys |-> Missing]
    /\ recent = [k \in Keys |-> 0]
    /\ reply = Silence

Next == NewMinute \/ \E k \in Keys : Allow(k) \/ AllowUnanswered(k)

Spec == Init /\ [][Next]_vars

-----------------------------------------------------------------------------
(***************************************************************************)
(* limiter.go:67: the limiter "coordinates distributed throttling", to     *)
(* RequestsPerMinute (config.go:74): who is refused made that many         *)
(* requests in the minute.                                                 *)
(***************************************************************************)
RefusedOnlyOverLimit ==
    \A k \in Keys : reply.key = k /\ ~reply.allowed => recent[k] > Limit
=============================================================================
