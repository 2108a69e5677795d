--------------------------- MODULE MemoryLimiter ---------------------------
(***************************************************************************)
(* The in-memory rate limiter: one token bucket per key, refilled when the *)
(* key is next seen.  Allow holds the mutex throughout, so it is one step. *)
(*                                                                         *)
(* Time is discrete, Minute ticks to the minute, and tokens are counted in *)
(* 1/Minute of a token, so that a tick refills exactly Limit of them.  The *)
(* time since bucket.last is kept as an age, which stops growing at        *)
(* Horizon, where every bucket is full.                                    *)
(***************************************************************************)
EXTENDS Naturals

CONSTANTS
    Keys,      \* "ip:<address>" or "user:<id>", as the middleware builds them
    Limit,     \* requests per minute
    Burst,     \* requests beyond the limit that a full bucket allows
    Minute,    \* ticks per minute
    Second,    \* ticks per second, 0 if a tick is longer than that
    Horizon,   \* bound on ages
    NoBucket   \* the key is not in the map

Capacity == (Limit + Burst) * Minute

Bucket == [tokens : 0..Capacity, age : 0..Horizon]

ASSUME LimiterAssumption ==
    /\ Limit \in Nat \ {0}
    /\ Burst \in Nat
    /\ Minute \in Nat \ {0}
    /\ Second \in Nat
    /\ 2 * Second <= Minute
    /\ Horizon \in Nat \ {0}
    /\ Horizon * Limit >= Capacity
    /\ NoBucket \notin Bucket \cup Keys

VARIABLES
    store,  \* store[k]: the bucket of key k
    reply   \* what the step told the middleware

vars == <<store, reply>>

Silence == [key |-> NoBucket, allowed |-> TRUE, remaining |-> 0, reset |-> 0]

\* RateLimitInfo; reset is the time from now to Reset.
Info(k, allowed, remaining) ==
    [key |-> k, allowed |-> allowed, remaining |-> remaining, reset |-> Minute]

\* The Retry-After header made of it: some of the time to Reset has passed when
\* it is converted to whole seconds, and the rest of that second is cut off.
RetryAfter(info) == info.reset - Second

AtMost(bound, n) == IF n < bound THEN n ELSE bound

\* Mutant of Refilled: the time since the last admission is dropped.
Unfilled(b) == b.tokens

\* Mutant of Refilled: the refill counts from the first token only.
Restarted(b) == AtMost(Capacity, b.age * Limit)

\* Mutant of Refilled: no upper bound.
Overfilled(b) == b.tokens + b.age * Limit

Refilled(b) == AtMost(Capacity, b.tokens + b.age * Limit)

\* Mutant of FirstSeen: the burst is forgotten.
FirstSeenWithoutBurst(k) ==
    /\ store[k] = NoBucket
    /\ store' = [store EXCEPT ![k] = [tokens |-> (Limit - 1) * Minute, age |-> 0]]
    /\ reply' = Info(k, TRUE, Limit - 1)

FirstSeen(k) ==
    /\ store[k] = NoBucket
    /\ store' = [store EXCEPT ![k] = [tokens |-> Capacity - Minute, age |-> 0]]
    /\ reply' = Info(k, TRUE, Limit - 1)

\* Mutant of Admit: Remaining is what the bucket held before.
AdmitReportingBefore(k) ==
    /\ store[k] # NoBucket
    /\ Refilled(store[k]) >= Minute
    /\ LET before == Refilled(store[k]) IN
        /\ store' = [store EXCEPT ![k] = [tokens |-> before - Minute, age |-> 0]]
        /\ reply' = Info(k, TRUE, before \div Minute)

\* Mutant of Admit: bucket.last does not move.
AdmitKeepingLast(k) ==
    /\ store[k] # NoBucket
    /\ Refilled(store[k]) >= Minute
    /\ LET left == Refilled(store[k]) - Minute IN
        /\ store' = [store EXCEPT ![k] = [store[k] EXCEPT !.tokens = left]]
        /\ reply' = Info(k, TRUE, left \div Minute)

Admit(k) ==
    /\ store[k] # NoBucket
    /\ Refilled(store[k]) >= Minute
    /\ LET left == Refilled(store[k]) - Minute IN
        /\ store' = [store EXCEPT ![k] = [tokens |-> left, age |-> 0]]
        /\ reply' = Info(k, TRUE, left \div Minute)

\* Mutant of Deny: bucket.last moves and the refill is not stored.
DenyResetting(k) ==
    /\ store[k] # NoBucket
    /\ Refilled(store[k]) < Minute
    /\ store' = [store EXCEPT ![k] = [store[k] EXCEPT !.age = 0]]
    /\ reply' = Info(k, FALSE, 0)

\* A refusal stores the refilled tokens but leaves bucket.last as it was.
Deny(k) ==
    /\ store[k] # NoBucket
    /\ Refilled(store[k]) < Minute
    /\ store' = [store EXCEPT ![k] = [store[k] EXCEPT !.tokens = Refilled(store[k])]]
    /\ reply' = Info(k, FALSE, 0)

Allow(k) == FirstSeen(k) \/ Admit(k) \/ Deny(k)

\* A tick of the clock.
Older(b) == IF b = NoBucket THEN b ELSE [b EXCEPT !.age = AtMost(Horizon, b.age + 1)]

Tick ==
    /\ store' = [k \in Keys |-> Older(store[k])]
    /\ reply' = Silence

\* A restart of the process forgets every bucket (NewMemoryLimiter).
Restart ==
    /\ store' = [k \in Keys |-> NoBucket]
    /\ reply' = Silence

Init ==
    /\ store = [k \in Keys |-> NoBucket]
    /\ reply = Silence

Next == (\E k \in Keys : Allow(k)) \/ Tick \/ Restart

Spec == Init /\ [][Next]_vars

-----------------------------------------------------------------------------
(***************************************************************************)
(* Buckets hold between no token and Capacity of them, and Remaining never *)
(* says more than a full bucket holds.                                     *)
(***************************************************************************)
TypeOK ==
    /\ store \in [Keys -> Bucket \cup {NoBucket}]
    /\ reply \in [key : Keys \cup {NoBucket}, allowed : BOOLEAN,
                  remaining : 0..(Limit + Burst), reset : {0, Minute}]
=============================================================================
