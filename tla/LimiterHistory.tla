--------------------------- MODULE LimiterHistory ---------------------------
(***************************************************************************)
(* MemoryLimiter beside the leaky bucket that it says it implements, and   *)
(* what its replies said about each key.                                   *)
(***************************************************************************)
EXTENDS MemoryLimiter

VARIABLES
    level,     \* level[k]: tokens of a leaky bucket refilled on every tick
    promised,  \* promised[k]: requests that Remaining has promised to k
    waited,    \* waited[k]: ticks since the last reply to k, up to Minute
    refused    \* refused[k]: k was refused since its leaky bucket was last full

hvars == <<vars, level, promised, waited, refused>>

HInit ==
    /\ Init
    /\ level = [k \in Keys |-> Capacity]
    /\ promised = [k \in Keys |-> 0]
    /\ waited = [k \in Keys |-> 0]
    /\ refused = [k \in Keys |-> FALSE]

\* The leaky bucket lets through whatever the limiter lets through.
Drained(n) == IF n < Minute THEN 0 ELSE n - Minute

\* One promised request was made; the new reply may promise more.
Renewed(n, remaining) == IF n > remaining THEN n - 1 ELSE remaining

HAllow(k) ==
    /\ Allow(k)
    /\ level' = IF reply'.allowed THEN [level EXCEPT ![k] = Drained(level[k])] ELSE level
    /\ promised' = [promised EXCEPT ![k] = Renewed(promised[k], reply'.remaining)]
    /\ waited' = [waited EXCEPT ![k] = 0]
    /\ refused' = IF reply'.allowed THEN refused ELSE [refused EXCEPT ![k] = TRUE]

HTick ==
    /\ Tick
    /\ level' = [k \in Keys |-> AtMost(Capacity, level[k] + Limit)]
    /\ waited' = [k \in Keys |-> AtMost(Minute, waited[k] + 1)]
    /\ refused' = [k \in Keys |-> refused[k] /\ level[k] + Limit < Capacity]
    /\ UNCHANGED promised

HRestart ==
    /\ Restart
    /\ level' = [k \in Keys |-> Capacity]
    /\ refused' = [k \in Keys |-> FALSE]
    /\ UNCHANGED <<promised, waited>>

HNext == (\E k \in Keys : HAllow(k)) \/ HTick \/ HRestart

HSpec == HInit /\ [][HNext]_hvars

\* The clock runs, and a client that is refused tries again.
RetryingSpec == HSpec /\ WF_hvars(HTick) /\ \A k \in Keys : WF_hvars(HAllow(k))

(***************************************************************************)
(* Why: the limiter is never behind the leaky bucket, nor behind what its  *)
(* replies promised, an unrefreshed bucket.last only ages a bucket, and    *)
(* only a refusal brings the limiter ahead.                                *)
(***************************************************************************)
Headroom(b) == IF b = NoBucket THEN Capacity ELSE Refilled(b)

LimiterAhead ==
    \A k \in Keys :
        /\ level[k] <= Headroom(store[k])
        /\ promised[k] * Minute <= Headroom(store[k])
        /\ store[k] # NoBucket => waited[k] <= store[k].age \/ store[k].age = Horizon
        /\ ~refused[k] => level[k] = Headroom(store[k])

HistoryTypeOK ==
    /\ level \in [Keys -> 0..Capacity]
    /\ promised \in [Keys -> Nat]
    /\ waited \in [Keys -> 0..Minute]
    /\ refused \in [Keys -> BOOLEAN]

LimiterInv ==
    /\ store \in [Keys -> Bucket \cup {NoBucket}]
    /\ HistoryTypeOK
    /\ LimiterAhead

Refused(k) == reply'.key = k /\ ~reply'.allowed

(***************************************************************************)
(* No client is refused a request that the advertised leaky bucket         *)
(* (limiter.go:24) would have let through.                                 *)
(***************************************************************************)
NeverStricter == [][\A k \in Keys : Refused(k) => level[k] < Minute]_hvars

(***************************************************************************)
(* What Allow answers for a key is kept: after Remaining = n (limiter.go:55*)
(* and 62) none of the next n requests of that key is refused by it. This  *)
(* is no promise of the X-RateLimit-Remaining header: a signed-in request  *)
(* passes two limiters and the header shows the second one's answer only   *)
(* (ratelimit.go:21,33), while the address may have less left.             *)
(***************************************************************************)
PromiseKept == [][\A k \in Keys : Refused(k) => promised[k] = 0]_hvars

(***************************************************************************)
(* Retry-After is kept: a key that stays silent for the seconds that the   *)
(* header asks for (response.go:63, the minute cut to 59) is not refused by*)
(* this limiter then, even though a refusal leaves bucket.last alone.  It  *)
(* needs a Limit of 2: at one request a minute, 59 seconds are no token.   *)
(***************************************************************************)
RetryAfterKept ==
    [][\A k \in Keys : Refused(k) => waited[k] < RetryAfter(reply')]_hvars

(***************************************************************************)
(* A client that keeps asking is let through again and again: its refused  *)
(* attempts, which also touch the bucket (limiter.go:58), do not push the  *)
(* next token away.                                                        *)
(***************************************************************************)
EventuallyAdmitted == \A k \in Keys : []<>(reply.key = k /\ reply.allowed)

(***************************************************************************)
(* The limiter lets through what the leaky bucket would have stopped only  *)
(* for a client that it refused before, since its bucket was last full: a  *)
(* refusal adds the waiting time to the tokens and leaves bucket.last, so  *)
(* that the same time counts again (limiter.go:58-64).                     *)
(***************************************************************************)
LooserOnlyAfterRefusal ==
    [][\A k \in Keys : reply'.key = k /\ reply'.allowed /\ level[k] < Minute
                      => refused[k]]_hvars
=============================================================================
