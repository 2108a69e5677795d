---------------------------- MODULE LimiterProofs ----------------------------
(***************************************************************************)
(* For every limit, burst and resolution of the clock: the limiter is at   *)
(* least as generous as the leaky bucket and keeps what it says of a key.  *)
(***************************************************************************)
EXTENDS LimiterHistory, BucketProofs

(* The inductive invariant *)

StoreOK == store \in [Keys -> Bucket \cup {NoBucket}]

\* What LimiterInv says of one key.
Ahead(b, l, p, wt, r) ==
    /\ l <= Headroom(b)
    /\ p * Minute <= Headroom(b)
    /\ b # NoBucket => wt <= b.age \/ b.age = Horizon
    /\ ~r => l = Headroom(b)

LEMMA InitLimiter == HInit => LimiterInv
<1> SUFFICES ASSUME HInit PROVE LimiterInv
  OBVIOUS
<1>1. 0 * Minute = 0 /\ Minute \in Nat
  BY LimiterAssumption
<1>2. StoreOK /\ HistoryTypeOK
  BY <1>1, CapacityType DEF HInit, Init, StoreOK, HistoryTypeOK
<1>3. LimiterAhead
  <2> SUFFICES ASSUME NEW k \in Keys
               PROVE  Ahead(store[k], level[k], promised[k], waited[k], refused[k])
    BY DEF LimiterAhead, Ahead
  <2>1. store[k] = NoBucket /\ level[k] = Capacity /\ promised[k] = 0
    BY DEF HInit, Init
  <2> QED  BY <1>1, <2>1, CapacityType DEF Ahead, Headroom
<1> QED  BY <1>2, <1>3 DEF LimiterInv, StoreOK

\* One reply: the bucket b of the key becomes c, worth less by one request if admitted.
LEMMA AdmittedKey ==
    ASSUME NEW b \in Bucket, Refilled(b) >= Minute,
           NEW l \in 0..Capacity, NEW p \in Nat, NEW wt \in 0..Minute, NEW r \in BOOLEAN,
           Ahead(b, l, p, wt, r),
           NEW c, c = [tokens |-> Refilled(b) - Minute, age |-> 0]
    PROVE  /\ c \in Bucket
           /\ Drained(l) \in 0..Capacity
           /\ Renewed(p, (Refilled(b) - Minute) \div Minute) \in Nat
           /\ Ahead(c, Drained(l), Renewed(p, (Refilled(b) - Minute) \div Minute), 0, r)
<1> DEFINE left == Refilled(b) - Minute
           q == left \div Minute
<1>1. /\ Minute \in Nat \ {0} /\ Limit \in Nat /\ Horizon \in Nat
      /\ b # NoBucket /\ NoBucket \notin Bucket
  BY LimiterAssumption
<1>2. left \in 0..Capacity
  BY <1>1, RefilledType, CapacityType
<1>3. q \in Nat /\ q * Minute <= left
  BY <1>2, CapacityType, Quotient
<1>4. c \in Bucket /\ c.tokens = left /\ c.age = 0
  BY <1>1, <1>2 DEF Bucket
<1>5. Headroom(c) = left
  <2>1. 0 * Limit = 0
    BY <1>1
  <2>2. c # NoBucket
    BY <1>1, <1>4
  <2> QED  BY <1>2, <1>4, <2>1, <2>2, CapacityType DEF Headroom, Refilled, AtMost
<1>6. l <= Refilled(b) /\ p * Minute <= Refilled(b) /\ (~r => l = Refilled(b))
  BY <1>1 DEF Ahead, Headroom
<1>7. Drained(l) \in 0..Capacity /\ Drained(l) <= left /\ (~r => Drained(l) = left)
  BY <1>1, <1>2, <1>6, RefilledType, CapacityType DEF Drained
<1>8. Renewed(p, q) \in Nat /\ Renewed(p, q) * Minute <= left
  <2>1. CASE p > q
    <3>1. Renewed(p, q) = p - 1 /\ p - 1 \in Nat
      BY <1>3, <2>1 DEF Renewed
    <3>2. (p - 1) * Minute = p * Minute - Minute
      BY <1>1
    <3> QED  BY <1>1, <1>2, <1>6, <3>1, <3>2, RefilledType, CapacityType
  <2>2. CASE ~(p > q)
    BY <1>3, <2>2 DEF Renewed
  <2> QED  BY <2>1, <2>2
<1>9. 0 <= c.age
  BY <1>4
<1> QED  BY <1>4, <1>5, <1>7, <1>8, <1>9 DEF Ahead

\* A refusal is due: nothing is promised, and the time to wait is not over.
LEMMA DenialIsDue ==
    ASSUME NEW b \in Bucket, Refilled(b) < Minute,
           NEW l \in 0..Capacity, NEW p \in Nat, NEW wt \in 0..Minute,
           l <= Refilled(b), p * Minute <= Refilled(b), wt <= b.age \/ b.age = Horizon
    PROVE  l < Minute /\ p = 0 /\ (Limit >= 2 => wt < Minute - Second)
<1>1. /\ Minute \in Nat \ {0} /\ Second \in Nat /\ 2 * Second <= Minute
      /\ Limit \in Nat \ {0} /\ Horizon \in Nat
      /\ Horizon * Limit >= Capacity
      /\ b.tokens \in 0..Capacity /\ b.age \in 0..Horizon
  BY LimiterAssumption DEF Bucket
<1>2. l < Minute
  BY <1>1, RefilledType, CapacityType
<1>3. p = 0
  <2>1. p >= 1 => Minute <= p * Minute
    BY <1>1
  <2> QED  BY <1>1, <2>1, RefilledType, CapacityType
<1>4. ASSUME Limit >= 2 PROVE wt < Minute - Second
  <2>1. b.age # Horizon
    <3>1. b.age = Horizon => Refilled(b) = Capacity
      BY <1>1, CapacityType DEF Refilled, AtMost
    <3> QED  BY <1>1, <3>1, CapacityType, RefilledType
  <2>2. b.age < Minute - Second
    <3>1. 2 * b.age <= b.age * Limit /\ b.age * Limit \in Nat
      BY <1>1, <1>4
    <3>2. b.age * Limit < Minute
      BY <1>1, <3>1, CapacityType DEF Refilled, AtMost
    <3> QED  BY <1>1, <3>1, <3>2
  <2> QED  BY <1>1, <2>1, <2>2
<1> QED  BY <1>2, <1>3, <1>4

LEMMA DeniedKey ==
    ASSUME NEW b \in Bucket, Refilled(b) < Minute,
           NEW l \in 0..Capacity, NEW p \in Nat, p = 0,
           l <= Refilled(b),
           NEW c, c = [b EXCEPT !.tokens = Refilled(b)]
    PROVE  /\ c \in Bucket
           /\ Renewed(p, 0) \in Nat
           /\ Ahead(c, l, Renewed(p, 0), 0, TRUE)
<1>1. /\ Minute \in Nat \ {0}
      /\ b # NoBucket /\ NoBucket \notin Bucket
      /\ b.tokens \in 0..Capacity /\ b.age \in 0..Horizon /\ Horizon \in Nat
  BY LimiterAssumption DEF Bucket
<1>2. c \in Bucket /\ c.tokens = Refilled(b) /\ c.age = b.age
  BY <1>1, RefilledType DEF Bucket
<1>3. Refilled(b) <= Refilled(c)
  BY <1>2, RefilledType
<1>4. Renewed(p, 0) = 0
  BY DEF Renewed
<1>5. c # NoBucket /\ 0 * Minute = 0 /\ 0 <= c.age /\ 0 <= Refilled(c)
  BY <1>1, <1>2, RefilledType
<1> QED
  BY <1>2, <1>3, <1>4, <1>5, RefilledType, CapacityType DEF Ahead, Headroom

LEMMA FirstKey ==
    ASSUME NEW l \in 0..Capacity, NEW p \in Nat, NEW c, NEW r \in BOOLEAN,
           p * Minute <= Capacity, ~r => l = Capacity,
           c = [tokens |-> Capacity - Minute, age |-> 0]
    PROVE  /\ c \in Bucket
           /\ Drained(l) \in 0..Capacity
           /\ Renewed(p, Limit - 1) \in Nat
           /\ Ahead(c, Drained(l), Renewed(p, Limit - 1), 0, r)
<1>1. /\ Minute \in Nat \ {0} /\ Limit \in Nat \ {0} /\ Horizon \in Nat /\ Burst \in Nat
      /\ NoBucket \notin Bucket
  BY LimiterAssumption
<1>2. c \in Bucket /\ c.tokens = Capacity - Minute /\ c.age = 0 /\ c # NoBucket
  BY <1>1, CapacityType DEF Bucket
<1>3. Headroom(c) = Capacity - Minute
  <2>1. 0 * Limit = 0
    BY <1>1
  <2> QED  BY <1>1, <1>2, <2>1, CapacityType DEF Headroom, Refilled, AtMost
<1>4. /\ Drained(l) \in 0..Capacity /\ Drained(l) <= Capacity - Minute
      /\ ~r => Drained(l) = Capacity - Minute
  BY <1>1, CapacityType DEF Drained
<1>5. Renewed(p, Limit - 1) \in Nat /\ Renewed(p, Limit - 1) * Minute <= Capacity - Minute
  <2>1. CASE p > Limit - 1
    <3>1. Renewed(p, Limit - 1) = p - 1 /\ p - 1 \in Nat
      BY <1>1, <2>1 DEF Renewed
    <3>2. (p - 1) * Minute = p * Minute - Minute
      BY <1>1
    <3> QED  BY <1>1, <3>1, <3>2, CapacityType
  <2>2. CASE ~(p > Limit - 1)
    <3>1. Renewed(p, Limit - 1) = Limit - 1 /\ Limit - 1 \in Nat
      BY <1>1, <2>2 DEF Renewed
    <3>2. (Limit - 1) * Minute <= (Limit + Burst - 1) * Minute
      BY <1>1, Monotone
    <3>3. (Limit + Burst - 1) * Minute = Capacity - Minute
      BY <1>1 DEF Capacity
    <3> QED  BY <3>1, <3>2, <3>3
  <2> QED  BY <2>1, <2>2
<1> QED  BY <1>1, <1>2, <1>3, <1>4, <1>5 DEF Ahead

LEMMA TickedKey ==
    ASSUME NEW b \in Bucket \cup {NoBucket},
           NEW l \in 0..Capacity, NEW p \in Nat, NEW wt \in 0..Minute, NEW r \in BOOLEAN,
           Ahead(b, l, p, wt, r)
    PROVE  /\ Older(b) \in Bucket \cup {NoBucket}
           /\ AtMost(Capacity, l + Limit) \in 0..Capacity
           /\ AtMost(Minute, wt + 1) \in 0..Minute
           /\ Ahead(Older(b), AtMost(Capacity, l + Limit), p, AtMost(Minute, wt + 1),
                    r /\ l + Limit < Capacity)
<1>1. /\ Minute \in Nat \ {0} /\ Limit \in Nat \ {0} /\ Horizon \in Nat
      /\ NoBucket \notin Bucket
  BY LimiterAssumption
<1>2. /\ AtMost(Capacity, l + Limit) \in 0..Capacity
      /\ AtMost(Minute, wt + 1) \in 0..Minute
      /\ AtMost(Minute, wt + 1) <= wt + 1
  BY <1>1, CapacityType DEF AtMost
<1>3. CASE b = NoBucket
  BY <1>1, <1>2, <1>3, CapacityType DEF Older, Ahead, Headroom, AtMost
<1>4. CASE b \in Bucket
  <2>1. b # NoBucket /\ Older(b) # NoBucket /\ Older(b) \in Bucket
    BY <1>1, <1>4, OlderIsFuller
  <2>2. /\ l <= Refilled(b) /\ p * Minute <= Refilled(b) /\ p * Minute \in Nat
        /\ ~r => l = Refilled(b)
    BY <1>1, <2>1 DEF Ahead, Headroom
  <2>3. Refilled(b) \in 0..Capacity /\ Refilled(Older(b)) \in 0..Capacity
    BY <1>4, <2>1, RefilledType
  <2>4. Refilled(Older(b)) = AtMost(Capacity, Refilled(b) + Limit)
    BY <1>4, OlderIsFuller
  <2>5. AtMost(Capacity, l + Limit) <= Refilled(Older(b))
    BY <1>1, <2>2, <2>3, <2>4, CapacityType DEF AtMost
  <2>8. ~(r /\ l + Limit < Capacity) => AtMost(Capacity, l + Limit) = Refilled(Older(b))
    BY <1>1, <2>2, <2>3, <2>4, CapacityType DEF AtMost
  <2>6. p * Minute <= Refilled(Older(b))
    BY <1>1, <2>2, <2>3, <2>4, CapacityType DEF AtMost
  <2>7. AtMost(Minute, wt + 1) <= Older(b).age \/ Older(b).age = Horizon
    <3>1. Older(b).age = AtMost(Horizon, b.age + 1) /\ b.age \in 0..Horizon
      BY <1>4, OlderIsFuller DEF Bucket
    <3>2. wt <= b.age \/ b.age = Horizon
      BY <2>1 DEF Ahead
    <3> QED  BY <1>1, <1>2, <3>1, <3>2 DEF AtMost
  <2> QED  BY <1>2, <2>1, <2>5, <2>6, <2>7, <2>8 DEF Ahead, Headroom
<1> QED  BY <1>3, <1>4

-----------------------------------------------------------------------------
(* Every step keeps the invariant *)

LEMMA Unpack ==
    ASSUME LimiterInv, NEW k \in Keys
    PROVE  /\ store[k] \in Bucket \cup {NoBucket}
           /\ level[k] \in 0..Capacity /\ promised[k] \in Nat /\ waited[k] \in 0..Minute
           /\ refused[k] \in BOOLEAN
           /\ Ahead(store[k], level[k], promised[k], waited[k], refused[k])
BY DEF LimiterInv, HistoryTypeOK, LimiterAhead, Ahead

\* What the reply to key k does to the bucket and the history of k.
KeyStep(k, c, l, p, r) ==
    /\ store' = [store EXCEPT ![k] = c]
    /\ level' = [level EXCEPT ![k] = l]
    /\ promised' = [promised EXCEPT ![k] = p]
    /\ waited' = [waited EXCEPT ![k] = 0]
    /\ refused' = [refused EXCEPT ![k] = r]

LEMMA KeyStepKeeps ==
    ASSUME LimiterInv, NEW k \in Keys,
           NEW c \in Bucket, NEW l \in 0..Capacity, NEW p \in Nat,
           NEW r \in BOOLEAN, Ahead(c, l, p, 0, r), KeyStep(k, c, l, p, r)
    PROVE  LimiterInv'
<1>1. 0 \in 0..Minute
  BY LimiterAssumption
<1>2. (store \in [Keys -> Bucket \cup {NoBucket}] /\ HistoryTypeOK)'
  BY <1>1 DEF LimiterInv, HistoryTypeOK, KeyStep
<1>3. ASSUME NEW i \in Keys
      PROVE  Ahead(store[i], level[i], promised[i], waited[i], refused[i])'
  <2>1. CASE i = k
    <3>1. /\ store'[i] = c /\ level'[i] = l /\ promised'[i] = p /\ waited'[i] = 0
          /\ refused'[i] = r
      BY <2>1 DEF LimiterInv, HistoryTypeOK, KeyStep
    <3> QED  BY <3>1 DEF Ahead, Headroom
  <2>2. CASE i # k
    <3>1. /\ store'[i] = store[i] /\ level'[i] = level[i]
          /\ promised'[i] = promised[i] /\ waited'[i] = waited[i]
          /\ refused'[i] = refused[i]
      BY <2>2 DEF LimiterInv, HistoryTypeOK, KeyStep
    <3>2. Ahead(store[i], level[i], promised[i], waited[i], refused[i])
      BY <1>3, Unpack
    <3> QED  BY <3>1, <3>2 DEF Ahead, Headroom
  <2> QED  BY <2>1, <2>2
<1> QED  BY <1>2, <1>3 DEF LimiterInv, LimiterAhead, Ahead

\* Every bucket is worth at most Capacity, so no promise exceeds it.
LEMMA PromiseBound ==
    ASSUME LimiterInv, NEW k \in Keys
    PROVE  promised[k] * Minute <= Capacity
<1>1. promised[k] * Minute \in Nat
  BY Unpack, LimiterAssumption
<1>2. Headroom(store[k]) \in 0..Capacity
  BY Unpack, RefilledType, CapacityType DEF Headroom
<1> QED  BY <1>1, <1>2, Unpack, CapacityType DEF Ahead

LEMMA KeepRefused ==
    ASSUME LimiterInv, NEW k \in Keys
    PROVE  refused = [refused EXCEPT ![k] = refused[k]]
BY DEF LimiterInv, HistoryTypeOK

LEMMA AllowKeeps ==
    ASSUME LimiterInv, NEW k \in Keys, HAllow(k)
    PROVE  LimiterInv'
<1>1. CASE FirstSeen(k)
  <2> DEFINE c == [tokens |-> Capacity - Minute, age |-> 0]
  <2>1. KeyStep(k, c, Drained(level[k]), Renewed(promised[k], Limit - 1), refused[k])
    BY <1>1, KeepRefused DEF HAllow, FirstSeen, Info, KeyStep
  <2>2. ~refused[k] => level[k] = Capacity
    BY <1>1, Unpack DEF FirstSeen, Ahead, Headroom
  <2> QED  BY <2>1, <2>2, Unpack, PromiseBound, FirstKey, KeyStepKeeps
<1>2. CASE Admit(k)
  <2> DEFINE left == Refilled(store[k]) - Minute
             c == [tokens |-> left, age |-> 0]
  <2>1. store[k] \in Bucket /\ Refilled(store[k]) >= Minute
    BY <1>2, Unpack DEF Admit
  <2>2. KeyStep(k, c, Drained(level[k]), Renewed(promised[k], left \div Minute),
               refused[k])
    BY <1>2, KeepRefused DEF HAllow, Admit, Info, KeyStep
  <2> QED  BY <2>1, <2>2, Unpack, AdmittedKey, KeyStepKeeps
<1>3. CASE Deny(k)
  <2> DEFINE c == [store[k] EXCEPT !.tokens = Refilled(store[k])]
  <2>1. store[k] \in Bucket /\ Refilled(store[k]) < Minute
    BY <1>3, Unpack DEF Deny
  <2>2. level[k] = level[k] /\ level' = [level EXCEPT ![k] = level[k]]
    BY <1>3 DEF HAllow, Deny, Info, LimiterInv, HistoryTypeOK
  <2>3. KeyStep(k, c, level[k], Renewed(promised[k], 0), TRUE)
    BY <1>3, <2>2 DEF HAllow, Deny, Info, KeyStep
  <2>4. /\ level[k] \in 0..Capacity /\ promised[k] \in Nat /\ waited[k] \in 0..Minute
        /\ level[k] <= Refilled(store[k]) /\ promised[k] * Minute <= Refilled(store[k])
        /\ waited[k] <= store[k].age \/ store[k].age = Horizon
    BY <1>3, Unpack DEF Deny, Ahead, Headroom
  <2>5. /\ c \in Bucket /\ Renewed(promised[k], 0) \in Nat
        /\ Ahead(c, level[k], Renewed(promised[k], 0), 0, TRUE)
    <3> HIDE DEF c
    <3>1. c = [store[k] EXCEPT !.tokens = Refilled(store[k])]
      BY DEF c
    <3>2. promised[k] = 0
      BY <2>1, <2>4, DenialIsDue
    <3> QED  BY <2>1, <2>4, <3>1, <3>2, DeniedKey
  <2> HIDE DEF c
  <2> QED  BY <2>3, <2>4, <2>5, KeyStepKeeps
<1> QED  BY <1>1, <1>2, <1>3 DEF HAllow, Allow

LEMMA TickKeeps ==
    ASSUME LimiterInv, HTick
    PROVE  LimiterInv'
<1>1. ASSUME NEW k \in Keys
      PROVE  /\ store'[k] = Older(store[k])
             /\ level'[k] = AtMost(Capacity, level[k] + Limit)
             /\ promised'[k] = promised[k]
             /\ waited'[k] = AtMost(Minute, waited[k] + 1)
             /\ refused'[k] = (refused[k] /\ level[k] + Limit < Capacity)
  BY DEF HTick, Tick
<1>2. ASSUME NEW k \in Keys
      PROVE  /\ store'[k] \in Bucket \cup {NoBucket}
             /\ level'[k] \in 0..Capacity
             /\ waited'[k] \in 0..Minute
             /\ Ahead(store'[k], level'[k], promised'[k], waited'[k], refused'[k])
  BY <1>1, Unpack, TickedKey
<1>3. (store \in [Keys -> Bucket \cup {NoBucket}] /\ HistoryTypeOK)'
  <2>1. store' = [k \in Keys |-> Older(store[k])]
    BY DEF HTick, Tick
  <2>2. level' = [k \in Keys |-> AtMost(Capacity, level[k] + Limit)]
    BY DEF HTick
  <2>3. waited' = [k \in Keys |-> AtMost(Minute, waited[k] + 1)] /\ promised' = promised
    BY DEF HTick
  <2>4. refused' \in [Keys -> BOOLEAN]
    BY DEF HTick
  <2> QED  BY <1>1, <1>2, <2>1, <2>2, <2>3, <2>4 DEF LimiterInv, HistoryTypeOK
<1> QED  BY <1>2, <1>3 DEF LimiterInv, LimiterAhead, Ahead, Headroom

LEMMA RestartKeeps ==
    ASSUME LimiterInv, HRestart
    PROVE  LimiterInv'
<1>1. (store \in [Keys -> Bucket \cup {NoBucket}] /\ HistoryTypeOK)'
  BY CapacityType DEF HRestart, Restart, LimiterInv, HistoryTypeOK
<1>2. ASSUME NEW k \in Keys
      PROVE  Ahead(store'[k], level'[k], promised'[k], waited'[k], refused'[k])
  <2>1. store'[k] = NoBucket /\ level'[k] = Capacity /\ promised'[k] = promised[k]
    BY DEF HRestart, Restart
  <2> QED  BY <2>1, PromiseBound, CapacityType DEF Ahead, Headroom
<1> QED  BY <1>1, <1>2 DEF LimiterInv, LimiterAhead, Ahead, Headroom

LEMMA StutterKeeps ==
    ASSUME LimiterInv, UNCHANGED hvars
    PROVE  LimiterInv'
BY DEF LimiterInv, HistoryTypeOK, LimiterAhead, Headroom, hvars, vars

LEMMA LimiterInduction == HSpec => []LimiterInv
<1>1. LimiterInv /\ [HNext]_hvars => LimiterInv'
  BY AllowKeeps, TickKeeps, RestartKeeps, StutterKeeps DEF HNext
<1> QED  BY InitLimiter, <1>1, PTL DEF HSpec

-----------------------------------------------------------------------------
(* Theorems *)

LEMMA RefusalIsDue ==
    ASSUME LimiterInv, HNext, NEW k \in Keys, Refused(k)
    PROVE  /\ level[k] < Minute /\ promised[k] = 0
           /\ Limit >= 2 => waited[k] < RetryAfter(reply')
<1>1. Silence.allowed
  BY DEF Silence
<1>2. PICK i \in Keys : HAllow(i)
  BY <1>1 DEF HNext, HTick, Tick, HRestart, Restart, Refused
<1>3. i = k /\ Deny(k)
  BY <1>2 DEF HAllow, Allow, FirstSeen, Admit, Deny, Info, Refused
<1>4. store[k] \in Bucket /\ Refilled(store[k]) < Minute
  BY <1>3, Unpack DEF Deny
<1>5. /\ level[k] \in 0..Capacity /\ promised[k] \in Nat /\ waited[k] \in 0..Minute
      /\ level[k] <= Refilled(store[k]) /\ promised[k] * Minute <= Refilled(store[k])
      /\ waited[k] <= store[k].age \/ store[k].age = Horizon
  BY <1>3, Unpack DEF Deny, Ahead, Headroom
<1>6. RetryAfter(reply') = Minute - Second
  BY <1>3 DEF Deny, Info, RetryAfter
<1> QED  BY <1>4, <1>5, <1>6, DenialIsDue

(***************************************************************************)
(* No client is refused a request that the leaky bucket would let through, *)
(* for any limit, burst and clock (limiter.go:57-64).                      *)
(***************************************************************************)
THEOREM Generous == HSpec => NeverStricter
<1>1. LimiterInv /\ [HNext]_hvars =>
        [\A k \in Keys : Refused(k) => level[k] < Minute]_hvars
  BY RefusalIsDue
<1> QED  BY <1>1, LimiterInduction, PTL DEF HSpec, NeverStricter

(***************************************************************************)
(* What the limiter answers as Remaining (limiter.go:55,62) it keeps, key  *)
(* by key; the header may show another limiter's answer.                   *)
(***************************************************************************)
THEOREM RemainingIsKept == HSpec => PromiseKept
<1>1. LimiterInv /\ [HNext]_hvars =>
        [\A k \in Keys : Refused(k) => promised[k] = 0]_hvars
  BY RefusalIsDue
<1> QED  BY <1>1, LimiterInduction, PTL DEF HSpec, PromiseKept

(***************************************************************************)
(* The key of a client that waits for the 59 seconds of the Retry-After    *)
(* header (response.go:63) is let through then by the limiter that refused *)
(* it, if the limit is at least 2.  With a limit of 1 it need not be.      *)
(***************************************************************************)
THEOREM WaitingIsEnough ==
    ASSUME Limit >= 2
    PROVE  HSpec => RetryAfterKept
<1>1. LimiterInv /\ [HNext]_hvars =>
        [\A k \in Keys : Refused(k) => waited[k] < RetryAfter(reply')]_hvars
  BY RefusalIsDue
<1> QED  BY <1>1, LimiterInduction, PTL DEF HSpec, RetryAfterKept

(***************************************************************************)
(* What the run checks by enumeration holds for every limit and burst: the *)
(* limiter is ahead of the leaky bucket and of its replies, and only after *)
(* a refusal (limiter.go:40-65).                                           *)
(***************************************************************************)
THEOREM LimiterAlwaysAhead == HSpec => []LimiterInv
BY LimiterInduction

LEMMA LooserIsDue ==
    ASSUME LimiterInv, HNext, NEW k \in Keys, reply'.key = k, reply'.allowed,
           level[k] < Minute
    PROVE  refused[k]
<1>1. Silence.key = NoBucket
  BY DEF Silence
<1>2. CASE \E i \in Keys : HAllow(i)
  <2>1. PICK i \in Keys : HAllow(i)
    BY <1>2
  <2>2. i = k /\ (FirstSeen(k) \/ Admit(k))
    BY <2>1 DEF HAllow, Allow, FirstSeen, Admit, Deny, Info
  <2>3. Headroom(store[k]) >= Minute
    BY <2>2, CapacityType DEF FirstSeen, Admit, Headroom
  <2>4. ~refused[k] => level[k] = Headroom(store[k])
    BY Unpack DEF Ahead
  <2>5. level[k] \in Nat /\ Minute \in Nat /\ refused[k] \in BOOLEAN
    BY Unpack, CapacityType, LimiterAssumption
  <2> QED  BY <2>3, <2>4, <2>5
<1>3. CASE HTick \/ HRestart
  <2>1. reply' = Silence
    BY <1>3 DEF HTick, Tick, HRestart, Restart
  <2>2. k = NoBucket
    BY <1>1, <2>1
  <2> QED  BY <2>2, LimiterAssumption
<1> QED  BY <1>2, <1>3 DEF HNext

(***************************************************************************)
(* The limiter gets ahead of the leaky bucket only by a refusal, whose     *)
(* waiting time then counts twice (limiter.go:58-64).                      *)
(***************************************************************************)
THEOREM LooseningIsARefusal == HSpec => LooserOnlyAfterRefusal
<1>1. LimiterInv /\ [HNext]_hvars =>
        [\A k \in Keys : reply'.key = k /\ reply'.allowed /\ level[k] < Minute
                         => refused[k]]_hvars
  BY LooserIsDue
<1> QED  BY <1>1, LimiterInduction, PTL DEF HSpec, LooserOnlyAfterRefusal

(***************************************************************************)
(* No bucket ever holds more than limit and burst allow, and no reply      *)
(* says more (limiter.go:55-62).                                           *)
(***************************************************************************)
THEOREM BucketsBounded == HSpec => []TypeOK
<1>1. HInit => TypeOK
  BY LimiterAssumption DEF HInit, Init, Silence, TypeOK
<1>2. TypeOK /\ [HNext]_hvars => TypeOK'
  <2> SUFFICES ASSUME TypeOK, [HNext]_hvars PROVE TypeOK'
    OBVIOUS
  <2>1. ASSUME NEW k \in Keys, HAllow(k) PROVE TypeOK'
    BY <2>1, AllowType DEF HAllow
  <2>2. CASE HTick
    BY <2>2, TickType DEF HTick
  <2>3. CASE HRestart
    BY <2>3, RestartType DEF HRestart
  <2>4. CASE UNCHANGED hvars
    BY <2>4 DEF hvars, vars, TypeOK
  <2> QED  BY <2>1, <2>2, <2>3, <2>4 DEF HNext
<1> QED  BY <1>1, <1>2, PTL DEF HSpec
=============================================================================
