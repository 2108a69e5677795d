---------------------------- MODULE BucketProofs ----------------------------
(***************************************************************************)
(* Facts about the buckets of MemoryLimiter, for every limit, burst and    *)
(* clock: what a refill is worth, and that every operation keeps them in   *)
(* bounds.                                                                 *)
(***************************************************************************)
EXTENDS MemoryLimiter, TLAPS

(* Arithmetic *)

LEMMA CapacityType == Capacity \in Nat /\ Minute <= Capacity
<1>1. Limit + Burst >= 1 /\ Limit + Burst \in Nat /\ Minute \in Nat
  BY LimiterAssumption
<1>2. \A n, m \in Nat : n >= 1 => n * m \in Nat /\ m <= n * m
  OBVIOUS
<1> QED  BY <1>1, <1>2 DEF Capacity

\* The product of two naturals grows with each factor.
LEMMA Monotone ==
    ASSUME NEW a \in Nat, NEW b \in Nat, NEW c \in Nat, a <= b
    PROVE  a * c <= b * c
OBVIOUS

LEMMA Quotient ==
    ASSUME NEW n \in Nat
    PROVE  n \div Minute \in Nat /\ (n \div Minute) * Minute <= n
BY LimiterAssumption

-----------------------------------------------------------------------------
(* Buckets *)

LEMMA RefilledType ==
    ASSUME NEW b \in Bucket
    PROVE  /\ Refilled(b) \in 0..Capacity
           /\ b.tokens <= Refilled(b)
<1>1. b.tokens \in 0..Capacity /\ b.age \in Nat /\ Limit \in Nat
  BY LimiterAssumption DEF Bucket
<1>2. b.age * Limit \in Nat
  BY <1>1
<1> QED  BY <1>1, <1>2, CapacityType DEF Refilled, AtMost

\* A tick adds Limit to what a bucket is worth, up to Capacity.
LEMMA OlderIsFuller ==
    ASSUME NEW b \in Bucket
    PROVE  /\ Older(b) \in Bucket
           /\ Refilled(Older(b)) = AtMost(Capacity, Refilled(b) + Limit)
           /\ Older(b).age = AtMost(Horizon, b.age + 1)
<1>1. /\ b.tokens \in 0..Capacity /\ b.age \in 0..Horizon
      /\ Limit \in Nat /\ Horizon \in Nat /\ Horizon * Limit >= Capacity
      /\ b # NoBucket
  BY LimiterAssumption DEF Bucket
<1>2. Older(b) = [b EXCEPT !.age = AtMost(Horizon, b.age + 1)]
  BY <1>1 DEF Older
<1>3. /\ Older(b) \in Bucket
      /\ Older(b).tokens = b.tokens
      /\ Older(b).age = AtMost(Horizon, b.age + 1)
  BY <1>1, <1>2 DEF Bucket, AtMost
<1>4. Refilled(Older(b)) = AtMost(Capacity, Refilled(b) + Limit)
  <2>1. CASE b.age < Horizon
    <3>1. Older(b).age = b.age + 1
      BY <1>1, <1>3, <2>1 DEF AtMost
    <3>2. Older(b).age * Limit = b.age * Limit + Limit /\ b.age * Limit \in Nat
      BY <1>1, <3>1
    <3> QED  BY <1>1, <1>3, <3>2, CapacityType DEF Refilled, AtMost
  <2>2. CASE b.age = Horizon
    <3>1. Older(b).age = Horizon
      BY <1>1, <1>3, <2>2 DEF AtMost
    <3>2. Refilled(Older(b)) = Capacity
      BY <1>1, <1>3, <3>1, CapacityType DEF Refilled, AtMost
    <3>3. Refilled(b) = Capacity
      BY <1>1, <2>2, CapacityType DEF Refilled, AtMost
    <3> QED  BY <1>1, <3>2, <3>3, CapacityType DEF AtMost
  <2> QED  BY <1>1, <2>1, <2>2
<1> QED  BY <1>3, <1>4

LEMMA QuotientBound ==
    ASSUME NEW n \in 0..Capacity
    PROVE  n \div Minute \in 0..(Limit + Burst)
<1> DEFINE q == n \div Minute
<1>1. q \in Nat /\ q * Minute <= n
  BY Quotient, CapacityType
<1>2. Limit + Burst \in Nat /\ Minute \in Nat \ {0}
  BY LimiterAssumption
<1>3. CASE q > Limit + Burst
  <2>1. (Limit + Burst + 1) * Minute <= q * Minute
    BY <1>1, <1>2, <1>3, Monotone
  <2>2. (Limit + Burst + 1) * Minute = Capacity + Minute
    BY <1>2 DEF Capacity
  <2> QED  BY <1>1, <1>2, <2>1, <2>2, CapacityType
<1>4. CASE ~(q > Limit + Burst)
  BY <1>1, <1>2, <1>4
<1> QED  BY <1>3, <1>4

-----------------------------------------------------------------------------
(* Operations *)

Infos == [key : Keys \cup {NoBucket}, allowed : BOOLEAN,
          remaining : 0..(Limit + Burst), reset : {0, Minute}]

LEMMA InfoType ==
    ASSUME NEW k \in Keys, NEW a \in BOOLEAN, NEW n \in 0..(Limit + Burst)
    PROVE  Info(k, a, n) \in Infos
BY DEF Info, Infos

LEMMA SilenceType == Silence \in Infos
<1>1. 0 \in 0..(Limit + Burst)
  BY LimiterAssumption
<1> QED  BY <1>1 DEF Silence, Infos

LEMMA AllowType ==
    ASSUME TypeOK, NEW k \in Keys, Allow(k)
    PROVE  TypeOK'
<1>1. /\ Limit + Burst \in Nat /\ 0 \in 0..(Limit + Burst) /\ Limit - 1 \in 0..(Limit + Burst)
      /\ Minute \in Nat \ {0} /\ Horizon \in Nat
  BY LimiterAssumption
<1>2. CASE FirstSeen(k)
  <2>1. [tokens |-> Capacity - Minute, age |-> 0] \in Bucket
    BY <1>1, CapacityType DEF Bucket
  <2> QED  BY <1>1, <1>2, <2>1, InfoType DEF FirstSeen, TypeOK, Infos
<1>3. CASE Admit(k)
  <2> DEFINE left == Refilled(store[k]) - Minute
  <2>1. left \in 0..Capacity
    BY <1>1, <1>3, RefilledType, CapacityType DEF Admit, TypeOK
  <2>2. [tokens |-> left, age |-> 0] \in Bucket
    BY <1>1, <2>1 DEF Bucket
  <2>3. Info(k, TRUE, left \div Minute) \in Infos
    BY <2>1, QuotientBound, InfoType
  <2>4. store' = [store EXCEPT ![k] = [tokens |-> left, age |-> 0]]
        /\ reply' = Info(k, TRUE, left \div Minute)
    BY <1>3 DEF Admit
  <2> QED  BY <2>2, <2>3, <2>4 DEF TypeOK, Infos
<1>4. CASE Deny(k)
  <2> DEFINE c == [store[k] EXCEPT !.tokens = Refilled(store[k])]
  <2>1. store[k] \in Bucket
    BY <1>4 DEF Deny, TypeOK
  <2>2. c \in Bucket
    BY <2>1, RefilledType DEF Bucket
  <2>3. store' = [store EXCEPT ![k] = c] /\ reply' = Info(k, FALSE, 0)
    BY <1>4 DEF Deny
  <2> QED  BY <1>1, <2>2, <2>3, InfoType DEF TypeOK, Infos
<1> QED  BY <1>2, <1>3, <1>4 DEF Allow

LEMMA TickType ==
    ASSUME TypeOK, Tick
    PROVE  TypeOK'
<1>1. ASSUME NEW k \in Keys PROVE Older(store[k]) \in Bucket \cup {NoBucket}
  BY OlderIsFuller DEF TypeOK, Older
<1> QED  BY <1>1, SilenceType DEF Tick, TypeOK, Infos

LEMMA RestartType ==
    ASSUME TypeOK, Restart
    PROVE  TypeOK'
BY SilenceType DEF Restart, TypeOK, Infos
=============================================================================
