---------------------------- MODULE TokenProofs ----------------------------
(***************************************************************************)
(* For any number of users, tokens and requests, any lifetime, with Redis  *)
(* or without: a refresh token that is sent works, one that stopped        *)
(* working stays so, and no client is left without a token.                *)
(***************************************************************************)
EXTENDS TokenHistory, TLAPS

LEMMA Constants ==
    /\ Lifetime \in Nat \ {0} /\ MaxVersion \in Nat \ {0} /\ None \notin Tokens
    /\ None \notin Claims => \A t \in Tokens : claims[t] = None => t \notin Minted
BY TokenAssumption DEF Minted

LEMMA LessType ==
    ASSUME NEW n \in 0..Lifetime
    PROVE  Less(n) \in 0..Lifetime /\ (n > 0 => Less(n) = n - 1)
BY TokenAssumption DEF Less

-----------------------------------------------------------------------------
(* The inductive invariant *)

LEMMA BusyJob ==
    ASSUME TypeOK, NEW w \in Workers
    PROVE  /\ job[w] \in Jobs \cup {Idle}
           /\ job[w] # Idle <=> job[w] \in Jobs
           /\ job[w] # Idle <=> job[w].step \in {"persist", "revoke", "reply"}
BY DEF TypeOK, Jobs, Idle

LEMMA InitTokens == Init => TokenInv
<1> SUFFICES ASSUME Init PROVE TokenInv
  OBVIOUS
<1>1. TypeOK
  <2>1. online \in BOOLEAN
    BY TokenAssumption DEF Init
  <2>2. store \in [Tokens -> 0..Lifetime] /\ parked \in [Tokens -> 0..Lifetime]
    BY TokenAssumption DEF Init, NoKeys
  <2> QED  BY <2>1, <2>2, TokenAssumption DEF Init, TypeOK, Minted
<1>2. /\ \A w \in Workers : job[w] = Idle
      /\ \A t \in Tokens : claims[t] = None /\ ~stored(t) /\ ~Parked(t)
  BY DEF Init, stored, Parked, NoKeys
<1> QED  BY <1>1, <1>2 DEF TokenInv, RequestsInOrder, KeysOutlive, OneHome, VersionsPast, Minted

-----------------------------------------------------------------------------
(* Every step keeps the invariant *)

LEMMA MintKeeps ==
    ASSUME TokenInv, NEW w \in Workers, NEW u \in Users, NEW t \in Tokens,
           NEW old \in Tokens \cup {None},
           old # None => old \in held /\ claims[old].user = u,
           job[w] = Idle, issueRefresh(t, u),
           job' = [job EXCEPT ![w] = Persisting(t, old)],
           UNCHANGED <<store, parked, online, held, version>>
    PROVE  TokenInv'
<1>1. /\ Lifetime \in Nat \ {0} /\ MaxVersion \in Nat \ {0}
      /\ None \notin Tokens /\ None \notin Claims
  BY TokenAssumption
<1>2. /\ t \notin Minted /\ t \notin held /\ claims[t] = None
      /\ claims'[t] = [user |-> u, sv |-> version, left |-> Lifetime]
      /\ claims'[t] \in Claims
      /\ \A i \in Tokens \ {t} : claims'[i] = claims[i]
      /\ claims' \in [Tokens -> Claims \cup {None}]
  BY <1>1 DEF issueRefresh, Minted, TokenInv, TypeOK, Claims
<1>3. Minted' = Minted \cup {t}
  BY <1>1, <1>2 DEF Minted
<1>4. /\ job'[w] = Persisting(t, old) /\ job'[w] \in Jobs
      /\ \A v \in Workers \ {w} : job'[v] = job[v]
      /\ job' \in [Workers -> Jobs \cup {Idle}]
  BY DEF TokenInv, TypeOK, Jobs, Persisting
<1>5. TypeOK'
  BY <1>2, <1>3, <1>4 DEF TokenInv, TypeOK
<1>6. ASSUME NEW v \in Workers, job'[v] # Idle
      PROVE  LET n == job'[v].new
                 o == job'[v].old
             IN /\ n \in Minted' \ held' /\ ~(parked'[n] > 0)
                /\ claims'[n].sv = version'
                /\ o # None => /\ o \in held'
                               /\ claims'[o].user = claims'[n].user
                               /\ claims'[o].left <= claims'[n].left
                /\ job'[v].step = "revoke" => o # None
                /\ job'[v].step # "persist" => claims'[n].left <= store'[n]
  <2>1. CASE v = w
    <3>1. job'[v].new = t /\ job'[v].old = old /\ job'[v].step = "persist"
      BY <1>4, <2>1 DEF Persisting
    <3>2. old # None => old \in Minted /\ old # t /\ claims[old] \in Claims
      BY <1>2 DEF TokenInv, TypeOK, Minted
    <3>3. old # None => claims'[old] = claims[old] /\ claims[old].left <= Lifetime
      BY <1>1, <1>2, <3>2 DEF Claims
    <3>4. ~(parked'[t] > 0)
      BY <1>2 DEF TokenInv, KeysOutlive, Parked
    <3> QED  BY <1>2, <1>3, <3>1, <3>2, <3>3, <3>4
  <2>2. CASE v # w
    <3>1. job'[v] = job[v] /\ job[v] # Idle
      BY <1>4, <1>6, <2>2
    <3>2. job[v].new \in Minted /\ (job[v].old # None => job[v].old \in Minted)
      BY <3>1 DEF TokenInv, TypeOK, RequestsInOrder
    <3>3. job[v].new # t /\ (job[v].old # t \/ job[v].old = None)
      BY <1>2, <3>2
    <3>4. /\ claims'[job[v].new] = claims[job[v].new]
          /\ job[v].old # None => claims'[job[v].old] = claims[job[v].old]
      BY <1>2, <3>2 DEF Minted
    <3> QED  BY <1>3, <3>1, <3>4 DEF TokenInv, RequestsInOrder, Parked
  <2> QED  BY <2>1, <2>2
<1>7. ASSUME NEW v \in Workers, NEW x \in Workers,
             job'[v] # Idle, job'[x] # Idle, v # x
      PROVE  job'[v].new # job'[x].new
  <2>1. \A z \in Workers : job[z] # Idle => job[z].new # t
    BY <1>2 DEF TokenInv, RequestsInOrder
  <2>2. job'[w].new = t
    BY <1>4 DEF Persisting
  <2> QED  BY <1>4, <1>7, <2>1, <2>2 DEF TokenInv, RequestsInOrder
<1>8. RequestsInOrder'
  BY <1>6, <1>7 DEF RequestsInOrder, Parked
<1>9. (KeysOutlive /\ OneHome /\ VersionsPast)'
  <2>1. version \in Nat
    BY <1>1 DEF TokenInv, TypeOK
  <2>2. \A i \in Minted : i # t /\ claims'[i] = claims[i]
    BY <1>2 DEF Minted
  <2>3. KeysOutlive' /\ OneHome'
    BY <1>3, <2>2 DEF TokenInv, KeysOutlive, OneHome, stored, Parked
  <2> QED
    BY <1>2, <1>3, <2>1, <2>2, <2>3 DEF TokenInv, VersionsPast
<1> QED  BY <1>5, <1>8, <1>9 DEF TokenInv

\* A request that ends, or that has stored its token and goes on.
LEMMA ServeKeeps ==
    ASSUME TokenInv, NEW w \in Workers, job[w] # Idle, NEW x,
           UNCHANGED <<claims, parked, online, version>>,
           store' \in [Tokens -> 0..Lifetime],
           KeysOutlive', OneHome',
           \A v \in Workers \ {w} : job[v] # Idle =>
               store[job[v].new] <= store'[job[v].new],
           job' = [job EXCEPT ![w] = x],
           \/ x = Idle /\ held' \in {held, held \cup {job[w].new}}
           \/ /\ held' = held /\ claims[job[w].new].left <= store'[job[w].new]
              /\ \/ x = Revoking(job[w].new, job[w].old) /\ job[w].old # None
                 \/ x = Replying(job[w].new, job[w].old)
    PROVE  TokenInv'
<1>1. /\ Lifetime \in Nat \ {0} /\ MaxVersion \in Nat \ {0}
      /\ None \notin Tokens /\ None \notin Claims
  BY TokenAssumption
<1>2. job[w] \in Jobs /\ job[w].new \in Minted \ held
  BY BusyJob DEF TokenInv, RequestsInOrder
<1>3. /\ x \in Jobs \cup {Idle}
      /\ x # Idle => /\ x.new = job[w].new /\ x.old = job[w].old
                     /\ x.step = "revoke" => job[w].old # None
                     /\ held' = held /\ claims[job[w].new].left <= store'[job[w].new]
  BY <1>2 DEF Revoking, Replying, Jobs
<1>4. /\ job'[w] = x
      /\ \A v \in Workers \ {w} : job'[v] = job[v]
      /\ job' \in [Workers -> Jobs \cup {Idle}]
  BY <1>3 DEF TokenInv, TypeOK
<1>5. Minted' = Minted
  BY DEF Minted
<1>6. TypeOK'
  BY <1>2, <1>4, <1>5 DEF TokenInv, TypeOK
<1>7. ASSUME NEW v \in Workers, job'[v] # Idle
      PROVE  /\ job[v] # Idle
             /\ job'[v].new = job[v].new /\ job'[v].old = job[v].old
             /\ job[v].new \in Tokens
             /\ v = w => x # Idle /\ job'[v] = x
             /\ v # w => job'[v] = job[v]
  <2>1. CASE v = w
    BY <1>2, <1>3, <1>4, <1>7, <2>1 DEF Jobs
  <2>2. CASE v # w
    <3>1. job'[v] = job[v] /\ job[v] \in Jobs
      BY <1>4, <1>7, <2>2, BusyJob DEF TokenInv
    <3> QED  BY <1>7, <2>2, <3>1 DEF Jobs
  <2> QED  BY <2>1, <2>2
<1>8. ASSUME NEW v \in Workers, job'[v] # Idle
      PROVE  LET n == job'[v].new
                 o == job'[v].old
             IN /\ n \in Minted' \ held' /\ ~(parked'[n] > 0)
                /\ claims'[n].sv = version'
                /\ o # None => /\ o \in held'
                               /\ claims'[o].user = claims'[n].user
                               /\ claims'[o].left <= claims'[n].left
                /\ job'[v].step = "revoke" => o # None
                /\ job'[v].step # "persist" => claims'[n].left <= store'[n]
  <2> DEFINE n == job[v].new
             o == job[v].old
  <2>1. job[v] # Idle /\ job'[v].new = n /\ job'[v].old = o /\ n \in Tokens
    BY <1>7, <1>8
  <2>2. /\ n \in Minted \ held /\ claims[n].sv = version
        /\ ~(parked[n] > 0)
        /\ o # None => /\ o \in held /\ claims[o].user = claims[n].user
                       /\ claims[o].left <= claims[n].left
        /\ job[v].step = "revoke" => o # None
        /\ job[v].step # "persist" => claims[n].left <= store[n]
    BY <2>1 DEF TokenInv, RequestsInOrder, Parked
  <2>3. held \subseteq held' /\ n \notin held'
    <3>1. CASE v = w
      BY <1>7, <1>8, <2>2, <3>1, <1>3
    <3>2. CASE v # w
      <4>1. n # job[w].new
        BY <2>1, <3>2 DEF TokenInv, RequestsInOrder
      <4> QED  BY <2>2, <4>1
    <3> QED  BY <3>1, <3>2
  <2>4. /\ job'[v].step = "revoke" => o # None
        /\ job'[v].step # "persist" => claims[n].left <= store'[n]
    <3>1. CASE v = w
      BY <1>3, <1>7, <1>8, <3>1
    <3>2. CASE v # w
      <4>1. job'[v] = job[v] /\ store[n] <= store'[n]
        BY <1>7, <1>8, <2>1, <3>2
      <4>2. claims[n].left \in Nat /\ store[n] \in Nat /\ store'[n] \in Nat
        BY <1>1, <2>1, <2>2 DEF TokenInv, TypeOK, Minted, Claims
      <4> QED  BY <2>2, <4>1, <4>2
    <3> QED  BY <3>1, <3>2
  <2> QED  BY <1>5, <2>1, <2>2, <2>3, <2>4
<1>9. ASSUME NEW v \in Workers, NEW y \in Workers,
             job'[v] # Idle, job'[y] # Idle, v # y
      PROVE  job'[v].new # job'[y].new
  <2>1. /\ job[v] # Idle /\ job[y] # Idle
        /\ job'[v].new = job[v].new /\ job'[y].new = job[y].new
    BY <1>7, <1>9
  <2> QED  BY <1>9, <2>1 DEF TokenInv, RequestsInOrder
<1>10. RequestsInOrder'
  BY <1>8, <1>9 DEF RequestsInOrder, Parked
<1>11. VersionsPast'
  BY <1>5 DEF TokenInv, VersionsPast
<1> QED  BY <1>6, <1>10, <1>11 DEF TokenInv

LEMMA PersistKeeps ==
    ASSUME TokenInv, NEW w \in Workers, persistRefresh(w)
    PROVE  TokenInv'
<1> DEFINE n == job[w].new
           o == job[w].old
<1>1. Lifetime \in Nat \ {0}
  BY TokenAssumption
<1>2. /\ job[w].step = "persist" /\ job[w] # Idle
      /\ n \in Tokens /\ n \in Minted /\ claims[n] \in Claims
      /\ UNCHANGED <<claims, parked, online, version>>
  <2>1. job[w].step = "persist"
    BY DEF persistRefresh
  <2>2. job[w] # Idle /\ job[w] \in Jobs
    BY <2>1, BusyJob DEF TokenInv
  <2>3. n \in Minted
    BY <2>2 DEF TokenInv, RequestsInOrder
  <2> QED  BY <2>1, <2>2, <2>3 DEF persistRefresh, Jobs, TokenInv, TypeOK, Minted
<1>3. store' \in {store, [store EXCEPT ![n] = Lifetime]}
  BY DEF persistRefresh, Command
<1>4. /\ store' \in [Tokens -> 0..Lifetime]
      /\ \A i \in Tokens \ {n} : store'[i] = store[i]
      /\ store'[n] \in {store[n], Lifetime}
  BY <1>1, <1>2, <1>3 DEF TokenInv, TypeOK
<1>5. KeysOutlive' /\ OneHome'
  <2> SUFFICES ASSUME NEW i \in Tokens, store'[i] > 0
               PROVE  /\ i \in Minted /\ claims[i].left <= store'[i]
                      /\ ~(parked[i] > 0)
    BY <1>2 DEF TokenInv, KeysOutlive, OneHome, stored, Parked, Minted
  <2>1. claims[n].left <= Lifetime
    BY <1>1, <1>2 DEF Claims
  <2>2. store[i] > 0 => /\ i \in Minted /\ claims[i].left <= store[i]
                         /\ ~(parked[i] > 0)
    BY DEF TokenInv, KeysOutlive, OneHome, stored, Parked
  <2>3. ~(parked[n] > 0)
    BY <1>2 DEF TokenInv, RequestsInOrder, Parked
  <2> QED  BY <1>2, <1>4, <2>1, <2>2, <2>3
<1>6. \A v \in Workers \ {w} : job[v] # Idle => store[job[v].new] <= store'[job[v].new]
  <2> SUFFICES ASSUME NEW v \in Workers, v # w, job[v] # Idle
               PROVE  store[job[v].new] <= store'[job[v].new]
    OBVIOUS
  <2>1. job[v].new # n /\ job[v].new \in Tokens
    BY <1>2, BusyJob DEF TokenInv, RequestsInOrder, Minted
  <2>2. store[job[v].new] \in Nat
    BY <1>1, <2>1 DEF TokenInv, TypeOK
  <2> QED  BY <1>4, <2>1, <2>2
<1>7. PICK outcome \in Outcomes :
        /\ Command(outcome, [store EXCEPT ![n] = Lifetime])
        /\ \/ outcome # "ok" /\ Fail(w)
           \/ outcome = "ok" /\ Goto(w, Stored(n, o)) /\ UNCHANGED held
  BY DEF persistRefresh
<1>8. CASE outcome # "ok" /\ Fail(w)
  BY <1>2, <1>4, <1>5, <1>6, <1>8, ServeKeeps DEF Fail, Goto
<1>9. CASE outcome = "ok" /\ Goto(w, Stored(n, o)) /\ held' = held
  <2>1. store' = [store EXCEPT ![n] = Lifetime]
    BY <1>7, <1>9 DEF Command
  <2>2. claims[n].left <= store'[n]
    BY <1>1, <1>2, <2>1 DEF Claims, TokenInv, TypeOK
  <2>3. PICK x : /\ job' = [job EXCEPT ![w] = x]
                 /\ \/ x = Revoking(n, o) /\ o # None
                    \/ x = Replying(n, o)
    BY <1>9 DEF Goto, Stored
  <2> QED  BY <1>2, <1>4, <1>5, <1>6, <1>9, <2>2, <2>3, ServeKeeps
<1> QED  BY <1>7, <1>8, <1>9

LEMMA RevokeKeeps ==
    ASSUME TokenInv, NEW w \in Workers, revoke(w)
    PROVE  TokenInv'
<1> DEFINE n == job[w].new
           o == job[w].old
<1>1. Lifetime \in Nat \ {0}
  BY TokenAssumption
<1>2. /\ job[w].step = "revoke" /\ job[w] # Idle
      /\ o \in held /\ n \in Minted \ held /\ claims[n].left <= store[n]
      /\ UNCHANGED <<claims, parked, online, held, version>>
  <2>1. job[w].step = "revoke"
    BY DEF revoke
  <2>2. job[w] # Idle
    BY <2>1, BusyJob DEF TokenInv
  <2> QED  BY <2>1, <2>2 DEF revoke, TokenInv, RequestsInOrder
<1>3. store' \in {store, [store EXCEPT ![o] = 0]}
  BY DEF revoke, Command
<1>4. /\ store' \in [Tokens -> 0..Lifetime]
      /\ \A i \in Tokens \ {o} : store'[i] = store[i]
      /\ \A i \in Tokens : store'[i] \in {store[i], 0}
  BY <1>1, <1>2, <1>3 DEF TokenInv, TypeOK
<1>5. KeysOutlive' /\ OneHome'
  <2> SUFFICES ASSUME NEW i \in Tokens, store'[i] > 0
               PROVE  /\ i \in Minted /\ claims[i].left <= store'[i]
                      /\ ~(parked[i] > 0)
    BY <1>2 DEF TokenInv, KeysOutlive, OneHome, stored, Parked, Minted
  <2>1. store[i] > 0 => /\ i \in Minted /\ claims[i].left <= store[i]
                         /\ ~(parked[i] > 0)
    BY DEF TokenInv, KeysOutlive, OneHome, stored, Parked
  <2> QED  BY <1>4, <2>1
<1>6. \A v \in Workers \ {w} : job[v] # Idle => store[job[v].new] <= store'[job[v].new]
  <2> SUFFICES ASSUME NEW v \in Workers, v # w, job[v] # Idle
               PROVE  store[job[v].new] <= store'[job[v].new]
    OBVIOUS
  <2>1. job[v].new # o /\ job[v].new \in Tokens
    BY <1>2 DEF TokenInv, RequestsInOrder, Minted
  <2>2. store[job[v].new] \in Nat
    BY <1>1, <2>1 DEF TokenInv, TypeOK
  <2> QED  BY <1>4, <2>1, <2>2
<1>7. job' = [job EXCEPT ![w] = Replying(n, o)]
  BY DEF revoke, Goto
<1>8. claims[n].left <= store'[n]
  BY <1>2, <1>4 DEF Minted
<1> QED  BY <1>2, <1>4, <1>5, <1>6, <1>7, <1>8, ServeKeeps

LEMMA ReplyKeeps ==
    ASSUME TokenInv, NEW w \in Workers, Reply(w)
    PROVE  TokenInv'
<1>1. job[w] # Idle /\ UNCHANGED <<claims, store, parked, online, version>>
  BY BusyJob DEF Reply, TokenInv
<1>2. job' = [job EXCEPT ![w] = Idle] /\ held' \in {held, held \cup {job[w].new}}
  BY DEF Reply, Deliver, Fail, Goto
<1>3. /\ store' \in [Tokens -> 0..Lifetime] /\ KeysOutlive' /\ OneHome'
  BY <1>1 DEF TokenInv, TypeOK, KeysOutlive, OneHome, stored, Parked, Minted
<1>4. \A v \in Workers \ {w} : job[v] # Idle => store[job[v].new] <= store'[job[v].new]
  <2> SUFFICES ASSUME NEW v \in Workers, job[v] # Idle
               PROVE  store[job[v].new] \in Nat
    BY <1>1
  <2>1. job[v].new \in Tokens
    BY DEF TokenInv, RequestsInOrder, Minted
  <2> QED  BY <2>1, TokenAssumption DEF TokenInv, TypeOK
<1> QED  BY <1>1, <1>2, <1>3, <1>4, ServeKeeps

LEMMA TickKeeps ==
    ASSUME TokenInv, Tick
    PROVE  TokenInv'
<1>1. /\ Lifetime \in Nat \ {0} /\ MaxVersion \in Nat \ {0}
      /\ None \notin Tokens /\ None \notin Claims
  BY TokenAssumption
<1>2. UNCHANGED <<online, held, version, job>>
  BY DEF Tick
<1>3. ASSUME NEW t \in Minted
      PROVE  /\ claims[t] \in Claims /\ claims'[t] \in Claims
             /\ claims'[t].user = claims[t].user /\ claims'[t].sv = claims[t].sv
             /\ claims'[t].left = Less(claims[t].left)
             /\ claims[t].left \in 0..Lifetime
  <2>1. claims[t] \in Claims
    BY DEF Minted, TokenInv, TypeOK
  <2>2. claims'[t] = [claims[t] EXCEPT !.left = Less(claims[t].left)]
    BY DEF Tick, Minted
  <2> QED  BY <2>1, <2>2, LessType DEF Claims
<1>4. \A t \in Tokens \ Minted : claims'[t] = None /\ claims[t] = None
  BY DEF Tick, Minted
<1>5. Minted' = Minted
  BY <1>1, <1>3, <1>4 DEF Minted
<1>6. claims' \in [Tokens -> Claims \cup {None}]
  <2>1. claims' = [t \in Tokens |->
                     IF t \in Minted THEN [claims[t] EXCEPT !.left = Less(claims[t].left)]
                     ELSE None]
    BY DEF Tick
  <2>2. \A t \in Tokens : claims'[t] \in Claims \cup {None}
    BY <1>3, <1>4
  <2> QED  BY <2>1, <2>2
<1>7. \A t \in Tokens : /\ store[t] \in 0..Lifetime /\ store'[t] \in 0..Lifetime
                        /\ store'[t] = Less(store[t]) \/ store'[t] = store[t]
                        /\ parked[t] \in 0..Lifetime /\ parked'[t] \in 0..Lifetime
                        /\ parked'[t] = Less(parked[t])
  BY LessType DEF Tick, Aged, TokenInv, TypeOK
<1>8. store' \in [Tokens -> 0..Lifetime] /\ parked' \in [Tokens -> 0..Lifetime]
  BY <1>7 DEF Tick, Aged, TokenInv, TypeOK
<1>9. TypeOK'
  BY <1>2, <1>5, <1>6, <1>8 DEF TokenInv, TypeOK
\* A token never ages more slowly than its key, nor an older token than a newer.
<1>10. ASSUME NEW i \in 0..Lifetime, NEW k \in 0..Lifetime, i <= k
       PROVE  Less(i) <= Less(k) /\ Less(i) <= k
  BY <1>1, <1>10 DEF Less
<1>11. RequestsInOrder'
  <2>1. ASSUME NEW v \in Workers, job[v] # Idle
        PROVE  LET n == job[v].new
                   o == job[v].old
               IN /\ n \in Minted' \ held' /\ ~(parked'[n] > 0)
                  /\ claims'[n].sv = version'
                  /\ o # None => /\ o \in held'
                                 /\ claims'[o].user = claims'[n].user
                                 /\ claims'[o].left <= claims'[n].left
                  /\ job[v].step = "revoke" => o # None
                  /\ job[v].step # "persist" => claims'[n].left <= store'[n]
    <3> DEFINE n == job[v].new
               o == job[v].old
    <3>1. /\ n \in Minted \ held /\ claims[n].sv = version
          /\ ~(parked[n] > 0)
          /\ o # None => /\ o \in held /\ claims[o].user = claims[n].user
                         /\ claims[o].left <= claims[n].left
          /\ job[v].step = "revoke" => o # None
          /\ job[v].step # "persist" => claims[n].left <= store[n]
      BY <2>1 DEF TokenInv, RequestsInOrder, Parked
    <3>2. n \in Tokens /\ (o # None => o \in Minted)
      BY <3>1 DEF TokenInv, TypeOK, Minted
    <3>3. claims'[n].sv = version' /\ n \in Minted' \ held'
      BY <1>2, <1>3, <1>5, <3>1
    <3>4. o # None => /\ claims'[o].user = claims'[n].user
                      /\ claims'[o].left <= claims'[n].left
      BY <1>3, <1>10, <3>1, <3>2
    <3>5. job[v].step # "persist" => claims'[n].left <= store'[n]
      BY <1>3, <1>7, <1>10, <3>1, <3>2
    <3>6. ~(parked'[n] > 0)
      BY <1>7, <3>1, <3>2 DEF Less
    <3> QED  BY <1>2, <3>1, <3>3, <3>4, <3>5, <3>6
  <2>2. job' = job
    BY <1>2
  <2> QED  BY <2>1, <2>2 DEF TokenInv, RequestsInOrder, Parked
<1>12. KeysOutlive' /\ OneHome'
  <2>1. \A t \in Tokens : /\ store'[t] > 0 => store[t] > 0
                          /\ parked'[t] > 0 => parked[t] > 0
    BY <1>7 DEF Less
  <2>2. ASSUME NEW t \in Tokens, store'[t] > 0
        PROVE  t \in Minted' /\ claims'[t].left <= store'[t]
    <3>1. t \in Minted /\ claims[t].left <= store[t]
      BY <2>1, <2>2 DEF TokenInv, KeysOutlive, stored
    <3> QED  BY <1>3, <1>5, <1>7, <1>10, <3>1
  <2>3. ASSUME NEW t \in Tokens, parked'[t] > 0
        PROVE  t \in Minted' /\ claims'[t].left <= parked'[t]
    <3>1. t \in Minted /\ claims[t].left <= parked[t]
      BY <2>1, <2>3 DEF TokenInv, KeysOutlive, Parked
    <3> QED  BY <1>3, <1>5, <1>7, <1>10, <3>1
  <2> QED  BY <2>1, <2>2, <2>3 DEF TokenInv, KeysOutlive, OneHome, stored, Parked
<1>13. VersionsPast'
  BY <1>2, <1>3, <1>5 DEF TokenInv, VersionsPast
<1> QED  BY <1>9, <1>11, <1>12, <1>13 DEF TokenInv

LEMMA RestartKeeps ==
    ASSUME TokenInv, Restart
    PROVE  TokenInv'
<1>1. /\ Lifetime \in Nat \ {0} /\ MaxVersion \in Nat \ {0}
  BY TokenAssumption
<1>2. /\ UNCHANGED <<claims, held>> /\ Minted' = Minted
      /\ version \in Nat /\ version' \in 1..MaxVersion /\ version <= version'
  BY <1>1 DEF Restart, Minted, TokenInv, TypeOK
<1>keys. /\ store' \in [Tokens -> 0..Lifetime] /\ parked' \in [Tokens -> 0..Lifetime]
         /\ online' \in BOOLEAN
         /\ \A t \in Tokens : /\ store'[t] \in {store[t], parked[t], 0}
                              /\ parked'[t] \in {store[t], parked[t], 0}
                              /\ store'[t] = 0 \/ parked'[t] = 0
  <2>1. PICK found \in {FALSE, Redis} : Backend(found)
    BY DEF Restart
  <2>2. found \in BOOLEAN
    BY TokenAssumption
  <2>3. CASE found
    BY <1>1, <2>1, <2>2, <2>3 DEF Backend, InRedis, NoKeys, TokenInv, TypeOK
  <2>4. CASE ~found
    BY <1>1, <2>1, <2>2, <2>4 DEF Backend, InRedis, NoKeys, TokenInv, TypeOK
  <2> QED  BY <2>3, <2>4
<1>3. \A w \in Workers : job'[w] = Idle
  BY DEF Restart
<1>4. TypeOK'
  BY <1>2, <1>keys DEF Restart, TokenInv, TypeOK
<1>5. RequestsInOrder'
  BY <1>3 DEF RequestsInOrder
<1>6. KeysOutlive' /\ OneHome'
  <2>1. OneHome'
    BY <1>keys DEF OneHome, stored, Parked
  <2>2. \A t \in Tokens : /\ store[t] > 0 => t \in Minted /\ claims[t].left <= store[t]
                          /\ parked[t] > 0 => t \in Minted /\ claims[t].left <= parked[t]
    BY DEF TokenInv, KeysOutlive, stored, Parked
  <2>3. ASSUME NEW t \in Tokens
        PROVE  /\ store'[t] > 0 => t \in Minted' /\ claims'[t].left <= store'[t]
               /\ parked'[t] > 0 => t \in Minted' /\ claims'[t].left <= parked'[t]
    <3>1. /\ store'[t] \in {store[t], parked[t], 0}
          /\ parked'[t] \in {store[t], parked[t], 0}
      BY <1>keys
    <3>2. claims'[t] = claims[t] /\ Minted' = Minted
      BY <1>2
    <3> QED  BY <2>2, <3>1, <3>2
  <2>4. KeysOutlive'
    BY <2>3 DEF KeysOutlive, stored, Parked
  <2> QED  BY <2>1, <2>4
<1>7. VersionsPast'
  <2>1. \A t \in Minted : claims[t].sv \in Nat
    BY <1>1 DEF Minted, TokenInv, TypeOK, Claims
  <2> QED  BY <1>1, <1>2, <2>1 DEF TokenInv, VersionsPast
<1> QED  BY <1>4, <1>5, <1>6, <1>7 DEF TokenInv

LEMMA StutterKeeps ==
    ASSUME TokenInv, UNCHANGED vars
    PROVE  TokenInv'
BY DEF TokenInv, TypeOK, RequestsInOrder, KeysOutlive, OneHome, VersionsPast, stored,
       Parked, Minted, vars

\* Both kinds of request mint a token in their first step.
LEMMA MintingStep ==
    ASSUME TokenInv, NEW w \in Workers,
           \/ \E u \in Users : IssueTokens(w, u)
           \/ \E old \in held : Refresh(w, old)
    PROVE  TokenInv' /\ UNCHANGED <<store, parked, online, held, version>>
           /\ \A t \in Minted : claims'[t] = claims[t]
<1>1. CASE \E u \in Users : IssueTokens(w, u)
  <2> PICK u \in Users : IssueTokens(w, u)
    BY <1>1
  <2> PICK t \in Tokens : issueRefresh(t, u) /\ job' = [job EXCEPT ![w] = Persisting(t, None)]
    BY DEF IssueTokens
  <2>1. TokenInv'
    BY MintKeeps DEF IssueTokens
  <2> QED  BY <2>1 DEF IssueTokens, issueRefresh
<1>2. CASE \E old \in held : Refresh(w, old)
  <2> PICK old \in held : Refresh(w, old)
    BY <1>2
  <2> DEFINE u == claims[old].user
  <2>1. old \in Tokens /\ u \in Users
    BY DEF TokenInv, TypeOK, Minted, Claims
  <2> PICK t \in Tokens : issueRefresh(t, u) /\ job' = [job EXCEPT ![w] = Persisting(t, old)]
    BY DEF Refresh, RefreshTokens
  <2>2. job[w] = Idle /\ UNCHANGED <<store, parked, online, held, version>>
    BY DEF Refresh, RefreshTokens
  <2>3. TokenInv'
    BY <2>1, <2>2, MintKeeps
  <2> QED  BY <2>2, <2>3 DEF issueRefresh
<1> QED  BY <1>1, <1>2

LEMMA TokenInduction == Spec => []TokenInv
<1>1. TokenInv /\ [Next]_vars => TokenInv'
  BY MintingStep, PersistKeeps, RevokeKeeps, ReplyKeeps, TickKeeps, RestartKeeps, StutterKeeps
     DEF Next, Serve
<1> QED  BY InitTokens, <1>1, PTL DEF Spec

-----------------------------------------------------------------------------
(* What a step does to the tokens that clients hold *)

\* Only a request whose token is stored sends it.
LEMMA Deliveries ==
    ASSUME TokenInv, Next, NEW t \in held' \ held
    PROVE  \E w \in Workers :
              /\ t = job[w].new /\ job[w] # Idle
              /\ UNCHANGED <<claims, store, parked, online, version>>
              /\ claims[t].left <= store[t]
<1>1. PICK w \in Workers : Reply(w) /\ t = job[w].new
  BY DEF Next, IssueTokens, Refresh, RefreshTokens, Tick, Restart, Serve, persistRefresh,
         revoke, Reply, Fail, Deliver
<1>2. job[w] # Idle /\ job[w].step = "reply"
  BY <1>1, BusyJob DEF Reply, TokenInv
<1>3. claims[t].left <= store[t]
  BY <1>1, <1>2 DEF TokenInv, RequestsInOrder
<1> QED  BY <1>1, <1>2, <1>3 DEF Reply

\* The key of a token that a client holds is never set.
LEMMA HeldKeysFade ==
    ASSUME TokenInv, Next, NEW t \in held
    PROVE  /\ t \in Minted /\ t \in Minted'
           /\ stored(t)' => stored(t) \/ (Restart /\ Parked(t))
           /\ claims'[t].sv = claims[t].sv /\ claims'[t].user = claims[t].user
           /\ claims'[t].left > 0 => claims[t].left > 0
           /\ claims'[t].left \in Nat /\ claims[t].left \in Nat
<1>1. /\ Lifetime \in Nat \ {0} /\ None \notin Claims
      /\ t \in Minted /\ t \in Tokens /\ claims[t] \in Claims
  BY TokenAssumption DEF TokenInv, TypeOK, Minted
<1>2. claims[t].left \in 0..Lifetime /\ store[t] \in 0..Lifetime
  BY <1>1 DEF Claims, TokenInv, TypeOK
<1>3. CASE \E w \in Workers : \/ \E u \in Users : IssueTokens(w, u)
                              \/ \E old \in held : Refresh(w, old)
  <2>1. UNCHANGED store /\ claims'[t] = claims[t]
    BY <1>1, <1>3, MintingStep
  <2> QED  BY <1>1, <1>2, <2>1 DEF stored, Minted
<1>4. CASE \E w \in Workers : Serve(w)
  <2>1. PICK w \in Workers : Serve(w)
    BY <1>4
  <2>2. job[w] # Idle
    <3>1. job[w].step \in {"persist", "revoke", "reply"}
      BY <2>1 DEF Serve, persistRefresh, revoke, Reply
    <3> QED  BY <3>1, BusyJob DEF TokenInv
  <2>3. job[w].new # t /\ UNCHANGED claims
    BY <2>1, <2>2 DEF TokenInv, RequestsInOrder, Serve, persistRefresh, revoke,
            Reply
  <2>4. store'[t] \in {store[t], 0}
    BY <1>1, <2>1, <2>3 DEF Serve, persistRefresh, revoke, Reply, Command, TokenInv, TypeOK
  <2> QED  BY <1>1, <1>2, <2>3, <2>4 DEF stored, Minted
<1>5. CASE Tick
  <2>1. claims'[t] = [claims[t] EXCEPT !.left = Less(claims[t].left)]
    BY <1>1, <1>5 DEF Tick
  <2>2. /\ claims'[t] \in Claims /\ claims'[t].left = Less(claims[t].left)
        /\ claims'[t].sv = claims[t].sv /\ claims'[t].user = claims[t].user
    BY <1>1, <1>2, <2>1, LessType DEF Claims
  <2>3. store'[t] \in {store[t], Less(store[t])}
    BY <1>1, <1>5 DEF Tick, Aged
  <2> QED  BY <1>1, <1>2, <2>2, <2>3, LessType DEF stored, Less, Minted
<1>6. CASE Restart
  <2>1. UNCHANGED claims /\ store'[t] \in {store[t], parked[t], 0}
    BY <1>1, <1>6 DEF Restart, Backend, InRedis, NoKeys
  <2> QED  BY <1>1, <1>2, <1>6, <2>1 DEF stored, Parked, Minted
<1> QED  BY <1>3, <1>4, <1>5, <1>6 DEF Next

\* The secret version changes in a restart only, and upwards.
LEMMA VersionRises ==
    ASSUME TokenInv, Next
    PROVE  /\ version \in Nat /\ version' \in Nat /\ version <= version'
           /\ version' # version => Restart
<1>1. MaxVersion \in Nat
  BY TokenAssumption
<1>2. version \in Nat
  BY <1>1 DEF TokenInv, TypeOK
<1>3. Restart \/ version' = version
  BY DEF Next, IssueTokens, Refresh, RefreshTokens, Tick, Serve, persistRefresh, revoke,
         Reply
<1>4. Restart => \E v \in version..MaxVersion : version' = v
  BY DEF Restart
<1> QED  BY <1>1, <1>2, <1>3, <1>4

-----------------------------------------------------------------------------
(* Theorems *)

(***************************************************************************)
(* What requests in flight know agrees with the keys, of which each is in  *)
(* Redis or in the map and outlives its token (jwt_manager.go:120-201).    *)
(***************************************************************************)
THEOREM TokensConsistent == Spec => []TokenInv
BY TokenInduction

\* Claims, keys and requests are well formed, and clients hold minted tokens.
THEOREM TokenTypes == Spec => []TypeOK
BY TokenInduction, PTL DEF TokenInv

(***************************************************************************)
(* A refresh token that is sent is stored and works, whatever commands     *)
(* Redis refuses or loses (jwt_manager.go:49,75).                          *)
(***************************************************************************)
THEOREM Delivery == Spec => DeliveredUsable
<1>1. ASSUME TokenInv, Next, NEW t \in held' \ held, claims'[t].left > 0
      PROVE  Accepted(t)'
  <2>1. PICK w \in Workers : /\ t = job[w].new /\ job[w] # Idle
                             /\ UNCHANGED <<claims, store, parked, online, version>>
                             /\ claims[t].left <= store[t]
    BY <1>1, Deliveries
  <2>2. t \in Minted /\ claims[t].sv = version /\ claims[t] \in Claims
    BY <1>1, <2>1 DEF TokenInv, TypeOK, RequestsInOrder, Minted
  <2>3. store[t] > 0
    <3>1. store[t] \in Nat /\ claims[t].left \in Nat
      BY <1>1, <2>2, TokenAssumption DEF TokenInv, TypeOK, Minted, Claims
    <3> QED  BY <1>1, <2>1, <3>1
  <2> QED  BY <1>1, <2>1, <2>2, <2>3 DEF Accepted, parses, ensureRefreshValid, stored, Minted
<1>2. TokenInv /\ [Next]_vars =>
        [\A t \in held' \ held : claims'[t].left > 0 => Accepted(t)']_vars
  BY <1>1
<1> QED  BY <1>2, TokenInduction, PTL DEF Spec, DeliveredUsable

(***************************************************************************)
(* A refresh token that stopped working stays so (jwt_manager.go:144-201), *)
(* unless it waits in Redis for a process that finds Redis again, which    *)
(* only a token that a restart lost sight of can do.                       *)
(***************************************************************************)
THEOREM Finality == Spec => DeadStaysDead
<1>1. ASSUME TokenInv, Next, NEW t \in held, Accepted(t)', ~(Parked(t) /\ Restart)
      PROVE  Accepted(t)
  <2>1. /\ t \in Minted /\ stored(t) /\ claims[t].left > 0
        /\ claims[t].sv = version'
    BY <1>1, HeldKeysFade DEF Accepted, parses, ensureRefreshValid
  <2>2. claims[t].sv <= version /\ claims[t].sv \in Nat
    BY <1>1, <2>1, TokenAssumption DEF TokenInv, VersionsPast, TypeOK, Minted, Claims
  <2>3. claims[t].sv = version
    BY <1>1, <2>1, <2>2, VersionRises
  <2> QED  BY <2>1, <2>3 DEF Accepted, parses, ensureRefreshValid
<1>2. ASSUME TokenInv, Next, NEW t \in held, Accepted(t), ~Restart
      PROVE  ~Parked(t)'
  <2>1. t \in Tokens /\ ~Parked(t)
    BY <1>2 DEF TokenInv, TypeOK, OneHome, Accepted, ensureRefreshValid, Minted
  <2>2. parked' = parked \/ parked' = Aged(parked)
    BY <1>2 DEF Next, IssueTokens, Refresh, RefreshTokens, Serve, persistRefresh, revoke, Reply, Tick
  <2>3. parked[t] \in Nat
    BY <1>2, <2>1, TokenAssumption DEF TokenInv, TypeOK
  <2> QED  BY <2>1, <2>2, <2>3 DEF Parked, Aged, Less
<1>3. TokenInv /\ [Next]_vars =>
        [\A t \in held :
            /\ ~Accepted(t) /\ ~(Parked(t) /\ Restart) => ~Accepted(t)'
            /\ Accepted(t) /\ ~Accepted(t)' /\ ~Restart => ~Parked(t)']_vars
  BY <1>1, <1>2
<1> QED  BY <1>3, TokenInduction, PTL DEF Spec, DeadStaysDead

(***************************************************************************)
(* Within a secret version and a backend, a token stops working early only *)
(* when the request that exchanges it has a token to send that is stored,  *)
(* works, and expires no sooner (jwt_manager.go:67-79).                    *)
(***************************************************************************)
THEOREM NoStranding == Spec => NeverStranded
<1>1. ASSUME TokenInv, Next, NEW t \in held, Accepted(t), ~Accepted(t)', ~Expires(t),
             ~(Restart /\ (~online \/ ~online'))
      PROVE  Replaced(t)'
  <2>1. /\ t \in Tokens /\ t \in Minted /\ t \in Minted' /\ stored(t)
        /\ claims[t].sv = version /\ claims'[t].sv = version'
        /\ claims'[t].left > 0 /\ version' = version
        /\ claims[t].left \in Nat /\ claims'[t].left \in Nat
    BY <1>1, HeldKeysFade DEF Accepted, parses, ensureRefreshValid, Expires, Minted
  <2>2. ~stored(t)'
    BY <1>1, <2>1 DEF Accepted, parses, ensureRefreshValid
  <2>3. TokenInv'
    BY <1>1, MintingStep, PersistKeeps, RevokeKeeps, ReplyKeeps, TickKeeps, RestartKeeps DEF Next, Serve
  <2>4. ~Tick
    <3>1. SUFFICES ASSUME Tick PROVE FALSE
      OBVIOUS
    <3>2. /\ claims[t] \in Claims /\ store[t] \in 0..Lifetime
          /\ claims[t].left \in 0..Lifetime /\ claims[t].left <= store[t]
      BY <1>1, <2>1 DEF TokenInv, TypeOK, KeysOutlive, Minted, Claims
    <3>3. claims'[t].left = Less(claims[t].left)
      <4>1. claims'[t] = [claims[t] EXCEPT !.left = Less(claims[t].left)]
        BY <2>1, <3>1 DEF Tick
      <4> QED  BY <3>2, <4>1 DEF Claims
    <3>4. store'[t] \in {store[t], Less(store[t])}
      BY <2>1, <3>1 DEF Tick, Aged
    <3> QED  BY <2>1, <2>2, <3>2, <3>3, <3>4, TokenAssumption DEF stored, Less
  <2>5. ~Restart
    <3>1. SUFFICES ASSUME Restart PROVE FALSE
      OBVIOUS
    <3>2. PICK found \in {FALSE, Redis} : Backend(found)
      BY <3>1 DEF Restart
    <3>3. online \in BOOLEAN /\ online' \in BOOLEAN
      BY <1>1, <2>3 DEF TokenInv, TypeOK
    <3>4. store' = store
      BY <1>1, <3>1, <3>2, <3>3 DEF Backend, InRedis
    <3> QED  BY <2>1, <2>2, <3>4 DEF stored
  <2>6. /\ \A w \in Workers, u \in Users : ~IssueTokens(w, u)
        /\ \A w \in Workers, old \in held : ~Refresh(w, old)
    BY <1>1, <2>1, <2>2 DEF IssueTokens, Refresh, RefreshTokens, stored
  <2>7. PICK w \in Workers : Serve(w)
    BY <1>1, <2>4, <2>5, <2>6 DEF Next
  <2>8. UNCHANGED <<claims, parked, online, version>> /\ job[w] # Idle
    <3>1. job[w].step \in {"persist", "revoke", "reply"}
      BY <2>7 DEF Serve, persistRefresh, revoke, Reply
    <3> QED  BY <1>1, <2>7, <3>1, BusyJob DEF TokenInv, Serve, persistRefresh, revoke, Reply
  <2> PICK n : n = job[w].new
    OBVIOUS
  <2>9. n \in Minted \ held /\ claims[n].sv = version /\ n # t
    BY <1>1, <2>8 DEF TokenInv, RequestsInOrder
  <2>10. revoke(w) /\ job[w].old = t
    <3>1. CASE persistRefresh(w)
      BY <1>1, <2>1, <2>2, <2>9, <3>1 DEF persistRefresh, Command, TokenInv, TypeOK, stored
    <3>2. CASE revoke(w)
      BY <1>1, <2>1, <2>2, <3>2 DEF revoke, Command, TokenInv, TypeOK, stored
    <3>3. CASE Reply(w)
      BY <2>1, <2>2, <3>3 DEF Reply, stored
    <3> QED  BY <2>7, <3>1, <3>2, <3>3 DEF Serve
  <2>11. /\ job[w].step = "revoke" /\ t # None
         /\ claims[t].left <= claims[n].left
         /\ claims[n].left <= store[n]
    BY <1>1, <2>1, <2>8, <2>10, TokenAssumption DEF revoke, TokenInv, RequestsInOrder
  <2>12. store'[n] = store[n]
    BY <1>1, <2>9, <2>10 DEF revoke, Command, TokenInv, TypeOK, Minted
  <2>13. claims[n].left > 0 /\ store[n] > 0
    <3>1. claims[n].left \in Nat /\ store[n] \in Nat
      BY <1>1, <2>9, TokenAssumption DEF TokenInv, TypeOK, Minted, Claims
    <3> QED  BY <2>1, <2>8, <2>11, <3>1
  <2>14. Accepted(n)'
    BY <2>8, <2>9, <2>12, <2>13
       DEF Accepted, parses, ensureRefreshValid, stored, Minted
  <2>15. job'[w] = Replying(n, t)
    BY <1>1, <2>9, <2>10 DEF revoke, Goto, TokenInv, TypeOK
  <2> QED  BY <2>14, <2>15 DEF Replaced, Replying
<1>2. TokenInv /\ [Next]_vars =>
        [\A t \in held : Accepted(t) /\ ~Accepted(t)' =>
            \/ Expires(t)
            \/ Replaced(t)'
            \/ Restart /\ (~online \/ ~online')]_vars
  BY <1>1
<1> QED  BY <1>2, TokenInduction, PTL DEF Spec, NeverStranded

-----------------------------------------------------------------------------
(* Exchanges *)

\* The requests that exchange a token.
Presenting == {w \in Workers : job[w] # Idle /\ job[w].old # None}

\* An exchanged token is nowhere; one that is being exchanged is not parked,
\* and not stored once its successor is about to be sent.
ExchangeInv ==
    /\ redeemed \subseteq held
    /\ \A t \in redeemed : ~stored(t) /\ ~Parked(t)
    /\ \A w \in Presenting : /\ ~Parked(job[w].old)
                             /\ job[w].step = "reply" => ~stored(job[w].old)

\* No two requests in progress present the same token.
Undisputed ==
    \A w1, w2 \in Presenting : job[w1].old = job[w2].old => w1 = w2

\* No request in progress presents an exchanged token.
OldOpen == \A w \in Presenting : job[w].old \notin redeemed

LEMMA TokenStep ==
    ASSUME TokenInv, [Next]_vars
    PROVE  TokenInv'
BY MintingStep, PersistKeeps, RevokeKeeps, ReplyKeeps, TickKeeps, RestartKeeps, StutterKeeps
   DEF Next, Serve

\* A request begins with a token that is stored, and only there.
LEMMA MintingPresents ==
    ASSUME TokenInv, NEW w \in Workers,
           \/ \E u \in Users : IssueTokens(w, u)
           \/ \E old \in held : Refresh(w, old)
    PROVE  /\ UNCHANGED <<store, parked, held>>
           /\ \A v \in Workers \ {w} : job'[v] = job[v]
           /\ job'[w].old # None => stored(job'[w].old) /\ ~Parked(job'[w].old)
           /\ job'[w].step = "persist"
<1>1. UNCHANGED <<store, parked, held>>
  BY MintingStep
<1>2. PICK t, old : /\ job' = [job EXCEPT ![w] = Persisting(t, old)]
                    /\ old = None \/ (old \in held /\ stored(old))
  BY DEF IssueTokens, Refresh, RefreshTokens, ensureRefreshValid
<1>3. /\ job'[w].old = old /\ job'[w].step = "persist"
      /\ \A v \in Workers \ {w} : job'[v] = job[v]
  BY <1>2 DEF Persisting, TokenInv, TypeOK
<1>4. old # None => stored(old) /\ ~Parked(old)
  BY <1>2 DEF TokenInv, TypeOK, OneHome, Minted
<1> QED  BY <1>1, <1>3, <1>4

\* What a step of a request in progress does when no command fails.
LEMMA ServePresents ==
    ASSUME Faults = {}, TokenInv, NEW w \in Workers, Serve(w)
    PROVE  /\ job[w] # Idle /\ parked' = parked
           /\ \A v \in Workers \ {w} : job'[v] = job[v]
           /\ job'[w] # Idle => job'[w].old = job[w].old
           /\ \/ /\ held' = held /\ (w \notin Presenting \/ job'[w].step # "reply")
                 /\ store' = [store EXCEPT ![job[w].new] = Lifetime]
              \/ /\ held' = held /\ w \in Presenting
                 /\ store' = [store EXCEPT ![job[w].old] = 0]
              \/ /\ held' \in {held, held \cup {job[w].new}} /\ job[w].step = "reply"
                 /\ store' = store /\ job'[w] = Idle
<1>1. Outcomes = {"ok"}
  BY DEF Outcomes
<1>2. job[w] # Idle /\ \A x : job' = [job EXCEPT ![w] = x] =>
         job'[w] = x /\ \A v \in Workers \ {w} : job'[v] = job[v]
  <2>1. job[w].step \in {"persist", "revoke", "reply"}
    BY DEF Serve, persistRefresh, revoke, Reply
  <2> QED  BY <2>1, BusyJob DEF TokenInv, TypeOK
<1>3. CASE persistRefresh(w)
  <2>1. /\ parked' = parked /\ held' = held
        /\ store' = [store EXCEPT ![job[w].new] = Lifetime]
        /\ job' = [job EXCEPT ![w] = Stored(job[w].new, job[w].old)]
    BY <1>1, <1>3 DEF persistRefresh, Command, Goto
  <2> QED  BY <1>2, <2>1 DEF Stored, Revoking, Replying, Presenting
<1>4. CASE revoke(w)
  <2>1. /\ parked' = parked /\ held' = held
        /\ store' = [store EXCEPT ![job[w].old] = 0]
        /\ job' = [job EXCEPT ![w] = Replying(job[w].new, job[w].old)]
        /\ job[w].step = "revoke"
    BY <1>1, <1>4 DEF revoke, Command, Goto
  <2>2. job[w].old # None
    BY <1>2, <2>1 DEF TokenInv, RequestsInOrder
  <2> QED  BY <1>2, <2>1, <2>2 DEF Replying, Presenting
<1>5. CASE Reply(w)
  BY <1>2, <1>5 DEF Reply, Deliver, Fail, Goto
<1> QED  BY <1>3, <1>4, <1>5 DEF Serve

\* A token is exchanged in the step in which its request ends.
LEMMA RedeemsOld ==
    ASSUME TokenInv, NEW w \in Workers, job[w] # Idle,
           held' \subseteq held \cup {job[w].new}
    PROVE  Redeems \subseteq {job[w].old} /\ (w \notin Presenting => Redeems = {})
<1>1. ASSUME NEW v \in Workers, job[v] # Idle, job[v].new \in held' \ held
      PROVE  v = w
  BY <1>1 DEF TokenInv, RequestsInOrder
<1>2. None \notin Tokens
  BY TokenAssumption
<1> QED  BY <1>1, <1>2 DEF Redeems, Presenting

LEMMA NothingRedeemed ==
    ASSUME held' = held
    PROVE  Redeems = {}
BY DEF Redeems

LEMMA ExchangeStep ==
    ASSUME Faults = {}, TokenInv, ExchangeInv, [HNext]_hvars
    PROVE  ExchangeInv'
<1>0. TypeOK /\ Lifetime \in Nat \ {0} /\ redeemed \subseteq Tokens /\ held \subseteq Tokens
  BY TokenAssumption DEF TokenInv, TypeOK, ExchangeInv, Minted
<1>1. CASE UNCHANGED hvars
  BY <1>1 DEF hvars, vars, ExchangeInv, Presenting, stored, Parked
<1> SUFFICES ASSUME HNext
             PROVE  ExchangeInv'
  BY <1>1
<1>2. redeemed' = redeemed \cup Redeems
  BY DEF HNext
<1>3. ASSUME NEW w \in Workers,
             \/ \E u \in Users : IssueTokens(w, u)
             \/ \E old \in held : Refresh(w, old)
      PROVE  ExchangeInv'
  <2>1. /\ UNCHANGED <<store, parked, held, redeemed>>
        /\ \A v \in Workers \ {w} : job'[v] = job[v]
        /\ job'[w].old # None => ~Parked(job'[w].old)
        /\ job'[w].step = "persist"
    BY <1>2, <1>3, MintingPresents, NothingRedeemed
  <2>2. \A v \in Presenting' : /\ ~Parked(job'[v].old)
                               /\ job'[v].step = "reply" => ~stored(job'[v].old)
    BY <2>1 DEF ExchangeInv, Presenting
  <2> QED  BY <2>1, <2>2 DEF ExchangeInv, stored, Parked
<1>4. ASSUME NEW w \in Workers, Serve(w)
      PROVE  ExchangeInv'
  <2>1. /\ job[w] # Idle /\ parked' = parked
        /\ \A v \in Workers \ {w} : job'[v] = job[v]
        /\ job'[w] # Idle => job'[w].old = job[w].old
    BY <1>4, ServePresents
  <2>2. \A v \in Presenting' : ~(parked'[job'[v].old] > 0)
    BY <2>1 DEF ExchangeInv, Presenting, Parked
  <2>3. /\ job[w].new \in Tokens \ held /\ store \in [Tokens -> 0..Lifetime]
        /\ \A v \in Presenting : job[v].old \in held
    BY <1>0, <2>1 DEF TokenInv, RequestsInOrder, TypeOK, Minted, Presenting
  <2>4. CASE /\ held' = held /\ (w \notin Presenting \/ job'[w].step # "reply")
             /\ store' = [store EXCEPT ![job[w].new] = Lifetime]
    <3>1. redeemed' = redeemed
      BY <1>2, <2>4, NothingRedeemed
    <3>2. \A t \in held : store'[t] = store[t]
      BY <2>3, <2>4
    <3>3. \A v \in Presenting' : job'[v].step = "reply" => ~(store'[job'[v].old] > 0)
      BY <2>1, <2>3, <2>4, <3>2 DEF ExchangeInv, Presenting, stored
    <3> QED  BY <2>1, <2>2, <2>4, <3>1, <3>2, <3>3 DEF ExchangeInv, stored, Parked
  <2>5. CASE /\ held' = held /\ w \in Presenting
             /\ store' = [store EXCEPT ![job[w].old] = 0]
    <3>1. redeemed' = redeemed
      BY <1>2, <2>5, NothingRedeemed
    <3>2. \A t \in held : ~(store[t] > 0) \/ t = job[w].old => ~(store'[t] > 0)
      BY <1>0, <2>3, <2>5
    <3>3. \A v \in Presenting' : job'[v].step = "reply" => ~(store'[job'[v].old] > 0)
      BY <2>1, <2>3, <3>2 DEF ExchangeInv, Presenting, stored
    <3> QED  BY <2>1, <2>2, <2>5, <3>1, <3>2, <3>3 DEF ExchangeInv, stored, Parked
  <2>6. CASE /\ held' \in {held, held \cup {job[w].new}} /\ job[w].step = "reply"
             /\ store' = store /\ job'[w] = Idle
    <3>1. redeemed' \subseteq redeemed \cup {job[w].old}
      BY <1>2, <2>1, <2>6, RedeemsOld
    <3>2. redeemed' \subseteq redeemed \/ w \in Presenting
      BY <1>2, <2>1, <2>6, RedeemsOld
    <3>3. w \in Presenting => /\ job[w].old \in held
                               /\ ~stored(job[w].old) /\ ~Parked(job[w].old)
      BY <2>3, <2>6 DEF ExchangeInv
    <3>4. \A t \in redeemed' : t \in held' /\ ~stored(t)' /\ ~Parked(t)'
      BY <2>1, <2>6, <3>1, <3>2, <3>3 DEF ExchangeInv, stored, Parked
    <3>5. \A v \in Presenting' : job'[v].step = "reply" => ~(store'[job'[v].old] > 0)
      BY <2>1, <2>6 DEF ExchangeInv, Presenting, stored
    <3> QED  BY <2>2, <3>4, <3>5 DEF ExchangeInv, stored, Parked
  <2> QED  BY <1>4, <2>4, <2>5, <2>6, ServePresents
<1>5. CASE Tick
  <2>1. UNCHANGED <<held, job, redeemed>>
    BY <1>2, <1>5, NothingRedeemed DEF Tick
  <2>2. \A t \in Tokens : /\ ~stored(t) => ~stored(t)'
                          /\ ~Parked(t) => ~Parked(t)'
    <3>1. store \in [Tokens -> 0..Lifetime] /\ parked \in [Tokens -> 0..Lifetime]
      BY <1>0 DEF TypeOK
    <3> QED  BY <1>0, <1>5, <3>1 DEF Tick, Aged, Less, stored, Parked
  <2>3. \A w \in Presenting : job[w].old \in Tokens
    BY <1>0 DEF TokenInv, RequestsInOrder, Presenting
  <2> QED  BY <1>0, <2>1, <2>2, <2>3 DEF ExchangeInv, Presenting
<1>6. CASE Restart
  <2>1. held' = held /\ redeemed' = redeemed /\ Presenting' = {}
    BY <1>2, <1>6, NothingRedeemed DEF Restart, Presenting
  <2>2. \A t \in Tokens : /\ store'[t] \in {store[t], parked[t], 0}
                          /\ parked'[t] \in {store[t], parked[t], 0}
    BY <1>6 DEF Restart, Backend, InRedis, NoKeys
  <2>3. \A t \in redeemed : ~stored(t)' /\ ~Parked(t)'
    BY <1>0, <2>2 DEF ExchangeInv, stored, Parked
  <2> QED  BY <2>1, <2>3 DEF ExchangeInv
<1> QED  BY <1>3, <1>4, <1>5, <1>6 DEF HNext, Next

LEMMA OpenStep ==
    ASSUME Faults = {}, TokenInv, ExchangeInv, OldOpen, Undisputed, [HNext]_hvars
    PROVE  OldOpen' /\ [Redeems \cap redeemed = {}]_hvars
<1>1. CASE UNCHANGED hvars
  BY <1>1 DEF hvars, vars, OldOpen, Presenting
<1> SUFFICES ASSUME HNext
             PROVE  OldOpen' /\ Redeems \cap redeemed = {}
  BY <1>1
<1>2. redeemed' = redeemed \cup Redeems
  BY DEF HNext
<1>3. ASSUME NEW w \in Workers,
             \/ \E u \in Users : IssueTokens(w, u)
             \/ \E old \in held : Refresh(w, old)
      PROVE  OldOpen' /\ Redeems \cap redeemed = {}
  <2>1. /\ Redeems = {} /\ redeemed' = redeemed
        /\ \A v \in Workers \ {w} : job'[v] = job[v]
        /\ job'[w].old # None => stored(job'[w].old)
    BY <1>2, <1>3, MintingPresents, NothingRedeemed
  <2> QED  BY <2>1 DEF OldOpen, ExchangeInv, Presenting
<1>4. ASSUME NEW w \in Workers, Serve(w)
      PROVE  OldOpen' /\ Redeems \cap redeemed = {}
  <2>1. /\ job[w] # Idle
        /\ \A v \in Workers \ {w} : job'[v] = job[v]
        /\ job'[w] # Idle => job'[w].old = job[w].old
    BY <1>4, ServePresents
  <2>2. CASE Redeems = {}
    BY <1>2, <2>1, <2>2 DEF OldOpen, Presenting
  <2>3. CASE w \in Presenting /\ job'[w] = Idle /\ Redeems \subseteq {job[w].old}
    <3>1. job[w].old \notin redeemed
      BY <2>3 DEF OldOpen
    <3>2. \A v \in Presenting' : /\ v \in Presenting /\ job'[v] = job[v]
                                 /\ job[v].old # job[w].old
      BY <2>1, <2>3 DEF Undisputed, Presenting
    <3> QED  BY <1>2, <2>3, <3>1, <3>2 DEF OldOpen
  <2> QED  BY <1>4, <2>1, <2>2, <2>3, ServePresents, RedeemsOld, NothingRedeemed
<1>5. CASE Tick
  BY <1>2, <1>5, NothingRedeemed DEF Tick, OldOpen, Presenting
<1>6. CASE Restart
  BY <1>2, <1>6, NothingRedeemed DEF Restart, OldOpen, Presenting
<1> QED  BY <1>3, <1>4, <1>5, <1>6 DEF HNext, Next

LEMMA ExchangeInduction ==
    ASSUME Faults = {}
    PROVE  HSpec => [](TokenInv /\ ExchangeInv)
<1>1. HInit => TokenInv /\ ExchangeInv
  BY InitTokens DEF HInit, Init, ExchangeInv, Presenting
<1>2. TokenInv /\ ExchangeInv /\ [HNext]_hvars => TokenInv' /\ ExchangeInv'
  BY TokenStep, ExchangeStep DEF HNext, hvars
<1> QED  BY <1>1, <1>2, PTL DEF HSpec

\* A token that was exchanged is refused from then on.
ExchangedRefused == \A t \in redeemed : ~Accepted(t)

(***************************************************************************)
(* While no Redis command fails, no request begins with a token that was   *)
(* exchanged, also after restarts that lose Redis and find it again: an    *)
(* exchange in progress is what a second one takes (jwt_manager.go:64,78). *)
(***************************************************************************)
THEOREM ExchangedAreRefused ==
    ASSUME Faults = {}
    PROVE  HSpec => []ExchangedRefused
<1>1. ExchangeInv => ExchangedRefused
  BY DEF ExchangeInv, ExchangedRefused, Accepted, ensureRefreshValid
<1> QED  BY <1>1, ExchangeInduction, PTL

(***************************************************************************)
(* A refresh token is exchanged at most once, for any number of overlapping*)
(* requests, as long as no two of them present the same token and no Redis *)
(* command fails: the DEL that fails is the other way to a second exchange.*)
(***************************************************************************)
THEOREM ExchangedOnce ==
    ASSUME Faults = {}
    PROVE  HSpec /\ []Undisputed => RedeemedOnce
<1>1. HInit => OldOpen
  BY DEF HInit, Init, OldOpen, Presenting
<1>2. TokenInv /\ ExchangeInv /\ OldOpen /\ Undisputed /\ [HNext]_hvars
        => OldOpen' /\ [Redeems \cap redeemed = {}]_hvars
  BY OpenStep
<1> QED  BY <1>1, <1>2, ExchangeInduction, PTL DEF HSpec, RedeemedOnce
=============================================================================
