# Formal models of api_free_demo

TLA+ models of the parts of this service in which something can go wrong that
a unit test would hardly reach: concurrent requests over one database, refresh
tokens over a Redis that fails or is gone at the next start, rate limiting over
time, paging over a table that changes, the end of the process. TLC checks small
instances; TLAPS proves the main properties for every value of the constants.

Check a run inside this directory with `tlc -config <Run>.cfg <Module>.tla`
(the table below names the module), a proof with `tlapm <Module>.tla`.

## The system

A Go HTTP service (gin) over PostgreSQL or MySQL, with an optional Redis.
Every request is a goroutine; the process keeps state only in the database,
in Redis, and in a few maps under a mutex.

| Component | State | Operations | What must hold |
|---|---|---|---|
| Profiles (`internal/domain/profile`, `internal/infrastructure/db/profile_repository.go`) | table `profiles`, with a `version` per row and a soft-delete mark | create, bulk create, get, list, PUT, PATCH, delete (soft, hard), bulk delete | no update is lost, deletion is final, the reply to a bulk insertion tells what was stored, replies go to owners |
| JWT manager (`internal/infrastructure/auth/jwt_manager.go`) | key `refresh:<jti>` in Redis, or a `sync.Map` | issue, refresh (rotate), parse | a sent token works, a spent or expired one never again, a working one is given up only for a stored successor, one token is exchanged once |
| Rate limiters (`internal/infrastructure/ratelimit/limiter.go`) | a bucket per key under a mutex, or a Redis counter | Allow | the quota is what a reply says of its key, waiting helps |
| Users (`internal/domain/user`, `user_repository.go`) | table `users`, UNIQUE e-mail | register, login, refresh, me, update me, list | one account per address, no update is lost |
| Middleware and router (`internal/app/middleware`, `router.go`) | none of its own | request id, CORS, optional auth, throttling, logging, auth, admin | who is throttled and who is authenticated, in which order |
| Profile listing (`profile/handler.go` list, `profile_repository.go` List, `response.GetLimit`) | none of its own; the client keeps a cursor or an offset | one page | nothing is shown twice, what is missed is known, the total fits the page |
| Log buffer (`internal/app/diagnostics`) | the last n lines under a mutex | Append, Snapshot | the newest n lines in order |
| Server (`internal/app/server.go`, `cmd/api/main.go`) | listener, signals | Run, Shutdown | a signal ends the process, requests are drained for ten seconds and then dropped, what they use stays open, the exit status is true |
| Database pools, Redis client, configuration, logging, metrics, OAuth stub, response helpers | set once at start | constructors, formatting | - |

How they interact: the router's middleware asks the JWT manager who is calling,
and a limiter per address and one per user whether to go on; a handler parses the
request and calls its service; the services sanitise and validate, and call
their repository, one SQL statement per call (two tables of one database; the
only transaction is the one of bulk create). Login, registration and refresh
of the user service call the JWT manager. `main.go` picks Redis
or the in-process stores once, at start.

The hard behaviours, each listed with its line under `hazards` in
`PROJECT.json`, come from four sources. Requests interleave between their
statements, and read-compare-write spans two of them. A statement or Redis
command fails, or takes effect and loses its acknowledgement. The process
stops between two steps. Time passes between two steps.

## The modules

```
VersionedStore  <--refines--  ProfileService  (on ProfileRepository)
                                 ^     ^    ^
                  ProfileHistory-+     |    +- ProfileServiceProofs
                     ^      ^          |                     ^
                     |      +----------|--------- ProfileRefinement
             MCProfileHistory   MCProfileService

ProfileListing <- MCProfileListing
     ^- ListingProofs

TokenManager <- TokenHistory <- MCTokenHistory      UserService <- MCUserService
     ^              ^- TokenProofs                       ^- UserProofs
     +---- MCTokens

MemoryLimiter <- LimiterHistory <- MCLimiterHistory       RedisLimiter <- MCRedisLimiter
     ^  ^                   ^
     |  +- BucketProofs <- LimiterProofs
     |
Middleware (on LogBuffer) <- Server <- MCServer
                               ^- ServerProofs
```

### Profiles

`ProfileRepository` has one operator per SQL statement, on a table that maps
ids to rows. `first_name` stands for the NOT NULL text columns, `bio` for the
nullable ones that are sanitised (`bio`, `location`), `website` for the three
URLs (`profile_image`, `cover_image`, `website`), which POST and PUT store as they were sent and
PATCH sanitises, `deleted` for `deleted_at IS NOT NULL`. Each `WHERE` clause is
an operator (`Owned`, `Visible`, `AtVersion`), so that dropping a condition is
a one-line mutation.

`ProfileService` is the handlers, service and repository together, as
concurrent requests. The state is the table (`rows`), the UUIDs drawn
(`issued`), for each goroutine the local variables it keeps between two
statements (`job`), and the reply of the last step (`out`). A step is what a
request does up to and including one database statement: PUT and DELETE take
two (read and compare; write), PATCH two (conditional update; read back by id
alone), bulk create one per INSERT and a COMMIT. The actions `create`,
`bulkCreate`, `get`, `update`, `patch`, `delete`, `bulkDelete` are the handlers
of those names. `Exec` is a statement with its failures: `refused` has no
effect, `ack_lost` has its effect and returns an error. `Crash` ends
every request in progress.

Reading a row is atomic with the Go code around it, because only statements
touch shared state. A transaction in progress is invisible to others until
COMMIT (READ COMMITTED or stronger, the default of both databases), so its
INSERTs are kept in the job and published by `BulkCommit`. MySQL counts changed
rows rather than matched ones, unless its DSN says otherwise; the statements
whose count the code looks at change `updated_at` or `deleted_at`, or remove the
row, so the difference is left out.

`VersionedStore` is what a client that uses `version` may assume: a profile is
inserted once at version 1, an edit takes it to exactly the next version, a
removal is for good, and one request touches profiles of one owner.
`ImplementsVersionedStore` is that specification with `store <- rows` and
`spent <- issued \ Reserved`, the ids of a bulk request that has not
committed being still unspent. `ImplementsStore` is the same specification
without `Locking`: an edit may leave any version. That much is left when PUTs
overlap other requests.

`ProfileHistory` adds `won`, the edits that were acknowledged, to say
`AtMostOneWinner`.

### Listing

`ProfileListing` is a client that walks through its profiles while others
insert and delete. A page is two steps, `SelectPage` (the SELECT) and `CountAll`
(the COUNT and the reply), and writes come between them and between pages.
`Matching` is the WHERE clause, `Leads` the ORDER BY, `IsPage` LIMIT and OFFSET:
SQL does not say in which order rows of equal `created_at` come, so any page that
these allow may be selected. Time is in ticks, `Second` of them to a second, and
`Format` is what RFC 3339 without a fraction leaves of a time. `Insert` takes any
`created_at`, because the handler takes the time before its INSERT, and a slow
request inserts a row that is older than those already there. The search text is
left out, as it narrows both statements in the same way. `seen`, `stayed`, `ends`,
`removed` and `quiet` are history variables for the properties.

### Accounts

`UserService` models registration, login, refresh and updates of one's own
account over the users table, in the style of `ProfileService`. `rows` is the
table, `signedIn` the accounts for which a client got tokens (so that access and
refresh tokens name only those), `job` what a request remembers between two
steps. Registration takes a look-up, an INSERT that the UNIQUE constraint may
refuse, and a call of the token manager, which succeeds or fails; login a look-up,
an UPDATE whose error is dropped, and the same call. `readable` says whether a
row's `last_password_hash` is set: `Create` leaves it NULL, and a NULL cannot be
scanned into `User`. No code in the repository sets the column, so the only
accounts that can log in are those that the table held before (`Imported`).

### Refresh tokens

`TokenManager` models issuing, rotation and revocation. `claims[t]` is what the
token says (user, secret version, time to `exp`), `store[t]` the time for which
its key stays, `held` the tokens that reached a client, `job` the requests in
progress. A step ends at one store command: `IssueTokens` mints,
`persistRefresh` does the SET, `RefreshTokens` does the GET and mints the
successor, `revoke` does the DEL, whose error is ignored. `Reply` is where the answer
reaches the client, or is lost, after time and other requests had their turn; `Restart`
may come before it. `Tick` lets a unit of
time pass. Refused requests leave the state alone and have no step. A user
presents only tokens that a client holds, with a right signature; an orphan
(stored, never sent) expires unused.

`Restart` may raise the secret version, loses the requests in progress, and
chooses the store again as `main.go:52-66` does: with `REDIS_ADDR` set (`Redis`)
the process uses Redis if it answers (`online`) and an empty map if not. While a
process runs on its map, the keys in Redis wait there (`parked`) and go on
expiring; a later process finds them.

`TokenHistory` adds `redeemed` to say `RedeemedOnce`.

### Rate limiters

`MemoryLimiter` is the token bucket: `FirstSeen`, `Admit` and `Deny` are the
three ways through `Allow`, one step each because the mutex is held throughout.
Time is discrete and tokens are counted in units of 1/Minute of a token, so
that `elapsed * limit / 60` is an integer; floating-point rounding is not
modelled. `age` is the time since `bucket.last`, and stops at `Horizon`, where
every bucket is full (an assumption on the constants).

`reset` is the time to `RateLimitInfo.Reset`, and `RetryAfter` the header made of
it: by then some of the minute is over, and the rest of the second is cut off
(`Second`).

`LimiterHistory` runs it beside a leaky bucket that is refilled on every tick
(`level`) and remembers what the replies promised each key (`promised`, `waited`) and who
was refused since its bucket was last full (`refused`). These are promises of one
limiter to one key. The headers of a signed-in request are those of its user's
bucket, which has overwritten what the address's bucket answered
(`ratelimit.go:21,33`), so a client cannot take `X-RateLimit-Remaining` for a promise
of the service.

`RedisLimiter` is the limiter that `main.go` installs when Redis answers. `DECR`
takes a missing key for 0 and never answers `redis.Nil`.

### The server

`Middleware` is the chain that the router puts before a handler. A request on
connection `w` goes through one step per access to shared state: the limiter of
its address (with CORS and `OptionalAuth`, which look at nothing shared but the
clock), the limiter of its user, the handler with its authentication, the
request log. Between them tokens expire (`Expire`) and other requests run. The
two memory limiters have one quota and no key in common, so they are one
`MemoryLimiter`; over Redis a verdict may be anything, and an error lets the
request pass. `passed` records the limiters that a request passed. A refused
request, a preflight and a handler that panics leave no line in the log, as in
the code. Rate limiting is taken to be enabled. `LogBuffer` is `Append` as an
operator, since its mutex is held throughout.

`Server` is the process around it: `main` from the configuration to the deferred
closes (`phase`, `handles`, `exit`), the goroutine of `ListenAndServe`
(`listener`), and the signal (`signalled`). `Ends` is every way out of the
process: all its memory is gone. `net/http` is modelled by what it documents:
Shutdown closes the listener, waits until every connection is idle, and gives up
with its context; a connection on which no request came for five seconds may be
closed. A connection carries one request. A handler may take any time, also more
than the ten seconds.

## The runs

| Run | Module | Checks | Shows |
|---|---|---|---|
| ProfileConcurrent | MCProfileService | TypeOK, RequestsConsistent, ResponseOwned, DeletedStaysDeleted, ImplementsStore | two users, two ids, two goroutines, every operation, every kind of body, all faults: each column is sanitised or raw as the code leaves it, replies reach owners only, a PUT that read before a deletion does not undo it; the table is a store in all but its versions |
| ProfileConditional | MCProfileHistory | PatchReadBack, AtMostOneWinner, ImplementsVersionedStore | the same without PUT: optimistic locking works for PATCH and DELETE, and the table is a versioned store |
| LimiterPromises | MCLimiterHistory | TypeOK, LimiterInv, NeverStricter, LooserOnlyAfterRefusal, PromiseKept, RetryAfterKept, EventuallyAdmitted | the memory limiter is never stricter than a leaky bucket and looser only after a refusal, keeps what it answers about a key, and a retrying client gets through |
| TokensRedis | MCTokens | TokenInv, DeliveredUsable, NeverStranded, DeadStaysDead, KeysExpire | two requests at a time over a failing Redis or, after a start without it, over a map; lost replies, expiry, crashes, a new secret version |
| UsersConcurrent | MCUserService | AccountsConsistent, TokensToOwner, ConflictIsTrue, IdentityKept | two requests at a time, three ids for two addresses, one imported account: the UNIQUE constraint settles the race of two registrations, and nobody gets tokens for another's account |
| ProfilePaging | MCProfileListing | TypeOK, NeverShownTwice, SkipsOnlyWithinSecond, OffsetSkipsOnlyOnRemoval, TotalFitsPage | a walk by cursor shows nothing twice and misses at most profiles of a second in which a page ended; a walk by offset misses something only if a profile was deleted or two are equally old; the total fits its page unless something was written in between |
| ServerLifecycle | MCServer | ServerTypeOK, HandlersThrottled, LogIsRecent, HandlesOpen, CleanExit, SignalStops | two connections, a user and an admin token that expire, memory and Redis limiters, panics, every order of signal, listener error and timeout |
| ProfilePutRace | MCProfileHistory | AtMostOneWinner | violated: two overlapping PUTs |
| ProfileBulkReply | MCProfileService | CreatedAreStored | violated: profiles of a failed transaction are listed as created |
| UsersLogin | MCUserService | RegisteredCanLogin | violated: nobody who registered can log in |
| LimiterRedis | MCRedisLimiter | RefusedOnlyOverLimit | violated: the first request is refused |
| TokensRace | MCTokenHistory | RedeemedOnce | violated: two overlapping refreshes |

`ImplementsVersionedStore` is checked without PUT, which breaks it when requests
overlap (ProfilePutRace shows the lost update). A PUT that no other request
overlaps keeps it: that is proved (`PutAlone`, below). ProfileConcurrent has
PUT among the operations, and there `ImplementsStore` says what is left of the
versioned store.

Every property of a passing run has a mutant: a plausible error in a modelled
definition (a dropped `AND version = ?`, a swapped persist and revoke) under
which TLC finds the property violated. The mutated forms stand beside the
definitions, marked as such, and nothing uses them.

### Bounds

- Profiles: two goroutines are what a race needs, two users and two ids what a
  confusion of owners or of rows needs. Clients name versions 1 and 2, so a version that another request has
  just replaced is always among them; a row at version 3 can be read and
  removed by bulk deletion only, which ends the growth. Two UUIDs allow two
  insertions, or one bulk insertion of two. ProfileConcurrent has a body for each
  thing that can happen to a field: a plain text, markup that vanishes, a URL with
  markup that does not, one that validation refuses, one that is left out, a NULL in a
  NOT NULL column. ProfileConditional has one body of each operation.
- Limiter: `Limit` 2, `Burst` 1 and `Minute` 3 make refills that are not whole
  tokens; `Second` 1 is the most that `LimiterAssumption` lets Retry-After lose of such a
  minute (ServerLifecycle, whose tick is a minute, has 0); `Horizon` 5 is past the time that fills any bucket. Two keys show that
  they do not share anything.
- Tokens: three tokens are one token and the two that two overlapping
  refreshes make of it, of one user: that a successor is of the same user is part of
  `TokenInv` and proved for any.
  `Lifetime` 2 lets a tick fall between the minting and the SET.
  `MaxVersion` 2 is one change of the secret version.
- Accounts: three ids for two addresses let two registrations of one address
  meet beside the imported account; two passwords are a right and a wrong one.
- Listing: three profiles, four ticks and two ticks to the second give pages that
  end in the middle of a second, and equal `created_at`. Limits 1 and 2 (`Asked`
  3 is cut to `MaxLimit`, 0 falls back) make walks of several pages; two users
  show that a page holds one user's profiles only.
- Server: two connections of three requests (`MaxRequests`), a quota that one
  request exhausts, and a log of two lines, so that a refusal, an overflow of
  the log and a shutdown meet requests at every stage. There is one user and
  one address: what two users or addresses do to each other is in the limiter's run.
- RedisLimiter: `MaxCalls` bounds the calls in a minute and the counter's
  depth; the first call already violates the property.

Symmetry is declared in the concurrent, conditional and paging profile
runs, whose properties are invariants and action properties; the runs with liveness
have none.

Deadlock is checked in every run.

### Fairness

Profiles, their listing and accounts have safety properties only, and no fairness. `RetryingSpec` of the
limiter assumes that the clock runs and that the client keeps asking, which is
what the property is about; restarts may happen at any time. `FairSpec` of the
token manager assumes that time passes, and nothing of requests, their replies
or restarts. `RunningSpec` of the server assumes that `main` goes on (`Main`):
its statements are executed, its timeouts expire, and a `select` with a ready case
takes one. No handler, client, signal or listener has to move.

## The proofs

| Theorem | Says |
|---|---|
| ProfileServiceProofs!TypeCorrect | `Spec => []TypeOK` |
| ProfileServiceProofs!Consistency | `Spec => []RequestsConsistent` |
| ProfileServiceProofs!Ownership | `Spec => []ResponseOwned` |
| ProfileServiceProofs!DeletionIsFinal | `Spec => DeletedStaysDeleted` |
| ProfileServiceProofs!CreatedUnlessRefused | `Spec => []CreatedAreStored`, if no statement is refused |
| ProfileRefinement!Refinement | `Spec => ImplementsVersionedStore`, if PUT is not among the operations or there is one worker (`PutAlone`) |
| ProfileRefinement!PlainRefinement | `Spec => ImplementsStore`, with no condition |
| ProfileRefinement!PatchIsReadBack | `Spec => []PatchReadBack`, if `PutAlone` |
| ProfileRefinement!OneWinner | `HSpec => AtMostOneWinner`, if `PutAlone` |
| ListingProofs!PagesWellFormed, CursorMissesASecond, OffsetMissesOnlyOnRemoval | `Spec => []` TypeOK, SkipsOnlyWithinSecond, OffsetSkipsOnlyOnRemoval |
| ListingProofs!CursorNeverRepeats, TotalAccountsForPage | `Spec =>` NeverShownTwice, TotalFitsPage |
| UserProofs!Accounts, Sessions, Conflicts | `Spec => []` AccountsConsistent, TokensToOwner, ConflictIsTrue |
| UserProofs!Identities | `Spec => IdentityKept` |
| UserProofs!RegistrantsLockedOut | `Spec => []OnlyImportedReturn`: every answer 200 is for an imported account |
| UserProofs!ImportedCanLogin | `Spec => []ImportedLogsIn`, if nothing fails: no login with the address and password of an imported account is refused |
| LimiterProofs!Generous, LooseningIsARefusal, RemainingIsKept | `HSpec =>` NeverStricter, LooserOnlyAfterRefusal, PromiseKept |
| LimiterProofs!WaitingIsEnough | `HSpec => RetryAfterKept`, if `Limit >= 2` |
| LimiterProofs!LimiterAlwaysAhead, BucketsBounded | `HSpec => []` LimiterInv, TypeOK |
| TokenProofs!Delivery, Finality, NoStranding | `Spec =>` DeliveredUsable, DeadStaysDead, NeverStranded |
| TokenProofs!TokensConsistent | `Spec => []TokenInv` |
| TokenProofs!ExchangedAreRefused | `HSpec => []ExchangedRefused`, if no Redis command fails: an exchanged token is refused from then on |
| TokenProofs!ExchangedOnce | `RedeemedOnce`, while no two requests in progress present the same token (`Undisputed`), if no Redis command fails |
| ServerProofs!ServerTypeCorrect, EveryHandlerThrottled, LogAlwaysRecent, HandlesStayOpen | `SSpec => []` ServerTypeOK, HandlersThrottled, LogIsRecent, HandlesOpen |
| ServerProofs!ExitTellsTheTruth | `SSpec => CleanExit` |

They hold for any finite or infinite sets of users, ids, workers, bodies and
tokens, any limit and burst, any lifetime, every set of faults, any times and
page limits (over finitely many profile ids), any connections and any log limit. The assumptions are the named
ASSUMEs of the modules: sentinels differ from data, request bodies are well typed, Retry-After loses at most half
a minute (it loses a second),
`Limit >= 1` and `Burst >= 0` (`config.go` does not validate either; with a limit of 0
the service would refuse everybody), and without Redis no command fails.
A theorem with a condition has it in its statement.

The inductive invariants:

- Profiles. `ResponseOwned` is not inductive: `PatchFetch` reads by id alone, so
  the proof needs to know that the row under that id still belongs to the
  request's user. `RequestsConsistent` says this (`EditsOwned`), and what
  in turn makes it true: ids in the table were issued (`RowsIssued`), those of an
  uncommitted batch are in nobody's hands (`BatchesUnborn`,
  `BatchesDisjoint`). The proof has a lemma per action.
- Bulk replies. Only a step that ends a bulk creation lists profiles as created, and
  if nothing of the transaction fails before COMMIT that step is `BulkCommit`, which
  stores the rows of the whole batch (`BatchInserted`), acknowledged or not. A statement
  that fails in whatever way before COMMIT is undone by the rollback, and counts as
  `refused`.
- Refinement. The step that writes a PUT must be an `Edit` of one version, so
  the row the request read must still be the stored one. `PutAlone`, a
  condition on the constants `Ops` and `Workers`, makes that invariant
  (`PutFresh`). Without it ProfilePutRace is a counterexample.
  `ImplementsStore` needs no such condition: the two specifications are two
  instances of `VersionedStore`, every step but the write of a PUT is one of the
  stricter one whatever overlaps (`RefineOthers`), and that write is an `Edit`
  without `Locking`, as it names neither `user_id` nor `deleted_at`.
- One winner. `WonBehind`: a version whose edit was acknowledged is behind the row
  that is there now. The acknowledging step of PUT and DELETE is the one that
  replaces the version (`Wins`), but a PATCH is acknowledged after its read-back, so
  `PatchesOpen` says that no other edit of the version was acknowledged while
  one reads back, and that two PATCHes reading back do not share a version.
- Who comes back. `ReaderInv`: the accounts that a SELECT can read are the imported
  ones with the column set, because INSERT leaves it NULL and UPDATE does not
  name it (`ReadersFixed`), and a request that goes on with an account that it
  read goes on with one of those. This is the finding of UsersLogin for
  every instance, and `ImportedCanLogin` its other half: for an account whose
  column is set, only a failure keeps the right password from logging in.
- Accounts. `AccountsConsistent` adds to `UniqueEmails` that the account a
  request read still has the address and password that it read (`Agrees`),
  without which a stale write could change them, and a login could hand out
  tokens for an account whose password it did not compare.
- Limiter. `LimiterInv`: the bucket's tokens with its refill pending are at
  least the leaky bucket's level, and at least what was promised; and
  a bucket's `age` is at least the time since its client's last reply.
  A refusal adds the refill without moving `last`, which only adds tokens; until
  a client is refused, its bucket and the leaky one are equal, which gives
  `LooserOnlyAfterRefusal`. The arithmetic of one bucket is in `BucketProofs`.
- Tokens. `TokenInv`: a key outlives the signature it stands for
  (`KeysOutlive`), a request's new token is its own and unsent, is stored from
  the SET to the reply and expires no sooner than the one it replaces
  (`RequestsInOrder`), no key is in the map and in Redis at a time (`OneHome`), and
  secret versions never come from the future.
- Exchange. `ExchangeInv`: an exchanged token is stored nowhere, not even where
  it waits in Redis for a later process. It needs to know of the requests in
  progress that the token which they present does not wait there either, and is not
  stored once they are about to reply. While
  no two of them present the same token, none presents an exchanged one
  (`OldOpen`), which is `RedeemedOnce`. The two conditions are the two ways in which
  TokensRace and a lost DEL break it.
- PATCH. Between its two statements the row, if it is still there, is past the
  version that the client named (`PatchAhead`), as no step takes a version back;
  a PUT might, hence `PutAlone`.
- Listing. What was shown is not before the cursor, and the page in hand is
  before the last cursor and not before the next (`ShownInv`): cutting a cursor
  down to its second moves it away from what was shown. `MissInv` adds that what
  was there all along is shown, or before the cursor, or in the second of one.
  `TotalInv` relates the page in hand to the rows that match while nothing is
  written, by cardinalities of the parts that `IsPage` speaks of. `OffsetInv` is the
  argument for a walk by offset, by rank instead of by induction over its pages: at
  least `offset` profiles lead whatever was there all along and is not yet shown,
  and after a page without it, `limit` more (`PageLeads`). Insertions only raise that
  rank; a removal lowers it, hence the property's condition.
- Server. A request that goes on as its user has passed that user's limiter or
  has not come to it yet, and a token that parses now parsed before, because
  tokens only expire (`Throttled`). Requests exist only while the process serves
  or drains, with everything open, and draining follows a signal (`LifeInv`).
  The log is a suffix of its history, which appending keeps.

What is only model-checked: `EventuallyAdmitted`, `KeysExpire` and
`SignalStops`, which are liveness under fairness and out of the prover's reach.
Every invariant and action property of a passing run is a theorem. Of the five
properties that the code violates, `AtMostOneWinner`, `RedeemedOnce` and
`CreatedAreStored` are theorems under a condition that says what goes wrong, and
`RegisteredCanLogin` is split into who cannot log in (`RegistrantsLockedOut`) and who can;
`RefusedOnlyOverLimit` has no theorem, as the first request already violates it.

## Findings

The five violated runs, in the order of their weight:

1. LimiterRedis. With Redis configured and rate limiting on, every request is
   refused: `DECR` of a missing key is -1, and the branch for `redis.Nil` that
   sets the quota is dead (`limiter.go:83`).
2. UsersLogin. `last_password_hash` is NULL in every row that registration
   inserts and is scanned into a Go string (`user/model.go:20`), so login,
   refresh and `/users/me` fail for everybody who registered. The tests use a
   repository in memory and do not notice.
3. ProfilePutRace. PUT compares versions in memory and writes without
   comparing (`service.go:122`, `profile_repository.go:59`).
4. TokensRace. Rotation is GET, SET, DEL without a transaction
   (`jwt_manager.go:64`), so overlapping refreshes each get a successor.
5. ProfileBulkReply. A bulk creation is one transaction whose error is dropped
   (`service.go:88`): one failed INSERT rolls back the valid ones, and the answer
   207 lists them all as created. `openapi.yaml:375` says "partial success", `service.go:62`
   "returns successes/failures"; only what validation refuses is partial.

Observed while reading, with no run of its own: the memory limiter credits a refused attempt with its
waiting time and the next one with it again, so that a client that hammers is
let through ahead of the "leaky bucket per key" of `limiter.go:24`
(`LooserOnlyAfterRefusal` says that nothing else is); rows of the second in which a
page ended can be skipped by `next_cursor` (`SkipsOnlyWithinSecond` is the most that
the code keeps, `handler.go:117`); requests that are throttled or panic leave
no line in the log (`logging.go:20`); a shutdown that takes more than ten seconds
exits with `logger.Fatal` past the deferred closes (`main.go:104`); a PUT keeps an optional field
that its body omits (`service.go:199`, against "Replace profile",
`openapi.yaml:326`); text that is only markup passes `required` and is stored
empty, because validation comes before sanitising (`service.go:40,47`); a hard
DELETE that loses its race answers 404 where the soft one answers 409
(`profile_repository.go:103`); a DELETE without `version` always meets 409
(`handler.go:185,213`), although `openapi.yaml:365` declares it optional; PATCH
does not look at `deleted_at` and a bulk soft delete does not move the version,
so a PATCH may edit a deleted profile (`profile_repository.go:81,123`); Login
writes back the name and picture that it read, over those of a concurrent
`PUT /users/me` (`user/service.go:127`); a registration that fails to issue tokens has
stored its account, and a second try is told that the e-mail is taken
(`user/service.go:99`); POST and PUT store the three URLs as they were sent and PATCH
sanitises them (`service.go:163,206-215`); the headers of the user's limiter
overwrite those of the address's (`ratelimit.go:33`), so that a client may be refused
while it was told of requests left; `Retry-After` is 59, not 60, seconds
(`response.go:63`), which at a limit of 1 is too short; when the reply to a refresh is
lost, or the process stops after the DEL (`jwt_manager.go:78`), the client is left with
no token, as with any rotation that revokes before it knows that its answer arrived;
when that DEL fails, the old token keeps working beside the new one, and one that a
restart sets aside in Redis comes back with it.

## What is not modelled, and why

- The admin listing of accounts: reads only, with the offset paging that
  `ProfileListing` has. `AllowRegistration` off: nothing happens. What the token
  manager does inside a call of the user service: see `TokenManager`; the user
  service needs to know only whether the call succeeded.
- The search text of a listing, and the JSON of every reply. A cursor that does not
  parse is ignored by the handler (`handler.go:105-109`), so the walk starts over; a client
  that follows `next_cursor` never sends one.
- That `Refresh` of the user service refuses when the account cannot be read (no
  account is ever removed; see `UserService` for unreadable ones), and the type
  that a token names: no property depends on either.
- `LogBuffer.Snapshot`, the health check, the metrics endpoint: they read.
- Rate limiting switched off: the chain without its two steps. What Redis counts
  across requests in the chain: see `RedisLimiter`.
- Keep-alive: a connection with a second request is a connection accepted at
  that time, but for a shutdown, which closes it when it is idle.
- Signatures and encodings of tokens: cryptography is taken to be right.
- Request ids, header values, Sentry, the OAuth stub, response formatting,
  configuration, the limits of the connection pools, the read replica (opened
  and never used), the scripts: pure I/O, set once at start, or outside.

## Plan

Done: profiles, their listing, tokens with the change of backend, limiters,
accounts, the middleware chain, the log, the server, each with its proofs. Left:

1. The lost update of Login (name and picture) as a refinement of a store of
   accounts, under the condition that no update of the same account overlaps.
2. That the Redis limiter refuses every request that Redis answers, for every
   instance.
