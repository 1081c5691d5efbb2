# A TLA+ model of the MirrorStack module SDK

The SDK (Go) is linked into every MirrorStack module. It serves a module's routes,
runs its tasks, migrates its schema, hands it scoped database and cache clients and
delivers its audit trail, either deployed (Lambda, platform-run workers) or in a
developer's process. This directory models the parts of it that keep state while
several goroutines, processes or services take turns, checks them with TLC on small
instances, and proves the most important results with TLAPS for every instance.

Paths below are relative to the repository; `core/` stands for `internal/core/`.

## 1. Inventory

### Parts that are modelled

**Reference-counted cache** (`internal/refcache`, used by `db.PoolCache` and
`cache.ClientCache`). State: a map of entries with a refcount and a last-use time, one
mutex, a `singleflight.Group`. Operations: `Get` (hit; miss with a leader and
followers; factory; insert with LRU eviction; refusal when all is pinned), the release
closure, `Close`. Hard: the factory runs outside the mutex; followers pin an entry
after the leader has left; eviction must never close what is in use.

**One-shot task runtime** (`internal/runtime/task_worker.go`, `task_broker.go`,
`task_message.go`). State: the lease token, vended credentials, nested contexts, the
`brokerMu` lock, the terminal flag. Operations: the handler, the heartbeat goroutine,
credential getters with a singleflight refresh, the terminal callback with its retries,
clearing. It talks to the broker, which may rotate the lease with every answer, cancel,
refuse, or lose an answer. Hard: four kinds of goroutines over one rotating token;
goroutines the handler leaked; the moment when the handler returns.

**Task claim hand-over** (`core/module_start.go`, `internal/runtime/lambda.go`,
`task_claim_file.go`). State: a claim file, the broker's claim. Operations: load and
consume the file, claim by bootstrap token, run, reject. Hard: several processes may be
started for one attempt and die anywhere.

**Task client** (`core/task.go`, `core/local_task.go`). State: in dev a registry of jobs
with a goroutine each; deployed, the platform's jobs. Operations: `RunTask`,
`RunTaskWithIdempotencyKey`, `CancelTask`, start, finish, deadline. Hard: the
handler is told outside the mutex; retries of requests whose answers were lost and
which may still arrive.

**Audit outbox** (`audit`, `internal/auditoutbox`, `internal/auditstate`,
`core/audit_delivery.go`, `core/db.go`). State: rows with attempts, lease token and
expiry in the app's schema. Operations: record in the caller's transaction, drain
(claim, deliver, finalize under a fence), quarantine, table provisioning with legacy
rows. Hard: crashed and slow workers, lost commits and answers, the attempt budget.

**Dev directory lease** (`core/dev_directory.go`). State: a row with a time stamp per
running module, the heartbeat, a lazy-republish `sync.Once`, the consumer's memo.
Operations: boot publish, beat, lazy republish, slug reclamation, withdrawal, lookup.
Hard: expiry against beats that fail or are late; shutdown against publications under
way; a cached answer that outlives what it describes.

**Migrations and lifecycle** (`system/lifecycle.go`, `internal/migration`,
`core/dev_migrate.go`). State: the schema, the platform's watermark, dev's tracking
table, a `sync.Once` per app. Operations: install, upgrade, downgrade, `Apply`,
`ApplyDown`; in dev load, drift check, self-heal, apply, record, stores. Hard: each
migration commits alone; lost answers and commits in doubt; a crash between a
migration and its record.

**Inbound authority** (`auth`, `internal/invocationwire`, `internal/actor`,
`core/lambda_shim.go`, `internal/runtime/lambda.go`). State: the platform secret, read
from a file that the platform rotates; per request its headers and its
`context.Context`. Operations: arrival by HTTP, Lambda or the HTTP shim, and the
middleware (`RequireProxy`, `PlatformAuth`, `InternalAuth`, `RequireRoles`) in the chains
of the three scopes. Hard: every middleware reads the secret anew; identity and
delegation travel in headers, in a typed context and in the envelope at once, and each
middleware sets, keeps or strips a part.

**Outbound calls** (`core/call.go`, `core/dispatch_transport.go`, `core/emit.go`,
`core/notify.go`, `core/member_assertion.go`, `core/delivery.go`). State: none between
calls but the credential: the session secret, or a task's capability, which expires.
Operations: `Call`, `CallDependency` with its development fallback, `Emit`, `Notify`,
the mints of member assertions and delivery tickets. Hard: what may be repeated when an
answer is lost or looks like the router's.

**Database access** (`db`, `core/db.go`, `core/tx.go`). State: the cache of pools, each
with an envelope for the newest token, their connections and the session state on them.
Operations: `DB`, `Tx`, `ModuleDB`, `ModuleTx` on three planes (envelope, task provider,
development). Hard: sessions pass from app to app; tokens expire; pools are evicted and
closed around callers that hold connections.

**Dependency reads** (`core/dependency_db.go`, `core/dependency_local.go`). State: the
builder with its latched error. Operations: the builder, the choice between the
invocation's manifest, a co-located producer and the proxy, the read. Hard: three
authorizations for one call; the schema and the app come from different parts of the
context.

**Metering** (`meter`, `core/meter.go`). State: the declared metrics. Operations:
`Meter` during setup; `Record`, `RecordWithID`, `RecordObservation`. Hard: a report that
failed may have been counted, and another handler's outbox repeats it.

### How they interact

A request arrives through the inbound middleware; what its handler then calls, reads or
records carries the identity, delegation or capability that arrived with it. Requests
and tasks take a pool or a client from the reference-counted cache and release it at
their end. A task attempt is enqueued by the task client, handed to a process by the
claim hand-over and run by the one-shot runtime, whose credentials feed the same caches
and whose capability the outbound calls and the usage reports present. A transaction
that records audit events writes outbox rows, and its commit starts a drain.
Provisioning (dev) and install (deployed) create the outbox's table after the module's
own migrations. Dependency reads in dev ask the directory where a producer lives, and
read it on a pool of database access.

### Parts that are not modelled

`PROJECT.json` lists them with reasons. Could be modelled, and are in the plan: the
cache client (its pinning is `RefCache`'s, the token it keeps is not), contributions,
`SeedHandler`. Left out for good: storage (presigned URLs and multipart calls: the
session's state is the store's), building and signing CDN URLs (only the ticket's mint is
modelled), the dev plane's SQL guard (rewrites and vets texts), the manifest and registry
rendering, MCP, paging, i18n and ids (formatting and parsing without state), the facade
(delegation).

## 2. Modules

| part | modules | abstract promise | proofs |
|---|---|---|---|
| refcache | `RefCache`, `MCRefCache` | `Lifetimes`, `PinnedCache` | `RefCacheProofs` |
| one-shot runtime | `OneShotTask`, `MCOneShotTask` | | `TaskProofs` |
| claim hand-over | `TaskClaim` | | `TaskProofs` |
| metering | `Metering` (over `TaskClaim`), `MCMetering` | | `TaskProofs` |
| task client | `TaskJobs` | `JobPromise` | `TaskJobsProofs` |
| audit outbox | `AuditOutbox` | `AtLeastOnce` | `AuditOutboxProofs` |
| dev directory | `DevDirectory`, `MCDevDirectory` | | `DevDirectoryProofs` |
| migrations | `Migrations` | | `MigrationsProofs` |
| inbound authority | `Authority` | | `ModuleCallsProofs` |
| outbound calls | `ModuleCalls` (over `Authority`), `MCModuleCalls` | | `ModuleCallsProofs` |
| database access | `Pools` | `PinnedCache` | `DependencyReadsProofs` |
| dependency reads | `DependencyReads` (over `Pools`), `MCDependencyReads` | | `DependencyReadsProofs` |

An MC module exists only where a run needs a symmetry set or a constant that a cfg cannot
write; the other configurations instantiate the component's module itself. Where one
module is "over" another it EXTENDS it and composes the two: one run then checks both.

An action is what happens between two points at which another actor can interfere: a
critical section, a transaction, a request or its answer. Definitions keep the names of
the code where that is possible; `PROJECT.json` maps each one to its lines. An operator
whose comment begins with "Mutant of" is a plausible mistake: put in place of the
definition it names, it breaks the property that `PROJECT.json` pairs it with. It is
part of no specification.

### RefCache

`items`, `older` and `flight` are the map, the order of the last-use times and the
singleflight group; `pc[c]` says where caller c is inside `Get`. A resource is a number
in the order of creation, and `closes` counts the closer's calls. `older` is a relation
and no sequence: time stamps of the same instant leave the order open, and `Evictable`
then allows any of the oldest. Keys, resources and callers are opaque. The typed
wrappers (`PoolCache`, `ClientCache`) validate credentials and derive a key before they
call `Get`; the envelope of the former is in `Pools`. What they build upon is stated
twice, each time from the users' side: `Lifetimes` follows the resources (opened once,
disposed of once and only while nobody uses them), `PinnedCache` the keys (`Get` finds
or fills its key at one instant, and in a full cache puts out one entry that nobody pins).

### OneShotTask

`main`, `hb` and `user[u]` are the control points of `RunOneShot`, its heartbeat and the
goroutines that ask for credentials, which may outlive the handler. `req[p]` is the
broker request of poster p from sending to answer; the broker's side is `lease`,
`outcome`, `cancelReq`. The lease rotates when the broker answers, so that a lost answer
leaves the process with an old token, as in reality. Time is reduced to events: a credential ages to
"not usable for 30 s more", the deadline passes. `cause` is what `errors.Is` can tell
of `context.Cause`. A claim that was validated is the initial state.

### TaskClaim

Processes are started at any time with one of the two sources. A claim answer that is
lost is `ClaimWon` followed by `Crash`. `quality` is what `validateClaim` says. TLC
explores the module inside `Metering`.

### Metering

A handler is an HTTP request or the process that `TaskClaim` made the runner. `call[h]`
is the event it is posting, `posts` the events that may still arrive, `counted` what
dispatch has ingested: an event leaves `posts` only by arriving, arrives at any later
time, and `counted` holds event IDs, so a second arrival of one ID adds nothing. `Return`
ends a report with any result whether the event arrived or not, and a later `Report` of
the same use is the outbox's retry. An event ID is the persisted one, or a fresh one for
`Record`. Labels, metadata and the wire's encoding are left out.

### TaskJobs

A job is known by its key (app and UUID), a request is a task with its canonical
payload. In dev, `job`, `canceller`, `worker`, `ctx` are the registry, the stored cancel
function, the goroutine and `ctx.Err()`; the two readings of `ctx.Err()` in
`executeLocalTask` are two actions. Deployed, a call sends up to three requests under
one key; a request that the client gave up on is lost or stays in `net` and reaches the
platform later. The platform is external: it creates a job once per key, as
`RunTaskWithIdempotencyKey`'s comment demands of it. The dev registry dies with its process: a key
reused after a restart creates the job again there, which its own comment
("process-local") says and the comment on `RunTaskWithIdempotencyKey` ("process
restarts") does not except.

### AuditOutbox

A worker is a goroutine that runs transactions and drains. `row[e]` holds state,
attempts, lease token, whether the lease has expired and whether the backoff is over.
The claim's order (oldest first) is abstracted to any ready row, which allows more. A
lost answer of a finalization is `Finalize`; a lost commit is a commit that starts no
drain. `Legacy` events were written before tables had proofs.

### DevDirectory

Time is discrete. `Timely` forbids a tick while something with a time limit is
overdue: a publication lasts at most `MaxPublish` (the code's context timeout), a lookup
at most `MaxLookup` (an assumption: the code sets no limit of its own), a beat happens
on time. `LeaseAssumption`, 2·HB + 2·MaxPublish < TTL, holds for the code's constants.
Batches are READ COMMITTED with row locks: a DELETE sees rows that are committed, and
waits for the ones others have locked. A module without a slug publishes nothing and is
no producer of the model.

### Migrations

One app's schema. `db` is the set of migrations in effect, a version is its number, and
builds only append. The platform serialises lifecycle calls, repeats a call whose
answer was lost, and gives up on a refusal. `Tabled` migrations create tables, so the drift
check can see them; `Irreversible` ones have no down file. `rerunnable` says whether the
module's SQL may run twice. A commit may be in doubt: in effect, and reported as failed.
Module scope is app scope without the provisioner. Legacy tracking rows with an empty
module never match and are not modelled. One dev process runs at a time.

### Authority

One request at a time: requests share nothing but the secret, and `RotateToken` stands
for whatever happens to its file meanwhile. `hdrs` and `ctx` are what the next
middleware sees, `chain` what is still to run, and each middleware is one step, as each
reads the file once. `live` collects the secrets that were current since the request
arrived. Values are compared, never parsed: `Malformed` stands for every value that fails
the check on its own shape, and the predicates (`ValidIdentity`, `LegacyAgrees`,
`InvocationHolds`) keep every comparison between fields. A route has a scope and
middleware of its own nested in it; `bare` routes are mounted outside the scopes.

### ModuleCalls

Extends `Authority`: once `status = "served"`, the handler makes one outbound call. `out`
is what was sent for it, `runs` how often the producer has executed it. Dispatch is
external; it marks what it routed, and its answers, a producer's answers that imitate
the router's 404, and lost answers are choices. Lifetimes are numbers in a word of
`Width` bits, as `time.Duration` is one of 64. A task's handler starts with `StartTask`
and a capability that may expire and be renewed.

### Pools

A caller serves one invocation after another. `pool[p]` is an open pool with the newest
token put into its envelope, `conn[x]` a connection with the authority it was dialled
with, the search path of its session and of its transaction. `at[c]` is the pool c has
pinned, `has[c]` the connection it has borrowed. `Get`, with its eviction of the unpinned, is one step here, and the moment between `Get`
and the overwriting of the envelope (`Refresh`) is kept, since other callers dial in
between. That one step is enough is a theorem on either side: `RefCache` implements
`PinnedCache` until it is closed, and the cached pools of this module implement the same
`PinnedCache`.
`HandlerSets` is the handler's own `SET search_path`. PostgreSQL and pgxpool are
external, as their use in `db` shows them: a dial needs a live token, `PrepareConn` runs
before a connection is handed out, a connection returned inside a transaction is
destroyed.

### DependencyReads

Extends `Pools` with a read between the handler's other accesses. `ask[c]` is the read
with the builder's calls and the route chosen, `got[c]` its answer. `Built` folds the
builder over the calls. A query is the set of rows it admits; PostgreSQL returns any
`limit + 1` of them. The directory's answer is any of those `DevDirectory` allows,
stale ones included.

## 3. Runs

| run | instance | states | what it shows |
|---|---|---|---|
| `refcache` | 3 callers, 2 keys, size 1, 3 resources, one Close | 193 k | no leak and no double close; until Close the cache implements `Lifetimes` and `PinnedCache`; every `Get` returns |
| `refcache_vanish` | as above | | **violated**: an entry vanishes before a follower pins it, without any Close |
| `oneshot` | 2 goroutines, 1 kind, one rotation | 1.3 M | nothing follows the terminal callback, newest lease, honest completion, cancellation reported |
| `oneshot_live` | 1 goroutine, no rotation | 104 k | `RunOneShot` exits, getters return |
| `oneshot_success` | 1 goroutine, one rotation | | **violated**: a handler that returned nil is reported as failed |
| `usage` | 3 processes, 1 request, 6 uses, 2 posts | 1.0 M | one process at most runs the handler; a persisted use is counted once, a task's use under its own capability, and all of it can be aggregated |
| `jobs` | 2 callers (1 remote), 2 keys, 2 requests, 1 late request | 118 k | answers name the right job, one job per call, cancelled handlers are told, `JobPromise`; jobs settle |
| `audit` | an event and a legacy row, 2 workers, 3 attempts, batches of 2, 3 faults | 30 k | justified quarantine, leases respected, `AtLeastOnce`; every event is settled |
| `devdir` | 1 module, 1 reader, HB 2, TTL 7, CacheTTL 1 | 44 k | the memo is wrong only briefly, one missed beat is not noticed, a withdrawal is final; a module that serves for good is found again and again |
| `migrations` | 4 versions, 1 irreversible, 3 of them with tables, 3 faults | 45 k | truthful answers, a real watermark, ready means migrated; convergence |
| `authority` | 2 secrets, about 120 requests, 9 routes, 6 calls, words of 8 bits | 1.5 M | no handler, identity, delegation or outbound call without the authority its carrier brought; a producer runs a call once |
| `data` | 2 callers (1 reads), 2 apps, 3 planes, 1 cached pool of 1 connection, 2 ticks, 6 queries | 2.1 M | scopes do not leak, pools in use stay open, connections carry their caller's authority, refusals only after a race; rows are authorized and answers exact |

Why the bounds are enough for the interesting cases. In `refcache` a leader, a follower
and a third caller that evicts can meet, and the one slot can be pinned when the second
key arrives; which of several unpinned entries is evicted is left to the proofs, which
have any size. In `oneshot` a refresh leader, its follower, the heartbeat and the
terminal callback compete over a lease that rotates. In `usage` the runner, a process
that lost and one still to come exist at once; two posts make a use and its repetition
by another handler. In `audit` a worker loses its lease to the other, which fails, and
the budget is reached. In `devdir` three beats fit into a lease, so one may fail and the
next be late; several readers and modules are covered by the proofs. `migrations` has
windows with versions below, inside and above, and enough faults for a failure, its
retry's failure and a lost answer. In `jobs` both callers race on one key while a late
request of an earlier call arrives; the remaining asymmetry (one caller may go remote)
keeps the liveness check small and is absent from the proofs. In `authority` the
requests are representatives: for each comparison the middleware makes, one that passes
and one that fails, and the two secrets suffice for a rotation in either direction;
overflow of a lifetime happens at 8 bits with grants of 3 and 11. In `data` one
connection is what both callers must share, one cached pool is evicted by the other
app's, a token expires in one tick, and the six queries cover a repeated predicate, a
repeated column, a cut and an uncut answer and an empty projection.

Every run but `usage` checks for deadlock; there the attempt and the request are over
once all handlers have ended. All counters have named bounds (`MaxValues`, `MaxCloses`, `MaxLease`,
`MaxFaults`, `MaxLate`, `MaxCalls`, `MaxTime`); `MaxTries`, `MaxPools`, `MaxConns`,
`MaxColumns`, `MaxLimit` and `MaxLifetime` are the code's own limits.

Type invariants are proved instead of being checked by runs. `Authority` and
`ModuleCalls` have none of their own: the shapes their proofs need are parts of `CallsInv`
(`IsHeaders`, `IsContext`, `Arrived`, `Sending`).

### Findings

* `oneshot_success` (`internal/runtime/task_worker.go:501`): when the handler returns
  nil while a heartbeat waits for `brokerMu` or is under way, stopping the heartbeat
  makes "context canceled" the cause of the attempt's context. The attempt is then
  reported as failed and retryable although its work is done.
* `refcache_vanish` (`internal/refcache/refcache.go:141`): the comment says an entry can
  vanish before a follower pins it only if `Close` ran. It can also be released and
  evicted first; the follower's `Get` then fails.

Observed on the way, with no run of their own: `classifyTaskFailure` makes any error
that wraps `DeadlineExceeded` non-retryable. The directory's TTL is three heartbeats
exactly, so a lease ends at the instant its third beat is due. Two simultaneous first
publications of one slug can both commit, until the next beat. A lazy republish can
write a row after its withdrawal. A deadline that passes between the two readings of
`ctx.Err()` is reported as a cancellation. After `Close`, a release closure from before
it may unpin an entry inserted since under the same key. A cached Redis client keeps the
token that built it: a hit does not renew it as `db.PoolCache` does
(`cache/client_cache.go:41`). The lifetime in a mint's answer is multiplied by
`time.Second` in 64 bits (`core/member_assertion.go:224`): a product that wraps to a
negative number is refused, one that wraps to a small positive number is taken, and
`core/delivery.go:228` screens the integer on the wire only. No path gives `ModuleDB` an
envelope's credential: deployed, it works in tasks only. The comment on `DependencyDB`
(`mirrorstack.go:793`) still calls it development-only, while a deployed read takes the
invocation's manifest.

## 4. Fairness

Liveness is checked under fairness of what the code schedules itself, and of nothing
else. Go runs runnable goroutines (weak fairness). `sync.Mutex` hands a contended lock
over in starvation mode (strong fairness of the steps that take `brokerMu`). Requests
end: the HTTP clients have a 15 second timeout, so a lost answer is eventually
noticed, but the broker and the platform need never answer. Handlers of local jobs are
assumed to return where `JobsSettle` is concerned; `OneShotTask` assumes it of no
handler. Drains are started by every commit and by the module's schedule, in goroutines
of their own; claims take the oldest row first, so a row that is ready again and again
is claimed. Time passes. In the directory, a database that refuses publications accepts
one again some day. In migrations the platform keeps asking for what it wants, the
developer restarts a process whose provisioning failed, and faults are finitely many.

## 5. Proofs

Every safety property that a passing run checks is also a theorem, for all values of the
constants under the assumptions named in the component's module: every invariant, every
action property and every refinement of section 3. Each follows from an inductive
invariant of its component, whose types are a theorem too. No theorem is taken on trust.

* **RefCacheProofs.** `NothingLeaks`, `OneFactoryPerKey`, `RefCountExact`, `SizeBounded`,
  `NoUseAfterEvict`, and that until `Close` the cache implements `Lifetimes`. The
  invariant has three layers. *Ownership*: a leader's key is in flight under its name and
  stays uncached until it inserts, and each resource has one owner. *Pinning*: who holds
  a resource holds the one cached under its key, and the count is exact. *Sizing*: the
  set of cached keys is finite and bounded. Without `LeaderMissed`, an insert might
  overwrite, and so leak, an entry. `CacheImplementsPinnedCache` shows in addition that
  until `Close` each `Get` takes effect at one instant, that of the critical section that
  pins its entry, for leaders and followers alike: what `Evictable` allows is unpinned
  (`EvictableIsUnpinned`, from the exact count), and a leader still finds its key uncached.
* **TaskProofs**, of one attempt from its claim to its exit. *The claim*:
  `HandlerRunsOnce` and `CallbackOnlyByClaimant` of `TaskClaim`, from `OneHolder`: the file
  is consumed once, the broker's claim won once. *Usage*: `MeteringSpec` implements
  `ClaimSpec`, which carries these results over, and `UsageCountedOnce`,
  `TaskUsageIsTheAttempts`, `UsageIsAggregable` follow from `Reported`: every event that was
  ever posted names its sender's authority (`Authorised`) and a declared metric under the
  rules of its kind (`Resolved`), and only posted events are counted. *The runtime*: the
  safety results of `oneshot`, `OneRequestAtATime`, `NoCredentialAfterExit`, and that
  followers of a refresh have a leader. Its invariant relates `brokerMu` to who may have a
  request under way (`LockHeld`, `Flights`), the terminal flag to everyone else
  (`TerminalClosed`), the adopted token to the newest answer (`LeaseAdopted`), and the
  decision to what was known when it was made (`DecisionHonest`, `ClearedAtExit`).
* **TaskJobsProofs.** `AnsweredJobIsMine`, `OneJobPerCall`, `CancelledIsTold`,
  `CancelledForAReason`, and that both planes implement `JobPromise`. The invariant says
  that a caller promised a job has it (`Promised`, from `Keyed`), that a running handler
  can be told (`Tellable`), and where a verdict of cancellation comes from (`Reasons`).
* **AuditOutboxProofs.** `RetryBudget`, `QuarantineJustified`, `LeaseRespected`, and that
  the outbox implements `AtLeastOnce`. The heart is `HoldsClaim`: a worker whose token is
  the row's holds the row as it was when claimed; with `LeaseCounts` (tokens never
  repeat) a fenced finalization cannot hit a later claim.
* **DevDirectoryProofs.** `MemoWrongOnlyBriefly`, `VisibleWhileBeating`, `WithdrawnForGood`,
  for all lease times with `LeaseAssumption` and any number of modules. `LookFresh` and
  `MemoFresh` bound the age of an answer by the time since the row changed; `LeaseInv`
  bounds the age of a stamp by beats missed and publications under way.
* **MigrationsProofs.** `AnswerIsTruthful`, `WatermarkIsReal`, `ReadyMeansMigrated`,
  `AppliedIsRecorded`, for any number of versions. `DeployedInv` says at every point
  inside a call which versions are in effect: what was (`before`), minus or plus exactly
  what the window has done (`Split`, `Changes`).

* **DependencyReadsProofs.** The six invariants of `data`, for any callers, apps, cache
  sizes and token lifetimes. The module extends the pools' machine, so the first step
  (`NextMoves`) is that a read moves the pools only as a transaction does. `PoolsInv` then
  has three layers. *Holding* ties each point of an access to what the caller has
  (`Located`), the pool it has pinned to its own credential (`Rightful`), a borrowed
  connection to that pool (`Borrowing`) and to nobody else (`Exclusive`), and everything
  open to its owner (`PoolsOwned`). *Scoping* adds the sessions: idle connections are in
  no transaction (`Clean`), and the reset of `PrepareConn` lasts until the scope is
  applied (`Scoped`); without `Clean`, a transaction-local search path could outlive its
  owner and shadow the next caller's. *Refusing* adds whose token a pool dials with
  (`Current`). `ReadsInv` stands on them: a read under way has passed one of the two
  authorizations (`Asking`), and its rows are an answer to its own builder (`Answered`).
  What the builder makes of any list of calls, a fold, is proved by the least list
  position that refutes it (`Least`, from the well-foundedness of finite sets): the
  predicates are all of those asked for, the limit the one asked for last.
  `PoolsImplementPinnedCache` links the pools to `RefCache`.
* **ModuleCallsProofs.** The four invariants of `authority`, for any headers, envelopes,
  routes, secrets and word widths. `CallsInv` follows a request along its chain. `Carries`
  says how what is left of headers and context derives from what arrived (`CarriesHeaders`,
  `CarriesIdentity`, `CarriesDelegation`); `Admitting` and `Clearing` say that either the
  check has been made and the delegation stripped, or a middleware that will do so is still
  ahead; `SecretKnown` that the secret a middleware has read was current since the request
  arrived. A route's own middleware, nested in its scope, is what makes the last two
  necessary: nested, an `InternalAuth` or a `RequireProxy` sees what the outer one left.
  `Sending` adds the call: what is posted names the delegation toward platform paths only,
  and a call that may still go to the producer directly has not been executed.

Assumptions on constants, beyond bounds that are natural numbers and sets that are finite:
`PoolsAssumption` (an invocation has the credentials its plane can give it);
`NamesAssumption` (the model's markers, as "private", name no app, caller or provider);
`ReadsAssumption` (a query is a list of builder calls, the code's default limit is within
its maximum); `RequestsAssumption` (a request has one value per header, a parsed
invocation has an identity, and routes nest the exported middleware only: the surface
marker is unexported); `LeaseAssumption` (the code's own constants). The invariants do not
depend on how many callers, keys, apps or requests there are.

Some results are proved and in no run, since a run's property or refinement
says more or the proof is what matters: `NoUseAfterEvict`, `RefCountExact`, `SizeBounded`,
`OneFactoryPerKey` (parts of why `Lifetimes` is implemented), `OneRequestAtATime`,
`NoCredentialAfterExit`, `RetryBudget`, `CallbackOnlyByClaimant`, `AppliedIsRecorded`,
`CancelledForAReason`, `Exclusive` and `Clean` (parts of `PoolsInv`), and that `Pools`
implements `PinnedCache`.

Only model-checked: the liveness properties (`GetReturns`, `EventuallyExits`,
`GettersReturn`, `EventuallySettled`, `FoundWhileServing`, `Converges`, `JobsSettle`),
since fairness and ENABLED are out of the prover's reach. The two properties that are
expected to fail are refuted by TLC.

## 6. Plan

In this order, the most valuable first.

1. **Compositions.** `TaskClaim`, `Metering` and `OneShotTask` can be extended together: one
   module in which an attempt's claim, its usage and its outcome agree, and above it
   `TaskJobs`, shown to implement `JobPromise` through them. `Migrations` and `AuditOutbox`
   share the outbox table's provisioning.
2. **Cache client.** A module of `cache.ClientCache` over `PinnedCache`, with the token its
   clients keep.
3. **Contributions.** The lazily created table under concurrent first writers.
4. **Seeding and module assembly.** `SeedHandler`'s copy into empty tables;
   `Start`/`Close` order of the parts above.

Runs stay at one per question: a new module joins the run of the component it extends,
as `usage` and `data` show.
