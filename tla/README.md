# Verification of resourcey

resourcey is a resource-oriented web framework: a *resource* declares how rows are stored,
validated and exposed, and the framework derives services, REST routes, batch edits, triggers,
realtime events, caching, authorization, background tasks and durable jobs from it. This directory
holds TLA+ models of the parts of it that several actors touch at once, the TLC configurations that
check them, and proofs about them that TLAPS checks. `PROJECT.json` lists every definition with the
lines it models, every run, every hazard with the property that covers it, and every finding.

## 1. The system

Paths are relative to `src/src/resourcey/`. The state of the framework itself is small; what makes
it hard is the order in which several requests, tasks and processes reach the same rows.

| component | state it keeps | operations | correct when |
|---|---|---|---|
| `jobs/` durable job runner | the `jobs` table; per runner the loop, its bodies and their job ids | sweep (recover stale, promote scheduled, claim and start), run a body, finish, release at exit; clients create, patch and delete rows | a job has one holder at a time, a terminal job stays, nothing is lost between a SELECT and its UPDATE, no job stays RUNNING for ever |
| `auth/auth_oauth_*` OAuth tokens | the `oauth_tokens` table, the provider's refresh tokens | login callback, refresh under a lease, revoke | one refresher per pair, the stored refresh token is the provider's current one, a revoked row stays away |
| `sql/` services | one session per request and engine, shared through the request's context | create, read, update, delete, search, count, batch read, apply edits; enter and exit | the opener of a session is the last to leave it; a condition is evaluated by the write itself |
| `mongo/` services | a collection; no transaction | the same actions | the same answers; edits of a batch apply one by one |
| `list/` services | a list in memory, read-only | read, search, count, batch read | filters, sort and pages agree with the database backends |
| `http/` routes, batch edit | the request's stack of services | one route per action; `POST /batch-edit` | a batch is one unit on each engine, its results line up with its edits |
| `triggers/` | tasks in flight per runner | fire after a write, deliver (webhook with retries, Redis, channel), close | every write that took effect is told, and none that did not |
| `realtime/` | one bounded queue per subscriber; one filter per subscription | publish, subscribe, deliver, authenticate, heartbeat | publishing never blocks; a subscriber sees what its filter admits, in order |
| `cache/` | entries with the moment they were read | read through, refill, evict after a write | what is served is as fresh as its strategy says |
| `filestore/` local, SQL, S3 | two files (data, metadata) per key | put, get, head, delete, list, signed URLs | a reader sees one put's bytes with its metadata; a listing reaches every object |
| `auth/` policies and RBAC | users, groups, roles; a policy per resource | fold the policy's filter into every action | a row outside the policy's filter is neither read nor written, in batches too |
| `auth/` credentials | API keys, session cookies, bearer tokens | authenticate a request | expired and revoked credentials are refused |
| `tasks/` scheduler | the loop and the runs in flight | tick every minute that a schedule matches, run once, cancel at exit | a schedule fires once in each of its minutes |
| `core/` manifest, DTOs | resources and managers entered so far | enter in order, exit in reverse | whatever was entered is exited, once |
| `util/` singletons, filters | one instance per class | construct once, among threads | one instance, initialized once, and no deadlock |
| `view/` | none | narrow the fields and actions of another resource | nothing outside the view is reached |
| `config/`, `encryption/` | settings, keys | load, encrypt, decrypt | a token opens as long as its key is configured |

**How they interact.** A request enters a service (`SqlService.__aenter__`), which opens a session
or adopts the one another service of the same request put in the context; authorized, triggered and
cached services wrap it and forward each call; the session is committed or rolled back when its
owner exits. Triggers are called between the statement and that commit and publish to channels,
whose subscribers are websocket connections. Job runners and token refreshers use the same services
from their own tasks, in as many processes as the deployment has: the database's row locks and the
WHERE of a conditional UPDATE are their only synchronization.

**What is hard.** Rows read before an await and written after it; transactions that decide row by
row and commit once; processes that die between a commit and what follows it; runners that overlap
themselves (a body outlives its claim); leases; callbacks before commits; two-step file writes;
caches filled across a write; clocks that jump over a minute; partial exits.

## 2. Modules

| module | what it is |
|---|---|
| `JobRows` | the rows of the `jobs` table and the conditions and payloads of every write of it |
| `JobRunner` | the runners of several processes, their sweeps, bodies, shutdowns and crashes, and the clients |
| `JobLifecycle` | what a user of jobs may rely on: the states of a job and who moves it between them |
| `MCJobRunner` | instances of `JobRunner` for TLC: symmetry, a start state with jobs created |
| `JobRunnerProofs` | the theorems about `JobRunner` |
| `OAuthTokens` | the stored credential of one (principal, client), the requests on it and the provider |
| `OAuthTokensProofs` | the theorems about `OAuthTokens` |
| `UnitOfWork` | the requests: their batches, exit stacks, shared sessions and row locks, and their triggers |
| `AtomicBatches` | what a caller of `POST /batch-edit`, or of one write, may rely on |
| `MCUnitOfWork` | the engines, resources and batches of the instances TLC explores |
| `UnitOfWorkProofs` | the theorems about `UnitOfWork` |
| `ValueFilters` | one leaf of a filter, in memory, in SQL and in Mongo, and the complement each backend has for it |
| `Filters` | filter trees, their normalising constructors, and the two converters |
| `Exposure` | what a DTO's flags and a view on a view let in and out |
| `Queries` | a client that walks the pages of a resource, kept by any of three backends, while others write |
| `QueriesProofs` | the theorems about `ValueFilters`, `Filters` and `Queries` |
| `Access` | requests with credentials to an authorized resource, while credentials and grants change |
| `AccessPolicies` | the policies: the filter each scopes an action to, and what it says of one row |
| `AccessProofs` | the theorems about `Access` |
| `CachedReads` | the cache in front of a resource, its clients, a shared proxy and another process |
| `CachedReadsProofs` | the theorems about `CachedReads` |
| `FileStore` | uploads, deletes, reads and listings of workers that share a storage medium |
| `FileStoreProofs` | the theorems about `FileStore` |
| `Cron`, `Scheduler` | schedules, and the loop that fires them by the clock on the wall |
| `Realtime` | trigger runs, the channels they publish to, and the websocket hub |
| `SessionManager` | the SQL engines of an application |
| `Background` | the manifest that enters and exits these parts, and the application that uses them |
| `BackgroundProofs` | the theorems about `Background`, with the hub of `Realtime` |
| `MCQueries`, `MCAccess`, `MCCachedReads`, `MCFileStore`, `MCBackground` | the instances TLC explores |

`Background` composes `Scheduler` (with `Cron`), `Realtime` and `SessionManager`; `Queries` composes
`Filters` (with `ValueFilters`) and `Exposure`. Filter trees and policies are recursive, and the prover takes
no recursive operator. `AccessPolicies` has them and is for TLC only: `Access` takes policies and filters as constant
operators, which `MCAccess` gives the definitions of `AccessPolicies` and `Filters`. In `Filters` each recursion is
a constant operator (`Matches`, `SqlCondition`, ...) with a definition of what it is at one node (`MatchesNode`,
`SqlNode`, ...), in which the constant stands for the recursive call: a configuration ties the knot
(`Matches <- MCMatches`, which is `MatchesNode`), and a proof uses the equations (`NodeEquations`).

### JobRows and JobRunner

`row` is the committed table. One sweep (`sweep`, jobs_runner.py:188-300) is three transactions,
and each of their statements is a step: `StartSweep` and the enumeration it returns (`todo`),
`RecoverNext`, `EndRecover`, `PromoteNext`, `EndPromote`, `ClaimSearch`, `ClaimRow`, `EndClaim`,
then `StartClaimed`. The transaction's uncommitted UPDATEs are `writes`, which also are its row
locks: `Blocked` makes an UPDATE wait for the lock, and its condition is then evaluated on the
latest committed row (READ COMMITTED), while `todo` still holds the row the SELECT returned. A value
the code takes from the SELECT (the attempts of a claim, the verdict of staleness, `run_at`) is
taken from `todo`; a condition of the UPDATE is evaluated on the row. A cycle of waits is broken by
the database (`DeadlockAbort`). Enumerations are one SELECT here; the code pages them, and a row
that changes between two pages behaves like one that changes before the SELECT.

A body is a `task` slot: `Load` reads the row, `Finish` writes the outcome if the claim is still the
runner's (`ClaimedBy`), and whatever the body itself does is abstracted to "it may end at any time
or never". `Leave`, `Release`, `ReleaseFails` and `Left` are `__aexit__`; `Crash` is a process that
dies. `SweepFails` and `TaskFails` are a database call that raises, in every phase, including the
commit whose reply is lost. Clients create, patch (the fields and statuses `jobs_view` admits) and
delete rows whenever no sweep holds their lock. An application may call `enqueue` with any status, which the model's
clients do not: they create what `POST /jobs` admits, the default of `enqueue` among it.

`JobLifecycle` has the status and the holder of each job and eight actions; `ImplementsLifecycle`
maps the committed table to it. A commit of a sweep changes several jobs at once, so an abstract
step moves any set of jobs, each by one allowed move.

### OAuthTokens

`row` is the committed token row of one pair, with the number of its refresh token in place of the
ciphertext; `valid` is what the provider accepts. A refresh is `ReadStale` (get, and the test of the
expiry), `Claim` (the conditional UPDATE of the lease), `Exchange` at the provider, `Store` and the
commit, or `Poll` when the claim missed. A request's transaction lasts until it ends, so the lease
row is its lock (`lease`); nothing of it is committed before `Store`. A login is `ExchangeCode`,
`Lookup`, and one of `UpdateById`, `Insert` and `InsertRaced` followed by `Overwrite`. `EndRequest`
is the exit of the session; `Refused` is the except branch with the rollback its raise causes.
The provider, the clock and dying clients are external.

### UnitOfWork

A request is one run of `_apply_batch` (http/batch_routes.py:290-319); a single write is a batch of
one edit. Each resource has one row. `batch`, `at`, `first` and `pc` are the handler's edits, index,
start of the current run and place in the loop; `stack` is its `AsyncExitStack`, `open` the engines
whose session is in the request's context, and `writes` what each session has not committed, which
also are its row locks. `Seen` is what a statement reads: the request's own writes, else the
committed row.

`Enter` is `SqlService.__aenter__`: the first service of an engine opens the session and owns it, a
later one adopts it; a service of an engine without transactions (Mongo) has no session. An edit
waits for the transaction that wrote its row (`Blocked`), then `EditHits`, `EditMisses` (a row count
of zero, which is a result, not an error) or `EditRaises` (a create of a row that exists). `Fire` is
`TriggeredService._fire` after the run: it hands over the run's edits and goes on at once, or after
`Await` where the triggers are inline. `Deliver` publishes the events the Redis trigger builds of
them, `DeliverFails` is a trigger that raises or is cancelled at close. `Raise` is an exception from
anywhere in the handler, or the client's disconnection.

The exit stack then leaves the services last in, first out: `LeaveUnowned`, `Commit`, `Rollback`,
and `CommitRaises`, whose commit may or may not have reached the database, after which the services
below leave with the exception and the session is neither closed nor taken out of the context
(sql_service.py:96-104). `Answer` ends the request. Whether the response is sent before or after
these exits is the web framework's choice and no property depends on it.

`AtomicBatches` has no sessions, no locks and no stack: edits run in order (`RunEdit`), and on an
engine with transactions those that hit `TakeEffect` in one step, only after the last of the batch
has run and only if every row still is as its edit found it. `ImplementsAtomicBatches` maps the
committed rows to it, so it excludes lost updates and partial batches at once. Not in the model: a
PATCH without fields, which writes nothing, and the constraint checks that are deferred to a commit
(they are `CommitRaises`).

### ValueFilters, Filters, Exposure and Queries

`MatchesNode` is the in-memory predicate of every node (util/search_filter.py), with a third outcome
where Python raises; `SqlNode` and `MongoNode` are the two rule lists, which push a negation
down to the leaves and write a separate condition for the complement of each (`SqlNegated`). `PagesAgree` compares the
three backends where the predicate has an answer for every row, and the two databases with each other always. SQL
conditions have three truth values, Mongo compares values of one type only. `and_`, `or_`, `not_`,
`attr` and `build_filter` normalise a tree before any converter sees it.

`Queries` has the rows, the backend, the views on the resource and a client's walk. `Search`,
`ServePage`, `ChangeOrder` and `SearchFails` are the search route: the filter a policy and the
clauses make (`Combined`), the order (`Sequence`, in which each row has the place that the rows before it give it), the cursor predicate of the backend (`ListAfter`,
`keyset_predicate`, `_keyset_query`), the page of limit and whether there is more. `Iterate` is the
fallback for a filter with no rule: the rows are read once to filter them in Python and a second
time for the page, and writes come in between. `CreateRow`, `PatchRow` and `DeleteRow` go through
the views: what the declared models take is `Assigned`. `AddView` is the constructor of a view,
which refuses unknown fields and a filter parameter given back (`ViewAccepted`). The walk remembers
which rows it has been served and which were never written (`stable`) or never matched (`never`).

### Access

What a policy scopes an action to (`PolicyFilter`), the constructors of filters and what a filter says of a
row, in memory and in a statement, are constants of the module, and `FiltersAssumption` is what the rest of it
needs of them: a filter that policies reduce to says what one of the policies says, a joined one that
both parts say yes, and a create is allowed unless the filter is the one of no row. TLC evaluates it on
the definitions of `AccessPolicies` and `Filters`, for every policy, action and condition of the run.

One request is `Begin` (the cookie and the shape of the key), `LookupKey`, `CheckActive` (the owner
is enabled), then either `ResolveRoles`, from the roles that the credential carries (a key's row, or
the claims of a cookie: `_principal_from` gives its subject with the roles it was minted with, which
nothing asks for again), or the stored
grants through the cache: `ResolveCached`, or `FetchGroups`, `FetchPolicies` and `StoreResolved`, each
an await apart. `Create` to `ApplyEdits` are `AuthorizedService`: the policies' filters for the
action are joined (`_permission_filter`), joined with what the caller asks, and put into the
statement of a write or matched against what was read; a batch is filtered, forwarded and its
answers are put back in place (`Realigned`). Meanwhile `ChangeMembership`, `ChangeGrants`,
`Invalidate`, `RevokeKey`, `DisableUser` and `Tick`. `past` has what each user held before a change,
for the properties. The joins GroupUser, GroupRole, RolePermission are one function from groups to
permissions.

### CachedReads

`Ask`, `Serve`, `Fetch` and `Refill` are `_read_through` with the await between the fetch and the
store's set; `Write`, `Evict`, `Commit` and `Rollback` are a write through the cache, whose statement
runs, evicts, and commits only when the service exits. `Header` is what each strategy attaches,
`Respond` the route with its conditional answer, `FromProxy` a shared cache that obeys
Cache-Control, `OtherProcess` a write that evicts nothing here. A commit is one step with the end of
the session, and a fetch by the writer itself reads its own rows.

### FileStore

One medium of three. On the local one each system call is a step: `MakeTemp`, `WriteTemp`,
`ReplaceData`, `ReplaceMeta`, `StatUploaded` for a put; `HeadIsFile`, `HeadBytes`, `HeadMeta`,
`HeadStat` for a head; `DeleteIsFile`, `Unlink`, `DeleteHasMeta`, `UnlinkMeta`; `ListNames` and a stat per
name. `PutFails` is the except branch that removes the temporary file, `Crash` a worker that dies
anywhere. SQL and S3 do each of these at once (`PutBlob`, `PutObject`, `HeadAtOnce`, `DeleteAtOnce`,
`ListAtOnce`). `Upload` is `FileService.create`, `Search` and `Page` its listing with one object more
than the page to see whether there is another. `Download` mints a capability, `SignedGet` verifies one,
and `Redeploy` changes which encryption keys are current and accepted. Files are their upload's
name and what part of it is there.

### Background: Cron, Scheduler, Realtime, SessionManager

`Background` is the manifest: `Enter` and `FailEnter` in the order of managers, then resources,
`Exit` in reverse, and what each part does when it is entered and exited; `mode` is the server or the
`tasks` command, which enters the managers without the scheduler and runs its targets. A failed
enter leaves the earlier parts open (`broken`). `ManifestAssumption` has each kind of manager once,
but for the other ones that can fail: there is one scheduler, one channel and one manager of engines,
and the resources come after them.

`Cron` has a calendar with constants for its sizes, the parser as far as it accepts and rejects, and
`next_fire`: the candidates of its iterations, of which the first is the minute after and each next one is rolled
forward by a month, a day, an hour or a minute, or stays where it matches; it raises if the last of
`MaxIterations` does not match. `Scheduler` has the loop: it reads the wall clock, sleeps for a difference of two
readings, wakes at most `Latency` late (`Wake`), starts what matches the minute it woke in, and plans
again. `ClockChange` moves the wall.

`Realtime` has the runs of triggers in flight: `Publish` hands one event to the channel, whose
subscribers' queues drop their oldest (`_offer`), `Post` sends a delivery to the webhook and may be
answered, refused or unanswered, with retries. `Connect`, `AskSubscribe`, `Unsubscribe` and `Take` are the
hub's connection. `AskSubscribe` is a message that asks the resolver for the policies' filter. The resolver is
one of three kinds (`Resolver`): one that allows all, the default of a resource without a resolver; one by
roles, which has defaults that an anonymous client gets too (`PolicyFilter`); and the stored one, which gives an
anonymous client nothing. The first two answer at once, and so does the third when it has the answer in its cache,
which may be older than the connection. Else it awaits the store twice, for the groups (`FetchGroups`) and for the
policies (`FetchPolicies`), binds what the second gave to what the first gave, caches it (`Answers`), and `Subscribe`
puts it, joined with the client's own filter, in place of the subscription to that path. There it stays: nothing looks
at the grants again. `ChangeGrants` is somebody who changes them, at any point of this; `RequestResolves` and
`RequestResolved` are other requests of the principal, whose lookups fill the same cache; `Drop` is an entry that
expires or is invalidated. `recent` is a history variable: the grants since the client connected, and those of
before that an answer still cached or under way then was made of. `MayRead` is what they admit, and a client is told of
nothing else. `aclose` cancels the runs of a runner when the
resource that owns it, or the dependency builder, exits. `SessionManager` makes engines when asked
and disposes of them at exit, one of which may raise.

## 3. Runs

| run | checks | instance |
|---|---|---|
| `jobs_safety` | `TypeOK`, `NoLostUpdate`, `RunningHasClaim`, `ClaimHasBody`, `TerminalSticky`, `ImplementsLifecycle` | 2 runners with 2 slots, 1 job, 1 client edit, 2 faults |
| `jobs_liveness` | `NoJobStuckRunning`, `SweepEnds` | 2 runners with 2 slots, 2 jobs that already exist, 1 fault |
| `oauth_refresh` | `TypeOK`, `OneRefresher`, `CredentialAlive`, `NoResurrection`, `RequestEnds` | 3 requests, 3 provider tokens, clock 0..2, 1 fault |
| `oauth_revoked` | violates `RevokedOnFailure` | the same |
| `unit_of_work` | `TypeOK`, `NoPartialBatch`, `SessionOutlivesServices`, `FiredOnce`, `ImplementsAtomicBatches`, `RequestEnds` | 2 requests, 4 batches of 3 edits, 2 engines with transactions and 1 without, 1 fault |
| `queries` | `TypeOK`, `PagesAgree`, `WalkComplete`, `NarrowedForever` | 3 backends, 3 tables of up to 3 rows with NULLs, 7 policies, 3 lists of clauses, 4 orders, pages of 1 and 2 (a limit of 3 is refused), 3 choices of view stacked up to 2 deep, 1 write |
| `queries_mongo_id` | violates `WalkComplete` | the same, and Mongo sorted by descending id |
| `access` | `TypeOK`, `ChangeHonouredUnlessOverlapped`, `CredentialsCount`, `OnlyPermitted` | 2 requests of 13 kinds, 5 of them at once, 2 users, 2 groups, 2 keys, both resolvers, 1 change, 1 invalidation |
| `caching` | `TypeOK`, `StalenessBounded`, `EvictionSuffices`, `ConfirmedRowsCurrent`, `NarrowedStaysPrivate` | 2 callers, 2 rows, every strategy, 3 reads, 1 write here and 1 elsewhere |
| `files` | `TypeOK`, `WholeFiles`, `NoOrphans`, `PagesComplete` | 2 workers, 2 keys, 2 temporary names, 3 requests, 1 fault, each medium |
| `background` | `TypeOK`, `OnSchedule`, `StreamFaithful`, `NothingOutlivesItsOwner` | 16 applications, up to 28 ticks of half a minute, 1 client under each kind of resolver, 2 edits, a queue of 1, 3 messages, changes of grants and lookups of requests |
| `tasks_dst` | violates `OnSchedule` | a daily task, the clock an hour forward |

What the properties mean is said above each of them in its module.

**Bounds.** Every bound is a constant named so in its module. *Jobs.* Claims, recoveries and
completions of one job only meet at that job's row: one job and two runners already give every pair
of concurrent writers, two slots give two bodies of one job in one runner, and one job with two
attempts gives retry and exhaustion. Two jobs are needed only for deadlocks, which `jobs_liveness`
has. `MaxTime` 1 with a stale bound of 0 makes a claim fresh and stale in the same run. Two faults
let each kind of failure happen at any point, alone or after another one (a release that fails needs
a shutdown first); the safety theorems cover any number. `ClaimLimit` stops a job that is
requeued for ever from being claimed more than twice. *OAuth.* Two requests race for the lease and
a third logs in or revokes between them; three tokens are a login, its rotation and another; the
clock makes a token stale, fresh and stale again. A poll loop of two attempts has a first and a last. *Unit of work.* Two requests are what a lock
conflict, a lost update and a cycle of waits need. The four batches have runs of one and of two
edits, a service that adopts a session, a row replaced within its batch, two rows of one engine in
both orders (the cycle), two engines with transactions, and an engine without before and after one
with. The rows of the contended engine are there or not. One resource has background triggers, one
inline, the others none. One fault falls at any point; the theorems cover any number, and any batch.

*Queries.* A leaf compares a row's
value below, at or above its own, or NULL; two values and NULL have all of that, and three rows a
tie, a NULL and a row on either side of a cursor. The policies have each leaf, each junction and a
filter without a rule under a complement. One write falls between any two pages, or between the two
queries of the fallback. *Access.* A race over the cache needs one resolver, one change and one that
resolves afterwards; the requests have every operation, and each credential alone, with another, broken
and missing. `Plans` lets a search compete for the cache with four kinds of request and leaves the
others alone: what a request asks is not looked at before its policies are resolved. *Caching.* One fetch, one write and one read after both are what a stale entry takes;
another read has a copy confirmed. *Files.* Two workers race on a path; a third request reads what
is left. Time 0..1 makes a capability expire. *Background.* The calendar is small (hours of two minutes, days of two
hours, weeks of two days, a month of one day and one of two) so that `next_fire` rolls over every
unit and a year within the horizon; the schedules have lists, steps, ranges, both day fields, and a
day that does not exist. `Latency` is below a minute: an event loop that is later than that misses
the minute, and the code does not say what then. A queue of one drops at the second event. `MaxMessages` bounds the messages of a client together with the changes
of its grants and the lookups of its requests: a change, a lookup that is cached, and a subscription it answers are
three. The stored policies are one, open to members, so in the run an answer is decided by the groups it was bound to;
that it may join the groups of before a change with the policies of after it is in the theorem's reach. The run has one
client: that a publication touches nobody else's queue, and a subscription nobody else's, rests on the
theorem `StreamsAreFaithful`, of any number of them. Each
application is bounded by its own `horizon` and `starts`.

**Deadlock checking** is off in every run: bounds stop the clock, the clients and the provider, and
a runner, a worker or an application that has left may stay out.

**Fairness.** `JobRunner!Fairness`: the event loop of a live process keeps scheduling its sweep and
the first step of its bodies (weak); the database grants a lock to an UPDATE that keeps waiting for
it (strong, for the steps that wait); time passes. Nothing makes a body return, a client act, a
process restart or a fault happen. With as many runners as faults plus one, some runner keeps
sweeping; that is the assumption under which stale claims are recovered. `OAuthTokens!Fairness`: a
request is served while it lives, and is granted the row it waits for (strong); a request that
starts is never required to, and the provider may refuse at any time but does answer (the HTTP
client has a timeout, whose expiry is an error like another). `UnitOfWork!Fairness`: the event loop
serves a request that has started, and the database grants it the row it keeps waiting for (strong);
a trigger that is being delivered ends, because its clients have timeouts (weak). `RequestEnds`
holds of batches that reach the engines in one order: a cycle of waits across two databases is seen
by neither, and nothing in the code orders the engines or bounds a statement's wait.

The other modules state no liveness: a request there ends by its own steps, and what they wait for is
a lock, a database or a client.

## 4. Findings

Shown by a run:

* `oauth_revoked`: the revocation after a failed refresh is rolled back by the error it precedes.
* `queries_mongo_id`: a Mongo walk sorted by descending id never gets past a row. The sort repeats the
  id and the cursor's document has one entry for it, the ascending one, so the second page goes back.
* `tasks_dst`: the loop subtracts two readings of one zone's clock, which is the difference on the
  wall; on the day that the clocks change a sleep is an hour too long or too short, and a task misses
  its minute.

Met while modelling, refuted by TLC with a property of its own, and stated in the hazards of
`PROJECT.json` with the property that does hold:

* *Late completion* (jobs_runner.py:424 against specs/jobs.qnt:18-21). The claim condition knows the
  runner, not the claim. A runner that recovers its own stale claim and claims the job again accepts
  the old body's late completion for the new claim.
* *Early promotion* (jobs_runner.py:257 against jobs.qnt:28-29). `run_at` is compared on the row that
  was enumerated; a client that moves it later before the UPDATE has its job promoted early.
* *Uncounted claim* (jobs_runner.py:293 against jobs.qnt:22-24). The claim writes `attempts` from the
  row its search read; a claim and a return by another runner in between are not counted.
* *Double spend* (auth_oauth_token.py:263 against oauth.qnt:222-223). The refresh token is read
  before the lease is won; whoever waits for the winner wins after it and spends the token it rotated.
* *Early events* (triggered_service.py:145 against realtime_channel.py:54-56). A channel is documented
  to publish "only after the write it reports on has committed", and triggers fire before the
  transaction of their write has ended; a batch that fails later has told of writes that never happen.
* *Late invalidation* (auth_rbac_resolver.py:76 against lines 95-96). A resolver between its queries
  and its store puts the grants of before an `invalidate` back into the cache for a whole `cache_ttl`;
  `ChangeHonouredUnlessOverlapped` states this as its exception.
* *Not modified* (cache_header.py:47-48). `is_modified` is said to be False only for an equivalent copy. A
  Last-Modified cut to seconds confirms a copy from the same second, and an ETag of the items
  confirms a page whose "more" has changed; `ConfirmedRowsCurrent` is what holds.

Smaller ones, seen in the code and modelled as it is: a listing of local files ends early when a
listed name is deleted meanwhile (file_resource.py:361; the exception in `PagesComplete`); a delete
of a file that is not acknowledged yet leaves its metadata (the exception in `NoOrphans`); the data of
a replaced local file is there before its metadata (local_file_store.py:66-67 says readers never see
the two disagree); an "in" that lists NULL has a complement that selects no row
(filter_converter.py:172-188); a schedule that is never due ends the loop for every task and makes
the scheduler's exit raise, which stops the manifest's exit (scheduler.py:113-115, cron.py:131; the
exception in `OnSchedule`); a weekday range that ends in 7 is refused though 7 is Sunday
(cron.py:205-208); the scheduler is a manager and exits after the resources, so a task may start a trigger
run that nobody cancels (trigger_runner.py:12-13; the exception in `NothingOutlivesItsOwner`); a manifest
that failed to enter cannot be entered again (manifest.py:104); an in-memory channel stays closed when its
manifest is entered again, and ends every subscriber at once (realtime_channel.py:95); the policies
inside a GroupMember policy are not bound to the caller's groups (auth_policy.py).

## 5. Proofs

`JobRunnerProofs` proves, for every set of jobs and runners, number of slots, clock and bound:

| theorem | property |
|---|---|
| `TypeInvariant` | `TypeOK` |
| `NothingLost` | `NoLostUpdate` |
| `RunningIsRecoverable` | `RunningHasClaim` |
| `TerminalStays` | `TerminalSticky` |
| `RunnerImplementsLifecycle` | `ImplementsLifecycle` |
| `ClaimsHaveBodies` | `ClaimHasBody` |

*Assumptions*: `RowAssumption` and `RunnerAssumption`, the types of the constants, NULL and "no row"
being different from every value. *Argument*: `NoLostUpdate` says of every uncommitted write that
the committed row under it still is as its UPDATE found it and that nobody else has written it; it
is what the row locks give. It is inductive only together with `TypeOK`, with `RunningHasClaim` (a
recovered claim names a runner) and with `RowsIssued` (every row has been created, so a deleted id
is never reused): `IInv` is their conjunction. A commit then turns each written row into the result
of its own status's move, which is a step of the lifecycle; every other action changes at most one
row under a condition it evaluates in the same step. `ClaimHasBody` needs `BodyInv`: besides `IInv`,
that the claims a sweep is about to commit are exactly those it has listed.

`UnitOfWorkProofs` proves, for every set of requests, resources and engines, whatever engine has
transactions, for every set of batches of any length, any triggers and any number of faults:

| theorem | property |
|---|---|
| `TypeInvariant` | `TypeOK` |
| `SessionsOutliveServices` | `SessionOutlivesServices` |
| `BatchIsWhole` | `NoPartialBatch` |
| `UnitOfWorkIsAtomic` | `ImplementsAtomicBatches` |
| `EditsFiredOnce` | `FiredOnce` |

*Assumption*: `UnitAssumption`, the types of the constants, and "not written" being no row.
*Argument*. `TypeInv` is the types and, of each request,
`Control`: how `pc` bounds `at`, `first`, `hits` and `fired` (a run lies within what has been
applied; who leaves without a failure has run everything). `SessionInv` adds that each open session
has exactly one owner, below every other service of its engine, and that as long as a batch has not
failed each engine it has reached is open or committed; last in, first out then gives the first two
properties. `WriteInv` adds that two requests never have uncommitted writes of one row (`Locked`),
and that what a session holds is exactly what the hits of its batch leave on the row that is still
committed (`Pending`): committing it is then one `TakeEffect`, and every other step is an edit of
the abstract batch or no step at all. `SessionInv` rests on `TypeInv` and `WriteInv`
on `SessionInv`; `FireInv` rests on `TypeInv` alone and says that fired runs are in order and disjoint,
each of one resource (`Ordered`, `CurrentRun`), and reach up to what has been applied (`Covered`).

`QueriesProofs` proves, for every set of fields, values, tables, policies, clauses, sort orders and filters, every
limit, number of views and number of writes:

| theorem | property |
|---|---|
| `SqlLeafFaithful`, `MongoLeafFaithful` | a leaf's condition, and the one of its complement, say what the leaf in memory says |
| `FiltersAgree` | the same of a filter tree of any shape and height that has a rule for each node |
| `QueriesTypes` | `TypeOK` |
| `PagesAlwaysAgree` | `PagesAgree` |
| `ViewsNarrow` | `NarrowedForever` |
| `WalksComplete` | `WalkComplete`, as long as no Mongo walk is sorted by descending identifier |
| `EveryOtherWalkCompletes` | `WalkComplete` of every walk but such a one |

*Assumptions*: `NullAssumption`, `FieldsAssumption`, `RowsAssumption`, `SearchAssumption` are types, NULL being no
integer and "no sort" no field. `FiltersAssumption`: the filters there are have their parts among them, at a smaller
height, with what the constructors build of a policy and clauses; the recursions satisfy their equations;
an "in" lists no NULL, since with one SQL's complement selects no row (section 4), and an order compares with none,
since memory refuses it and SQLAlchemy does not build it (`WellFormed`). TLC
evaluates them on the filters of the run. *Argument*, from the leaf to the walk:

* A leaf is by cases: `NullOrNot` is what "IS NULL OR NOT condition" comes to in SQL's three values, and the
  complement of an order is the opposite order, which needs two integers. A tree is by induction on `Height`:
  among the filters of least height on which the backends differ, the parts agree.
* `CombinedKeeps`: what `and_` flattens and drops changes no answer, so a backend that is given the
  normalised filter selects what the caller asked for, where the predicate does not raise. Where it does, at an order
  against a NULL, the two databases still select the same rows: `LeafConcurs` says it of a leaf, `Agrees` of a tree.
* The three orders are `Before` (`ListOrder`, `SqlOrder`, `MongoOrder`), and the three cursor predicates
  select the rows after the cursor's (`PastCursor`), with NULL first up and last down. So every
  page is the same prefix of the rows, by rank (`OrderedIs`, `PageIs`): `PagesAlwaysAgree`.
* `IInv` has the types of the table, the view and the walk. `WalkComplete` is not inductive: `WalkMeets` adds
  where the served rows are. Of the rows that match and are not written, those up to the cursor have been
  served once and the others not yet; a filter in Python that was read before a write (`Iterate`) still holds
  of these rows. A write takes its row out of the two sets (`WriteKeeps`).
* The hypothesis of `WalksComplete` is needed: `queries_mongo_id` is its counterexample.

`OAuthTokensProofs` proves, for every number of requests, tokens, instants and poll attempts:

| theorem | property |
|---|---|
| `TypesCorrect` | `TypeOK` |
| `OneRefresherAtATime` | `OneRefresher` |
| `RevokedStaysRevoked` | `NoResurrection` |
| `RotationLosesNothing` | `CredentialAlive` |

*Assumption*: `TokenAssumption`, the types of the constants. *Argument*: the uncommitted lease is the
row's lock (`LeaseLocks`) and is held exactly from the claim to the store (`LeasedWhileExchanging`);
`LeaseInv` adds that a login which has its grant has its token, and gives the first three.
`CredentialAlive` alone is not inductive: that the stored token is accepted says nothing of the
step that spends it. `TokenInv` follows the token: a number is issued once (`TokensIssued`), the token
in a request's hand is accepted and is nowhere else (`TokensHeldOnce`), and the stored one is
spent only while the request that spent it is about to store its successor. Both hold as long as no
answer was lost, which is what the property asks for.

`CachedReadsProofs` proves, for every set of callers and rows, every strategy, window, fetch time, page
size, write and number of reads:

| theorem | property |
|---|---|
| `TypesCorrect` | `TypeOK` |
| `StoreNeverStalerThanWindow` | `StalenessBounded` |
| `EvictionKeepsStoreCurrent` | `EvictionSuffices` |
| `ConfirmedCopiesAreCurrent` | `ConfirmedRowsCurrent` |
| `NarrowedResponsesStayPrivate` | `NarrowedStaysPrivate` |

*Assumption*: `CacheAssumption`. *Argument*: what is fetched, or stored, was the answer of some table that was
the committed one since the fetch began (`OnceTrue`), which with `Dated` bounds its age. As long as no
fetch overlaps a write (`Apart`), a payload in hand is the current answer and a writer finds the store
empty between its eviction and its commit: without the second half a fetch that began before the commit
could refill. A copy is confirmed by its ETag; `KeptBodies` says that every kept copy carries the tag of its
own body, has the shape of its key, and is in nobody's hands but its caller's.

`FileStoreProofs` proves, for every number of workers, keys, temporary names, encryption keys, requests and
faults, every page size and each medium:

| theorem | property |
|---|---|
| `TypesCorrect` | `TypeOK` |
| `FilesAreWhole` | `WholeFiles` |
| `NothingIsOrphaned` | `NoOrphans` |
| `WalksAreComplete` | `PagesComplete` |

*Assumption*: `FilesAssumption`. Paths are numbers, which are their order in a listing, and temporary names
come after the keys. *Argument*, in four layers, each resting on those before it. `TypeInv`: every
request is at a stage of its operation with the paths of that stage (`Fits`). `FilesInv`: no two puts share a
temporary file (`TempsHeld`), it holds what its put has written so far (`InTemp`), and what a put has
placed stays until a delete is asked (`Progress`); a rename then puts a whole file at a key, so a reader
that opened it has whole bytes. `OrphanInv`: whatever is stored by halves has a request under way that stores
or removes the rest (`Owned`). That takes `Orderly`, that a delete which goes on to the metadata has removed the
file, and it is why a delete of an upload that was not answered is the exception. `PageInv`: the listing of the
walk's request, while it shrinks by what was deleted, covers every file that must be shown (`Covers`), or has
more than a page before it, and the pages so far showed what lies before the cursor once (`Shown`).

`AccessProofs` proves, for every set of users, groups, roles, keys, rows, policies and requests, every time to
live, every number of changes and invalidations, and batches of any length:

| theorem | property |
|---|---|
| `AccessTypes` | `TypeOK` |
| `ChangesHonoured` | `ChangeHonouredUnlessOverlapped` |
| `OnlyCredentialsCount` | `CredentialsCount` |
| `PermittedOnly` | `OnlyPermitted` |

*Assumptions*: the types of the constants and `FiltersAssumption`. *Argument*. `AccessInv` is `TypeOK` with, for
each request under way, where its credentials stand (`Credited`: one credential it presented has its user and its roles, and counted when it began) and
where its resolution stands (`Resolution`), and the same for each entry of the cache (`GoodEntry`). What a
resolver holds was the user's after the last change that its read did not overlap: `past` remembers what
each user held before each change, so that a read (`Fetched`), an entry (`Stored`) and an entry that is
still served (`Usable`) can be dated. An entry outlives a change only until its time to live, or if the read
it came from had begun before it. `PermittedOnly` is one step: the condition of a statement is the join of the
policies' filter and the caller's, and `FiltersAssumption` turns what it selects into what a policy allows. A
batch is by induction on its edits (`EditApplied`): each is applied to the rows that those before it left.

`BackgroundProofs` proves, for every set of applications, clients, events, tasks, queue size and
number of retries:

| theorem | property |
|---|---|
| `TypesCorrect` | `TypeOK` |
| `StreamsAreFaithful` | `StreamFaithful` |
| `NothingOutlives` | `NothingOutlivesItsOwner` |
| `SchedulesAreKept` | `OnSchedule`, of a clock that does not change |
| `NextFire` | what `next_fire` returns matches, is later, and nothing in between matches |
| `DueMatches` | an accepted expression matches the minutes it names |

*Assumptions*: `ManifestAssumption`, `RealtimeAssumption`, `ClockAssumption`, `ConnectionsAssumption`, and
the types of the calendar. *Argument*. `LifeInv`: what is open is a prefix of the manifest's sequence, and the
scheduler and the engines are entered exactly while they are in it; `SequenceOf` is the lemma that either
occurs once, so that a part which has been exited is not open elsewhere. `HubInv` is about each client alone
(`Known`): what it waits for is the end of the log, what it was sent is before that and in order
(`InOrder`, `AtTheEnd`), each event since it joined is queued, taken or QueueMaxsize old
(`Accounted`), and a subscription admits nothing but what some grants in `recent` admit (`Granted`). That is inductive with
what is cached and what each lookup has read being of grants in `recent` too (`Found`), and with the lookup of a
connection being the one for the message it waits with (`Awaited`): so `recent` may forget the grants of before
only when nothing is cached or under way. A step of a client leaves the others undisturbed; `StreamMoves` shows that the lifecycle does to the hub
only what the hub's lemmas cover (`StreamMove`). `OwnedInv`: whoever waits for a trigger run can still wait
(`Holds`), and a request's run has a resource that is entered. The last needs that no run of the
scheduler is a request, which the tick of its start tells.

`SchedulesAreKept` has a hypothesis, `ClockChange.by = 0`: the run `tasks_dst` shows that the property fails of a clock
that moves. It holds of any calendar (any months, hours, minutes and weeks), any horizon and any latency below a
minute. The calendar first: `Days` grows, so the months part the year (`MonthIs`), and each of the four units of a
candidate begins where the code says (`SameMonth`, `SameDay`, `SameHour`, `RollsOver`). So what `RollForward` jumps
over does not match, and `NextFire` follows by induction on the candidates. `DueMatches` is that a field which is accepted
lists the values its items name, the seven shorthands included. Then the loop, with `ClockInv`: an
active loop is asleep until the beginning of a minute before which every minute that was due has been answered
once, within the latency, and every start was of a minute that was due. A wake-up that is late by less
than a minute falls in its minute, which is why the loop may test the minute it wakes in.

Recursive functions (`Days`, the candidates of `next_fire`, the rows after each edit of a batch, the children
that `and_` keeps) are reasoned about
with `LeastNat`, that a non-empty set of numbers has a least one, and with `UpTo` and `Recursion`, which are
induction and recursion up to a bound, stated of sets and functions.

Every invariant and action property that a passing run checks is stated by a theorem (`OnSchedule` of a clock that does
not change). Beyond the prover: `NoJobStuckRunning`, `SweepEnds` and `RequestEnds` (liveness and ENABLED are left to
TLC), and what the recursive operators of `AccessPolicies` compute, so that it is TLC which evaluates the
`FiltersAssumption` of `Access` on the policies of the code, and the one of `Queries` on the filters of its run.

## 6. Plan

1. Done: the models and runs of sections 2 to 4, the theorems of section 5.
2. Abstract specifications: a stream of events that may lose only the oldest, which `Realtime` would
   implement; a register with bounded staleness, which `CachedReads` would.
3. `Singleton`: double-checked construction by threads.

## 7. Not modelled

The construction of singletons among threads (util/singleton.py) is planned. Left out for good: type
introspection (DTOs from tables and models), environment and argument parsing, OpenAPI and AsyncAPI texts,
naming, the wording of errors, the cryptography of tokens (a library call; which keys are accepted is in
`FileStore`), minting of API keys, the provider's bearer tokens, signed uploads, heartbeats of
websockets, and the losses of S3, Redis and the network, which the code does not handle. Asynchronous
sleeps are taken not to end early: one that did would fire a task twice in its minute. The
`enabled` flag of a user is not asked for a cookie, and its `exp` only sets a hint, as in the code.
Each has its row in `PROJECT.json`.
