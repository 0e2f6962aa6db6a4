# A verification project for GROK-GO

GROK-GO is a multi-instance gateway: clients call an OpenAI-compatible API, and
each call is sent upstream with one account out of a shared pool. Several
processes run side by side; they share PostgreSQL (the tables) and Redis (leases,
affinity, cooldowns, sessions, locks, notifications), and each keeps its own view
of the accounts in memory. This directory holds TLA+ models of that machinery,
the TLC configurations that check them on small instances, and TLAPS proofs for
every value of the constants.

## 1. Inventory of the system

| Component | State | Operations | Hard behaviour | What makes it correct |
|---|---|---|---|---|
| Account pool (`accounts/pool.go`, `probe.go`) | per instance: `states` (row copy, local cooldown, inflight), `loaded`, strategy, `reloadToken` | `Acquire`, `AcquireForProbe`, `Release`, `Reload`, `RemoveAccounts`, `ClearCooldown`, `SetStrategy` | lock released between choosing, leasing, binding and reporting; reload against deletion | limit never exceeded, counters exact, blocked accounts not used, every call ends |
| Redis coordinator (`redis_coordinator.go`, `database/redis.go`) | lease sorted sets, cooldown keys, affinity keys | lease, bind, clear, publish deadlines | several commands per operation, expiry, lost replies | one semaphore per account; bindings stable; deadlines only grow |
| Accounts table (`store/accounts.go`, `admin/management.go`) | rows | field-level runtime update, whole-row update, delete | feedback later than an administrative change | terminal rows, replaced credentials and running cooldowns protected |
| Gateway (`gateway/handler.go`, `stream.go`, `response.go`, `media.go`) | per request: attempts, excluded and refreshed accounts, encoder of the answer | attempt loop, stream, non-stream | retries, cancelation in mid-stream, overlapping items | one release and one report per request, well-formed and complete answers |
| Upstream clients (`upstream/http_client.go`, `event_parser.go`, `imagine.go`, `image_edit.go`, `grok_video.go`) | per call: parser with its tool states, a channel of events, picture slots, upload goroutines | call, stream, upload, WebSocket, background video | repeated and reordered messages, a reader that has left | every event once, no goroutine left behind |
| Video jobs (`gateway/video.go`, `persistence/video.go`) | job rows, one poller goroutine per job | create, poll, fail interrupted ones at start, shut down | restart, saving fails, deadline | an unfinished row has a poller, a poller keeps one lease |
| OAuth refresh (`upstream/oauth.go`) | Redis lock, credential revision | refresh under the lock | lock outlived by its holder | a rotating token is spent once |
| Media store (`media/store.go`, `cache.go`, `admin.go`) | data and metadata files, temporary files, one read-write lock | localize, open, list, delete, clean up, clear, scan at start | crash between renames, removals that fail, slow readers | capacity kept, no half objects, announced objects are there |
| Administrator sessions (`admin/auth.go`, `redis_auth.go`) | sessions and revisions in Redis | login, setup, restore, revoke, password change | revocation racing a login | no session survives its revocation |
| Client keys (`apikey/middleware.go`) | windows, token counter and slots in Redis | authenticate, check, admit, settle, release | expiry of the counter, lost replies | limit kept, no leak |
| Configuration (`configsync`, `runtimecfg`, `api/extras.go`) | settings row, per-instance copy, one-element channel | load, save, apply, notify, receive | lost notifications, a busy consumer | peers converge, a change takes effect |
| Request log (`requestlog/async_sink.go`) | bounded queue, workers | enqueue, drain, close | close against enqueue | no send after close, accepted entries written |
| Migrations (`database/migrate.go`) | version table, advisory lock | apply each file | concurrent start, crash | each file applied once, in order, before serving |
| HTTP gate (`httpx/runtime.go`) | one counter | enter, leave | limit changes | counter exact |

Pure data components (payload construction, cache identity, cryptography, import
parsing, queries, the web console) have no protocol; they
are listed in `PROJECT.json` as not modelled, with the reason.

Interactions. A gateway handler calls `Pool.Acquire`, runs the upstream
exchange and calls `Lease.Release` with the outcome; `Release` writes Redis and
the table, reloads its own pool and publishes an event. Administrative handlers
change the table, then fix up their own pool and Redis, reload, and publish.
Other instances learn of both through the event or a 30-second ticker. The
request log, the media store and video jobs are downstream of a request: around
the handler lie the concurrency gate, the limits of its client key and the entry
of the request log; a picture or video in an answer is put into the media store
first; a video job takes the lease of its request over.

## 2. Modules

| Module | Models | Kind |
|---|---|---|
| `Coordination` | the Redis scripts and commands behind the coordinator | operators, one per atomic command |
| `AccountRows` | the account rows and the two statements that write them | operators |
| `AccountPool` | the pools of all instances with Redis, the table, administrators, crashes and faults | state machine, composes the two above |
| `LeaseSemaphore` | what the pool promises: a counting semaphore with expiring permits per account | abstract specification |
| `MCAccountPool` | the finite instances | TLC instance |
| `PoolProofs` | types, capacity, the refinement of `LeaseSemaphore`, counts, Redis slots, deletions, bindings, feedback with its credentials, cooldowns | proofs |
| `OAuthRefresh` | refreshing the credential of one account from everywhere, and the import with `refresh_probe` | state machine, uses `AccountRows` |
| `OAuthRefreshProofs` | types, exclusion and serialisation of the rotation, held imports | proofs |
| `AdminSessions` | the sessions of one administrator in PostgreSQL and Redis | state machine |
| `ConfigSync` | instances that start, migrate the database, load their settings and keep them in step | state machine |
| `Admission` | concurrency gate, limits of a client key, request log and shutdown of one instance | state machine |
| `EventParser` | the parser of upstream events with its tool states | operators |
| `StreamState` | the encoders of Chat, Responses and Messages streams, and the accumulator of documents | operators |
| `GrokImages` | the reader of the Imagine WebSocket, and the join of the uploads of an image edit | operators |
| `VideoJobs` | the row, the poller and the background generation of one video job | state variables and actions |
| `Gateway` | one request from its body to its last byte, over all attempts | state machine, composes the four above |
| `MediaStore` | the files and the lock of the media cache with everybody who uses them | state machine |
| `StreamProofs` | the frames of a stream are well formed, and a finished answer has the pictures that were made and the tool calls the upstream has sent: the encoders, and the request that joins parser, channel and answer; on the facts about sequences, frames and the parser at the end of `GatewayProofs` | proofs |
| `AdminSessionsProofs`, `ConfigSyncProofs`, `AdmissionProofs`, `GatewayProofs`, `MediaStoreProofs` | the invariants of the module each is named after; `GatewayProofs` ends with the facts about sequences, frames and the parser that `StreamProofs` uses | proofs |
| `MCOAuthRefresh`, `MCAdminSessions`, `MCConfigSync`, `MCAdmission`, `MCGateway`, `MCMediaStore` | the finite instances | TLC instances |

### 2.1 `AccountPool` and the code

The state of an instance is `loaded`, `strategy`, `states` (the map `Pool.states`;
`present` says whether the key exists, `till` is `cooldownTill`, the rest is the
row copy and `inflight`) and `reload` (the holder of `reloadToken` and the listing
it holds). Redis is `slots` (owner to deadline), `cooling` and `bound`; the table
is `db`. A request has a program counter `pc`, the account it has reserved
`acct`, and `req`, the local variables of `Acquire`, the lease and the work
`Release` still has to do. `exp` and `blocked` are history: the deadline a lease
was granted with, and the deadline last published for an account.

One action is one critical section of `Pool.mu`, one Redis command or script, or
one SQL statement:

* `Start`, `ReadAffinity`, `FindStaleAffinity`, `Reserve`, `NoCandidate`,
  `ClearUnavailable`, `CheckCooldown`, `AcquireLease`, `LeaseRefused`,
  `Rollback`, `ReadCredentials`, `ClearOldBinding`, `BindSetNX`, `BindGet`,
  `BindExpire` are `Acquire`; `ProbeReserve` and `ProbeRefused` are
  `AcquireForProbe`.
* `ReleaseSection` is the locked part of `release`, one sub-action for each case
  of its switch; `ReleaseCooldown`, `ReleaseAffinity`, `ReleaseSave`, the reload
  and `ReleaseSlot` follow it in the order of the code.
* `ListAccounts`, `ApplyReload`, `ReloadFails`, `ReloadTimesOut` are `Reload`.
* `AdminRead` to `ClearCooldown` are the administrative operations; a refresh by
  `SaveOAuthRefresh` takes the same steps.
* `CallFails` is every error return of a Redis or SQL call, executed or not;
  `Crash` loses the memory of an instance; `failures` counts both. `Tick` is time.

Abstractions. A deadline is a small number and one clock serves all (Redis and
PostgreSQL use their own; the program needs them to agree to within the margins of
its TTLs). Health scores, quota percentages, weights and the round-robin cursor
only decide WHICH candidate is chosen: `Choices` leaves that open within the best
tier. The map `Pool.affinities` is left out: with a
coordinator, which the program always has, `Acquire` overwrites its entry from
Redis before it reads it. A listing is atomic although the adapter reads it in
pages. Notifications are not messages: a peer may reload at any moment (`Sync`),
which covers a prompt, a late, a repeated and a lost one.

### 2.2 `OAuthRefresh` and the code

One account, its row, the Redis lock `oauth:refresh:<id>` and the provider, which
is external: it answers an exchange with a new credential and refuses the old
one from then on. The processes are background passes (`RefreshDue` of any
instance), calls of `RefreshAccount`, and an import with `refresh_probe`. Steps
are those of the code: listing, reading the credential, `SETNX`, the second read,
the exchange (answered, refused, or answered and lost), the read and the write of
`UpdateAccount`, `CompareDelete`; for the import also the creation in `error`, the
probe and its feedback, and the quarantine of `finalizeImportPostAction`. Time is
a set of events (a credential becomes due, then expired; a cooldown elapses; the
lock expires). A locked section may outlive its lock: the HTTP client gives up
after 30 s and the lock lasts 2 minutes, but the SQL statements in the section
have no deadline of their own; `overran` remembers who did. Polling for the lock is one action, `AcquireLock`, enabled when the lock
is free; giving up is `Abandon`. `replaced`, `reverted` and `overran` are history.

### 2.3 `AdminSessions` and the code

One administrator. PostgreSQL keeps the rows of sessions and the credentials,
Redis a copy of each session with the revision it was saved under, a tombstone
per session, the current revision and the login window. A step is one Redis
command or one SQL statement of `Login`, `loadSession`, `Logout`, `ChangePassword`
(`ChangeEmail` and `DisableTOTP` take the same steps) or the hourly clean-up;
`CallFails` is every error return, with or without effect. A password is a name.
Assumed: Redis may evict copies but keeps tombstones and revisions, and the clocks
agree. `dead` and `late` are history: which sessions have been ended, and whether a
request began after that. A change ends the sessions that existed when it began;
when changes overlap, those that existed when the oldest of them began.

### 2.4 `ConfigSync` and the code

Instances share a database and one Redis channel. `schema`, `migrator`, `boot` and
`next` are `Migrate`: `LockMigrations` waits for the advisory lock, `CheckMigration`
and `ApplyMigration` look at and run one file, and `SessionEnds` is why the lock of a
dead process is free again. `persisted` is the settings row, a partial function,
because only fields that were ever saved are in it; `Resolve` puts it over the
defaults. `active` is what `Runtime` and the pool use, `changed` the one-element
channel of `Apply`, `upkeep` the maintenance loop that reads it. A save
(`BeginSave` to `Notify`) is a request of `saveSettings` or `updateAccountPolicy`,
one step per statement, store or command; the synchronizer (`Subscribe`, `Receive`,
`Load`, `SyncApplies`, `SyncSignals`, `SyncSetsStrategy`) subscribes first and reloads
then. A value is known by the save that wrote it. Scopes about accounts reload the pool,
which is a `Sync` of `AccountPool`.

### 2.5 `Admission` and the code

One instance and one client key. `active` is the counter of `DynamicConcurrency`, which
counts a request before it compares; `at` is where a request is among the
middlewares. `window`, `month` and `slots` are the counters in Redis; `slots`
has one expiry for all holders, and `outlived` remembers that it has expired under
one of them. The reply of `AcquireSlot` can be lost after the increment
(`SlotUnavailable`), and a release can fail (`LeaveSlotFails`). `queue`, `hand`,
`exited` and `closed` are the sink; `Shutdown`, `ShutdownReturns`, `CloseSink`,
`CloseReturns` and `Exit` are the end of `Run`, where `Shutdown` may give up while
requests still run. A panic of a handler runs the deferred calls. The gateway is one
step here.

### 2.6 `Gateway` and the code

One request. `pc` is its place in `handleOperation`, `invoke`, `stream` or
`nonStream`; `try` holds the locals of `invoke`; `lease` is the lease in use with the
number of releases. `producer`, `upstream`, `parser`, `pending` and `channel` are
the goroutine that reads the upstream: it parses a message (`Read...`), sends its
events one by one (`SendEvent`) and stops when the request's context is done
(`ProducerStops`). `imagine` is the goroutine of `doImagine`, which does not look at
the context when it sends, `uploads` the goroutines of an image edit. `answer` is the
state of the encoder or the accumulator; its `out` is the sequence of frames sent so
far, each with its kind, index, item and argument fragments. Texts, headers, payload
construction and credentials are left out.

The upstream is external. It announces a tool call, sends its arguments in
fragments or at once, and repeats them when it closes the call, for two tools that
overlap; a provider is a pair of sets that say which identifiers its items and its
argument messages carry. It may stop at any point, with or without a last
event, and may send nothing at all. The frames of pictures come repeated and in any order.

A video job (`VideoJobs`) starts in `StartPolling`, which hands the lease over.
`Stop`, `VideoDies`, `Restart` and `PeerStarts` are the life of the process and of a
second instance. The client of grok.com keeps its jobs in memory (`grok`), other
upstreams are asked for a status. The pool is abstracted to a choice of an account that
is not excluded; `AccountPool` models it, and `OAuthRefresh` the refresh.

### 2.7 `MediaStore` and the code

`data` and `meta` are the two files of an object, `upload` and `draft` the temporary
files of an upload. `writer`, `readers` and `blocked` are `sync.RWMutex`: a writer
announces itself, keeps new readers out and waits for those inside. Every operation that
takes the write lock begins with a scan, which removes half and expired objects;
`work` holds what the operation still has to remove or rename and the usage it has
counted. A removal takes two steps and each can fail. `stored` is history: the
objects `Put` has returned and nothing has removed since. `Crash` may
come between any two file operations; `Boot` scans with the limit of the new start. The bytes on disk are the number of byte
positions (`Content`), a cardinality rather than a sum, so that they can be reasoned about.
An administrator's request is one of the handlers of `api/extras.go` (`ListMedia`,
`DeleteMedia`, `BatchDeleteMedia`, `CleanupMedia`). Hashes, names, range requests and
the download from the remote host are left out.

## 3. Runs

| Run | Instance | Shows |
|---|---|---|
| `Capacity` | 2 instances, 1 account, limit 1, 3 requests (1 probe), 2 lost replies or crashes, leases that run out | `Capacity`, `ImplementsSemaphore` |
| `Administration` | 1 request, 1 probe, 1 administrator with every operation, aging listings, 2 strategies, 1 failing call or crash | `TypeOK`, `InflightAccounted`, `NoSlotLeak`, `DeletedStaysRemoved`, `FeedbackRespectsRow` |
| `Cooldown` | 3 requests (symmetric), every outcome and quota report | `FeedbackKeepsCooldown`, `NoAdmissionWhileBlocked` |
| `Affinity` | 2 instances, 2 accounts, 1 conversation, exclusions, expiring bindings | `BindingStable`, `FullAccountKeepsBinding` |
| `Progress` | fair scheduling, 2 requests, 1 administrator who deletes or refreshes, cooldowns, lost bindings | `EveryRequestEnds`, `PoolsConverge` |
| `Refresh` | fair scheduling, a background pass, a call and an import, failing statements, 1 crash, 1 lock outlived | `TypeOK`, `RotationSerialized`, `OverrunIsContained`, `HeldUntilProbed`, `EveryRefreshEnds` |
| `Sessions` | any 4 of 2 logins, 2 requests, a logout and 2 changes; evictions, clean-up, expiry, 1 failing call | `RevokedStaysRevoked`, `SessionsConsistent` |
| `Configuration` | fair scheduling, 2 instances, 2 migrations, 3 settings, 1 save, 2 failures, lost connections or crashes | `PeersConverge`, `SettingsTakeEffect`, `SchemaReady`, `EveryInstanceListens` |
| `Admission` | fair scheduling, 3 requests of one key with limit 1, gate limits 1 and 2, 1 log worker, a queue of 1, 1 failure, shutdown | `GateExact`, `KeyConcurrency`, `FlushedMeansWritten`, `EverythingSettles` |
| `Gateway` | fair scheduling, 1 request of any of 6 operations, 2 accounts, 3 attempts, 2 tools, 3 messages or 4 picture frames, 2 uploads, 1 failure, 1 crash | `SettledOnce`, `OneCallPerAccount`, `FramesWellFormed`, `AnswerDelivered`, `JobsTracked`, `NoRetryAfterBytes`, `EverythingEnds` |
| `Media` | fair scheduling, 2 uploads, 1 download, 1 administrator, 2 old objects, room for less than two, 1 failing removal or crash | `CapacityHeld`, `ReadersUndisturbed`, `StoredMeansThere`, `DirectoryInOrder`, `EveryOperationEnds` |
| `RefreshReverts` | 2 background passes and 1 call, no failures | violated, see 5 |

Some of these are conjunctions of named parts, each with its own comment:
`FeedbackRespectsRow` (`TerminalSticks`, `FeedbackMatchesCredential`), `SessionsConsistent`
(`OneFirstRevision`, `NoSpuriousRejection`), `SettingsTakeEffect` (`RetentionNotLost`,
`RestartFieldsStable`), `GateExact` (`GateBalanced`), `SettledOnce` (`LeaseReleasedOnce`,
`CompletionOnce`), `AnswerDelivered` (`ToolsDelivered`, `PicturesDelivered`), `JobsTracked`
(`RowFollowsPoller`, `JobHasPoller`), `DirectoryInOrder` (`NoHalfObjects`,
`NoTemporaryFileLeft`); the type invariants of `AdminSessions`, `ConfigSync`,
`Admission`, `Gateway` and `MediaStore` are parts of them as well.

Bounds. Requests run once each, so two or three requests with their own program
counters give every pairwise interleaving of `Acquire` and `Release`, and the
third is the one that profits from an error of the first two. Limits of 1 or 2
make "full" reachable with them. Where expiry matters, `MaxTime` is at least one
more than the shortest TTL of the run, so that leases, bindings, cooldowns, sessions
and tombstones expire while somebody still relies on them; `Administration` is about
interleavings only and its clock stands still. `MaxFailures` bounds failing
calls and crashes together. One is enough for the error paths of one
operation; `Capacity` has two, a lost reply and then a crash or the other way round.
Properties that hold only without failures have that as their premise, so the runs
with failures check them too. `PoolsConverge` is checked with one instance: pools meet
only in the table, and a peer that has missed a notification takes the same `Sync`
reload. Every refresh, login, request and change runs once too: the third refresh is
the one that sees what the first two have done to the lock or the row, and the second
request is the one that reads the copy the first has saved. `MaxStarted` lets four
processes of a session begin, in every combination; `Aging` names the credentials that
grow old. Symmetry is used in `Cooldown`, `Refresh`, `RefreshReverts` and `Sessions`,
for processes of the same kind, never with liveness. `CHECK_DEADLOCK` is off for
all but `AccountPool`: their processes run once and then rest; the pools
never stop, since they reload periodically.

`Configuration` has one save by one instance and one that only listens, so that the
listener meets it at every step of its start, its reconnection and its reload; two
failures are a lost connection and then a crash or a failed reload. Two saves at once
without failures hold too, but take 4.6 million states and are not a run. `Admission`
has a key limit below, and a gate limit at and above, what three requests ask for; one worker
and one place make the queue full with the second entry. `Gateway` needs two accounts
of different kinds for a retry to change the kind, three attempts so that a refreshed
account can be tried again and another one after that, two tools for items that overlap,
and three messages for one that is opened, interrupted and closed. Longer
arguments (`Fragments`) repeat the same steps. The channel of 1 blocks where the
program's 32 do so later; for pictures `ImagineCapacity` is `MaxPictures` + 1, as 32 is more
than the 4 that a request may ask for and the last event. `Unfinished` is a status that the
start does not know as interrupted. `Media` starts full, so that an upload of the same
size must evict and one of the smaller size need not evict all.

Fairness (`FairSpec`). A started goroutine runs and an upstream exchange ends
(its HTTP client has a timeout): weak fairness of the steps of a request and of
an administrator who has begun. Receivers of a Go channel queue, so whoever waits
for `reloadToken` gets it although others ask too: strong fairness of its listing.
The synchronizer's ticker asks again every 30 seconds and not every listing
fails: strong fairness of the `Sync` listing and of `ApplyReload`. Administrators
need not begin, and crashes and faults need not happen. In `OAuthRefresh` every
process is weakly fair without its failures, and Redis expires the lock of a dead
process; weak fairness of the polling is enough because every process locks once.
In `ConfigSync` the steps of an instance are weakly fair, and the advisory lock
strongly, because PostgreSQL grants it in the order of asking. In `Admission` handlers
and workers run on and a key with a TTL expires. In `Gateway` the handler and the goroutines
run, timeouts of the HTTP client and of the poller pass, and a select that finds the
poller's context done again and again takes that case in the end (strong fairness of
`PollGivesUp`): Go chooses at random. The upstream need not send anything. In `MediaStore`
operations that have begun go on, the reader included, because the server's write timeout
ends a connection that takes too long, and a dead process is started again.

## 4. Proofs

Nothing is assumed but the named assumptions on the constants, which TLC evaluates in every
run: `PoolAssumption` (types; the identities of requests, administrators and token holders
are distinct; TTLs are positive) and `RequestsFinite`; `RefreshAssumption` (the kinds of
processes are disjoint, at most one import, a new credential is named after the process that
obtains it); `SessionAssumption` (the kinds of processes are disjoint, TTLs are positive);
`ConfigAssumption` (`Retention`, `Base` and `Strategy` are three settings, `Default` is no
save); `AdmissionAssumption` (limits are positive and one of them is the greatest, requests and
workers are finite and there is a worker); `MediaAssumption` (uploads, old objects, downloads and
administrators are disjoint, sizes and limits are numbers); `VideoAssumption` and
`GatewayAssumption` (limits are positive, no unfinished status is a terminal one);
`ProviderAssumption` (what a provider's messages carry to identify a tool call: an item has its own
identifier or that of its call, and one that the messages with its arguments have too);
`BodiesAssumption` (what is so of every document of an upstream: a tool call comes once, with both
identifiers and all of its arguments, and what cannot be parsed has no items). None
bounds a number of processes, accounts, settings or messages.

### 4.1 The account pool

* `TypeCorrect` (`PoolProofs`, like the rest of this section): `Spec => []TypeOK`. `TypeOK` alone is not
  inductive: actions read `states[i][acct[r]]`, so the strengthening `TypeInv` adds
  where a request has an account at all (`Place`) and that a reload token is
  held by somebody who is waiting for its reload (`TokensOK`). The interesting
  part is that no counter goes below zero although a lease may be released into a
  state that a reload has recreated.
* `CapacityHolds`: `Spec => []Capacity`. `SlotInv`
  adds to `TypeInv` that a working request whose lease has not expired is a live member
  of the lease set with exactly the deadline it was granted, and that the live
  members of a lease set are no more than the limit. The first part makes
  the holders a subset of the live members, the second bounds those.
* `SemaphoreImplemented`: `Spec => ImplementsSemaphore`. Every step
  is one of three kinds (`StepKinds`): the clock advances, a lease is granted, or
  a quiet step that only drops permits; each maps to a step of
  `LeaseSemaphore` or to a stutter.
* `CountsAreReservations`: `Spec => []InflightAccounted`. `CountInv`: an account that is not in a
  pool has no count, no count exceeds the reservations, and without deletions and quarantines
  the two agree; for the last part the table, every listing and every row an administrator
  writes back must know the account (`RowsStay`). A request joins, leaves or stays
  (`Moves`), a reload keeps the count of what it finds, a crash forgets both sides together.
* `SlotsAreReturned`: `Spec => []NoSlotLeak`, inductive with `TypeInv`: only the grant puts an
  owner into a lease set, and whoever leaves the owners' places without a failed call has released.
* `DeletedStaysOut`: `Spec => []DeletedStaysRemoved`. `DeleteInv` follows a deletion: once the row
  is gone it never comes back, the listing that the administrator's own reload works with lacks
  it, and so does every listing that follows (`Deletion`).
* `BindingsAreStable` and `FullKeepsBinding`: `Spec => BindingStable`, from `TypeInv`, and
  `Spec => []FullAccountKeepsBinding`, where `BindingInv` says of a request that has chosen another
  account than the bound one that its caller excluded the bound one, or that it
  keeps the binding, from the choice to the deletion.
* `CooldownsOutliveFeedback`, `TerminalStaysTerminal` and `BlockedIsNotAdmitted`: the statement of
  `ReleaseSave` protects terminal rows and running cooldowns, in any state of the pool that writes;
  and a published deadline is never later than the one in Redis that `CheckCooldown` reads
  (`DeadlinesInv`). In general late feedback may end a cooldown by making the account terminal, and
  `FeedbackKeepsCooldown` says so; in its run no pool ever holds a terminal account.
* `FeedbackRespectsRows`: `Spec => FeedbackRespectsRow`, if `NoStaleWriteBack`: there is one
  administrator (each carries out one operation), or none refreshes, or none does anything but refresh and delete. Without the
  premise it is false for the reason `RefreshReverts` shows: an edit brings the old credential of a
  row that it read before a refresh back, and feedback then meets a row that again has the
  credential the pool knew, while the request had sent the refreshed one. `CredInv`: a credential
  that no refresh has written yet is nowhere (`BornOnly`), what an administrator writes back has the
  credential of the row (`RowsCurrent`), and a request has sent the row's credential if it was
  chosen with it (`Sends`), so a new credential in the row is never the one of a request
  under way, and the statement leaves the row alone.

### 4.2 Refreshing credentials

* `Serialized`, `Contained` and `RefreshTypes` (`OAuthRefreshProofs`). The inductive invariant
  `Inv`: a
  process in a locked section that has not outlived its lock owns it (`LockOwned`),
  which excludes a second one; a copy of the row holds the current credential or
  a replaced one (`CopiesKnown`); a process that has not saved yet has its
  credential nowhere in the database (`NewNames`); hence, while nothing has been
  reverted, the stored credential was never replaced and, until somebody outlives its
  lock, is the one an exchange uses (`Current`). `RotationSerialized` alone is not inductive: it says
  nothing about copies that are written back later. Its premises are
  `overran = {}` and `~reverted`; `RefreshReverts` shows that the code does not ensure the
  second.
* `HeldAccounts`: `Spec => []HeldUntilProbed`. `Held`: while nobody asks for a refresh, the row of the
  import is in `error` as long as it exists, because a background pass does not go beyond its
  listing, the import saves only that status and feedback leaves a terminal row alone.

### 4.3 Administrator sessions

* `EndedStaysEnded` and `SessionsStayConsistent` (`AdminSessionsProofs`), from `SessionInv`. A session
  that was logged out has a tombstone that outlives it (`LoggedOut`). For one that a change
  has ended, the stored revision belongs to a change the session existed for, and so will every
  revision still to be written (`ChangedAway`); no copy of a session carries the revision of a change the
  session existed for (`Fresh`), so its copy is stale and its row older than the
  revision. A check that began too late has therefore the expiry, a tombstone or such a revision before
  it at every step (`Late`). `FirstRevision` says that all callers agree on the first revision, and
  `Reasons` that, while no call has failed and no change has begun, a session ends for a reason only.

### 4.4 Configuration, admission, media

* `SchemaIsReady` (`ConfigSyncProofs`), from `StartInv`: whoever is between lock and unlock holds the
  advisory lock (`Migrating`), so the version it found missing is still missing when it applies
  it, and versions are recorded in order (`SchemaInOrder`).
* `SettingsAreInEffect` and `PeersDoConverge`: as long as an instance does not use the stored value
  of a setting, the change is on its way to it (`Followed`): the save has yet to
  notify, the notification is in the inbox, a reload that covers the setting is under way, or the
  instance has yet to subscribe.
* `GateIsExact` and `KeyLimitHolds` (`AdmissionProofs`): the counter of the gate is
  the cardinality of the requests behind it, and it is above a limit only by those that are being
  turned away (`GateInv`); `KeyConcurrency` is inductive with that: the counter of a key is at
  least the holders of its slots until it has expired under one.
* `FlushedIsWritten`, from `SinkInv`: an accepted entry is written, in the queue or in the hand of a
  worker (`AcceptedIsOnItsWay`); a worker returns only from a closed and empty channel
  (`WorkersLeaveNothing`), and nothing is sent into a closed one.
* `CapacityIsHeld`, `ReadersAreUndisturbed`, `StoredIsThere` and `DirectoryIsInOrder`
  (`MediaStoreProofs`), from `StoreInv`: whoever writes holds the lock alone (`Locking`), so the
  sum it has computed bounds the bytes on disk until it returns (`Counted`); an
  object leaves `stored` before a file of it is touched (`Whole`); the only object with one of its
  files is in the hand of the lock's holder, or of a scan that has still to
  remove it (`HalfInHand`). A sum of sizes is a cardinality of byte positions (`ContentSize`).

### 4.5 The gateway

* `SettlesOnce`, `CallsAreCounted`, `BytesEndRetries` and `JobsAreTracked` (`GatewayProofs`), from
  `GatewayInv`. The places of the handler fall into three phases, trying, answering and over, and no
  step goes back (`NoReturn`). `Leasing`: the lease belongs to the handler from the choice of an
  account to the end of an attempt or of the answer, then perhaps to the poller, which begins when
  the handler is done. `Reporting`: while accounts are tried no byte and no report is out. `Attempts`:
  an account that may still be chosen has been called only if it was refreshed
  afterwards, except the one whose call is out; without that exception `OneCallPerAccount` is
  not inductive. `Jobs`: there is no row before the request is done, so a later row comes from
  the request's end or from its poller. `Channel`: no producer lives while accounts are tried, and the
  channels keep within their capacity. Every action is first sorted by what it does to the lease, the
  calls, the reports and the job (`Sorts`), and each part is then shown for the sorts.

* `FramesAreWellFormed` (`StreamProofs`): `Spec => []FramesWellFormed`. That the frames written so
  far are well formed does not say that the next one will fit. `Streaming` adds what does. While the
  handler writes, the state of the stream goes well (`GoesWell`): each item that has an index was added
  under it, no two share one and `next` is their number (`Items`), the open block is the last one
  started (`Blocks`), and a tool call is recorded once, under both of its identifiers (`Recorded`).
  That last part needs every event to carry the same two identifiers for the same call, in the channel
  and in the producer's hand (`Underway`); and this needs the parser to know each call that has begun by
  every identifier an item of its provider has (`Knows`), because a message with arguments may carry
  only one of them. `Parse` is treated message by message (`ToolParse`, `PlainParse`, `EndingParse`,
  `GrokParse`), an encoder event by event (`EventGoesWell`), and the end of a Responses stream
  item by item (`AllClosed`). The two inductions this takes, over the sequences that
  are flattened and over the items that are closed, use `Induction`, which is the pigeonhole
  principle for an interval: the library's own induction takes an operator.

* `PicturesAreDelivered` (`StreamProofs`): `Spec => []PicturesDelivered`, the half of `AnswerDelivered`
  that is about pictures. `Imagining` counts, while a WebSocket is read, the pictures of the document
  together with those that wait in the channel (`Shots`): unless something failed, they are different,
  none was withheld, they are no more than were asked for, and the reader has marked each of
  them as completed, which is why a repeated frame adds none.

* `ToolsAreDelivered` and, with the pictures, `AnswerIsDelivered` (`StreamProofs`):
  `Spec => []AnswerDelivered`. The arguments of a tool call go from the messages of the upstream
  through parser, channel and encoder, or document, to the client, and at no place are they all there.
  `Delivery` therefore adds the places up. `Bears`: for every tool, the arguments recorded of its call,
  followed by those of its events in the channel and in the producer's hand, are what the upstream
  has sent (`Upto`), and the call has begun upstream exactly if it is recorded or some event on its
  way is about it. Each step moves an event from one place to the next (`BearsTaken`, `PassedOver`)
  or adds what is new in a message (`BearsTool`, from `ToolParse`). `Says`: what a client gathers
  from the frames is what is recorded; a Chat client finds the call by the number that its first
  frame names (`ChatSays`), the others by the name each frame carries (`OtherSays`), and all other
  frames are silent (`Wordless`). `InOrder`: the end is behind everything about a tool call, so an
  answer that ends with it leaves nothing behind. A document says all of its calls at
  once (`DocumentBears`), which takes `BodiesAssumption`: with the same call twice in one
  document the collected arguments would be doubled.

### 4.6 Only model-checked

* The liveness properties (`EveryRequestEnds`, `PoolsConverge`, `EveryRefreshEnds`,
  `EveryInstanceListens`, `EverythingSettles`, `EverythingEnds`, `EveryOperationEnds`): fairness and
  ENABLED are outside the prover's reach.
* `FeedbackRespectsRow` without the premise of `FeedbackRespectsRows` (4.1): it is false then, and
  the run that checks it has one administrator.

## 5. Where the code and its documents disagree

With a run:

* `CredentialNeverReverts`: `upstream/oauth.go` says the rotation of refresh tokens
  is serialised across requests, workers and instances. A background pass that ends
  an elapsed cooldown writes the whole row back without the lock, and can
  put back the credential that a refresh has just replaced.

Without a run of their own; TLC finds them when the named property is added to the cfg:

* `ActivationKept` (`Administration.cfg`, with two instances, two requests, "activate" only
  and two units of time): `docs/architecture.md` says feedback does not overwrite an
  administrator's scheduling edits. A last-used write of an instance that has not
  reloaded since carries the old cooldown into the activated row.
* `ImportActivates` (`Refresh.cfg`): a comment in `api/accounts.go` and a test say that
  the probe of an import with `refresh_probe` releases the account. The account is held
  in `error`, and `UpdateAccountRuntime` keeps that status, so the row stays in
  `error`. The test uses a store that overwrites rows. For the
  same reason a successful probe of a disabled account leaves it disabled, although
  a comment in `accounts/probe.go` says it can be revalidated that way.
* `CancellationIsNoFailure` (`Gateway.cfg`): a comment in `accounts/pool.go` says that the
  cancelation of a client is not a failure of the upstream. When the client leaves
  during the call, `invoke` releases the lease with status 502 and the error of the
  context (`gateway/handler.go:237-240`), which `Release` takes as a failure.
* `InterruptedJobsFail` (`Gateway.cfg`): the README of the program says that interrupted
  jobs of a restarted instance are marked failed. `FailInterruptedVideos` knows four
  statuses; a job whose upstream called it something else, like `pending`, is polled by
  nobody and stays as it is.

Seen while modelling, and what the model does with it:

* The README of the program says that changes are reloaded by every instance, but an
  instance ignores its own notifications: of two saves at once, an instance may keep
  the older value for itself. `PeersConverge` is about instances that served no save.
* A stream whose upstream ends without a last event is finished as a complete one, and a
  document whose client has left is settled as a success with what had arrived; both
  are in the model (`StreamClosed`, `Collected`).
* The status of a picture that comes before its data loses the picture, since only the first
  status counts; pictures asked for as `b64_json` are not compared with each other,
  while URLs are. Both are in the model.
* The monthly total of a key is read before and increased after a request, so requests
  that overlap exceed it together; `Admission` makes no claim about it.
* The paged listing of accounts is not a transaction: a deletion during it can hide a row
  until the next reload. `AccountPool` lists atomically.
* `runGrokVideo` declares a second `resolvedReferences` in an inner scope
  (`upstream/grok_video.go:104`); references are data here.

## 6. Not modelled, and the plan

Left for later: `Scheduling` (tiers, scores, round robin, quota windows and backoff as functions
against reference definitions), the identity of a conversation that `cache_identity.go` computes,
the listing and retrieval of models and finished videos, and the OAuth flows that obtain a
first credential.

Of the modelled components, the first set-up of the administrator, TOTP enrolment,
the OAuth flows that obtain a first credential, and duplicate detection of an
import are left out: they touch none of the state the properties are about.

Left out for good: construction of payloads, cryptography, queries, process wiring and
the web console; they keep no protocol state.
