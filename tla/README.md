# ERPBridge: TLA+ models, checks and proofs

ERPBridge serves ERP endpoints as MCP tools. Operators declare *tool revisions*
(name and version), *plugins* and *plugin bindings* through an HTTP control
plane; they are stored in SQLite; a reconciliation controller brings the
in-memory runtime in line with the store; agents call tools over MCP (HTTP or
stdio) or through a direct REST endpoint, and responses may be transformed by
bound plugins and cached. All paths below are relative to `src/`.

`bridgectl` is the operators' command line; it keeps a configuration and a
registry of ERP APIs in files, and serves a management MCP session of its own.

This directory holds the models of these parts, the TLC runs that check them on
small instances and the TLAPS proofs of the properties that matter most.

## 1. Inventory

| Component | State | Operations | Hard part |
|---|---|---|---|
| Tool registry `internal/mcp/registry.go` | `tools[name][version]`, `serving[name]` under `s.mu` | `Add`, `AddExplicit`, `SetServing`, `Remove`, `Resolve`, `ResolveDigest`, `ListActive` | the serving pointer and the serving flags are two copies of one fact |
| MCP descriptors `server.go` | one descriptor per exact revision and one alias per name in the SDK | `registerTool`, `refreshMCPToolsLocked`, `DeregisterTool`, `filterToolsList`, `hideRevisionAliases` | must follow every registry change |
| Tool store `store.go` | SQLite table `tools` | `Admit`, `Delete`, `HardDelete`, `List`, `GetStateHash` | immutability, the single serving row, tombstones |
| Control plane `server.go` | `pluginLifecycleMu`, `lastDesiredHash` | `handleToolApply`, `handleToolDelete`, `reconcileLocked` | store and runtime change in separate steps, any of which can fail |
| Controller `server.go`, `reconciliation_status.go` | `reconcileStatus` | boot pass, a pass every ten seconds | skips on an equal hash; must converge after failures |
| Authority boundary `authority.go` | `authorityMu` | commit check of every ERP dispatch, withdrawal | calls race withdrawals and content replacement |
| Plugins and bindings `plugin_api.go`, `plugin_store.go`, `plugin_registry.go` | tables `plugins`, `plugin_bindings`; the runtime snapshot | apply and delete of both, snapshot build and replace | snapshot, cache and store change in separate steps |
| Response cache `middleware.go`, `internal/cache` | cached results with expiry and LRU order, `lifecycleGeneration` | bypass, lookup, store, automatic and manual flush | a result computed across a lifecycle change or across a write; one cache for all roles |
| Plugin pipeline `plugin_pipeline.go`, `plugin_client.go` | none | raw and after-response phases, failure policies | two reads of the snapshot |
| Limiters `middleware.go` | concurrency entries, token buckets | acquire, release, eviction | capacity, settings that change under permits |
| Connector `internal/connector/client.go` | circuit breaker | call, retry, classify | retries after lost answers, breaker state |
| Tokens, auth, roles `tokens.go`, `auth.go`, `authz.go` | table `api_tokens` | create, look up, revoke, authenticate, authorize a role | revocation and expiry beside cached results |
| Migration `store.go` | `tools` | serving defaults of legacy rows | idempotence across restarts |
| Service registry `internal/idp/registry.go` | JSON files and lock files | register, set reference, delete, scrub, migrate | processes that read before they lock; crash with the lock file held |
| Client configuration `internal/config` | YAML file | set current context | external edit between re-check and rename |
| bridgectl MCP server `internal/climcp` | pinned selection, write groups, one child at a time, staged manifests | dispatch, run, time out, classify | a write whose outcome is unknown |
| bridgectl commands `internal/cli`, `internal/bridgeclient` | none | one request or file change, exit code, error document | the answer must be recognizable to the session |
| Web console, logging, metrics | none that is shared | projections, output | - |

How they interact: a lifecycle handler or the controller holds
`pluginLifecycleMu` from its start to its end, so lifecycle operations are
serial. They interleave with calls, which take `s.mu` for a resolution,
`pluginLifecycleMu` (shared) for a cache lookup and for a cache store,
`authorityMu` (shared) for the whole ERP dispatch and the plugin registry's own
lock for reading bindings. A withdrawal takes `authorityMu` exclusively. A
stdio server has a controller and callers but no control-plane API: another
process writes its database file. A crash loses everything but the database
and, with Redis, the cache. A management session runs bridgectl as a child
process, which talks to the control plane over HTTP or rewrites the user's files;
other bridgectl processes and an editor use the same files.

What makes it correct: only admitted content can be dispatched, and not after
its withdrawal; what discovery shows and what can be called is the registry's; the store keeps one serving
row per name and never changes admitted content; the runtime reaches the stored
state without help; a cached response is one the current bindings would give,
goes only to a role that may see it and is not older than a flush; limits hold
and permits come back; an unsafe request is sent once; a management session
never calls a write undone that was done; commands on shared files lose nothing
but the edit that falls between a comparison and a rename.
The list of hazards, each at its line, is in `PROJECT.json`.

## 2. Modules

| Module | Models | Kind |
|---|---|---|
| `ToolRegistry` | `registry.go`, the descriptors of `server.go` | operators on a registry value |
| `ToolStore` | the `tools` table of `store.go` | operators on a table value |
| `ControlPlane` | handlers, reconcile pass, controller, calls, crash, the stdio peer | state machine, composes the two above |
| `Authority` | what `authority.go` promises | abstract specification |
| `PluginCache` | plugin and binding handlers, snapshot, cache middleware | state machine |
| `Limiters` | the concurrency and rate limiters of `middleware.go` | operators on two tables |
| `CallPath` | a call through limiters, connector, breaker and plugin pipeline | state machine over `Limiters` |
| `Access` | `tokens.go`, `auth.go`, `authz.go` | operators on the token table and identities |
| `ResponseCache` | `memory_backend.go`, the keys of `manager.go` | operators on a cache value |
| `GuardedCache` | authenticated calls, cache middleware, flushes, token API | state machine, composes the two above |
| `Bridgectl` | the commands of `internal/cli` as a session sees them | operators: what each checks, its exits |
| `Catalogue` | `catalog.go`, `result.go` | the table of tools, checks, projections, classification |
| `ManagementSession` | `server.go`, `exec.go`, `snapshot.go` of `internal/climcp`, a child, the network | state machine over the two above |
| `LocalFiles` | `idp/registry.go`, `config/context_write.go` | state machine |
| `MCControlPlane`, `MCPluginCache`, `MCCallPath`, `MCGuardedCache`, `MCManagement`, `MCLocalFiles` | small instances for TLC | |
| `ControlPlaneProofs`, `AuthorityRefinement`, `StoreProofs` | theorems about `ControlPlane` | |
| `PluginCacheProofs`, `GuardedCacheProofs`, `CallPathProofs`, `ManagementProofs`, `LocalFilesProofs` | theorems about the module of that name (`ManagementSession` for `ManagementProofs`) | |

`ControlPlane` and `PluginCache` meet in `reconcileLocked` and the tool
handlers. The first follows the registry through them, with the plugin part
reduced to the failures it can cause; the second follows snapshot and cache,
with the tool part reduced to whether a stored tool registers (`Poison`). That
a callable tool has an active row, which `PluginCache` uses in `CallResolve`, is
the theorem `ServesOnlyAdmitted` of the first. A tool call is seen from four
sides: its authority in `ControlPlane`, its bindings against its cache entry in
`PluginCache`, its limits, requests and plugins in `CallPath`, its identity and its
cache entry against writes in `GuardedCache`.

### ControlPlane

A revision stands for a (name, version) pair and its content for its canonical
digest. `db` is the table; a row's `at` is its `updated_at` column. The state
hash covers every column of every row, so hashes are table values and compare
equal exactly when the tables do (two saves of a row get different stamps), and
none is the empty string of a controller that has recorded nothing
(`HashAssumption`).
`op` is the holder of `pluginLifecycleMu` and `pc` its next step:

    apply:   admit -> register -> (pass)
    delete:  dereg -> erase -> (pass)
    pass:    hash -> list -> sync (row by row, in List order) -> sweep -> done

Each step is one store transaction or one critical section of `s.mu`; every
error return is an action (`ApplyConflict`, `ApplyFails`, `ApplyRegisterFails`,
`DeleteFails`, `ReconcileReadFails`, `SyncFails`). `Valid` is the set of
revisions whose version the registry's semver check accepts: the handler checks
only that the version is not empty, so others reach the store. A call keeps a
clone of what it resolved (`resolved`), may end in a middleware, and commits or
is denied under `authorityMu` (`committed`). `authorityMu` is no variable: its
readers are the committed calls, its writer a pending withdrawal, and
`WriterWaiting` is Go's rule that readers queue behind a waiting writer. A
withdrawn exact descriptor stays in the SDK and `filterToolsList` hides it, as in
the code. Calling and listing are told apart: the SDK applies that filter to
`tools/call` and to `tools/list`, so that what it keeps can be called
(`CallableExact`, `CallableAlias`), and `hideRevisionAliases` then removes the exact
names from the answer of `tools/list` only. `ListTools` is that answer, by default the
aliases alone, and with `MCP_ADVERTISE_REVISION_ALIASES` the exact names too;
`DiscoveryMatchesRegistry` is about both settings.

`HttpNext` is the HTTP server, the only writer of its database. `StdioNext` is a
stdio server: no handlers of its own, and `PeerWrite` between any two steps.

### PluginCache

`db` holds the three tables, `snap` the bindings in force, `cache` one entry per
tool. A result is identified by the bindings each phase was processed with, and
that is what can go stale. A handler flushes its targets, saves and runs a pass;
the pass counts a generation, flushes the tools bound before or after, replaces
the snapshot, registers tools and records the hash. A call decides the bypass,
looks up under the shared lock, reads the raw and the after bindings in two
steps and stores under the shared lock if the generation is still the one of
its lookup. Generations only grow and are only compared with the one a call
kept, so the model keeps a flag per call. `Persistent` chooses Redis or the
memory backend at a crash. `Evict` stands for expiry, eviction, auto-flush and
manual flush, which take no lifecycle lock.

### CallPath

`call[c].stage` follows the middleware chain: rate limit (`Arrive`), permit,
the two reads of the bindings, execution, `admit` and `attempt` in the breaker,
normalization, raw and after plugins, release. `active` is the revision that new
calls are of together with the snapshot of its bindings; `Swap` replaces both
under running calls. A body is known by whether the tool's response path and
schema accept it, a plugin result likewise; a plugin failure stands for its
deadline, its status, its limits and its malformed answers. Retries stay inside
one admitted call: the breaker sees the call, and calls admitted before it opens
go on retrying. `gobreaker` and `x/time/rate` are external and modelled from how
they are used. Time is counted in the ticks a bucket needs for one token.
`RateLimitConfig.Validate` asks only for positive values, so burst and idle time are
independent, and dropping an idle limiter may give its client tokens before they
were earned. `quiet` is how long a client has made no call and `credit` the tokens it
may have: one more each tick up to the burst, and the whole burst after more than the
idle time without a call. `RateHolds` says that nobody gets more than that, however
full the table and whichever limiters were dropped; `OneTokenATick` is the stronger
promise of a plain bucket, which needs `Burst <= TTL + 1` (`ForgettingIsFree`,
`early_refill`).

### GuardedCache

A tool is its specification, a key its name and role scope (calls send the same
arguments). The ERP's data is the number of writes it has seen, and a result
carries the number it was fetched at. Authentication happens when a call
arrives, and the identity stays with it; the cache is locked per operation, so a
flush is a scan and a later delete, and calls, flushes, the clock and the token
API run in between. `upTo` (per tool: the newest write that an answered flush
covers), `late` (fetched before a flush, stored after its scan), `origin`, `held` and
`dead` are history variables. An unexpired entry is kept for ever with `ttlSeconds`
0, so a late store with that setting stays until the next flush: the code gives no
better promise than `StaleOnlyByOverlap`. A write whose answer is lost does not
flush either (`ExecuteFails`).

### ManagementSession

`catalogue` is the table of the code, tool by tool: required write group, effect,
checks of the arguments in their order, the command and the fields its projection
needs. A call is dispatched (permission, busy, checks, staging), takes the slot of
the runner, and its child goes through `PersistentPreRunE` (`PreRun`, which compares
the fingerprint), its own checks and its act. A remote act is a message in `wire`:
the deployment may act on it and answer, act and fail, fail, or deal with it
after the child is dead; or something on the way answers with a redirect.
`cliHTTPClient` does not follow one, and the commands fail only from status 400 on, so
that a redirected apply, delete or revocation exits with zero and is answered with
success although nothing was done (`redirected`). The code claims no more: the
result of a write reports that its command completed (`result.go:69`,
`docs/bridgectl-mcp.md:110`). `SuccessIsAcknowledged` says that this is the only such
case. `childErrorCode` looks for an error document behind the last brace of the output,
so a name with a brace in a message hides it; `handleError` has both outcomes for the
errors that quote a name (`Quoting`). What the control plane itself answers are fixed
texts. The child is killed at the deadline, on too much output
or at the end of input; `RunError`, `DispatchRefusal`, `classifyWriteFailure` and
`finish` are chains of conditions in the code's order, where the first that holds
decides.
`effects` is what really happened, which the session never sees. Arguments are
the set of checks they fail.

### LocalFiles

Each step is one file operation: a stat, a read, the creation of the lock file, a
rename, a removal. An API entry is known by who wrote it and who set its
reference, a configuration by the user's last edit. `installed` and `arrived`
remember what was renamed into place. A failed save is one of any kind, and so is a
failed removal of the global registry, after which it is still there (`not_removed`).
A scrub takes one registry after the other, each under a lock of its own (`todo`). A
dead process leaves its files and its lock. A user's edit may come at any time: the
comparison of `replaceConfigFile` catches it before, and nothing catches it
between that comparison and the rename.

## 3. Runs

| Run | Checks | Result |
|---|---|---|
| `http_safety` | `TypeOK`, `RuntimeServesAdmitted`, `DiscoveryMatchesRegistry`, `OneServingRow`, `ContentImmutable`, `ImplementsAuthority` | holds |
| `http_live` | `SkipIsSafe`, `WithdrawalCompletes`, `Converges` | holds |
| `stdio` | `SkipIsSafe`, `InFlightAuthorized`, `Converges` | holds |
| `cache_safety` | `TypeOK`, `CacheMatchesSnapshot`, `SnapshotMatchesStore`, `NoOrphanBinding` | holds |
| `cache_live` | `SnapshotConverges` | holds |
| `callpath` | `ConcurrencyHolds`, `PermitsReturn`, `RateHolds`, `UnsafeSentOnce`, `BreakerSeesEveryCall`, `SuccessIsWhole` | holds |
| `guarded_cache` | `TypeOK`, `RevocationIsImmediate`, `AnswersAreAuthorized`, `StaleOnlyByOverlap` | holds |
| `mgmt` | `SpecificFailureMeansNoEffect`, `SuccessIsAcknowledged`, `EffectsAreSanctioned`, `EffectsArePinned`, `CallsAnswered`, `SessionCloses` | holds |
| `files` | `AnswersAreTrue`, `MigrationMovesEverything`, `LocksAreOwned`, `EntriesChangeByName`, `ReplacedOnlyByForce`, `ScrubLeavesNone`, `CommandsReturn` | holds |
| `poison_row` | `StoredToolsRegistered` | violated |
| `migrate_race` | `ReplacedOnlyByForce` | violated |
| `flush_skipped` | `StaleOnlyByOverlap` | violated |

`InFlightAuthorized` is checked where it is in doubt, in a stdio server, whose passes
register active revisions again without `authorityMu`. For the HTTP server it is the
part of `ImplementsAuthority` that speaks of commits and withdrawals. With hard
deletes it fails in a stdio server: the peer forgets the row of an active revision
and admits it with other content, and the next pass registers that under a call
that has committed. Nothing in the code prevents it.

The type invariants of `CallPath`, `LocalFiles` and `ManagementSession` are conjuncts of
`PermitsReturn`, `LocksAreOwned` and `EffectsArePinned`.

Nine more configurations reproduce known behaviours in the same way and are kept
beside the runs: `failed_delete.cfg` (module `MCControlPlane`, `StoredToolsRegistered`),
`stdio_aba.cfg` (`MCControlPlane`, `DeletedToolsDeregistered`), `stale_serving.cfg`
(`MCControlPlane`, `SkipIsSafe`), `redis_restart.cfg`
(`MCPluginCache`, `CacheFollowsStore`), `file_backed_race.cfg` (`MCPluginCache`,
`FileBackedNotCached`), `binding_aba.cfg` (`MCPluginCache`, `SnapshotMatchesStore`),
`denied_read.cfg` (`MCManagement`, `DenialsAreNamed`), `edit_race.cfg` (`MCLocalFiles`,
`ChangesAreRefused`), `early_refill.cfg` (`MCCallPath`, `OneTokenATick`). A tenth,
`idle_limiters.cfg` (`MCCallPath`, `RateHolds`), passes: four calls against the rate
limiter alone, so that a bucket that was dropped early comes back and is used up.

The violated properties are sentences of the documentation or of comments, or what
a reader would take for granted; the traces are behaviours of the code:

* `poison_row`: an apply with a version that is not a semantic version is stored
  and answered with "pending". Every later pass ends at that row, and after a
  restart the tools listed after it are never registered.
* `failed_delete`: a delete withdraws the tool, the store delete fails. The row is
  active, the hash is the recorded one, every pass skips.
* `stdio_aba`: the peer admits a tool after the pass hashed and before it listed,
  and hard-deletes it afterwards. The hash is back at the recorded value.
* `stale_serving`: the stored serving row of a name has a version the registry
  refuses. Another revision of the name, applied as not serving, is the first to be
  registered and becomes the runtime's serving revision by default (`Add`).
  Applying it again clears its flag but not the pointer, which only `AddExplicit`
  gives up. When the refused row is deleted, the pass finds the flag as stored,
  keeps the tool and records the hash: the unqualified name goes on answering from
  a revision that no row selects, and every later pass skips.
* `redis_restart`: a lifecycle change is saved and its pass fails; a call caches a
  result of the old bindings; the process restarts. The first pass knows no old
  bindings and leaves the entry in Redis.
* `file_backed_race`: a file-backed plugin is bound between the bypass decision and
  the lookup of a call.
* `binding_aba`: a tool whose version the registry refuses is stored; a binding is
  applied, and its pass puts it in force and then ends at that tool without recording
  a hash. The binding is hard-deleted and its pass fails to read; the tool is
  hard-deleted. The tables are back at the recorded hash, every pass skips, and the
  deleted binding stays in force.
* `edit_race`: `context set` compares the file with what it read, the user saves an
  edit, the rename overwrites it, and the command answers success. The comment at
  `context_write.go:28` says that an external change between the read and the rename
  is refused.
* `early_refill`: with an idle time that earns less than the burst, a client uses its
  burst up, stays quiet for just longer than the idle time and has the whole burst
  again. The defaults are far from it.
* `migrate_race`: a migration finds no collision and waits for the lock; another
  migration moves everything and removes the global registry, which allows
  registrations again; one replaces the migrated entry on purpose; the first
  migration, without `--force`, writes the old entry back over it.
* `flush_skipped`: a write tool with `flushOn` takes its credential from a file.
  The middleware passes its call on before it comes to the auto-flush, and the
  read tools it lists go on answering from the cache.
* `denied_read`: `tool get`, `plugin get` and `plugin binding get` define an
  `--output` flag of their own, so their failures are printed as text, and the
  session falls back to the exit code: a read that the deployment refused as not
  authorized is answered `authentication_required`, not `authorization_denied`.

So the passing runs of the skip and liveness properties leave those causes out
by their constants, and say under which conditions the promise is kept:
`http_live` has no refused version and no failing erase, `stdio` no hard deletes,
`cache_safety` no refused tool and a cache that dies with the process. A version
the registry refuses also leaves the unqualified alias of its name on a revision
that no row selects (`stale_serving`), and, with hard deletes, a deleted
binding in force (`binding_aba`), which is why `cache_live` has none.
In `http_live` the same alias is out of reach only because of its two failures: a
crash and three failed passes in a row, with four saves, leave pointer and flag
apart even if every version is valid. `HttpSkipSafe` below says what excludes that for
any number of failures. `http_safety` has every cause. `files` has one migration at a time, `guarded_cache` no
file-backed tool with `flushOn`.

### Bounds

Two revisions of one name are enough for every sibling interaction (demotion,
pointer moves, aliases); a third that the registry refuses is added where
refusals matter. Two contents give conflicts and replacement after a hard
delete; in `stdio` they give the conflict that keeps the peer from replacing the
content of a deleted row. `MaxWrites` (3 or 4 saves) admits, promotes, deletes and readmits;
`MaxFaults` (1 or 2) allows a failure and, in `http_live`, a crash after it. Hard
deletes are not bounded by saves in `ControlPlane`: they only remove rows. One
caller shows each race with the control plane; two show that a withdrawal waits
for all and is not starved. In `PluginCache` one tool, one plugin version with two
specifications (environment and file-backed credentials) and one binding name
that may change phase suffice for a stale entry; the second caller stores while
the first executes. `cache_live` adds a tool that never registers. Deadlock is
checked in these runs; a tick is always possible. The other models stop when
their calls or commands are done.

`callpath`: three calls, two clients and a table of one entry fill both limiter
tables; a burst of two and an idle time of no tick make every limiter one that is
dropped before it is full; two failures open the breaker while the third call is inside; chains of
two bindings with different policies fail at either place, and one swap mixes two
snapshots. The deployments are grouped so that each question has its own: limits
that change, concurrent ERP calls, bindings. `guarded_cache`: two roles with one
guarded, one shared and expiring read and a write that flushes both, three calls,
so that a read and a flush by hand overlap a write; a capacity of two evicts; one
token that expires or is revoked within two ticks. `mgmt`: every tool of the
catalogue with every check failing alone (and with the confirmation of the
target), on five kinds of selections; two concurrent calls where the slot and
staging matter; one edit of the configuration. `files`: three processes, two names,
a crash and an edit.

### Fairness

`WF(ControlStep)`: the goroutine that holds `pluginLifecycleMu` keeps running.
`SF(Tick)`: the ticker asks again every ten seconds and `sync.RWMutex` hands the
lock to each waiter in the end, although between two handlers a tick is enabled
only for a moment. `WF(Restart)`: a supervisor restarts the process.
`WF(CallReturn)`: the connector's HTTP client has a 30 second timeout. Nothing is
assumed of operators, callers or failures; `MaxWrites` and `MaxFaults` make them
stop, which is the premise of convergence. `PluginCache!FairSpec` is the same
without callers.

`ManagementSession!FairSpec`: the session's own steps (`RunBusy`, `RunStarts`,
`Reply`, `RunReturns`, `Close`) are goroutines that run, `Deadline` is the timer that
`Run` always sets, and `Kill` is `exec.CommandContext`, which kills the child when its
context ends (the child starts no processes of its own that would keep its output
open). Nothing is assumed of the child, the network, the deployments or the editor.
`LocalFiles!FairSpec`: a process that has started runs on or dies.

## 4. Proofs

All theorems hold for every value of the constants that satisfies the `ASSUME`s:
any number of names, revisions, contents, callers, failures and writes.

| Theorem | States |
|---|---|
| `ControlPlaneProofs!TypeCorrect` | `HttpSpec => []TypeOK` |
| `ControlPlaneProofs!ServesOnlyAdmitted` | `HttpSpec => []RuntimeServesAdmitted` |
| `ControlPlaneProofs!CommittedCallsAuthorized` | `HttpSpec => []InFlightAuthorized` |
| `ControlPlaneProofs!DiscoveryCorrect` | `HttpSpec => []DiscoveryMatchesRegistry` |
| `ControlPlaneProofs!StdioTypeCorrect` | `StdioSpec => []TypeOK` |
| `ControlPlaneProofs!StdioDiscoveryCorrect` | `StdioSpec => []DiscoveryMatchesRegistry` |
| `ControlPlaneProofs!StdioCommittedCallsAuthorized` | `StdioSpec => []InFlightAuthorized`, for `HardDeletes = FALSE` |
| `AuthorityRefinement!HttpImplementsAuthority` | `HttpSpec => ImplementsAuthority` |
| `AuthorityRefinement!StdioImplementsAuthority` | `StdioSpec => ImplementsAuthority`, for `HardDeletes = FALSE` |
| `StoreProofs!ServingRowUnique` | `HttpSpec => []OneServingRow` |
| `StoreProofs!AdmittedContentImmutable` | `HttpSpec => ContentImmutable` |
| `StoreProofs!StdioServingRowUnique` | `StdioSpec => []OneServingRow` |
| `StoreProofs!StdioContentImmutable` | `StdioSpec => ContentImmutable` |
| `StoreProofs!StdioSkipSafe` | `StdioSpec => []SkipIsSafe`, for `HardDeletes = FALSE` |
| `StoreProofs!HttpSkipSafe` | `HttpSpec => []SkipIsSafe`, for `BenignFailures` |
| `PluginCacheProofs!CacheTypeCorrect` | `Spec => []TypeOK` |
| `PluginCacheProofs!BindingsKeepPlugins` | `Spec => []NoOrphanBinding` |
| `PluginCacheProofs!CachedResultsCurrent` | `Spec => []CacheMatchesSnapshot`, for `Persistent = FALSE` |
| `PluginCacheProofs!SkippedPassSafe` | `Spec => []SnapshotMatchesStore`, for `Poison = {}` |
| `GuardedCacheProofs!CacheCoherent` | `Spec => []TypeOK` |
| `GuardedCacheProofs!RevokedTokensRefused` | `Spec => []RevocationIsImmediate` |
| `GuardedCacheProofs!ResultsAuthorized` | `Spec => []AnswersAreAuthorized` |
| `GuardedCacheProofs!StaleOnlyOverlapping` | `Spec => []StaleOnlyByOverlap`, for `NoBypassedFlush` |
| `CallPathProofs!PermitsReturned` | `Spec => []PermitsReturn` |
| `CallPathProofs!ConcurrencyLimited` | `Spec => []ConcurrencyHolds` |
| `CallPathProofs!RateLimited` | `Spec => []RateHolds` |
| `CallPathProofs!ForgettingIsFree` | `Spec => OneTokenATick`, for `Burst <= TTL + 1` |
| `CallPathProofs!UnsafeRequestsSentOnce` | `Spec => []UnsafeSentOnce` |
| `CallPathProofs!BreakerCountsCalls` | `Spec => []BreakerSeesEveryCall` |
| `CallPathProofs!SuccessesWhole` | `Spec => []SuccessIsWhole` |
| `ManagementProofs!EffectsPinned` | `Spec => []EffectsArePinned` |
| `ManagementProofs!EffectsSanctioned` | `Spec => []EffectsAreSanctioned` |
| `ManagementProofs!SuccessesAcknowledged` | `Spec => []SuccessIsAcknowledged` |
| `ManagementProofs!SpecificFailuresTrue` | `Spec => []SpecificFailureMeansNoEffect` |
| `LocalFilesProofs!LocksOwned` | `Spec => []LocksAreOwned` |
| `LocalFilesProofs!AnswersTrue` | `Spec => []AnswersAreTrue` |
| `LocalFilesProofs!MigrationComplete` | `Spec => []MigrationMovesEverything` |
| `LocalFilesProofs!NoLostUpdate` | `Spec => EntriesChangeByName` |
| `LocalFilesProofs!NoneLeftByScrub` | `Spec => []ScrubLeavesNone` |
| `LocalFilesProofs!ReplacedOnlyWithForce` | `Spec => ReplacedOnlyByForce`, for `SingleMigration` |

*The control plane.* `RuntimeServesAdmitted` is not inductive. An apply registers
the resource of its request, so one must know that the row it admitted is still
there with that content; a pass registers rows it listed earlier, so one must
know that they are still what the table holds; a delete erases a row, so one must
know that the tool is already withdrawn. `HttpInv` adds these per step (`StepOK`,
`RequestOK`), that active rows have content (`RowsOK`), that an active tool holds
its pointer only if it is a revision of that name (`PointerOK`) and that a call's
snapshot has content (`CallOK`). All of it rests on `pluginLifecycleMu`: between the
listing and the last registration nobody else writes. The same invariant carries
the refinement, where the crucial steps are that a registration of an active
revision never changes its digest (both are the row's digest) and that a
withdrawal finds no reader.

*A stdio server.* It has no lock in common with the writer of its table, so almost
nothing of `HttpInv` is left: its registry and its listing may both be behind the
table. `StdioRuntime` keeps what does not depend on the table: pointers and
descriptors follow the registry (`RegistryOK`, shared with `HttpInv` through
`InstallKeeps` and `UninstallKeeps`), and what a pass has listed, and will register,
has content (`ListedOK`). This holds whatever the peer does. The authority boundary
needs more. `registerTool` replaces the content of an active revision without
waiting for its calls, and what makes that harmless is a fact about the store: a row
keeps its content through soft deletes and readmissions (`PeerKeepsContent`, from
the admission conflict), so the table, every listing of it however old, and the
registry agree on the content of an active revision (`ContentAgrees`). A registration
is then a grant or a stutter of the boundary. With hard deletes the fact is false,
and so is the theorem.

*Skipping.* A pass that skips is safe when the recorded hash is that of a table the
runtime agrees with. Both proofs follow a pass row by row: the rows it has visited
are in the registry as they were listed (`Visited`), after them nothing but the
listed rows and what the sweep has yet to remove is active (`Swept`), and pointer and
flags say the same before and after every step (`Consistent`); so a finished pass
leaves a registry that `Matches` its listing. Under a stdio server the peer writes
between the hash and the listing. Without hard deletes the stamp of a row only
grows, so a table that was left is never met again (`Past`), and a hash recorded for
another table never equals a later one (`StdioInv`); with them it can (`stdio_aba`).
In the HTTP server passes are needed only after a restart: admission and
registration with the serving default come to the same (`AdmitMatches`), and so do
withdrawal and deletion (`WithdrawMatches`), so that the handlers alone keep a runtime
that matches (`Ready` in `HttpSkipInv`), whether their own passes succeed or not. What has
to be excluded (`BenignFailures`) is what leaves a handler half done, a version the
registry refuses (`stale_serving`) and an erase that fails (`failed_delete`), and
reads that fail in a process that started on a table with rows: reads may fail, or
the process may die anywhere, but not both. Requests may be refused as they like.

*The cache.* A cached result is current because of three facts kept together in
`CacheInv`: bindings read by a call whose generation is unchanged are those in
force unless a pass is past its listing (and then the generation has moved);
after the flush of a pass every entry belongs to a tool whose bindings do not
change; nothing is stored while a writer holds the lock. `SnapInv` shows that
within a pass the table is the hashed one, so that the recorded hash is that of
the snapshot in force.

*The memory backend.* `GuardedCache!TypeOK` says that map and recency list belong
together: the list holds each key of the map once, and no more than the limit. A
removal takes keys out of the list with `Without`, a recursive function, so what it
returns needs induction. The induction principles with an operator parameter cannot
be used, but a least counterexample can: `LeastNumber` is the least-number principle
for a set of numbers, and `WithoutRest` gets from it that the list without some keys
has exactly the remaining elements, each once if the list had each once. `Bounded` is what every
operation of the backend keeps (`RemoveBounded`, `GetBounded`, `SetBounded`), and
`CacheInv` adds the ranges of entries, calls, flushes and the clock.

*Authorized results.* `AnswersAreAuthorized` speaks of answers; what carries it is
`AuthInv`: every call on its way has a role of its tool and of its identity, a
result it holds was fetched for its own role (`CallOK`), and the entries of a guarded
tool that is not shared were fetched for the role in their key (`OriginsOK`), which
every operation of the backend keeps because it only removes entries or adds one
under the caller's own key (`Shrinks`, `SetAdds`). It needs that tools have distinct
names and that no role is called `none` or `nobody` (the model's absent role and
the mark of an absent cache entry).

*Staleness.* `FlushInv` adds what holds between the scan and the deletion of a
flush: everything older than what the flush is for is among its keys or marked
(`late`), and so are results that wait to be stored; no flush covers more than the
ERP has seen. The hypothesis `NoBypassedFlush` is exactly what `flush_skipped` lacks.

*The call path.* That a permit comes back is no invariant of one entry: entries are
evicted when idle and replaced after a change of the limit, and a release must find the
entry its permit came from. `EntriesOK` says that an entry counts exactly its
holders, and that all of them know it by its identity and were admitted under its
limit; an entry that has holders is neither dropped nor replaced. `BucketOK` compares a bucket with
what its client may have: it has no more tokens, it is as old as its client is quiet,
and when it is old enough to be dropped, or was, its client may have the whole burst.
`Earned` adds, for `Burst <= TTL + 1`, that a quiet client has earned its burst tick by
tick, so that the drop gives it nothing. `SentOK` bounds
the requests of a call by its stage and method, `BreakerOK` counts the calls of the
breaker's own generation, so that the outcome of an older one changes nothing, and
`PhaseOK` follows a result through the plugins: what was transformed and validated,
and which fail-closed plugin failed. The set of calls is finite (the counts are
cardinalities), and `none` is neither a call nor a client.

*A management session.* The truth of an answer rests on what a child can have done
by the time it ends. `ChildOK` says that a child has sent nothing before its act, and
that from `PersistentPreRunE` on its settings are the pinned snapshot; `EndOK` that
its own end tells the truth: exit zero means the write happened or its request was
answered with a redirect, an end that the
classification calls a specific failure means that it did not and no message of it
is under way. A killed child says nothing, and the classification calls that
outcome unknown. `EffectOK` holds of messages and of effects alike, since a message
may be acted on long after its call was answered. Of the catalogue the proofs use
`DescriptorOK`, shown for each tool of the table: a side-effecting tool names a write
group, checks the confirmation and prints its errors as documents, and its command
fails in only one way once it has acted.

*Local files.* `Inv` holds per process what it may rely on: which steps belong to
which command (`Control`), that it has installed something exactly from its save on
(`Truthful`), what it knows of the global registry (`GlobalOK`) and that what it is
about to write differs from the file only in its own names (`ContextOK`). The last is
stable because the lock file excludes the other savers (`LocksOK`: a lock is held by
who created it, or by a dead process), and `GlobalOK` because only a migration
removes the global registry, after all of its names have arrived. `AloneOK`, that
names a migration found free stay free, needs a single migration, and
`migrate_race` is what happens with two. That a scrub leaves no raw credential is not
a fact about its last step, since it comes to a registry once: `CleanOK` says that raw
credentials are only in registries the scrub still has before it, and no step of any
command brings them into a registry that had none (`LegacyGoes`). There is at least one name.

*Only model-checked.* Liveness (`WithdrawalCompletes`, `Converges`,
`SnapshotConverges`, `CallsAnswered`, `SessionCloses`, `CommandsReturn`) is out of the
prover's reach. `SkipIsSafe` outside the hypotheses of its two theorems, with a crash
and reads that fail, is checked by `http_live` for its bounds. Every other property
of a passing run has a theorem.

## 5. Not modelled

Within the modelled components:

* control plane: builtin tools (never in the store, skipped by the sweep); a soft
  delete of the peer as two statements (it is one step here); two saves of one row
  within a millisecond; the order of a tool's bindings in `PluginCache`; authority
  observer hooks; notifications;
* cache: arguments as part of the key; Redis operations that fail (a failed
  automatic flush is logged and the old entries stay until they expire);
* access: hashing and header syntax; open log streams, which are authenticated
  when they are opened and stay open after a revocation;
* call path: construction of the request and mapping of the response; the rate
  limiter of the server and those of single tools are one table;
* bridgectl: commands a session does not run, output layout, error messages of a
  deployment that is not ERPBridge and writes braces into them;
* files: permissions, YAML comments and layout, directory creation.

Left out as a whole, with the reasons in `PROJECT.json`: the legacy migration (one
transaction before anything else runs), builtin tools, resources, prompts and
notifications (registered once), the API generator (text to text), the web
console (a projection of the API), logging, metrics, credentials and transport
security (output and single-shot checks).

## 6. Plan

1. (done) registry, store, control plane, authority, proofs of their safety.
2. (done) plugin lifecycle and cache, proofs.
3. (done) limiters, connector and plugin pipeline; tokens, roles and the memory
   backend with proofs; management session; local files.
4. (done) proofs of the skip, the call path, the management session and the local
   files.
5. (done) proofs of the stdio server, its authority boundary included, and of the
   memory backend.

The liveness properties stay with TLC.
