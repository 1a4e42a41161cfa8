# Armstrong Bot: a verification development

TLA+ modules, TLC instances and TLAPS proofs for the core of the bot
(`src/` is the repository; its TypeScript is under `src/src/`, its schema in
`src/prisma/schema.prisma`, its documents in `src/docs/`). The bot is a NestJS
monolith: modules call each other through ports, talk asynchronously through an
event bus, keep their state in MySQL (Prisma) and Redis (cache, BullMQ queues),
and may run as several processes over the same stores. Its hard behaviour is
not in any one function but *between awaits*: every `await` is a point where
another request, job, process or crash may step in. That is what the models
keep: one action per stretch of code between two awaits, with the data reduced
to what the properties tell apart.

Contents: [1 Inventory](#1-inventory) · [2 Modules](#2-modules-and-the-code-they-model)
· [3 Runs](#3-runs-what-is-checked-and-what-it-shows) · [4 Proofs](#4-proofs)
· [5 Findings](#5-findings) · [6 Limits](#6-what-is-not-modelled-and-why)
· [7 Plan](#7-plan)

## 1 Inventory

### How the parts interact

```
 Discord gateway / HTTP API / dashboard
        | calls
        v
   modules (audit, storage, webhooks, scheduler, notifications, metrics)
        |  publish                       ^  handlers
        v                                |
   event bus -- sync handlers -----------+
        |  async: BullMQ queue, worker, retries, dead letters
        +--> audit ingest (every recorded event) --> audit queue --> hash chain
        +--> outbound webhooks (integration.event, ...) --> delivery queue --> POST
   stores: MySQL (rows, unique indexes) · Redis (cache, BullMQ) · files (audit archives, objects)
```

### Components, their state, operations and correctness

| component | state it keeps | operations | what is hard | what makes it correct | here |
|---|---|---|---|---|---|
| **audit ledger** `modules/audit` | `audit_entries` (per chain: seq, hash, previousHash), `audit_archives`, archive files, ingest queue, an in-process promise per chain | enqueue, append with retry, retention sweep, verify, export | two slots or processes on one tail; crash between insert and ack; sweep and verification racing appends | chains stay linear and linked; no accepted entry is lost; nothing is pruned before it is archived; verification raises no false alarm | modelled, proved |
| **storage** `modules/storage` | `storage_objects` (hash, refCount, deletedAt), `storage_usage`, bytes in a driver | store with dedupe, delete, read, quota | catalogue, bytes, usage and refCount are separate awaits | a live row has its bytes; a held reference is counted; usage equals the live rows | modelled, proved |
| **webhooks** `modules/webhooks` | ingress and outbound delivery rows, claims in the cache, two queues, endpoint rows with a cached record per token | accept, process, dispatch, deliver, exhaust, replay; create, update, rotate, delete an endpoint | provider retries racing each other, failure between row and job, lost outcomes of a POST; an eviction that misses the token of another call | an accepted delivery is queued; published once per attempt; a target that took it is not sent it again; a rotated token stops resolving | mostly modelled, all of it proved |
| **event bus** `core/events` | event log, seen keys (cache), queue, dead letters, handler registry | publish, subscribe, process job, replay, discard | the key is marked before anything is done; handlers re-run on retry | a published event has a job; dispatched means handled; exhausted leaves a dead letter | modelled but for filters and correlation, proved |
| **scheduler** `modules/scheduler` | `schedules` rows, one-shot jobs, repeatable jobs, `schedule_runs` | schedule, replace, cancel, pause, resume, trigger, run, reconcile | row and queue are two stores without a transaction; the reconciler acts on what it read | the latest one-shot of a key owns its job; a deleted one is not waiting; a quiet pass leaves repeats = active schedules | modelled but for cleanup and run rows, proved |
| **notifications** `modules/notifications` | notification and delivery rows, dedupe claims, delivery queue | dispatch, deliver, exhaust, cancel | claim released on one path only; a cancel races the worker and the retry | a delivery is settled or somebody's; a cancelled one is not sent; one notification per key | dispatch, worker and cancel modelled, proved |
| **plugin lifecycle** `core/plugins` | registry entries (status, disposers, enabled guilds) and `plugins`, `plugin_enablements` rows | install, enable, disable, update, remove, removal of a guild, shutdown | registry and table are written apart; hooks may time out and go on | a plugin that is off handles nothing; table and registry agree | one plugin modelled, proved |
| **cache** `cache` | L1 map, L2 Redis, in-flight loaders | get, set, delete, getOrSet, invalidate | a loader that began before an invalidation stores after it; L1 of other processes | no copy older than the latest write survives it | modelled, proved |
| **dashboard sessions** `dashboard/backend` | sessions (cache and table) | create, resolve, destroy | the hot copy is read while the session is destroyed | a destroyed session is gone | modelled as a use of the cache, proved |
| **permissions** `core/permissions` | groups, grants, role mappings, inheritance; a cached snapshot | seed, grant, map, inherit, resolve | mappings and parents are ids, the resolver looks keys up | the mapped and inherited groups of a member decide | modelled, proved |
| **translations** `core/i18n` | overrides, bundles in Redis, bundles remembered by a process for good | edit, remove, look up, invalidate | one process hears of an edit; a lookup stores what it read before it | an edit reaches who looks it up | one key modelled, proved |
| **guild registry** `bot/infrastructure` | `guilds` rows (active) against the bot's membership | reconcile at ready, join, leave | the reconciliation works from a list that gets old | the dashboard calls present what the bot is in | modelled, proved |
| **guild settings** `modules/audit/config`, `shared/security` | one JSON column with a section per module, the cached audit section | update of a section, load | read-modify-write of the whole column by two modules | an answered change stays | modelled, proved |
| **tickets, API webhooks** `dashboard/backend` | one-time tickets | create, consume | get and delete of a ticket are two calls | a ticket opens once | not modelled |
| **metrics** `modules/metrics` | counters, thresholds | record, evaluate, alert | repeated alerts | one alert per breach | not modelled |
| **kernel, module system, health, configuration** | module graph, shutdown hooks | resolve order, start, shut down | order of start and stop | init order respects dependencies | not modelled |
| **Discord gateway, commands, HTTP API, persistence** | none of its own | translate and forward | – | – | not modelled |

`PROJECT.json` lists under *hazards*, at its line, what in this code a test would
hardly reach, and which property covers it or why none does. Beyond that list, the
survey noted: the rate limiter's separate zrem/zcard/zadd (over-admission),
`revokeAllForUser` leaving hot cache entries, tickets read and deleted in two calls,
and permission groups beyond depth 8.

## 2 Modules and the code they model

Conventions, the same in every module. A record `[pc |-> ..., ...]` per caller,
worker slot or pass holds the local variables of one asynchronous function; its
`pc` names the await it is suspended at. An action is what the code does from one
await to the next. `Fail`/`Fault` actions let an await throw (the `catch` and
`finally` blocks are then part of the action), `Crash` forgets everything that
lives in the process and keeps tables, cache, files and queues. Variables
commented *history* record what a property needs and no guard reads; variables
and constants commented *bound* cap the state space. A definition commented
*Mutant of D* is a plausible bug in the code `D` translates; nothing refers to it
in the models, it serves to show that the property it is paired with in
`PROJECT.json` would notice.

Reads of the database that may answer in more than one way (`ORDER BY ... LIMIT 1`
with ties, a lookup by a key that is not unique) are *sets of results*, from which
an action takes any.

### `JobQueue` – BullMQ as the bot uses it (external)

A job is `[state, failures, stalls]`. `Added` does nothing when the id is taken
(finished jobs are kept), `Rejected` retries until `Attempts` are used up,
`Stalled` re-runs a job whose worker died at most `MaxStalled` times. The event
bus, webhooks, notifications and scheduler modules extend it; the audit ingest has the same
three transitions written out, because its job ids are its drafts.

### Audit: `AuditChain`, `AuditTables`, `AuditIngest`, `AuditRetention`, `AuditVerify`, `AuditLedger`, `AuditTrail`

| module | code | correspondence |
|---|---|---|
| `AuditChain` | `audit.repository.ts`, `audit-chain.service.ts`, the unique indexes of `schema.prisma` | `ledger` = the rows of `audit_entries` per (scope, guildId); `FindLast`, `FirstSeq`, `Page` = the repository's reads; `Conflicts` = the unique index, which a NULL guildId escapes; `Hash` is the collision-free tuple of what the digest covers |
| `AuditTables` | `audit_archives`, the clock | `FindAnchor`, `CreateArchive` |
| `AuditIngest` | `audit-ingest.service.ts`, `audit.queue.ts`, `audit-ingest.processor.ts` | `Enqueue` (job id = dedupe key); `Take` → `ReadTail` → `InsertOk` / `InsertConflict` / `RetriesExhausted` → `Complete` are the awaits of `process`, `withChainLock` and `appendWithRetry`; `chainLocks` is the map of promise chains of one process |
| `AuditRetention` | `retention.service.ts`, `audit-archive.store.ts` | one action per await of `run`/`sweepChain`, the archive file opened with `wx` |
| `AuditVerify` | `audit.service.ts` `verifyChain`, `AuditChainService.verify` | first seq, anchor, then batches |
| `AuditLedger` | the module as a whole | composes the three over one ledger, with crashes and a clock |
| `AuditTrail` | – | the abstract specification: per chain a linked trail that grows at its top by requested entries and shrinks from its bottom |

`AuditLedger` implements `AuditTrail` under the mapping `requested <- {drafts whose job was
ever added}`; everything else maps to itself (`Trail!TrailSpec`, property
`ImplementsTrail`).

Two things the models make precise. After a chain is pruned empty the next entry
has seq 1 again (`last?.seq ?? 0n`), and an append that read the old tail before
the prune may still land above it: a verification that began in between finds a
first row above 1 without an anchor (`verifier[v].first = 0` in
`BrokenOnlyWhenPruned`). And a sweep that saw no entry inside the window takes its
bound from a later read, so an entry that lands in between is archived and pruned
although it is fresh (left out of `PrunesAreSafe` by `retained # 0`).

### Storage: `StorageObjects`

`store` is lookup → (hit: increment) or (miss: put → create → account) → return;
`delete` is requireObject → softDelete → decrement → release, as in
`storage.service.ts`. `objects` are the rows of `storage_objects` in creation
order, `bytes` the keys the local driver holds (a key is scope and content hash,
`content-hash.util.ts`), `usage` the row of `storage_usage`. `held` and `granted`
(history) are the references `store()` handed out. `doubled` remembers that two
deletes of one row overlapped: both pass `requireObject` and both subtract, so
usage and refCount drift; the properties that would break say so in their premise.

### Webhooks: `WebhookInbound`, `WebhookOutbound`, `Webhooks`

`WebhookInbound`: `accept` of `inbound-webhook.service.ts` await by await (row
lookup, claim has/set, recheck, create, verify, enqueue, the releasing `catch`), the
path of a request whose signature does not verify, `process` in the inbound
worker, claim expiry and the administrator's replay. `WebhookOutbound`:
`doDispatch`, `deliver`, the outcome classes 2xx / 4xx / retry, and `onExhausted`,
which the worker starts and does not await. `Webhooks` joins them: the first
`integration.event` published by the ingress half is dispatched by the egress
half (a bound: later ones are not followed).

### Event bus: `EventBus`

`publish` of `event-bus.service.ts` (isDuplicate, markSeen, persist, sync handlers,
enqueue), `processJob` of `async.dispatcher.ts` (handlers in order, first throw
ends the attempt, dead letter and log status on the last), replay and discard of
`event-replay.service.ts`. Handlers are sequences, run in order; a handler that is
delivered both ways is in both; none is in a sequence twice, since the dispatchers keep
their registrations in a Set. The calls of `publish` are numbered slots, of which
a new call takes the lowest free one (no definition tells slots apart), and faults and
crashes share one bound.

### Scheduler: `ScheduleTable`, `ScheduleCalls`, `ScheduleWorker`, `ScheduleReconciler`, `Scheduler`

`ScheduleTable` holds the two stores that the code keeps in step by hand: the
`schedules` rows (soft-deleted rows included, since they keep their place in the
unique index) and the queue (one-shot jobs under the deduplication key,
repeatable jobs, instance jobs). `ScheduleCalls` is `scheduler.service.ts`
(every call works on the row it first read), `ScheduleWorker` is
`scheduler.worker.ts` with `terminalStatusFor`, `ScheduleReconciler` is one pass of
`schedule.reconciler.ts`. `Scheduler` composes them with crashes and faults;
`entangled` (history) remembers the keys on which two actors overlapped: two calls, a call
and a running attempt, or a cancel of a schedule whose key has passed to another one.

Assumptions and bounds of the model: the listing of repeatable jobs carries the
schedule's id (`r.id ?? r.key`; were the id absent, a pass would remove what it has
just added); one instance job per schedule is in the queue at a time; the calls of
one behaviour are about one key (`subject`); the rows of `schedule_runs` are left out
because nothing reads them back; a deduplication key is neither null nor the id of a
schedule (`OnceKeys \cap RowIds`, `"none"`), as the ids of instance jobs never
coincide with keys; cron drift is left out because no operation
changes the cron of an existing row.

### The services of the core, composed by `Services`

Nine modules of moderate size share no state with one another: what couples them in
the code (an event that starts a call, a job, a cached copy) is inside each of them.
`Services` is their *sum*: a behaviour is one of exactly one of them, named by `focus`,
and the others stay as they began. A product would only multiply the states of
parts that cannot affect each other, so nothing is lost, and one instance answers
for all of them. A call that throws, a crash and an expiry share one bound per
service.

| module | code | state and actions |
|---|---|---|
| `EventBus` | `core/events` | above |
| `PluginLifecycle` | `plugin.application-service.ts`, `plugin-lifecycle.service.ts`, `plugin-registry.ts`, `plugin.repository.ts`, `plugin-api.ts` | one plugin: `plugin` and `enablement` are its rows, `entry` its registry entry, `subs` the live subscriptions of its hooks, `running` the hooks under way. A call goes requireRecord/assertTransition → hook (raced against a timeout, after which it may run on: `HookTimesOut`, `HookEndsLate`) → status in memory → status in the table. Calls are numbered in the order they start; a call is also the name of what its hook subscribes |
| `Notifications` | `notification.service.ts`, `dedupe.service.ts`, `delivery.processor.ts`, `queues.ts`, `notification.repository.ts` | dispatches of one dedupe key, numbered as they start: `claimed` is the key in the cache (has and set are two steps), `delivery` the rows, `deliveryJob` their jobs; a courier slot goes find → send → settle; `exhausting` is the handler of a used-up job, `cancel` is `cancelPending` |
| `TwoLevelCache` | `cache.service.ts`, `memory-cache.store.ts`, `redis-cache.store.ts`, `permission-cache.facade.ts`, `session.service.ts`, `session.repository.ts` | one key: `l1` per process, `l2` in Redis, `row` the version in the table. `use` says what the key holds: a permission *snapshot* (filled by `getOrSet`, single-flight through `inflight`; the several queries of a snapshot read one version) or a dashboard *session* (stored in Redis at login, destroyed once, never filled) |
| `Permissions` | `permission-resolver.service.ts`, `permission.service.ts` (`createTierDefaults` in it), `claim.value-object.ts`, the repositories of groups, mappings and inheritance | the four tables and every operation on them; `Visited` and `Allowed` are the resolver's walk and verdict on one claim. The claims that cover the required one form a chain (`*`, `a.*`, `a.b`), so a claim is its place in it. `Key` and `Id` keep a group's two names apart |
| `Translations` | `translation.service.ts`, `translation-loader.ts`, `db-bundle.source.ts`, `prisma-translation.repository.ts`, `translations.controller.ts` | one key of one locale in all scopes: `texts` the rows, `bundles` in Redis, `remembered` the `memoryBundleCache` of each process; a request edits a row and tells of it by an event that one process takes. One lookup at a time per process; `CacheService` stands here as its Redis level |
| `GuildRegistry` | `guild-registry.repository.ts`, `bot-gateway.listener.ts` | `member` is the bot's membership, `guildRow` the table. Joins and leaves come from Discord (external); each starts a handler with one write, and `ready` reconciles guild by guild from the list it took |
| `WebhookEndpoints` | `webhook-endpoint.service.ts`, `webhook-endpoint.repository.ts`, `inbound-webhook.service.ts`, `webhook-admin.controller.ts` | one endpoint: its row, `byToken` the record cached under a token, deliveries that resolve a token (cache, row, store) and calls that read, write and evict. One process: the two cache levels change together |
| `GuildSettings` | `audit-config.service.ts`, `security-config.service.ts` (`shared/security`), `audit.controller.ts` | `column` is the JSON column, a section is the *set of changes* it holds, so that a lost change is one that is missing; `retention` is the cached audit section |

History variables say where a promise ends: `late` (hooks the last drain of disposers
came too early for), `astray` (the writes of two calls crossed, or one failed),
`stranded`, `raced`, `clean`, `alone`, `suspect`, `clouded`, `exposed`. Each is set by the
overlap or failure its comment names, and by nothing else.

## 3 Runs: what is checked and what it shows

All instances are exhaustive. `CHECK_DEADLOCK FALSE` appears where an instance ends:
its bounds (rows, envelopes, requests sent, drafts) are used up. The audit instances
with a sweep or a verification need it not, since those may always start again.

| run | instance | shows |
|---|---|---|
| `audit_retention` | one process, two slots, two drafts, the GLOBAL chain (no unique index), one sweeper, one crash, two attempts, one stall | `SurvivingChainVerifies`, `CompletedIsKept`, `OneRowPerRun`, `ArchivesComplete`, `PrunesAreSafe`, and `ImplementsTrail`, whose trail is linked |
| `audit_verification` | the same with three drafts and one verification, without crashes | `BrokenOnlyWhenPruned`: a false alarm needs a prune that overlapped the verification |
| `audit_two_processes` | two processes (one and two slots) on a guild chain | `ChainsIntact` across processes, thanks to the unique index and the retry; `QueuedSettles` under `FairSpec` |
| `audit_global_fork` | two processes on the GLOBAL chain | violation of `ChainsIntact` (finding 1) |
| `storage_calls` | two overlapping calls, two bodies, quota for one, three rows, one failed call | `LiveHaveBytes`, `HeldAreCounted`, `UsageMatchesCatalog`, `OvershootBounded` |
| `storage_reclaim` | one call at a time, no failure | violation of `ReclaimableIsOrphaned` (finding 2) |
| `webhooks` | two requests race over one delivery with an id, one subscription, one crash, one fault | `AcceptedIsQueued`, `PublishedPerAttempt`, `OneAckUnlessLost`, `DeadLettersComplete` |
| `webhooks_retry` | one request after the other, one fault | violation of `RetryNotDropped` (finding 3) |
| `events` | `Services`, one service per behaviour; the instances are in the table below | 3.06 million states; the properties are in the table below |
| `permissions_roles` | the same instance | violation of `MappedGroupsCount` (finding 5) |
| `scheduler` | two callers, one worker, a bot-wide reminder, a bot-wide and a guild's recurring schedule, one crash or fault | `ReplaceKeepsJob`, `OneShotsOwnJobs`, `Converged`, `SoleDefinition` |
| `scheduler_replace` | the reminder belongs to a guild, no failure | violation of `ReplaceKeepsJob` (finding 4) |

Every model's type invariant is checked too (the audit one in `audit_retention`, those of
the services as `ServicesTypeOK`).

The services within `events`:

| service | instance | property: what it says |
|---|---|---|
| event bus | two publishers, a keyed event delivered both ways and an unkeyed async one, two handlers, one worker, one fault or crash | `OutcomesAreTrue`: dispatched or completed means every handler returned, given up means a dead letter. `KeyedRunsOnce`: publishers that race over a key make one job. `ReportedIsQueued`: what publish or replay reports is queued |
| plugin lifecycle | three calls, one guild, one failed write or restart | `QuietOnceDrained`: a plugin that is off handles nothing, but for a hook that ran on. `StatusAgrees`: table and registry agree once no call is in flight |
| notifications | two dispatches of one key, two channels, one courier, two attempts, one mishap | `UnsettledHasJob`: an unsettled delivery is on somebody's list. `CancelledStaysUnsent`: what was cancelled while nobody worked on it is never sent. `KeyNotifiesOnce`: one notification per key |
| cache, sessions | two readers and a writer in one process, a writer in another, one Redis fault | `NoCopyOutlives`: after the latest write no older copy is in Redis or in its process |
| permissions | two tiers, one role, two claims | `MemberGroupDecides`: what the resolver in fact computes, against a definition without the walk |
| translations | one process answering for a guild, one for everybody, two edits, one slip | `EditReachesHandler`: the latest global edit reaches Redis and the process that handled its event |
| guild registry | two guilds | `PresentMeansMember`: active rows are the membership |
| webhook endpoints | three tokens, two deliveries, two calls, one mishap | `CachedRecordIsCurrent`: a cached record is the row, so a rotated token stops resolving |
| guild settings | two changes of each module, one upset | `AnsweredChangesStay`: an answered change is in the column and in what is served |

### Why the bounds are enough

*Two* of a kind is where interleavings begin: two slots contend for a lock, two
requests for a claim, two calls for a row, two publishers for a key. *Two
attempts* distinguish a first failure (retry) from the last one (park, dead
letter). *One crash* or *fault* can strike at any await, and recovery from it must
work from whatever it left; a second one mostly repeats the first. Two or three
drafts give a chain a first, a middle and a last entry, so that a prune may leave
some of it; batches of one make every scan take several steps. Two rows give the
scheduler an old and a new schedule of one key. `MaxHeld` 2 gives one stored object two
holders; a third row lets an object be stored, deleted and stored again while another
one exists. The attempts of a queue, its stalled count, quota and batch sizes are
parameters whose real values are larger; no guard depends on their size beyond the
comparisons the instances exercise on both sides.

Where a theorem covers every value (nearly everywhere, see section 4), the instance is there to find out whether the formula holds and to fire
every action, and is kept small.

Symmetry is declared for storage calls, webhook requests, scheduler callers, the slots
of one process, drafts and bodies, none of which a definition tells apart, and never in
the run with liveness. Publishers, plugin calls, dispatches and tokens are numbered
instead: the lowest free number is taken, which makes the same reduction.

### Fairness

Only `AuditLedger!FairSpec` states fairness, for `QueuedSettles`: weak fairness of
every slot's own steps (a live process keeps executing its event loop; a worker
with a free slot takes a waiting job, BullMQ's blocking fetch) and of the stalled
check per job (a timer of BullMQ that fires for as long as a worker of the queue
exists). Nothing is assumed of failures, crashes, sweeps, the clock or callers. It
is enough because `appendWithRetry` gives up after `MAX_APPEND_ATTEMPTS`, a job after
its attempts and a stalled job after `maxStalledCount`.

### Mutants

Every property of every passing run is paired in `PROJECT.json` with a mutant of the
code it is about (a lock not taken, a page not read, a status not filtered, a
counter not incremented) under which TLC finds the property violated in the run's
own instance.

## 4 Proofs

Eight modules hold the theorems. They are about every value of the constants: any
sets of chains, drafts, slots, processes, subscriptions, workers, keys, callers, guilds
and tokens, any number of attempts, crashes, faults and days.

| module | theorem | statement | assumes |
|---|---|---|---|
| `AuditLedgerProofs` | `TypeCorrect` | `Spec => []TypeOK` | the modules' named assumptions |
| | `OneProcessChainsIntact` | `Spec => []ChainsIntact` | `OneProcessOnly`: all slots run in one process |
| | `IndexedChainsIntact` | `Spec => []ChainsIntact` | the unique index covers every chain, no sweep runs; any number of processes |
| | `OneProcessImplementsTrail` | `Spec => ImplementsTrail` | `OneProcessOnly` |
| | `IndexedImplementsTrail` | `Spec => ImplementsTrail` | as `IndexedChainsIntact` |
| `AuditRetentionProofs` | `OneSweepArchivesComplete`, `OneSweepPrunesSafely`, `OneSweepChainVerifies`, `OneSweepBrokenOnlyWhenPruned`, `OneSweepKeepsCompleted` | `Spec => []ArchivesComplete`, `PrunesAreSafe`, `[]SurvivingChainVerifies`, `[]BrokenOnlyWhenPruned`, `[]CompletedIsKept` | `OneProcessOnly`, `OneSweeper`: no two sweeps at once, `ArchiveBeforeDelete` |
| | `OneEntryPerRun` | `Spec => []OneRowPerRun` | the modules' named assumptions |
| `StorageObjectsProofs` | `StorageTyped`, `BytesStay`, `HeldStayCounted`, `UsageMatches`, `OvershootStaysBounded` | `Spec => []TypeOK`, `[]LiveHaveBytes`, `[]HeldAreCounted`, `[]UsageMatchesCatalog`, `[]OvershootBounded` | `StorageAssumption`: callers are finitely many and there is one, some body is the largest |
| `WebhooksProofs` | `WebhooksKeepTypes`, `AcceptedHasJob`, `PublishedOncePerAttempt`, `AcksAreLostOrOne`, `ExhaustedRowsSettle` | `Spec => []TypeOK`, `[]AcceptedIsQueued`, `[]PublishedPerAttempt`, `[]OneAckUnlessLost`, `[]DeadLettersComplete` | the modules' named assumptions |
| | `AttemptsStayBounded` | `Spec => []AttemptsBounded` (no run: the queue's own counting gives it) | the modules' named assumptions |
| `QueueProofs` | `BusKeepsTypes`, `OutcomesToldTruly`, `KeyRunsAsOneJob`, `ReportedIsOnItsWay` | event bus: `Spec => []TypeOK`, `[]OutcomesAreTrue`, `[]KeyedRunsOnce`, `[]ReportedIsQueued` | `EventsAssumption` |
| | `NotesKeepTypes`, `NothingFallsThrough`, `CancelIsFinal`, `DedupeHolds` | `NotificationsSpec => []NotificationsTypeOK`, `[]UnsettledHasJob`, `[]CancelledStaysUnsent`, `[]KeyNotifiesOnce` | `NotificationsAssumption` |
| `SchedulerProofs` | `SchedulerKeepsTypes`, `ReconcilerConverges`, `OneDefinition`, `OneShotsKeepJobs` | `Spec => []TypeOK`, `[]Converged`, `[]SoleDefinition`, `[]OneShotsOwnJobs` | the modules' named assumptions, in them that callers are finitely many |
| | `UnscopedKeepJobs` | `Spec => []ReplaceKeepsJob` | no one-shot key belongs to a guild (finding 4 says why) |
| `ServicesProofs` | `PluginStaysQuiet`, `PluginStatusAgrees` | `PluginSpec => []QuietOnceDrained`, `[]StatusAgrees` | `PluginAssumption` |
| | `MemberDecides` | `PermissionsSpec => []MemberGroupDecides` | `PermissionsAssumption`: finitely many tiers, and `createTierDefaults` has something to seed |
| | `RegistryAgrees` | `RegistrySpec => []PresentMeansMember` | none |
| | `ChangesStay` | `SettingsSpec => []AnsweredChangesStay` | `GuildSettingsAssumption`: the two modules' changes are disjoint |
| | `ServicesTyped` | `ServicesSpec => []ServicesTypeOK` | the services' assumptions |
| | `ServicesAreSafe` | `ServicesSpec =>` always all fourteen safety properties of the services | the services' assumptions |
| `CacheProofs` | `NoCopySurvives` | `CacheSpec => []NoCopyOutlives` | `CacheAssumption` |
| | `EndpointsStayCurrent` | `EndpointsSpec => []CachedRecordIsCurrent` | `WebhookEndpointsAssumption` |
| | `EditsReachHandler` | `TranslationsSpec => []EditReachesHandler` | `TranslationsAssumption`: no guild is called "null" |

A service's theorem is about the specification of the service alone; `ServicesAreEach` shows
that a behaviour of `Services` is one of each of them (the others stutter), from which
the last two theorems follow.

### The audit ledger

`OneProcessOnly` is what finding 1 shows to be needed: with two processes the claim
is false for a chain without the unique index. On chains the index covers it rests on
the index and the re-read after a conflict instead of the lock: `IndexedChainsIntact`
(and the run `audit_two_processes`). There no sweep may run: once a chain was
pruned empty, one process starts it at seq 1 again while another may still append to the
tail it had read.

The retention theorems rest on two more assumptions. `OneSweeper`: a sweep is a repeatable job
of the audit queue (`audit-ingest.processor.ts:84`), and with two at once TLC finds
`ArchivesComplete` violated; the queue makes an overlap unlikely and a stalled job does
not exclude it. `ArchiveBeforeDelete` is the default of its setting (`audit.config.ts:29`).
`OneEntryPerRun` needs neither.

**The inductive invariants.** `ChainsIntact` alone is not inductive: a slot about to
insert may have read anything. `TypeInv` adds `InsertersHoldLock` to the type
invariant: a slot suspended between its read of the tail and its insert is at the
head of the promise chain of its chain (the head can only be removed by its own
release, `ReleaseKeepsHolders`). With one process two such slots on one chain are the
same slot. `SafeInv` adds `TailsFresh`: the tail that slot read is still the top of
its chain, or the chain was pruned empty since: only an insert makes a new top,
and an insert needs the lock. From that, an insert puts a row on top that follows
the last one (`AppendKeepsIntact`, `InsertOkSafe`), and a prune removes a bottom part,
which leaves every remaining row but the lowest its predecessor
(`PruneKeepsIntact`, `PruneSafe`). `TrailInv` adds `TasksRequested` (a slot works only on a
draft whose job was added), which the step simulation needs: every step of `Next`
maps to `Request`, `Record`, `Prune` or a stutter of `AuditTrail` (`TrailStep`).
`TrailStep` asks of the inserts only that they are on top, which the lock gives one process, and
the index any number of them (`IndexAdmitsTop`).

The conjuncts were model-checked before they were proved. The repository's `LIMIT 1` reads are
specified as sets of possible results, so that few proofs need a fact about
which element a finite set of rows has as its maximum.

**Retention.** `RetentionInv` adds to `SafeInv` what every await of a sweep may rely on
(`SweepHolds`). `ReadsHold`: what it has read of its chain is still the bottom of it, because
only its own prune takes rows away. `BoundHolds`: the bound is a row of the chain, below
everything the sweep saw inside the window. `FileHolds`: the file has exactly the rows up to
the cursor, all of them once it is closed, and from the archive record on, the
anchor at the bound is this record. `ChainsWhole` (no gap between two rows) makes a
segment `fromSeq .. toSeq`; `FirstLinked` ties the lowest row to seq 1 or to an archive
that ends below it, and `StaleTailsAnchored` does so for the tail
an append still holds although it was pruned. `OneSweepChainVerifies` is that invariant
read as a verification reads it.

**Verification.** `ScanInv` says of a verification from whose chain nothing was pruned
since it began that all it has scanned was linked and is still there, so that its next batch
continues where it stands (`ScanHolds`).

**Entries.** `EntryKept` puts the entry of a job at its `complete` step among the rows and the
archived rows, which only grow. `EntryInv` counts: `OneSlotPerJob` keeps a job in one slot at
most, and a draft has an entry for each stall and, if the present run inserted
already (`Entered`), one more.

### The scheduler

`ShapeInv` is the type invariant with what makes it inductive: a call knows the row it read
(`CallsKnow`), and there is room in the table for every call on its way to a row
(`RoomLeft`), since a call starts only when there is.

*One-shots and definitions.* The properties except the keys that are `entangled`;
`ClearInv` says what is left on the others: one call at most, no running attempt under it, and
a cancel only of the schedule that has the job. On such a key `SoleInv` follows a
definition from the lookup to the create (the lookup's answer is still true), and
`OwnInv` follows the job: what the call at each await knows of row and job, that a
deleted row which recorded a job has lost it, and that the latest live one has it unless the
call is just replacing it. `OneShotsKeepJobs` needs no assumption on the keys, because a
create that the unique index refuses leaves no live row.

*A replaced one-shot has a job* (`UnscopedKeepJobs`). `KeepInv`: as long as nothing was
cancelled, paused or cut short, a key without a job has no recorded schedule, or
a call about to add one. That call may be a different one from the one that removed the
job, so the proof has no need of `entangled`. For a key of a guild it is false
(finding 4): the create between removal and add is refused.

*The reconciler.* `Converged` speaks of the end of a pass that nobody disturbed. Its inductive
strengthening `ConvergeInv` says at every await of the pass what is still to be
done: after the first read the active rows it holds are the active rows, after the
listing `missing` and `orphans` are the two differences between the sides, and
between adding a repeatable job and recording its key exactly that row is both in
the queue and still in `missing`. Any step of another actor that changes the active
rows or the repeatable jobs sets `changed`, after which the invariant asks nothing. It also needs the rows
to be rows (`RowsTyped`, kept by every step of calls, worker and pass).

### Webhooks

`EgressInv` has, beside types, `OneSender` (an active job is with at most one
worker), `NotStarted` (what `doDispatch` has not reached has no job, so a job is
added once), `AckInv` and `AttemptInv`. `AckInv` splits a row by its status: one that
is not processed had every answer of 2xx recorded as lost, unless a worker is about to
record it right now; once it is processed no worker is on its way to a POST,
because `deliver()` reads the status first. A crash or a failed update turns the
answer that was about to be recorded into a lost one (`OneRecording`: there is at most
one). `AttemptInv` relates the `attempts` column to what the queue counted: a worker that
has not recorded yet sees no more attempts than failures and stalls, and a job that waits
or failed has none outstanding. `LettersInv` has what becomes of an exhausted job: the step
that parks it hands its row to `onExhausted`, which ends when the row is settled.

`InboundInv` is about the ingress half. `RowsAccounted`: every row has a job, a request
on its way to enqueue it, or was given up by one (`abandoned`, `unsigned`), and every
delivery that was answered has a row. `RequestsKnow` says what a request holds at each of its
awaits, `IdsUnique` is the unique index, `OneWorker` keeps an active job with one worker, and
`PublishInv` bounds the publications of a row by the attempts its job counted, with
one more while an attempt has published and is not counted yet.

### Event bus

`BusInv` has four parts beside types. What a publisher knows at each of its awaits (`PubOK`) and
who owns an active job (`WorkOwned`). `OutcomesInv`: the handlers before the one an attempt is
at have all returned, in this attempt or before. `LettersInv`: an attempt is at its last
step only after the letter was inserted, or the insert threw. `RunsInv`: handlers from the
worker's on ran no more often than attempts are over. `ReportedInv` names who answers for
a key that was marked: the job, a call still `Committed` to enqueue, or a call that broke. That a
job has the id of its key (`JobId`) makes racing publishers share it.

### Notifications

`NotesInv` has `RowsPlanned` (rows exist once planned, and have a job only after the dispatch let
go of them), `OneCourierEach`, `CancelsClear` (a cancel that has updated leaves nothing
pending, so the jobs it removes are of no pending row), `LeftAlone` (of a delivery
cancelled in quiet a courier gets no further than the read) and `ClaimHeld` (who holds the
key holds it alone, as long as no two claims overlapped).
`UnsettledHasJob` is inductive beside them.

### Storage

`StorageInv` has `Typed`, `BytesInv` (a call about to catalogue an object has put its
bytes; nothing takes bytes away) and `CountInv`. `HeldAreCounted` is not inductive, since a
reference is counted one or two awaits before `store()` hands it out. `Owed` adds
those calls (`Pending`) to the references that are out, and `Counted` says that the column
covers them, with one more while a `delete()` has taken its reference and has not
subtracted it. Two deletes of one row break that, which is what `doubled` excludes. `Owed`
is a cardinality, hence the assumption that callers are finitely many.

*Usage.* `UsageMatchesCatalog` speaks of states where no call is under way; on the
way there the usage lags behind. `Charged` says by how much, row by row: a row counts
(`Value`) its size, but not while a `store()` has not charged it (`Opening`), and
no more once a `delete()` took it back (deleted, and nobody is `Closing` it). The usage is the
sum of these values at every step, by bytes and by number (`Total`, over any measure of keys).
`Paired` makes it inductive: one call charges a row and one takes it back, if no two
deletes overlapped, and both under the row's own key. A step changes the sum by the
change of one row (`SumChanges`), a new row adds nothing (`TotalOfCreate`).

*Overshoot.* `Bounded` is what makes the bound hold while calls are in the middle of
`store()`: of the calls that passed the quota and did not catalogue their object yet
(`Arriving`) one counts with its own size, the last to be let in, and each other with the
largest. When a call is let in the usage had room for its object, and what
is live beyond the usage is at most one object per call about to charge
(`LiveAtMost`); those calls, the arriving ones and the one let in are different callers,
so n - 1 of them besides it.

### The plugin

`QuietInv` bounds everybody who has subscribed or still may without starting a hook
anew (`Noisy`: subscriptions, running hooks, an update that loads): out of the registry
they are all in `late`, and while disabled in `late` or in a call whose own end drains
again (`Ending`).

`StatusInv`: while no write failed or crossed another (`astray`), at most one call is on its way
to write a status (`Writing`) and the status it will write (`Written`) is the one of
the registry; with nobody on the way the row has it. That nobody else is at work while a
row is being inserted or buried, or the registry has no entry, is in it because the calls'
guards read the registry and the table alike.

### Permissions

`MemberGroupDecides` is no invariant of steps but a fact about the resolver, which holds in every
state of the right types. The mappings and the parents of a loaded group are ids, so that the walk
finds no group under them: by induction over its depth it stays at the default group
(`Walk`, a recursive function; the induction is a least counterexample). The verdict
over the claims of that group is then the one of the definition without the walk.

### Cache, endpoints, translations

`CacheInv` rests on `AloneWhileWriting`: as long as a write counts as clean no read that
missed memory is under way, so whoever fills a level later read the row after the
write. `SnapshotCurrent` says level by level what is current once the writer's handler
and its Redis deletion are done; `SessionGone` says that nothing fills a session's key, so
its deletion is final. `EndpointsInv` adds to the property that a record is cached
under the token it carries (`RecordsMatch`) and that a delivery about to store holds the
row as it is, unless the token is clouded or about to be evicted (`StoresCurrent`).
`ReachInv` says of an edit that nothing overlapped how far it got at each of its stages
(`AloneReaches`): no lookup of its bundle, then no remembered bundle, then none but fresh ones
in Redis, in its process and in every lookup under way; `RowsKnown` keeps the row a
request found the row it writes.

### Guilds

`RegistryInv` says of a guild that is not suspect (`Trusted`) what holds while `ready`
runs (`UpsertingOK`: its list still is the membership, and nothing is on its way) and after
it (`SettledOK`: at most the one write that fits the membership is). `SettingsInv` says that a
stored change is in every read of the column that will be written back (`Carried`) and in
what is cached or about to be (`Served`).

### Only model-checked

`QueuedSettles`, since TLAPS does not prove liveness under fairness here. Every invariant and
the one action property of the passing runs, and the refinement, have a theorem. Where an
invariant rests on a sum over rows or a walk over groups, the library's induction
theorems do not help (they take an operator as a parameter, which the installed
provers cannot instantiate). `UpTo` in `StorageObjectsProofs` is the induction they leave room for: over
the *set* of the numbers for which a fact holds, by the well-foundedness of `<`. The
definitions are recursive functions (`SumTo`, `Walk`), about which `SumsAre`, `SumsExist` and `SumIs` get what
the fold of the community modules, an operator of operators, would not give.

The theorems keep the premises of the properties, which the histories of section 2 record, and
some add their own: one process (or the unique index on every chain and no sweep), one
sweep at a time that archives before it deletes, no one-shot of a guild. Findings 1 and 4
are TLC's counterexamples without the first and the last of these.

## 5 Findings

1. **The GLOBAL audit chain may fork** (`audit_global_fork`). Its `guildId` is NULL, MySQL
   holds NULLs distinct, so `@@unique([scope, guildId, seq])` (`prisma/schema.prisma:779`)
   rejects nothing there; the comments at `audit-ingest.processor.ts:32` and
   `schema.prisma:754` rely on it for a second bot instance.
2. **A row offered for reclaiming may share its bytes with a live one** (`storage_reclaim`).
   `findDeletedWithZeroRefs` (`storage-object.repository.ts:192`) selects by row; a
   content-addressed key stored again after a delete has a second, live row.
3. **A provider's retry is dropped** (`webhooks_retry`). `accept` releases the cache claim when a
   step fails, but the row it created answers the retry as a duplicate
   (`inbound-webhook.service.ts:101`), although the row has no job.
4. **Re-scheduling a guild's one-shot loses its job** (`scheduler_replace`).
   `scheduleOnce` removes the pending job and soft-deletes its row, which stays in the
   unique index; the create that follows is refused (`scheduler.service.ts:84`). The same
   holds for scheduling a key again after its first run completed.
5. **A role's permission groups never count** (`permissions_roles`).
   `buildRoleToGroupsMap` (`role-mapping.repository.ts:48`) and the parents of a loaded group
   are ids, while the resolver looks groups up by key
   (`permission-resolver.service.ts:32` and `:121`): only the group "member" decides.
   `docs/architecture/05-permissions.md:34` says that a member's effective groups include those
   mapped to the member's roles.

Behaviours the properties had to make room for, each visible in a premise: a crash
between the removal and the add of a one-shot leaves a schedule without a job
for good (the reconciler looks at recurring schedules only); `removeJob` of a running
job fails silently and the `add` that follows is a no-op; cancelling a finished
schedule removes the job of a later one with the same key; recurring keys
without a guild may get twin definitions from two overlapping calls; a job whose handler is not
registered yet uses up its attempts without any status or dead letter; a last
failed attempt overwrites any status; a signed delivery is answered as a
duplicate of an unsigned one that was rejected before; a publish that fails after
its key was marked makes the publisher's retry a duplicate; a restart leaves the plugins
of the table unloaded; a hook that timed out runs on and may subscribe after the
drain; another process keeps the cached copy it had until that expires; an
endpoint update that crosses a rotation leaves the new token's record cached as it was;
overlapping changes of the settings column lose one of the two; a guild joined or
left while `ready` runs is written back.

Further notes, where a document and the code differ or a promise is missing but no run
refutes a sentence: a GRANT that is more specific than every DENY wins, although
`05-permissions.md:32` lets DENY override; `04-translations.md:260` has every instance drop the
stale bundles of a guild, while the code drops the global key in the process that
takes the event, and `memoryBundleCache` never expires; a removed override cannot be
created again by a guild (`uq_translation_scope` covers soft-deleted rows); nothing in `src/`
publishes `guild.deleted` or creates the `guild_configs` row.

## 6 What is not modelled and why

Payloads, digests, signatures, cron expressions, names and wording are abstracted to
the cases that control tells apart. Left out within the modelled components: audit
export and statistics (reads); storage reads, signed URLs and the S3 driver (no shared
state); the CRUD of webhook subscriptions, normalizers, back-off times; event filters,
correlation ids, replay by filter; the scheduler's `guild.deleted` cascade, cleanup of old runs
and maintenance windows; a plugin's commands and configuration; notification
preferences, routing and templates; digests (a stub in the code) and the integration
pollers (their fetch returns nothing yet); the chain of locales; the guards that call
`can()`; `NotificationsConfigService.updateGuild`, which does what `GuildSettings` models and has
no caller. `schedule_runs` and metrics are written and never read back by what is
modelled.

Not modelled as components: metrics and thresholds (arithmetic per sample, no protocol between
actors); module system, kernel, health and configuration (sequential code at start and
stop); one-time tickets and the API webhooks, which nothing consumes; API keys and the
rate limiter. Gateway, commands, controllers, the dashboard's pages and the Prisma plumbing
translate and forward, without state of their own; they are most of the source, which
is why the modules cover about an eighth of its lines: the lines that decide about state
that is shared.

## 7 Plan

What would be added next, the most consequential first:

1. *Abstract specifications*: an at-least-once job board that `JobQueue`'s users
   implement; a reference count that `StorageObjects` implements.
2. *Proofs*: a retention sweep under which several processes append (section 4 says what
   breaks today).
3. *Sessions*: `revokeAllForUser` and the one-time tickets, over `TwoLevelCache`.
4. *Rate limiter*: its window as a set of hits, with the three Redis calls apart.
5. *Scheduler*: the `guild.deleted` cascade, once something publishes the event.
6. *Digests*, once the code delivers them.
