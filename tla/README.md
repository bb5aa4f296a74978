# Depsera in TLA+

Specifications, model-checking runs and machine-checked proofs for Depsera: a
server (`server/`) that polls the health endpoints of services and receives
their OTLP pushes, stores the dependencies they report, syncs services from
manifests and alerts the teams that own them; and a web client (`client/`) that
shows and edits all this.

Paths are relative to `src/`. All modules are in this directory:
`tlc -config X.cfg M` checks a model, `tlapm M.tla` checks proofs. Which
definition stands for which lines of code is in the `map` of `PROJECT.json`.

## 1. The system

The server is one Node process: an Express application, a synchronous SQLite
database (better-sqlite3) and a few schedulers. One callback runs at a time,
so the code between two `await`s is atomic; what interleaves are HTTP
requests from clients, timers, and the responses of the outgoing requests the
schedulers await. A crash loses everything but the database. The client is a
React application: each page keeps what it loaded, loads again after what it
changed, and rarely cancels or orders the answers it awaits.

| Part | State | Operations | Interacts with |
|---|---|---|---|
| Health polling (`server/src/services/polling/HealthPollingService.ts` and the classes beside it) | poll state and lock per service, breaker, backoff, cache entry, host counts, promises by URL, timer, shutdown flag | start, stop, restart, poll now, the cycle, shutdown | reads `services`, writes results; called by the service routes, the sync and the drift routes |
| Service routes (`server/src/routes/services`) | `services` | create, update, delete, poll now | start, restart, stop polling |
| Upsert and histories (`DependencyUpsertService`, `ErrorHistoryRecorder`, `ServicePollHistoryRecorder`) | `dependencies`, error and poll history | store a report, record an error or a recovery once | called by polls and pushes; emits status changes |
| Formats (`DependencyParser`, `SchemaMapper`, `PrometheusParser`, `OtlpParser`, `TraceParser`) | warnings | parse | called by polls and pushes |
| Alerts (`server/src/services/alerts`) | start of outages, cooldowns, hourly counts, retries; rules, channels, mutes | process an event, send, retry; edit | listens to polling, calls Slack and webhooks |
| Manifest sync (`server/src/services/manifest`) | a lock per configuration, sync times | fetch, validate, diff, apply, by timer or by hand | writes services, flags, aliases, overrides, associations; restarts polling |
| Drift flags (`DriftFlagStore`, `server/src/routes/drifts`) | `drift_flags` | raise, accept, dismiss, reopen, resolve | written by syncs, reviewed by users |
| Aliases, overrides, associations (`AssociationStore`, `AutoAssociator`, routes) | three tables | create, confirm, dismiss, delete | users, syncs and polls write the same rows |
| OTLP receivers (`server/src/routes/otlp`) | services and rows they create | push metrics, push traces | share the upsert with polling |
| API keys (`perKeyRateLimit`, `trackApiKeyUsage`, `TeamApiKeyStore`) | token buckets, usage counters | admit, count, flush, limit, lock, revoke | in front of the receivers |
| Users, teams, sessions (`server/src/auth`, `server/src/routes/users`, `.../teams`) | users, roles, members, sessions | log in, promote, deactivate | guard every route |
| Retention and settings | date of the last clean-up, cached settings | daily clean-up, change a setting | deletes histories |
| Database (`server/src/db`) | schema, applied migrations | start, migrate, roll back, clear | everything |
| Graph and wallboard | none | read | projections of the database |
| Process (`server/src/index.ts`) | none of its own | start and stop the parts | all schedulers |
| Drift review, graph page, service form, alert settings, team pages, associations page (`client/src`) | lists, choices, forms, requests in flight | load, filter, edit, submit, confirm | the routes above |
| Other pages | what they loaded | load, show, submit one thing at a time | the routes |

### Where the behaviour is hard, and what correct means

* **Polling.** A cycle selects services, locks them, takes host slots and awaits
  all polls; meanwhile the timer starts further cycles, and routes remove,
  restart and move the services being polled. Correct: no host slot is lost or
  released twice; a lock has somebody who releases it; breaker and backoff stay
  in step; the loop polls what the database says; nobody starves.
* **Alerts.** Events are judged at once, sends are awaited one after the other
  and repeated later. Delay, mutes, flap protection and hourly limits have keys
  and lifetimes of their own. Correct: limits hold whatever rules come and go,
  what was reported down is reported up, delay and mute do what they say.
* **Manifest sync and drift.** A sync awaits its manifest for as long as its lock
  lasts, or longer, between edits of the same rows by users, other
  configurations and reviewers. Correct: one open flag per field, what was
  dismissed stays dismissed, edits of users survive, a sync keeps to its own.
* **Schedule.** Walks over the configurations overlap each other and manual
  syncs; syncs may hang. Correct: locks give way, every configuration is synced
  again, the process can stop.
* **Reports.** The upsert is no transaction, events of polls are late, histories
  are deduplicated against their own last row. Correct: what listeners and
  histories know is what was reported, but for named exceptions. Formats: a row
  says what its report means.
* **Keys.** Correct: a key never gets more than a burst and its refill;
  every request is counted once, or lost with a process.
* **Users.** Correct: there is always an active admin, and the first login makes
  one only once, however many callbacks await their provider.
* **Migrations.** Tables are rebuilt with foreign keys on, in any order of
  releases, failures and rollbacks. Correct: the schema is that of the applied
  migrations, upgrades keep rows.
* **Pages.** Answers overtake each other, the user goes on while requests are in
  flight, forms keep what was typed apart from what they send. Correct: the
  page shows what was chosen and changed on it, selects only what it showed,
  and reports as saved what it displayed.

`PROJECT.json` lists the hazards one by one with the properties that watch them.

## 2. Plan

| Module | Models | Composed in | Proofs |
|---|---|---|---|
| `HealthPolling` | polling | `MCHealthPolling` | `HealthPollingProofs` |
| `DriftFlags` (abstract), `ManifestSync` | flags and syncs | `MCManifestSync` | `ManifestSyncProofs` |
| `SyncSchedule` | when syncs run | `MCSyncSchedule` | `SyncScheduleProofs` |
| `Alerts` | alert dispatch | `MCAlerts` | `AlertsProofs` |
| `ApiKeys` | keys, limits, usage | `MCServer` | `ServerProofs` |
| `Accounts` | users, sessions, teams | `MCServer` | `ServerProofs` |
| `ManifestMetadata`, `Ingestion`, `Retention` | metadata, reports, clean-up | `MCServer` | `ServerProofs` |
| `ServiceGraph`, `AssociationsPage` | graph, wallboard, a page | `MCServer` | `ViewsProofs` |
| `Migrations` | schema | `MCMigrations`, `MCServer` | `MigrationsProofs`, `ViewsProofs` |
| `Reports` | formats | `MCReports`, `MCServer` | `ServerProofs`, `ViewsProofs` |
| `DriftReview`, `GraphView`, `TeamPage` | pages | `MCPages` | `PagesProofs` |
| `ServiceForm`, `TeamAlerts` | forms | `MCPages` | `PagesProofs` |

What is left, by value:

1. `HostSlots`, the semaphore per host that polling promises, refined by
   `HealthPolling` with batch members as holders.
2. The poll split at its await (a hazard without a property).

Modules with proofs, and those they use, declare no RECURSIVE operator;
parameters are CONSTANTS with named assumptions, which the runs evaluate.

## 3. The modules

### `HealthPolling`

| Variable | In the code |
|---|---|
| `db[s]` | row of `services`: status (absent, inactive, active, deleted), endpoint, interval, format |
| `svc[s].tracked`, `.isPolling`, `.url`, `.interval`, `.lastPolled` | `ServicePollState` and the poller's service; `tracked` is membership of `states`/`pollers` |
| `svc[s].breaker`, `.delay`, `.ttl` | `CircuitBreaker`, backoff attempt (as the delay it gives), `PollCache` entry |
| `activeCounts[h]` | `HostRateLimiter.activeCounts` |
| `inflight[u]` | `PollDeduplicator.inflight`: who runs the poll of that URL |
| `batches[b][s]` | one activation of `runPollCycle` between its `await` and its end: members, promise awaited, result |
| `manual[m]` | one activation of `pollNow`: service, and whether it had a state when the poll began (`hadState`, which decides who releases the lock) |
| `loopTimer`, `phase` | `loopTimer`; `isShuttingDown`, cleared, closed |

| Action | Code |
|---|---|
| `Tick` | the interval callback: `runPollCycle` up to `Promise.allSettled`: `syncServices`, breaker and cache checks, sort by `lastPolled`, host slots, deduplication, locks |
| `TickSyncFails` | the query in `syncServices` throws: the loop is stopped and nothing else happens |
| `PollSettles` | a poll of one URL ends: its poller stored the dependencies or failed; all who share the promise get the result |
| `BatchCompletes` | the rest of `runPollCycle`: release slots, then breaker, backoff, cache and lock of each member still tracked |
| `ManualStart`, `ManualSettles` | `POST /services/:id/poll` and `pollNow` before and after its await |
| `CreateService`, `UpdateService`, `DeleteService` | the routes, with the start, restart or stop they call |
| `ManifestUpdates`, `ManifestDeactivates` | the effect on polling of a sync, or of an accepted drift; `updatePolling` swallows its errors, so polling may not be told |
| `Boot`, `Shutdown`, `ShutdownClears`, `Exit` | `startAll`; `shutdown` up to and after its wait, with the closing of the database; the end of the process or a crash |

`restartService` and `startService` may run a whole cycle at once, when they
have to start the loop; the model does the same (`StartService`). `Drained`
says that microtasks run before the next callback: a batch whose polls have all
settled is processed first. Time advances by loop ticks. `lastPolled` keeps the
order of the poll times only (`Renumbered`). The failure count stops at the
threshold: above it the code tests nothing. `BatchIds` and `ManualIds` bound
the activations in flight. `DbReadsMayFail` and `ManifestSetsFormat` switch on
an environment that is possible but breaks a property of its own.

### `DriftFlags` and `ManifestSync`

`DriftFlags` is the life of a flag as reviewers see it: per slot (a field of a
service, or its removal) at most one open flag; a sync raises, renews and
resolves, a user dismisses, reopens and accepts. `ManifestSync` implements it
(`FlagLife`, property `FlagsImplemented`).

`configs` are the rows of `team_manifest_config`, `svc` the services by manifest
key with the snapshot of the last sync, `flags` the open flags, `running` the
number of syncs in flight per configuration, `lock` the map of locks; `overdue`
and `seen` are history. `Sync` has the start of a sync (the lock, up to the
await) and its end: the diff against rows and snapshots, the policy, what is
created, updated, flagged, deactivated or deleted, the resolved flags, the lock.
Nothing that a sync remembers across its awaits is read by others, so a number
of syncs is kept and manifest and policy are chosen at the end. `UserConfigs`,
`UserServices` and `UserFlags` are the routes, `Restart` a crash. Flags that are
closed are not kept; the store never reads them again.

### `SyncSchedule`

`tasks` are the walks of the timer, the syncs of a team and single syncs: each
has one sync in flight and a queue. `CheckSchedule` is the timer's callback up to
its first await, `SyncTeam` and `SyncConfig` the routes, `EndAnySync` the end of
a sync, which lets its task go on (`GoOn`) past the configurations that are
locked, disabled or gone. `BeginShutdown`, `EndShutdown`, `CloseDatabase` and
`EndProcess` are `shutdown` with its bounded wait. A lock older than
`StaleAfter` is taken over. Times are ages, kept as far as something depends
on them (`Older`), so the state space is finite without a bound on time.

### `Alerts`

`Process` is `processEvent` up to its first send: severity filter, mute, delay,
flap protection, limit. `sending` are dispatches that await a channel, `retries`
those that wait their 30 seconds. `tracker` and `alerted` are the delay,
`lastAlert` flap protection, `window` the hour of the rate limiter; `down` and
`log` are history. `Routes` are the edits of the rule, of channels and mutes,
`DeleteExpired` the daily clean-up of mutes. Mutes are compared as the texts
they are: what counts is the UTC day (`DayLength`).

### `ManifestMetadata`, `ApiKeys`, `Accounts`

* `ManifestMetadata`: `alias`, `canon`, `override`, `link` are four tables.
  `SyncMetadata` is the part of a sync after its services, the three sections in
  the order of the code; the other actions are polls (`ReportDependency`,
  `Suggest`) and the routes.
* `ApiKeys`: `bucket` is the token bucket of each key, in fractions of a token;
  `pending` the accumulator that `Flush` swaps out before a write that may fail;
  `since` and `tally` are history. From the body to the handler nothing awaits,
  so a request is one step (`Pass`, `PassUnlimited`, `Refuse`).
* `Accounts`: `login` is the OIDC state of a session; `StartCallback` and
  `EndCallback` are the callback before and after its awaits. Every other
  handler is one step from its middleware to its last write.

### `Ingestion` and `Reports`

`Ingestion` is the upsert with its partial failures (a set `Failures(report)` of
places where it may stop), the two histories and the events: `PollReports`
stores, `ProcessBatch` emits what is left once all polls have settled, `Push` and
`PollNow` emit at once. `excused` and `gaps` are history: changes that were
lost or overtaken, rows that were not written or were pruned.

`Reports` has the five formats as operators on lists of items, lines, points and
spans, taken apart already, and the steps that poll, push and edit the format
and the schema of a service. The bounds and the sum of a histogram are converted
from the unit of its metric (`Multiplier`). `RowsSayReport` compares rows with
what a report means by the documents (`Meaning`), read without the parsers'
loops; `RowMeans` names the two places where the code departs from it (4.3).

### `ServiceGraph`, `Retention`, `Migrations`

* `ServiceGraph`: requests read the database in one step, so the graphs, the
  wallboard and the health of a service are operators of `kind`, `links` and
  `active`, and the steps are what changes these.
* `Retention`: `keeper` is the process with `lastCleanupDate`; `Interval(n, k)` is
  `checkAndRun`, stopping before table `n` when a statement fails. Time passes in
  slots of the local day, and a slot may end during a clean-up, before the
  cutoff of table `k` is read: the check, the cutoffs and the date that is kept
  may thus be of two days. `begun` and `ended` are history.
* `Migrations`: each of the forty-one migrations is two sequences of statements
  on tables, columns, foreign keys and rows (`M001` … ); `process` is the server
  or a command of `cli.ts`, and may fail at each migration.

### The pages

* `DriftReview`: `page`, `ticked` and `dialog` are `useDriftFlags` and
  `DriftReview`; `listing`, `single` and `bulk` are requests in flight, each read
  by the server in one step and answered in another.
* `GraphView`: `jobs` are activations of `loadData` and of the isolation effect
  between their awaits; `fullGraph`, `drawn` and `fingerprint` are the refs and
  the nodes on the screen; `overlapped` is history.
* `ServiceForm`: what the form would send (`form`) beside what its editors show
  (`guided` with the text of its JSON view, `metric`), the request, the routes'
  validation, other writers.
* `TeamAlerts`: the three panels of channels, rule and mutes with their routes.
* `TeamPage`: the page of a team, its member panel and the list of teams with
  the routes; `fresh` is history: the last load had no other in flight, and
  nobody else has changed the team since.
* `AssociationsPage`: the lists of associations, aliases, overrides and external
  services with their loads, editors and routes.

### Composition

Parts that share no variable are explored one at a time in one model: a
variable `part`, chosen initially, says which of them moves (`Only(p)`), the
others keep their first state. No step of a part reads or changes what another
changes, so no behaviour of a part is lost, and one run serves many parts.
Properties that are computed from a whole state are asked while their part
moves: `PagesShow`, `PagesSaveAsShown`, `ViewsAgree`, `SchemaIsComplete` and
`ReportsAreRead` combine those of the parts.

## 4. Runs

| Run | Instance | What it shows |
|---|---|---|
| `polling` | 2 services, 2 URLs of a host with one slot, 2 batches, 1 manual poll, threshold 1, reads may fail, symmetry | exact host slots, locks have owners, breaker, polls follow the database, the loop stops only when idle or when a read fails, nothing polled after shutdown |
| `polling_live` | 2 services, one slot, threshold 3, cooldown 2, delays 1 to 4, no edits, fair | backoff in step; nobody starves, locks are released |
| `polling_format` | 1 service, the manifest may change the format | "OTLP services are push-only — never poll them" is refuted |
| `polling_shared` | 2 services, one URL | the documented "Update DB" does not happen for the sharer of a promise |
| `manifest` | 1 key, 2 configurations, 2 fields, 2 policies, 2 syncs in flight, symmetry | locks, flags, edits, ownership; the refinement of `DriftFlags` |
| `manifest_otlp` | 2 keys, 1 configuration, one refused URL | a push-only entry, documented as valid, is never created |
| `schedule` | 2 configurations, 2 tasks, interval 3, stale after 2, fair | locks are held by syncs in flight; each configuration is synced again; shutdown ends |
| `alerts` | 1 dependency, 2 channels, 2 rules, hours of 2 and days of 3 units, 3 units | bounds, the memory of outages, recoveries reported |
| `alerts_delay`, `alerts_mute` | the same | "continuous unhealthy state" and "expired mutes are ignored" are refuted |
| `server` | per part: 2 teams and 1 dependency; 1 key, 2 rates; 2 users, 2 sessions; 2 dependencies; 4 rows, 3 services; 2 days of 3 slots; releases 15 and 41; lists of 2 reports; 2 rows per list of the page | the properties of nine parts |
| `pages` | per page: 2 flags; 2 topologies of 3 nodes; 1 service, its metrics mapped by up to 2 rows; 1 channel, the rule, 2 mutes; 2 users; 2 requests in flight | what pages show and save |

Why the bounds are enough: two of each actor is the smallest number that
interferes. Two batches allow a restart during a poll, a second poll of the same
service, and the first batch ending first or last; a third adds no new pair
that touches the same service. Two syncs are one that outlived its lock and one
that took it. Two requests in flight can overtake each other. One slot for two
services is the smallest contended limit, one token more than a burst the
smallest overdraft. An hour is two units, so that a window is filled, passed and
opened again within a run. Services, URLs, batches, configurations and channels
are interchangeable where symmetry is used; runs with liveness use none.
`CHECK_DEADLOCK FALSE` is set where bounds on time or on requests end a
behaviour; `schedule` has no such bound and is checked for deadlock.

Every property has a mutant of the code in `PROJECT.json` that the run must
find: a dropped guard, a missing reset, a stale value.

### 4.1 Fairness

`polling_live` runs `SteadySpec`: nobody edits and the database can be read. A
poll ends (requests are aborted after ten seconds), the timer fires, a settled
batch is processed, the shutdown's wait ends: the Node event loop delivers
each. They are strongly fair and not weakly, because `Drained` disables
them for the moment a settled batch is processed, which in the program does not
remove a due callback from the queue. `schedule` has weak fairness of the timer,
of time, of the end of some sync, and of the end of the shutdown's wait; a
given sync may hang for ever, a given shutdown or restart is left to chance.

### 4.2 Findings

Five runs refute what a comment, a document or a test says (`findings` in
`PROJECT.json`): a service that turns push-only is still polled; the sharer of a
poll is recorded as polled though nothing is stored for it; push-only manifest
entries without an endpoint are never created; the alert delay outlives the
outage it measures; a mute holds until its UTC day ends.

Further differences, read in the code while it was modelled and not run:

* Formats: a histogram without bounds gives NaN; the OTLP routes store request-wide warnings on later
  services (`docs/spec/05-health-polling.md:350`), and those of the trace parser
  outlive their request.
* Polling: the documents have 5 polls per host (the default is 10) and a changed
  endpoint invalidate the cache (only an interval does); the probe after the
  cooldown may be held back by the cache entry; a changed `schema_config` does
  not restart polling.
* Sync: the shutdown guard is only in `checkSchedule`, walks overlap, and the
  60 s cooldown is absent from team syncs and lost on restart
  (`docs/spec/15-manifest-sync.md:70`, `:76`, `README.md:72`).
* Routes: a PUT of only `health_endpoint_format`, or only `schema_config`, leaves a schema that
  does not fit (`docs/spec/02-data-model.md:413`); a channel edited without its URL gets a type
  that its configuration does not have, and listing the channels then fails; an
  updated URL writes masked header values back; a rule PUT without `is_active` switches
  the rule on; an expired mute blocks a new one until the daily clean-up; a mute
  stays in force when its service changes teams, unseen by the new team.
* Database: rollback without an id rolls back everything (`README.md:235`);
  seven migrations cannot be applied a second time after a rollback; 007 and 015
  delete the rows of child tables.
* Pages: late answers close editors and forms opened since; a reload unmounts the
  edit form of a team; description and contact of a team, and the metrics
  endpoint of a service, cannot be cleared; OTLP services cannot be edited from
  the form; after a failed load the form of a rule shows defaults, and a save
  overwrites the rule; an override of a team may be shown as the global one.

### 4.3 Exceptions that properties name

Some properties hold of the code but for cases that they name. In these the
code does not do what one would expect of it, or what a document says; a
property with an exception says nothing about the case it excepts, and that the
rest holds is what its run and its theorem show. Each case occurs in its run.

| Property | Exception | What the code does, and what is said of it |
|---|---|---|
| `CleanedDaily` | `CarriedOver` | `runCleanup` keeps the date read at its end (`DataRetentionService.ts:185`), while `checkAndRun` compares the one read at the check (`:75`). A clean-up that passes midnight marks the next day, which is skipped: "Scheduled cleanup job runs daily at configurable time" (`docs/spec/12-planned-features.md:48`). What remains: no day sees two, and the day after a skipped one is cleaned. |
| `PagesSaveAsShown` | `FieldsOnly` in `ShownConfig` | The toggle to the JSON view writes its text from the guided form (`SchemaConfigEditor.tsx:535-543`), which has no place for a comparison `{field, equals}` of the latency (`:88-90`), and does not call `onChange`: the text shows the plain field, Save sends the comparison, until the text is edited; the comment at `:537` has "Sync JSON from guided form before switching". What remains: the text shows nothing else than the mapping saved or that mapping without the comparison. |
| `ReportsAreRead` | `HealthAsMeant` | "the dependency is ingested as healthy (`healthy = 1`) regardless of the actual health field value" (`docs/spec/05-health-polling.md:342`) is done by `SchemaMapper` only; a skipped item, line or point that says unhealthy is stored so by `DependencyParser`, `PrometheusParser` and `OtlpParser`. |
| `ReportsAreRead` | `LatencyAsMeant` | The latency of a histogram is in milliseconds when it becomes the latency of its dependency (`OtlpParser.ts:133`, `:164`); `buildDependency` multiplies it by 1000 once more with `latency_unit: s` (`:302`), which is there for values told by gauges (`docs/spec/05-health-polling.md:175`, `:327`). |
| `LoopStopsOnlyIdle` | the failing query | A query that fails in `syncServices` clears the timer (`HealthPollingService.ts:376`), and only a service that is started sets it again; no document speaks of it. |
| `OneSyncPerConfig` | a sync that is overdue | A sync that outlives its lock overlaps the one that took the lock (`ManifestSyncService.ts:227`). Flags, edits and dismissals survive it: `OneOpenFlag`, `EditsSurvive` and `DismissedStays` have no such exception. |
| `ReportsAreKept` | `excused`, `gaps` | Changes lost with a failed upsert or overtaken, histories not written or pruned. |

## 5. Proofs

All theorems hold for every value of the constants that the modules' named
assumptions admit: any number of services, configurations, users, keys,
requests and syncs in flight, any limits. The assumptions (`PollingConstants`,
`ManifestConstants`, ...) say only that parameters are of their kind; TLC
evaluates them in every run. Only `ReportsSayOnce` narrows what may come: see
Formats below. One theorem has a hypothesis of its own,
`PollsAlwaysFollow` (`~ManifestSetsFormat`), because `polling_format` refutes
the property without it.

| Module | Theorem | States |
|---|---|---|
| `HealthPollingProofs` | `TypeCorrect`, `BreakerAlwaysArmed`, `BackoffAlwaysInStep`, `HostSlotsAlwaysExact`, `LocksAlwaysOwned` | `[]TypeOK`, `[]BreakerArmed`, `[]BackoffInStep`, `[]HostSlotsExact`, `[]LockHasOwner` |
| | `NoPollsAfterShutdown`, `LoopAlwaysRuns`, `PollsAlwaysFollow` | the action properties of `polling` |
| `ManifestSyncProofs` | `TypeCorrect`, `AtMostOneFlag`, `LocksExclude` | `[]TypeOK`, `[]OneOpenFlag`, `[]OneSyncPerConfig` |
| | `SyncsKeepToTheirOwn`, `DismissedFlagsStay`, `UserEditsSurvive` | `OwnServicesOnly`, `DismissedStays`, `EditsSurvive` |
| | `FlagsImplementDriftFlags` | `FlagsImplemented`: the refinement of `DriftFlags` |
| `SyncScheduleProofs` | `ScheduleTypeCorrect`, `LocksHaveOwners` | `[]ScheduleTypeOK`, `[]LocksAreHeld` |
| `AlertsProofs` | `AlertTypes`, `AlertedIsTracked`, `AlertsStayBounded`, `RecoveriesReported` | `[]AlertTypeOK`, `[]AlertedTracked`, `[]AlertsBounded`, `RecoveryReported` |
| `ServerProofs` | `KeyTypes`, `MeteredAlways` | `[]KeyTypeOK`, `[]KeysAreMetered` |
| | `AccountTypes`, `AnAdminRemains`, `OneAdminIsBootstrapped` | `[]AccountTypeOK`, `[]AdminRemains`, `[]OneBootstrapAdmin` |
| | `MetadataTypes`, `MetadataIsKept`, `DismissedNeverRevived` | `[]MetaTypeOK`, `[]MetadataKept`, `DismissedNotRevived` |
| | `ReportsAlwaysKept`, `CleanedEveryDay` | `[]ReportsAreKept`, `[]CleanedDaily` |
| | `ReportTypes`, `ReportsSayWhatTheyMean` | `[]ReportTypeOK`, `[](RowsSayReport /\ PercentilesInOrder)` |
| `MigrationsProofs` | `MigrationTypes`, `UpgradesKeepRows` | `[]MigrationTypeOK`, `UpgradeKeepsRows` |
| `ViewsProofs` | `PartsAreTyped`, `ViewsAlwaysAgree` | `[]TypeOK`, `[]ViewsAgree` |
| | `SchemaAlwaysComplete`, `ReportsAlwaysRead` | `[]SchemaIsComplete`, `[]ReportsAreRead` |
| | `EachPartRuns` | that `MCServer` runs each part by its own specification |
| | `ListsAlwaysShown`, `LinkPageTypes`, `GraphTypes` | `[]ListsShown`, `[]LinkPageTypeOK`, `[]GraphTypeOK` of their own specifications |
| `PagesProofs` | `PagesAreTyped`, `PagesAlwaysShow`, `PagesSave` | `[]TypeOK`, `[]PagesShow`, `PagesSaveAsShown` |

The arguments, by module:

* **Polling**, in layers. `TypeInv` strengthens `TypeOK`, which is not inductive
  (the host of a polled service is `HostOf[svc[s].url]`, defined only if tracked
  services have an endpoint): `SvcOK` says that an untracked service is unlocked
  and has no endpoint, that a tracked one has one, that the breaker is armed and
  the delay is the one after that many failures (`DelayAfter`). Every operator
  that transforms one service has a lemma that it keeps `SvcOK`, and one lemma
  covers the cycle, whichever action runs it. `SlotInv` counts the members of
  batches per host: new members are disjoint from old ones as their batch was
  idle, so cardinalities add. `LockHasOwner` follows an owner through each
  action. `PullInv` says that a tracked service has a row and is pull-based.
* **Manifest sync.** `TypeInv` adds to the types that a slot has at most one open
  flag. `LocksExclude` is inductive by itself. `UserEditsSurvive` needs
  `SnapSeen`, that a snapshot holds nothing that no manifest has specified: what
  a sync overwrites is equal to the snapshot, and so was not a user's. The
  refinement maps each action on a slot to the step of `DriftFlags` that it
  takes, or to a stutter.
* **Schedule.** `HeldBy`: a lock has a task whose present sync is of its
  configuration. Tasks join and leave the list through `GoOn`; the lemmas about
  it and about the list without one task carry both results.
* **Alerts.** `AlertInv` has four parts: `Shape`; `Remembered`, what the team was
  told against what the delay remembers; `Spaced`, the log against flap
  protection; `Windowed`, the log against the window. An hour meets at most two
  windows, so it suffices to count the alerts of the open window and of the hour
  before it began.
* **Keys.** `KeyInv`: pending, stored and lost requests add up to those there
  were; tokens held plus tokens spent never exceed a burst and the refill up to
  the last use of the bucket.
* **Accounts.** `AdminRemains` is inductive on the types. `OneBootstrapAdmin` is
  proved as "any two of them are equal", from the fact that nobody without a row
  has a role.
* **Metadata.** `MetadataKept` looks one sync ahead of a state, so it follows from
  the types; its proof takes the sections of a sync in turn (`LinkSynced`).
* **Reports.** `IngestInv`: what the batch under way holds, the changes that still
  wait for the listeners (`EventsPending`), and the histories but for `gaps`.
* **Retention.** `DaysRemembered`: the date that the process remembers is one
  on which a clean-up ended, and none began or ended later; one that ended on a day on which none
  began did begin on the day before (`CleanedOrCarried`).
* **Migrations.** `SchemaComplete` compares the schema with the one that replaying
  the scripts gives, and the scripts are forty-one folds. The proof says instead
  what each table is after n migrations: from which one on it exists (`Born`),
  what it refers to (`ParentsAt`), which columns it has (`NamesAt`). A lemma per
  migration (`Made01` ... `Made41`) has that each of its statements makes of its
  table what the tables after it say, and that the others stay; those of the
  way back may leave columns. A script is a fold over statements that mostly
  touch each table once (`IsScript`, `RunDone`), so that it takes the schema
  after n - 1 to the one after n (`UpMade`) and back (`DownMade`). `MigrationInv`
  says that the applied migrations are the first n and the schema is theirs
  (`AsMade`), and what is left to do continues from there. Deleting follows
  references `Longest` levels deep, no chain of foreign keys being longer: what
  goes grows level by level (`CascadeGrows`), and stays within any set of rows
  that no other row needs (`CascadeStays`). `UpgradesKeepRows` has no invariant
  of its own: from 016 on no statement of a script drops or takes (`Gentle`), and
  what is rebuilt or deleted has no children before that migration.
* **Together.** A step of `MCServer` is one of one part and leaves the others
  alone, so that each part runs as its own specification says (`EachPartRuns`)
  and what is proved of it alone holds (`PartsAreTyped`).
* **Formats.** `ReportInv`: rows are well typed and only services that are there
  have any. Parsers and pushes are folds, and what a fold gives for a list of any
  length is proved by induction (`UpTo`) on the values it passes through
  (`FoldStages`), once for all of them: `Step` has the step of each fold under
  a name. Carried along are that each field that was told has its type
  (`EntriesFit`), that a group of spans has a count (`GroupsFit`), and that rows
  keep to services that are there (`Pushed`). A percentile is a natural number
  because the sums of the buckets only grow, so that the bucket it falls into is not
  empty (`PercentileIsInt`). `ReportConstants` says what a report can carry:
  states are 0, 1 or 2 (`HealthState`, `db/types.ts:160`) and numbers are not
  negative, which the parsers do not check, and a histogram has at most one
  bucket more than bounds.
  `SaidInv` adds that each row and the last report that names its dependency
  `Agree`, with the exceptions of 4.3. The same inductions carry what the elements that were read so far say
  as a set: an entry has the values of its points, and the average and percentiles
  of its histogram (`EntriesSay`); a group has the sum of the times of its spans,
  their number and whether one failed (`GroupsSay`), where the sum over a set is
  the same in any order (`SumOrder`), and the second grouping finds each
  dependency once and changes nothing. A later row of a name replaces an earlier
  one and both say the same (`UpsertedSays`); a refused report stores nothing. A
  higher percentile crosses the sums no earlier (`PercentileGrows`), and within
  its bucket rounding is monotone (`RoundedMono`), so that it stays below the
  bucket's bound (`InBounds`). What a report means has no order, whereas the code
  lets the last of two contradicting values win. `ReportsSayOnce` therefore says
  of the reports that they contradict themselves nowhere: a name or a field of a
  dependency comes once, or again with the same value, a span comes once, text
  has gauges and bad lines only, and the bounds of a histogram ascend, as
  Prometheus and OTLP have them. What the code makes of reports that do
  contradict themselves is in the model, but neither checked nor proved.
* **Graphs.** `traverseUpstream` is a recursive function, and what it gives for any
  number of services is proved by induction (`UpTo` of `MigrationsProofs`, from the least element of a
  set of numbers, which follows from the library's well-foundedness of inclusion
  between finite sets; its theorems of induction take a predicate, which no prover
  here can instantiate). After n rounds the visited services are closed under
  associations, or are more than n; there are no more services than rounds, so
  the last set is closed, and by a second induction it is in every closed set
  that has the service (`UpstreamIsLeast`). The wallboard judges a group good
  only if each report is (`WorstIsGood`).
* **Page of associations.** `LinkInv`: an answer that missed nothing since it was
  read is the table; a list that is shown and not marked behind is the table;
  only lists that are shown have rows removed; ids of rows are their own
  (`ListTables`). Four lemmas cover what every list has (a load that changes, a
  list shown anew, a table that changes with and without the page), and each
  action is an instance of one. `FormInv` adds what the page keeps of input
  (`NoStrayInput`, `ChosenInView`) and that aliases are for different names.
* **Pages.** `ReviewInv`: the list on the screen was shown. `ViewInv`: a load that
  is alone is the only job and for the present choice (`LoadsKnow`), and while
  nothing overlapped what is drawn is the isolated part of the full graph, which
  is an answer to the choice unless a load is under way (`InOrder`). `TeamInv`: a
  fresh page has at most one load, which has read nothing but the team as it is
  (`Settled`). Their types need that lists of requests never outgrow their bound
  (`ReviewTypes`), and that every graph drawn is a part of one the server may
  answer (`ViewParts`).
* **Forms.** That a form saves what it shows relates its editors to what it will
  send, before anything is sent. `FormInv`: each editor that is mounted shows the
  configuration of its form (`FormShape`) and the request in flight is the one
  the form would send again (`FormRequest`); mounting the metric
  editor lists each name of its record once, so that its rows give that record
  back (`MetricFits`). `ChannelInv`, `RuleInv` and `MuteInv` say for each panel of
  `TeamAlerts` that a call holds what its form shows and that a stored row has
  the configuration of its type. `TeamFits` and `ListFits` say for the forms of
  `TeamPage` that the form is there while its dialog is open, and waits if and only if
  one request sent what it shows (`EditFits`).

Only model-checked:

* `NoStarvation`, `LockReleased`, `SyncedAgain`, `ShutdownEnds`: liveness under
  fairness is out of the prover's reach.

Every other property that a passing run checks is also a theorem.

## 6. Not modelled

* What a request to an endpoint or a manifest does below `fetch`, the rules of
  the SSRF check (a set of refused URLs stands for it), the wording of
  messages, logging, formatting, listing routes.
* A poll is one step from its start to its result. `ServicePoller.poll` awaits
  the validation of the URL before the request, and a service changed in
  between is requested at the new URL: a hazard that is listed, and planned.
* That a sync which only drifts keeps a pending removal flag
  (`ManifestSyncService.ts:616`) is in the model, but no property is about it.
* The order in which `index.ts` stops the schedulers other than polling and the
  sync.
* Positions, styles and search of the graph page; the preview and the plain
  fields of the service form; the tab that shows the aliases a second time.
* The log-in, administration, catalogue, wallboard and service pages, each of
  which loads, shows and submits one thing at a time.
