# Resilience in TLA+

Resilience is an operations platform: a Rails 8 API on PostgreSQL 17 with Solid
Queue workers, and a React client. Feeds are ingested as signals, rules
correlate signals into matches, matches are fused into incidents, operators work
tasks and incidents, live streams carry events to browsers, and every change is
written to a hash-chained audit log.

On the server everything hard happens in the database: request threads and job
workers on several machines run transactions against the same rows, take row
locks and advisory locks, read with READ COMMITTED, are aborted, retried and
killed. In the console, as the client is called here, it happens between
handlers, effects and answers: an answer arrives after the operator has moved
on, an event is lost while a stream reconnects, an effect runs for one of the
changes it depends on and not for another. Unit tests run one transaction, or
one component, at a time and do not reach those interleavings. The modules here
model them, TLC checks them on small instances, and TLAPS proves the central
invariants for every value of the constants.

- [Inventory](#inventory): the parts of the system and what makes them correct
- [Modules](#modules): which module models which code, and how
- [Runs](#runs): what is checked, on which instance, with what fairness
- [Proofs](#proofs): what is proved and along which argument
- [Divergences](#divergences): where code and documentation disagree
- [What is left](#what-is-left): the plan, and what is out of scope

Paths with a Ruby file are relative to `src/backend/app`, those with a TypeScript
file to `src/frontend/src`, unless they begin with `src/`.

## Inventory

### How the parts interact

    feeds, vessels ──> Signals::IngestService ──> external_signals
                                                        │ cursor
                          EvaluateRecentJob (every 30 s, overlapping)
                             │ EvaluatorService                │ GeofenceBreachService
                             v                                 │
                     RuleFiringJob / RuleFiringService         │
                             │ after COMMIT: enqueue           │
                             v                                 v
                     FusionJob ──────────────────> FusionService ──> incidents
                                                        │ after COMMIT: enqueue
                                                        v
                                    Recommendations::GenerationJob
    operators ──> Tasks::*, Incidents::*, Alerts::*, Recommendations::* services
    every mutation ──> Audit::EventWriter ──> audit_events ──> replay, ChainVerifier
    browsers ──> Sse::StreamAdmission ──> streams <── broadcasters <── PostgresRelay

    console: pages ──> queries and their cache <── event stream, polls, own writes
             map, globe, feed, lists, boards: what is shown and selected

Jobs are in a *separate* database (`src/backend/config/environments/production.rb:54`),
so an enqueue is never part of the transaction it follows. There is no shared
memory between machines: they meet in rows, unique indexes, row locks, advisory
locks and the queue. The console meets the server in requests, answers and two
event streams; its pages meet each other in the session, in the query cache and
in the replay clock, and in nothing else.

### Components

| Component | State | Operations | What is hard | Correct when |
|---|---|---|---|---|
| **Audit chain** `services/audit/{event_writer,chain_hasher,chain_verifier}.rb` | `audit_events`: sequence, per-organization `chain_position`, `prev_hash`, `row_hash` | `EventWriter.write` inside its caller's transaction; `verify_organization` | advisory lock against row locks, deadlocks and their retry, aborted transactions, a sequence that is never rolled back | every chain verifies at every moment; events are exactly the committed mutations; sequence and position agree |
| **Ingestion and cursor** `services/signals/ingest_service.rb`, `jobs/correlations/evaluate_recent_job.rb`, `models/ingestion_cursor.rb` | `external_signals`, the `ingestion_cursors` row | ingest; load cursor, read a batch, evaluate, advance | `ingested_at` is the start of the inserting transaction; ticks overlap, fail in mid-batch, are cut by a limit | no signal is skipped, the cursor never goes back, an observation is one row |
| **Rule evaluation and firing** `services/correlations/{evaluator_service,rule_firing_service}.rb`, `jobs/correlations/rule_firing_job.rb` | `correlation_rules.last_fired_at`, `signal_rule_matches`, the queue | evaluate, claim the cooldown, act, record the match, enqueue fusion, deactivate | races for a cooldown with differing clocks, duplicate jobs, workers that die between COMMIT and enqueue | fires are a cooldown apart; claim, actions and match stand or fall together; a rule acts on a signal once |
| **Incident fusion** `services/incidents/fusion_service.rb`, `jobs/incidents/fusion_job.rb`, `services/sites/geofence_breach_service.rb` | `incidents`, the matches' `incident_id` | lock the site, attach or create, enqueue recommendations | racing fusions, retries after COMMIT, operators who edit meanwhile, a window with two ends read off clocks that differ | one open incident per site and window while clocks agree; severity is the highest fused |
| **Incident workflow** `services/incidents/{transition,update}_service.rb` | status, severity, lifecycle times | transition, update | checks on unlocked copies | moves follow the table; the log replays to the row |
| **Task workflow** `services/tasks/*.rb`, `controllers/api/tasks_controller.rb` | `tasks` row, its events | transition (locked), update (unlocked) | stale copies, role checks before the lock | moves follow the table and the roles; no transition is lost; the log replays to the row |
| **Stream admission** `services/sse/stream_admission.rb`, `controllers/application_controller.rb`, `jobs/sse/lease_cleanup_job.rb` | `sse_stream_leases`, heartbeat threads | acquire, refresh, release, purge, clean up | clocks read before a lock, purged leases, dying heartbeats and machines | limits hold on every machine; a live stream keeps its lease; a lost lease is reclaimed |
| Replay `services/replay/*.rb` | none | merge snapshots, project | order of events, partial snapshots | equals the rows |
| Audit backfill, scheduled verification | `audit_events` | hash unchained rows; verify and report | runs beside EventWriter | never forks a chain |
| MFA enrolment and verification `services/mfa/*.rb` | `users`: secret, recovery codes, last TOTP step | enrol, disable, verify | compare-and-set, mutation before audit | a code is used once |
| Alert workflow `services/alerts/transition_service.rb` | match status | transition, alone or in bulk | unlocked copy | moves follow the table |
| Recommendations `services/recommendations/*.rb` | `recommendations` | generate, approve, dismiss, execute | session advisory lock, publishing inside a transaction | one outcome, one execution |
| Assignment, notes, prosecution `services/incidents/*.rb` | incident phases | initiate, advance, conclude | unlocked copy | phases in order |
| Live fan-out `services/sse/broadcaster.rb`, `services/realtime/*.rb` | client queues, LISTEN connection | publish, relay, evict, catch up | bounded queues, reconnection, hand-over from baseline to live | each event once and in order, or a reset |
| AI services `services/ai/*.rb` | breaker state in the cache | call, trip, recover | unlocked read-modify-write | opens after the threshold |
| Telemetry `services/telemetry/*.rb` | partitions | prepare, prune, ingest | prune beside insert | no reading is refused |
| Feeds, vessels | none beyond signals | fetch, parse, detect | external formats | each finding ends in `IngestService` |
| Assets, sites, planning surfaces | one row each | audited CRUD | as in the audit chain | as in the audit chain |
| Sessions and authorization, exports, risk and metrics | rows read per request | predicates, reports | no protocol between actors | - |

The console:

| Component | State | Operations | What is hard | Correct when |
|---|---|---|---|---|
| **Session** `api/{client,auth}.ts`, `context/AuthContext.tsx`, `pages/{Login,Security}Page.tsx` | the remembered user, the user shown, the cookie | log in, log out, revoke, reload, the 401 handler | answers that cross, a logout under way, a session that ends elsewhere | who was signed out stays out; an expiry is noticed |
| **Queries and cache** `hooks/use*.ts`, `App.tsx`, `hooks/useEventSource.ts`, `context/ReplayContext.tsx` | cached answers by key, the replay position, a held-back write | mount, fetch, poll, invalidate, write, replay | lost events, late answers, forgotten keys, an invalidation during a first fetch | what the console was told of shows; what shows belongs to the position |
| **Map engine** `hooks/useMapLibreEngine.ts`, `hooks/map/*.ts` | sources, layers, the order of effects | open, switch style, toggle, retry | a style throws everything away while data arrives | a loaded map shows what was rendered |
| **Globe engine** `hooks/useGlobeEngine.ts`, `hooks/globe/*.ts` | entities and primitives of each layer | start, retry, add, prune, highlight | dependency arrays | the globe holds what the data holds |
| **Entity selection** `hooks/useEntitySelectionSync.ts`, `hooks/useMapUrlSelectionHydration.ts` | selection, address, a consumed flag | click, link, Back, arrive, leave | two writers of the address, entities that arrive later | the address is followed; one entity is selected |
| **Live feed** `hooks/useSignals.ts`, `lib/sseBackoff.ts` | stream, snapshots, cursor | connect, snapshot, merge, reconnect | the gap between snapshot and stream | no signal is left out |
| **Filtered lists** `pages/{SignalFeed,Tasks}Page.tsx` | filters, pages | choose, ask the AI, clear, scroll, refetch | pages shift as rows arrive; late answers | none skipped; the filter tagged is the one answered |
| **Alert triage** `pages/AlertTriagePage.tsx`, `hooks/useTriageKeyboard.ts` | rows, checked ids, a focused index | move, bulk, keys | lists change under the hands | only what was listed is sent |
| **Rule editor** `pages/CorrelationRulesPage.tsx`, `components/correlationRules/*` | drawers that stay mounted, a form | create, edit, try, delete | late answers, remembered forms | a form starts as its rule |
| **Planning board** `pages/PlanningPage.tsx`, `hooks/usePlanningDrafts.ts` | drafts of an area | edit, save, travel | saves answered after moving on | nothing is written to another area |
| **Map tools and lengths** `hooks/useMapToolState.ts`, `lib/mapRangeRings.ts` | modes, pins, typed lengths | toggle, click, keys, switch units | modes left on, rounding | one tool at a time; rounding never adds up |
| **Command palette** `components/GlobalSearch.tsx` | query, highlighted index | type, move, run | results change under the index | something is highlighted |
| **Debrief** `components/DebriefPanel.tsx`, `hooks/useDebriefTimeline.ts`, `controllers/api/audit_events_controller.rb` | clicks and their lookups, pages of the timeline | reconstruct, open a range, load older, refetch | lookups answered out of order and after their panel; events of one moment, events that commit between pages | the latest click wins; no event is left out or shown twice |
| **Briefing** `components/BriefingPanel.tsx` | selectors, result with its context, downloads | generate, export, leave | selectors, replay and list of sites move while it is written and exported | a file is headed by what it is about |
| Other pages: graph, swimlane, users | layout | draw | - | - |

Rows in bold are modelled. `PROJECT.json` lists every component with its sources
and what of it is modelled, and the hazards of the code with the properties
that watch over them.

## Modules

A component has a module with its state, actions and properties; an `MC` module
names TLC's model values; a `Proofs` module has the theorems of one component, or of
two that meet (`SignalPipelineProofs`, `ConsoleProofs`). Those two are extended
together, so one of each pair spells its names out: `CursorInit`, `CursorSpec`,
`SessionInit`, `SessionSpec` and so on.

| Module | Models | Abstract promise |
|---|---|---|
| `AuditChain` | writers in transactions, locks, deadlocks, retries, the chain | `AuditLog`, by refinement (`ImplementsLog`) |
| `SignalCursor` | ingesting transactions, ticks, the cursor | |
| `RuleFiring` | evaluator, jobs, the cooldown claim, matches, the queue | |
| `TaskWorkflow` | requests with copies of one task, its row lock, its log | |
| `IncidentFusion` | fusions of a site, operators with copies of its incidents | |
| `StreamAdmission` | requests for streams, leases, heartbeats, cleanup, time | |
| `ConsoleSession` | one tab, its requests in flight, the server's sessions | |
| `ConsoleQueries` | a table: every query, mutation and live event of the console by the keys it has, addresses or invalidates | |
| `ConsoleCache` | the cache over that table, the server's versions, polls, streams, connection, replay clock | |
| `MapEngine` | the life of the map and its effects in the order of the hooks | |
| `EntitySelection`, `GlobeEngine`, `LiveFeed`, `FilteredLists`, `AlertTriage`, `RuleEditor`, `PlanningBoard`, `MapTools`, `MapLengths`, `CommandPalette`, `DebriefReplay`, `AuditTimeline`, `BriefingPanel` | one view of the console each, all over the variable `page` | |
| `ConsoleViews` | their union: an operator works in one view | |

Conventions. An action is one statement, or a run of statements no other actor
can observe from between; the comment above it names the method. A transaction's
uncommitted writes are kept apart from committed rows wherever another actor
could see the difference. A lock is a variable that names its owner. Faults (a
statement that raises, a worker that dies, a transaction that rolls back) are
actions of their own. Definitions that begin with "Mutant:" in their comment are
the plausible mistakes each property was tested against; no specification uses
them.

**AuditChain.** A writer is a database connection. `Begin`, `RequestUpdate`,
`Update`, `Commit` and `Abort` are the calling service; `AcquireChainLock`,
`ReadTip`, `Insert`, `DeadlockInWriter` and `Retry` are `EventWriter.write`.
`Update` waits for the row lock of its entity, `AcquireChainLock` for the
organization's advisory lock, and both are released only at the end of the
transaction, so two transactions that audit several entities can wait for each
other: `InWaitCycle` is Postgres' deadlock detector. A deadlock inside
`EventWriter` has aborted the caller's transaction by the time it is rescued,
which is why `Retry` leads to failure when there is a caller's transaction
(`outer`). `DetachedUpdate` is the one family of callers that commits the
mutation first (`services/mfa/enrollment_service.rb:81-144`). A hash is the term that was hashed.
`Verifies` is `ChainVerifier`.

**SignalCursor.** `Begin`, `Insert`, `CommitSignal`, `Rollback` are
`IngestService.call` around its INSERT; `at` is fixed at `Begin`, as `DEFAULT
now()` does. `Load`, `ReadBatch`, `EvaluateSignal`, `Advance` and `Fail` are
`EvaluateRecentJob.perform`. The order (`ingested_at`, `id`), the prefix that a
limited query returns (`IsBatch`) and the compare-and-set (`MayAdvance`) are
translated clause by clause, a nil `last_signal_id` included. `late` and
`backlog` are history variables: rows that were overtaken before they committed,
and rows older than the first value of the cursor.

**RuleFiring.** `Evaluate` is `EvaluatorService` with its unlocked cooldown
check; `Start` takes a job and computes the cutoff from a clock that may be
ahead by `Skew`; `Claim` and `LoseClaim` are the conditional UPDATE, which waits
for the row and looks again; `Commit`, `Reject`, `ActionFails`,
`StatementFails` and `Crash` are the ways the transaction ends; `EnqueueFusion`
and `EnqueueFails` come after COMMIT. The final values of `pc` are the outcomes
the job logs.

**TaskWorkflow.** A request `Load`s its copy, asks for a transition or an update,
and works on that copy. `Lock` is `lock!`, which reloads it; `LoseRace` the
`StaleTransition` that follows when the move is no longer allowed. An update
saves only dirty columns (`Dirty`) but records the whole copy (`Event`). The log
joins with COMMIT; `Replayed` is the merge of after-snapshots.

**IncidentFusion.** `LockSite`, `SelectIncident` or `SelectNone`, and `Attach` or
`Create` are one fusion; `Raise` and `Invalid` its failures, retried only for
`Jobs` (a geofence breach has no job). Operators `Load`, and later `Transition`
or `UpdateSeverity`; `Merged` is what `save!` writes of a stale copy. `touched`
and `edited` record which incidents operators have written to. A worker, or an
operator's request, reads a clock that may be ahead by `Skew`, as in `RuleFiring`, and the
window is the code's, `FUSION_WINDOW.ago..Time.current`: an incident updated by a clock
that is ahead of the reader's is outside it (`Fusable`). `passed` records the incidents a
fusion has passed over for that reason.

**StreamAdmission.** `Ask` reads the time, `ObtainLock` waits for the advisory
lock, then `Purge`, `Count` or `Deny`, and `Admit`; `doomed` are the rows an
open transaction has deleted. `Refresh` keeps row and in-memory handle apart,
since the UPDATE may match no row. `Clock` advances only when heartbeats due in
the unit have run and no statement is beyond `statement_timeout`
(`src/backend/config/database.yml:48`).

**ConsoleSession.** A request is `Sent` with the cookie of that moment, `Served`
by the server and `Arrive`s; each slot holds one. `Arrive401` is the handler that
`AuthContext` registers, which sends a logout of its own. `stored` is
`localStorage`, `user` what React shows, `route` the page.

**ConsoleQueries, ConsoleCache.** The first is data, read off the hooks and the
API modules one by one: the prefixes of a query's key, whether it polls and whether
its key holds `as_of`; the resource a call's path addresses and the keys `onSuccess`
invalidates; the keys a live event invalidates and the events a call may be followed by. The
second is the library as the console configures it (`App.tsx`): a fetch starts, is
served and arrives, an invalidation during it starts it again, except that a first fetch under
way swallows it (`Swallows`). The server has a version, a number, of what each query asks;
`told` is the newest the console has heard of. A write moves on what it addresses and *any* other
queries (`ServerWrites`): no table of what each service writes besides is assumed, and
the gaps between that and what the console invalidates (below, under the facts) are among the
cases checked. A broadcast may fail, which the server only logs, so an event may follow or
not; the server's own jobs write and announce too (`JobWrites`). A write made offline is held back and
sent later.
A query whose key has no `as_of` asks for the present wherever the replay stands
(`AsOf`), so the position it is shown at says nothing about it.

**MapEngine.** A render gives the effects their inputs; an effect runs if one of
its own has changed, in the order the hooks are called. `gl` is what the map
holds: what each source shows, and which layers are hidden. A style empties it.
`Effects` chains the hooks, each over the set of what the one before it leaves (one
map each), which keeps a render a composition that can be proved hook by hook.

**The views.** Each has one record, `page`, and its actions; a render is an
action where effects matter (`GlobeEngine`, `EntitySelection`), and part of the
handler where they cannot be told apart from it. `due` is what has changed since
effects last ran. In `EntitySelection` effects see the values of their render
and the references of now. In `LiveFeed` a signal is the number the server gave
it. `AlertTriage` has two sites: a search leads from one to the other without remounting
the tab (`VisitSite`), so a selection outlives the list it was made on, and
`CheckedWereListed` says that what is checked was on a list this page has shown, not
that it is on the one it shows now. In `RuleEditor` `touched` belongs to the page, is cleared
when a drawer opens and set by what is typed in it, so what an earlier drawer left behind
counts as untouched (`FormStartsClean`). `MapLengths` computes in hundredths, with the rounding of `toFixed`,
and draws to the metre; `meant` is the length last typed. Lengths that round to no
hundredth lie outside it: 0.008 km would become "0.00" nautical miles and not be drawn
(`lib/mapRangeRings.ts:20-21,44`), but the panel's fields start at 0.1. The three range rings share a unit, a sector
and a bearing line have one length each.
`CommandPalette` has a query be what it matches of each candidate; the order of results and
the row of each are given by what comes before it (`Listed`, `Shown`). In
`DebriefReplay` each panel has a count of its clicks (`newest`) that its lookups
compare themselves with, whether or not it is still mounted. `AuditTimeline` has
both ends of the paging: `Index` is the controller's keyset query, `Opened`,
`LoadMore`, `Focus` and `Arrive` the endless query as the hook configures it; an
event is a number that gives its moment and its place among the events of that moment. A page,
there and in `FilteredLists`, is the set of what is on it, for its rows follow from the order.
`BriefingPanel` tells a summary by what it was asked for, so that a file says
both what it is headed and what is in it.

### Composition

The modules meet in rows: `SignalCursor.EvaluateSignal` is the occasion for
`RuleFiring.Evaluate`, whose `matches` are the `Matches` of `IncidentFusion`;
every commit of a service contains the steps of `AuditChain`. So far each module
makes the weakest assumption about its neighbours instead of importing them:
`RuleFiring` may be handed the same triple twice (ticks overlap and are
retried), `IncidentFusion` fuses any matches in any order, `TaskWorkflow` and
`IncidentFusion` add an event at COMMIT, which `SequenceFollowsChain` and
`AuditMatchesData` of `AuditChain` justify.

`ConsoleViews` instantiates thirteen modules over one variable. An operator is in one
view at a time, a view's state begins when it is mounted and ends when it is left,
and views share none of it, so a behaviour is in one view for good: checking the union
checks each view, and no state is lost that one view hands to another. What pages do
share is in `ConsoleSession` and `ConsoleCache`, where pages come and go.

## Runs

| Run | Instance | Shows |
|---|---|---|
| `audit_chain` | 3 interchangeable writers, entities `siteA`, `siteB` in two chains, `user` detached; `MaxWrites` 2, `MaxSequence` 2, 3 attempts | `ChainIntact`, `AuditMatchesData` |
| `audit_log` | 2 writers, `siteA`, `taskA` in one chain and `siteB` in another, `MaxSequence` 3 | refinement of `AuditLog`; `CallsReturn` |
| `signal_cursor` | 3 signals, 2 ticks, limit 2, lookback 1, 2 time units, 1 failure | `OnTimeSignalsEvaluated`, `OnTimeSignalsGetEvaluated` |
| `rule_firing` | one rule, 2 jobs of two signals, cooldown 2, skew 1, 3 time units, 3 faults, 3 attempts | `CooldownRespected`, `FireIsAtomic`, `JobsSettle` |
| `task_workflow` | an operator's and a commander's thread, one asset, 5 events | `ReplayFaithfulUnlessGap`, `TransitionsAnswered` |
| `incident_fusion` | two matches of rising severity, one fused by a job and one a geofence breach, an operator with 2 edits, window 1, 2 time units, clocks that differ by 1, 2 faults | `NoParallelOpening`, `SeverityIsHighest` |
| `stream_admission` | 3 requests, two of one user and two of one address, limits 1, TTL 3, margin 1, wait 1, 4 time units | `BeatingStreamsWithinLimit`, `OrphansReclaimed` |
| `console_session` | 2 requests in flight, 2 sessions, 1 error, 1 reload | `SignedOutStaysOut`, `ExpiryNoticed` |
| `console_cache` | the incidents page and the planning page, the query of incidents, a prosecution or a job, 3 instants, 1 write, 1 fault | `ToldIsShown`, `ShownMatchesPosition`, `PolledCatchesUp` |
| `map_engine` | 5 inputs, 3 toggles, 2 styles, 1 fault | `ShownIsCurrent`, `HiddenStaysHidden`, `BlankIsExplained` |
| `console_views` | see below | one or two properties of each view |
| `signal_skipped_finding` | 2 signals, 2 ticks, 3 time units | refutes `NoSignalSkipped`, see [Divergences](#divergences) |

The type invariants of the server, session, cache and map and the inductive invariants of all
modules are proved, and so are not checked again in a run; a change to a module is best first tried
with `TypeOK` and its `...Inv` added to the configuration.

### Bounds

Bounds are constants named `Max...`, used in guards only.

- `AuditChain`: two writers make every deadlock a real one (row against chain,
  chain against chain), three let a chain pass through a third hand while one
  waits and one aborts. Two writes per transaction are needed to take locks in
  opposite orders and to extend a chain by one's own uncommitted row.
  `MaxSequence` stops new mutations once that many numbers are drawn, and transactions
  under way may draw more, so chains of several rows, gaps and aborted numbers all occur.
- `SignalCursor`: `Limit` 2 with 3 signals makes a batch that is cut, and one
  that is cut between two signals of one instant. Two ticks overlap; one failure
  is enough for a tick to leave a batch half evaluated. The `MaxFailures` bound
  also says that ticks do not fail for ever, which liveness needs.
- `RuleFiring`: three time units with a cooldown of 2 let a rule fire, be
  skipped, and fire again; skew 1 lets a later claim carry an earlier time.
  `MaxFaults` 3 in the live run exhausts `MaxAttempts`.
- `TaskWorkflow`: 5 events reach `blocked` and back to `in_progress`, and
  stale updates before and after. A thread serves any number of requests.
- `IncidentFusion`: `MaxTime` 2 with `Window` 1 lets an incident leave the
  window; two edits are a transition and a severity change, or two of either.
  `Window` 1 and `MaxAttempts` 2 stand for 6 hours and 5 attempts. `Skew` 1 is enough for an
  incident to lie ahead of a reader's clock, and for it to be found later.
- `StreamAdmission`: limits of one make each of the two counts bind for another
  pair of requests; 4 time units let a lease of 3 expire. A unit of time is
  between the heartbeat's period (25 s) and the refresh margin (60 s).
- `ConsoleSession`: two requests in flight are enough for any two answers to
  cross; two sessions, for the answer of one to meet the other.
- `ConsoleCache`: one watched query suffices, since no action relates two; the
  mutation and the pages are chosen so that a write of one page is to show on
  another. Three instants give the replay two positions, and live.
- `MapEngine`: the inputs are one of each kind: made once (sites), made again with
  every style (signals), optional (trails), drawn below another (assets), and
  animated (pulses).
- `ConsoleViews`: one site and one signal, a link and an update
  (`EntitySelection`); layers watched three at a time, those that touch in one effect, with three
  arrivals or departures (`GlobeEngine`); three signals and a limit of two, two
  visits, two faults (`LiveFeed`); two alerts, two sites, one request, one colleague's move
  (`AlertTriage`); a rule, an edit, a colleague (`RuleEditor`); two requests
  (`PlanningBoard`); four clicks (`MapTools`); lengths at which conversion and rounding bite,
  typed twice (`MapLengths`); four items in pages of one, and two questions
  (`FilteredLists`); five queries (`CommandPalette`); two panels with three clicks each, so that
  a lookup of one is answered in the other (`DebriefReplay`); three events, two of them of one moment,
  in pages of one, and two ranges (`AuditTimeline`); two briefings and two exports (`BriefingPanel`). Each
  view's mutant is found well inside these bounds.

### Deadlock

TLC's deadlock check is on for `AuditChain`, `SignalCursor`, `TaskWorkflow` and
`MapEngine`, whose actors can always go on. The views and the console's session
and cache rest when what their operator may do is used up. The other systems rest when their jobs,
matches or requests, of which each is served once, are used up and the clock has
reached its bound; their cfgs say `CHECK_DEADLOCK FALSE`, and progress is a
liveness property there.

### Fairness

- Postgres grants a row or advisory lock to the one that has waited longest, so
  a waiter that finds it free again and again gets it: strong fairness of
  the action that acquires a lock (`Update`, `AcquireChainLock`, `Claim`,
  `ObtainLock`, `Serve`, `Fuse`).
- Once a statement has returned, Ruby code goes on to the next: weak fairness of
  the steps inside a transaction, and of a retry. Queued jobs are taken by a
  worker, and Solid Queue's recurring schedule starts ticks and the lease
  cleanup again and again (`src/backend/config/recurring.yml`): weak fairness of
  `Start`, `Load`, `CleanUp`.
- Postgres resolves every wait cycle after `deadlock_timeout`: weak fairness of
  `DeadlockInService` or `DeadlockInWriter`.
- Nothing is assumed of feeds, operators, streams, faults, aborts or the clock.
- In the browser timers fire, promises settle and requests are answered or time
  out (`api/client.ts` aborts them): weak fairness of `Serve`, `Arrive`, `Poll`, `Tick`,
  of the imports and styles of the map, and of `Progress` in the feed. The
  browser comes back online. Operators and colleagues owe nothing, and neither does an event stream.

## Proofs

Each `Proofs` module proves, for all values of the constants that satisfy the
assumption of its component (any number of writers, ticks, jobs, requests,
matches, streams, console requests, pages, queries, map inputs, rules; any bounds):

| Module | Theorems |
|---|---|
| `AuditChainProofs` | `Typing`, `Invariance`, `ChainAlwaysVerifies`, `NoPositionConflict`, `SequenceAlwaysFollowsChain`; `Histories`, `EventsMatchData`, `Refinement` |
| `SignalPipelineProofs` | of `SignalCursor`: `Typing`, `Invariance`, `NoOnTimeSignalSkipped`, `CursorMonotonic`, `StoredOnce`; of `RuleFiring`: `FiringTyping`, `FiringInvariance`, `FiresAreSpaced`, `NoMiddleState`, `NoFireLostToRollback`, `ActsOnce` |
| `TaskWorkflowProofs` | `Typing`, `Invariance`, `NoTransitionLost`, `ReplayFaithful`, `WorkflowRespected` |
| `IncidentFusionProofs` | `Typing`, `Invariance`, `FusionsSerialise`, `OneClockSecondAttaches`, `SeverityRatchets` |
| `StreamAdmissionProofs` | `Typing`, `Invariance`, `LimitsHold`, `HeartbeatKeepsLease`, `HeartbeatsWithinLimit` |
| `ConsoleProofs` | of `ConsoleCache`: `Typing`, `Invariance`, `NewsIsShown`, `PositionsAreKept`, `HeldBackInReplay`; of `ConsoleSession`: `SessionTyping`, `SessionInvariance`, `NobodyComesBack` |
| `MapEngineProofs` | `Typing`, `Invariance`, `WhatIsShownIsCurrent`, `WhatIsOffStaysOff` |
| `ConsoleViewsProofs` | `Invariance`, `WrittenForItsArea`, `SavedOnce`, `NothingAbandonedReturns`, `TaggedIsTheAnswer`, `CheckedAreListed`, `SelectionStands`, `OneToolTakesClicks`, `ClicksKeepTheirOrder`, `FilesAreLabelled`, `AddressesAreFollowed`, `GlobeCatchesUp`, `FeedMissesNothing`, `ARowIsHighlighted`, `TimelinesAreWhole`, `NoRowIsSkipped`, `RoundingNeverAddsUp` |

The bounds `Max...` are constants like any other in the proofs, so the theorems
hold however large they are.

The arguments:

- **ChainInv.** That committed rows verify says nothing about what a transaction
  in flight will commit. The invariant therefore speaks of every *view* (the
  committed rows and a writer's own): each verifies, in each sequence follows
  position, a writer with rows in flight or past its lock owns the chain, and the
  tip it has read is the tip of its view. Only the owner changes its view of a
  chain, so another writer's COMMIT or abort changes no chain that it does not own.
- **HistoryInv.** What a writer audits of an entity is the version it has made, so
  the events of an entity must, in every view, be its versions from 1 to the last, each once.
  Whoever has updated an entity holds its row from that UPDATE to the end of the
  transaction, so between the two nobody else adds a version or an event of it, and the
  update that is still to be audited is the next one (`PendingIsAhead`). At COMMIT the
  committed rows take over the writer's view, and `AuditMatchesData` follows. For the refinement,
  COMMIT is the abstract `Append` of what the writer changed and every other step
  stutters. It assumes `Detached = {}`, as the run does: a detached mutation is
  committed in a step that the abstract log, which promises that data and log move
  together, does not have.
- **CursorInv.** `OnTimeSignalsEvaluated` is about the cursor alone and is not
  inductive: a tick advances from a batch it read long ago. A running tick
  started from a value the cursor has since reached, and its batch leaves out no
  on-time signal before its end unless that was evaluated (`TicksStartBehind`,
  `BatchesAreComplete`). A slow tick can then only advance over
  signals that it or a faster one has evaluated. `StoredOnce` needs only that an INSERT
  waits while a row of its observation is uncommitted: of the rows of one observation at most
  one is inserted or committed (`OneRowHeld`).
- **FiringInv.** While a job has the rule's row, the cooldown it found over stays
  over (`ClaimStands`), and `last_fired_at` is the latest match
  (`LastFiredIsLatest`), so a new stamp is a cooldown after *every* match,
  although clocks differ. Beside it, a match names its job's rule and signal
  (`MatchesAreOfTheirJobs`), so a job whose rule has acted on its signal finds the match.
- **WorkflowInv.** Inside the lock a transition has the row, a fresh copy and a
  permitted move (`LockHolds`). Updates do not touch `status`, so the log's moves
  chain up. Typing includes the table's CHECK constraints, which no interleaving
  of stale copies can break.
- **FusionInv.** What a fusion selected under the site's lock still stands when it
  writes (`SelectionStands`), operators excepted, which is what `touched` and
  `edited` say. Time may pass between the selection and the write, so what stands is said of the
  time the fusion read. An incident that nobody has touched, whose window is open and that no fusion
  has passed over (`passed`) is the last one, whatever the clocks do (`FusionsSerialise`); with
  one clock none is ever passed over, so a second match attaches (`OneClockSecondAttaches`).
- **AdmissionInv.** Purge and counts are exact for the time read before the lock
  (`PurgeIsExact`, `CountStands`), and that time is at most `Wait` ago
  (`StampsRecent`), so a lease that a heartbeat has kept fresh is never among the
  purged.
- **SessionInv.** A granted login names a session (`GrantsAreSessions`), so a login
  that arrives shows the user it remembers. A slot that holds a logout keeps it until
  its answer, and that answer, or its failure, forgets the user. A reload shows the
  user it finds, so nobody is remembered and unseen in any other way.
- **CacheInv.** An entry's data and the fetch that is under way for it belong to the
  position its key names; today's data, unless it is flagged, and an answer for today that
  is on its way are at least as recent as what the console has been told (`EntriesFit`); and
  what it has been told is never ahead of the server (`NewsIsKnown`, `Counted`). That a
  write keeps this is a fact about the table, proved over all of it: every mutation
  invalidates the resource its call addresses (`AddressedIsInvalidated`). What a write changes beyond
  that is open in the model, and the console is told of it only by an event that
  invalidates it. The proof covers any choice of queries, pages and
  writes, those included that the run does not watch.
- **MapInv.** Each hook brings what it draws up to date and leaves every other source
  alone (`Keeps`), and two hooks in a row do both (`KeepsBoth`), so a render, all hooks
  in their order, leaves no source behind. A source on the map has its layers
  (`Sound`): a toggle hides layers, and would otherwise have nothing to hide.
- **ViewsInv.** A conjunct for each of the thirteen views; a step is a step of one view. In the
  planning board a draft is of the area its key names (`DraftsOfArea`), and the effects
  of a render make that key name the area shown (`RenderKeeps`), so a save sends
  a draft with the area it is of. In the rule editor the key tells
  whether the drawer is open and for which rule, so a drawer that opens always seeds
  its form (`DrawerOpens`): this needs that no rule is called `Nothing`, which
  `RulesAssumption` says. On the triage lists, the rows shown were listed as well as
  the alerts checked. "At most one tool" is carried as "none, or one" and turned into
  a cardinality at the end. In the debrief the click that last moved the replay is at
  most the newest of its panel, and a lookup that is not superseded *is* the newest
  (`DebriefKept`). In the briefing a context names its site or none (`Headed`), from the
  click to the file (`Labelled`). In the selection, an address the
  page has followed or has just written is what is selected (`Agrees`), and one it has
  not followed has an effect due that will, or names an entity still to arrive (`Waits`);
  on the globe, a layer that is behind has something due that it depends on; in the
  feed, of the signals stored since a snapshot was asked for the newest are held, or owed
  by the stream (`HeldSince`), where lemmas about cardinality stand for sorting. On the
  board, the commander's own chokepoint stays the one shown as long as either the list
  or the page has it (`RenderStays`).
- **ViewsInv, of what is sorted.** The palette, the timeline and the lists sort and cut. Their
  models say which row a result has, or which page an item, by what comes before it:
  its rank, the cardinality of a set. Under a strict total order ranks are distinct
  (`RankLess`) and each from 0 up to the last is taken (`RankTaken`), by injection and
  finiteness, where a definition of sorting would need induction over sequences.
  In the palette the highlight is a rank below the number of results, except that it is -1
  when there are none (`PaletteInv`), so some result has it. A page of the timeline is what has rank below the
  limit after a cursor, the least event of the page before: the pages held, *and* those a
  refetch has gathered so far, are each in order and whole down to their last row
  (`Whole`), and an appended page keeps that (`PageAppended`). A page of a list is a window of ranks
  in what was known when it was fetched, and what is known only grows (`Scrolled`). The place of a
  signal alone at its moment is the number of newer ones (`PlaceOfItem`), so it can only rise from page to
  page, and the first page whose window ends beyond it has it; if a row is older there is such a page.
- **ViewsInv, of the lengths.** Rounding has no induction in it either, since it settles: miles and kilometres
  are written to different steps, and what was once written to the coarser step
  comes back unchanged from the finer. `Reads` lists what a length may read after any number of switches
  (as typed, converted once to the finer step, settled near what was meant, or written for what is
  settled), and `ReadsKept` is the case analysis that a conversion leads from one of these
  to another. The 150 m of `RoundingStaysSmall` is the worst of them, and it is reached. Ten nautical miles
  are the one place where both steps meet, with a disjunct of its own.

Every invariant and every action property that a passing run checks is a theorem, and so is
the refinement. Only model-checked are the liveness properties (`CallsReturn`,
`OnTimeSignalsGetEvaluated`, `JobsSettle`, `TransitionsAnswered`, `OrphansReclaimed`,
`ExpiryNoticed`, `PolledCatchesUp`, `BlankIsExplained`, `FeedStarts`), since TLAPS has no rules
for fairness and ENABLED.

Some properties are stated by a module and proved, but checked by no run:
`PositionsUnique`, `SequenceFollowsChain`, `CursorNeverRegresses`,
`SkippedOnlyForAFire`, `StatusHistoryComplete`, `LeasesWithinLimits`,
`BeatingStreamsLeased`, `GuardedWhileMounted`, `OneRowPerObservation`,
`ActsOncePerSignal`. `FusionsEnd` and `AsksAnswered` hold on instances of their modules,
and are neither in a run nor, being liveness, proved.

## Divergences

Where the code does something a document, comment, test or label denies. For each
the property is stated in its module, and TLC prints the interleaving.

In `PROJECT.json`, checked with the others: **A signal may be skipped**
(`SignalSkippedFinding.cfg`, `NoSignalSkipped`). `ingested_at` is when the
inserting transaction began (`src/backend/db/structure.sql:287`). A signal that
commits after the cursor has passed that time is never read.
`models/ingestion_cursor.rb:6-8` says no signal is "skipped even under
concurrent ingestion bursts".

The others are found by giving the configuration named here the property in
place of its own (and `CHECK_DEADLOCK FALSE`):

| Configuration | Property | Code | Says otherwise |
|---|---|---|---|
| `AuditRetryFinding.cfg` | `RetryStartsFresh` | `services/audit/event_writer.rb:72` retries inside the transaction Postgres has aborted, and fails with attempts left | its comment, lines 28-30: "the retry starts fresh" |
| `AuditChain.cfg` | `EveryMutationAudited` | `services/mfa/enrollment_service.rb:91` commits before the event is written | `src/README.md:376`: "structurally impossible to diverge" |
| `RuleFiring.cfg` | `NoMatchOrphaned` | `services/correlations/rule_firing_service.rb:127` enqueues after COMMIT and logs a failure | `jobs/incidents/fusion_job.rb:2-4,19`: "commits atomically", "no silent loss" |
| `RuleFiring.cfg` | `OtherFailuresRetried` | `jobs/correlations/rule_firing_job.rb:53` raises a RuntimeError, which `retry_on` does not name | its comment, line 52: "raise so SolidQueue retries" |
| `TaskWorkflow.cfg` | `CommandersSignOff` | `services/tasks/transition_service.rb:40` checks the role on the copy loaded before the lock; after it only `transition_allowed?` is repeated (line 68), so a request to go from `triaged` to `in_progress` that waits while others block the task unblocks it | the commander-only edges of the same service |
| `TaskWorkflow.cfg` | `ReplayMatchesTask` | `services/tasks/update_service.rb:27` audits an unlocked copy, status included | `src/README.md:376` |
| `IncidentFusion.cfg` | `FusionNeverDowngrades` | `services/incidents/fusion_service.rb:124` writes the higher of the match's severity and the one it read, over what an operator has set since | its lines 10-11: "never auto-downgrades" |
| `IncidentFusion.cfg` | `OneIncidentPerMatch` | `services/incidents/fusion_service.rb:59` enqueues after COMMIT; if that raises the job fuses again, perhaps elsewhere | `jobs/correlations/evaluate_recent_job.rb:78-80` takes reprocessing to be idempotent |
| `ParallelIncidentFinding.cfg` | `SecondAttaches` | `services/incidents/fusion_service.rb:74` ends the window at the clock of the process that fuses, so an incident that a process whose clock is ahead has just opened is not found, and another is opened | its lines 37-38: "the second one re-reads an incident that the first already created and attaches to it rather than opening a parallel one" |
| `IncidentMovesFinding.cfg` | `MovesAreAllowed` | `services/incidents/transition_service.rb:17` checks an unlocked copy | `models/incident.rb:5`: "Status → allowed next statuses" |
| `IncidentMovesFinding.cfg` | `TransitionsReplayable` | `services/incidents/transition_service.rb:40` saves what changed on a stale copy but records all of it | its lines 2-4: "so the change is replayable" |
| `StreamAdmission.cfg` | `StreamsWithinLimit` | `controllers/application_controller.rb:78` ends the heartbeat thread and not the stream, whose lease expires | `src/docs/adr-002-horizontal-scaling.md:105`: "enforced globally" |
| `ConsoleSession.cfg` | `OnlyExpiredCookiesLogOut` | a 401 that arrives after the next login logs that session out: `context/AuthContext.tsx:16` sends a logout with the cookie of now | its comment, "so expired cookies automatically log out" |
| `ConsoleCache.cfg` | `NothingFiresInReplay` | a write held back offline, whose component is gone, is sent with the closure it was made with, in a replay or not | `hooks/useReplayGuardedMutation.ts`: "the mutation itself will not fire" |
| `ConsoleCache.cfg` with `Zone = 1` | `PickerShowsPosition` | the picker's digits are written in one zone and parsed in another | `utils/datetimeLocal.ts:2-3`: "bridge the gap" |
| `MapEngine.cfg` | `EngineErrorOnlyFatal` | a tile that fails before the first load is reported as the engine's failure | `hooks/useMapLibreEngine.ts`: "non-fatal MapLibre tile/source errors do NOT populate this" |

In the views, `ConsoleViews.cfg` with the property of the instance in place of
its own (`view = "triage" => Triage!...`):

| Module | Property | Code |
|---|---|---|
| `AlertTriage` | `FocusStaysOnAlert` | the focus is an index and is reset only when the number of matches changes (`hooks/useTriageKeyboard.ts:41`), though the comment above says "when matches change": a key may move another alert than the one focused |
| `AlertTriage` | `CheckedAreOfTheSite` | the tab of a site keeps `selected` when a search leads to another site (`components/site-detail/SiteRuleFiresTab.tsx:78`; the route in `App.tsx:53` has no key), and the next bulk action moves those alerts with the rest |
| `CommandPalette` | `EnterRunsHighlighted` | Enter runs `results[selected]` (`components/GlobalSearch.tsx:367`), in the order of relevance; the highlight counts in the order of the groups (line 418), and the hint says Enter runs it |
| `EntitySelection` | `MapKeepsAddress` | on the map hiding the signals reports a click on nothing, which clears the selection and the address; `pages/GlobePage.tsx:188-190` says "MapPage preserves URL selection across layer toggles" |
| `GlobeEngine` | `SignalOutlineIsCurrent` | signals that arrive while hidden are added when they are shown, and the effect that marks evidence does not depend on the toggle (`hooks/globe/useGlobeSignalPrimitives.ts:196`); its comment says new primitives "pick up the correct outline on first render" |
| `LiveFeed` | `FeedIsCompleteAgain` | a second visit reuses the snapshot the cache holds under the first connection's key and is not sent what came between |
| `RuleEditor` | `ResultIsOfTheRule`, `SaveKeepsTheRest`, `SaveClosesItsOwn` | the answer of a dry run shows in the drawer of another rule; a save drops actions the form does not show; a late answer closes the drawer that has since been opened |
| `PlanningBoard` | `SaluteIsOfTheArea`, `TypedIsKept` | a report in draft keeps the site of the area left; a refetch that changes its source seeds a draft again over what was typed |
| `BriefingPanel` | `ExportNamesItsSite` | a site chosen live that the replay's list does not have is asked for, and the card and the file name none (`components/BriefingPanel.tsx:112`), which reads as all sites; its comment at lines 29-32 means to prevent "mis-labeled PDF exports" |
| `FilteredLists` | `OneRowEach` | a signal that arrives between two pages shifts one over their boundary and it has two rows |

The properties that hold beside these say how far each goes: signals that commit
before they are overtaken *are* evaluated; only events that do not connect
can make a task's replay wrong (`ReplayFaithfulUnlessGap`), so the divergence is
detectable; streams with a running heartbeat *are* within the limit; incidents
no operator has touched are doubled only by a fusion whose clock is behind.

Facts about the console that the modules show without a property of their own,
which a reader of the code may want to know:

- React Query is configured so that an invalidation is swallowed by a first fetch
  that is under way, the cache is not cleared at logout, and events lost during a
  reconnect are not sent again.
- A mutation's `onSuccess` invalidates the resource it addresses and not all that the
  write changes. `execute` writes alerts, incidents, tasks or a site
  (`services/recommendations/executor_service.rb:58-85`), and `hooks/useRecommendations.ts:46-47` invalidates only the
  recommendations; its events announce a moved alert, a flagged site or an assigned asset, but
  neither a task it creates nor an incident it moves. `createTask` does not invalidate the planning
  overview (its event does), `transitionIncident` and `updateIncident` not the incident's chain, which
  shows its status and severity (`controllers/api/incidents_controller.rb:203-211`), and
  `addProsecutionStep` and its event the one incident but not the list. What is polled catches up;
  tasks, sites and planning wait to be mounted or focused again.
- The login form has no field for a second factor, which the server asks for.
- Trails that arrive while their toggle is off are drawn; the evidence ring is
  added visible while signals are hidden; replay pulses lie above a measurement.
- A reconnection of the signal stream empties the feed until the snapshot has
  come, and the selection of a signal goes with it.
- In triage the answer of a bulk move clears what was checked meanwhile, "all
  selected" compares sizes, and a range is checked from a remembered row number.
- On the signal feed an AI answer leaves the chosen type and source as they are
  and is tagged as applied; on the tasks page clearing ends the indicator of a
  question that is still out.
- A lookup of a debrief that was left still moves the replay and navigates when it is
  answered: `components/DebriefPanel.tsx:79` ("a newer click supersedes any in-flight
  lookup") holds within one panel, and is stated so (`LatestClickWins`).
- A debrief's range opened again while the cache remembers it keeps the moment it was
  first opened at, and shows no event since.
- A briefing's context is captured at the click; the comment says "at response time".
- Ten nautical miles typed, switched to kilometres and back, read 9.99.
- `controllers/api/signals_controller.rb:26` orders signals by time alone, so those
  of one moment may change places between two pages and one of them be skipped:
  `NothingSkipped` is stated for signals of different moments.

## What is left

1. `CorrelationPipeline`: `SignalCursor`, `RuleFiring` and `IncidentFusion`
   composed, with the queue database between them, against an abstract
   specification: an on-time signal that matches an active rule outside its
   cooldown ends in one incident, or in a logged failure.
2. On the server, modules of their own for alerts and prosecution (checked on unlocked copies),
   recommendations (review under `with_lock`, execution inside its transaction),
   the live fan-out (bounded queues, eviction, relay, hand-over), the single use of
   TOTP steps and recovery codes, the backfill of chains beside `EventWriter`, the
   circuit breaker and the telemetry partitions.
3. Proofs of the liveness properties, for which this prover has no rules.

Not modelled, and not planned: fetching and parsing of feeds, geometry and
condition matching, prompts and replies of the language model (external formats
and data no property depends on); exports, briefings, risk scores and metrics
(read-only computations); single-row audited CRUD (`AuditChain` models its
pattern); policies (predicates over rows, per request). Of the console: layout,
colours, charts, the force graph and the swimlane, the geodesy of what is drawn,
and forms that keep no state across answers. What remains of the console's code
after the modules is markup, types and formatting.

Taken as documented: that the hash function is injective; that Postgres implements READ
COMMITTED, its locks and its deadlock detection; that React runs the effects of a render in the order of the
hooks and before the next event; that React Query, MapLibre and Cesium do what
the external definitions of `ConsoleCache`, `MapEngine` and `GlobeEngine` say.
