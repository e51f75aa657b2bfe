# A verification development for festival-bloomberg

TLA+ modules, TLC models and TLAPS proofs about the parts of this repository in which several processes share
state: the acquisition runtime on Cloudflare Workers (`cloud-runtime/`), which spends money on pages and fires
batch jobs; the jobs themselves (`python/festival_bloomberg/cloud/`, `scripts/lb_*.py`), which publish
generations of data to R2; the local warehouse, its alerts and its served snapshot; and the chain that carries a
generation to the hosted terminal (`terminal-runtime/`). The analysis code (statistics, matching, reports) is
inventoried below and not modelled.

Paths are relative to the repository. `governor-do.ts`, `queue-consumer.ts`, `source-scheduler.ts`,
`watermark-controller.ts` and `index.ts` are in `cloud-runtime/src/`, `hosted-promotion.ts` and
`terminal-container-do.ts` in `terminal-runtime/src/`, `batch_jobs.py`, `factor_history.py` and `r2_lake.py` in
`python/festival_bloomberg/cloud/`, the other Python paths under `python/festival_bloomberg/`.

## 1. The system

| Component | State it keeps | Operations | Talks to | What makes it correct |
|---|---|---|---|---|
| **Acquisition Governor** (`governor-do.ts`, `governor.ts`), a Durable Object | spend of the day and month, reservations, leases, idempotency keys, observations, breakers, cooldowns, rate counts | reserve, commit, release, record observation / failure / success / rate limit, reset, constructor | called by the queue consumer, planner (reads), admin endpoint (reset) | spend and reservations within budget; leases bounded; no reservation outlives its lease; one holder per task |
| **FAST/browser consumer** (`queue-consumer.ts: handleFastBatch`) | none but the message it holds | reserve, acquire, put raw, put staging, commit, record, acknowledge; failure and catch paths | Governor, router, R2 buckets, dead-letter queue | done implies evidence; a task is paid once; nothing leaks; every message settles |
| **Source scheduler** (`source-scheduler.ts`) | one JSON object per family in R2 | one tick: observe, decide, fire, store | batch containers, Gold pointers, job manifests | one job at a time; backoffs honoured; cursor never ahead of data; no wedge |
| **ListenBrainz full scan** (`scripts/lb_full_scan.py`, `scripts/lb_launch_parallel_tar_map.py`, the reduce job of `batch_jobs.py`) | a checkpoint per job, partials, markers, Gold in R2 | map a slice batch by batch, seal the slices, reduce artist-days, affinity partitions and pairs, publish | R2, containers, a watchdog that restarts them | Gold covers the whole corpus; a checkpoint promises only what is uploaded; the map ends |
| **Batch jobs and their publication** (`batch_jobs.py`, `factor_history.py`, `r2_lake.py`) | plans, checkpoints, generations, CURRENT pointers, manifests in R2 | plan, build, upload, verify, move CURRENT, record | R2, providers | CURRENT names verified bytes; no lost update; manifests tell the truth |
| **Event acquisition, activity tape and alerts** (`oa/live_data_activation.py`, `intelligence/tape.py`, `identity/ticketmaster_resolution.py`, `product/workflow.py`) | append-only event snapshots, acquisition runs, tape, resolutions, alerts and their edges in DuckDB | acquire a market, derive the tape, resolve, alert | Ticketmaster, DuckDB (one writing process) | an alert leads back to what it is about; tape and alerts agree; a new event is announced |
| **Serving snapshot** (`terminal/storage.py`) | snapshot files and `CURRENT.json` on disk | count, copy, strip, verify, rename, replace the pointer; validate and open | the warehouse above | what CURRENT names can be opened and is one cut of the warehouse |
| **Serving watermark trigger** (`watermark-controller.ts`, `index.ts: scheduled`) | a trigger ledger and the time of the last refresh in R2 | compare Gold with Serving, deduplicate, start a serving build | Gold pointers, Serving CURRENT, batch container | every Gold change is served in the end; one fingerprint is built once |
| **Hosted promotion and terminal container** (`hosted-promotion.ts`, `terminal-container-do.ts`, `docker/terminal_entrypoint.py`) | one promotion state in R2, the container and the database it opened | trigger a restart, verify by `/health`, back off, give up | Serving CURRENT, container runtime | FRESH only if the container serves it; restarted once; the promotion comes to rest |
| Batch container (`batch-container-do.ts`) | current job, status object | startJob, monitorJob, restart, alarm | container runtime | status tells the end of the job; a monitor touches its own job only |
| Materialization (`queue-consumer.ts: handleProcessingBatch`) | staged objects, chunks | list, merge, delete | R2, processing queue | every staged observation ends in exactly one chunk |
| Planner, forward planner, workflow | plan records | select due pairs, enqueue | Governor, queues | an unobserved pair is enqueued; an observed one waits for its cadence |
| Structured / YouTube / dead-letter consumers | none | fetch, write, acknowledge | R2 | a message is acknowledged after its object is written |
| Router, browser, Monid, Common Crawl clients | none | rail fallback | providers | - |
| Mapping, task contract, cost model, observability | none | pure functions, counters | - | - |
| Python acquisition, flywheel, warehouse, evidence, identity, economics, security, intelligence, CLI, scripts | DuckDB files, reports | data processing | local disk | properties of data |

**How they interact.** Producers (cron, workflow, admin endpoints) put tasks on the queues. The consumer asks
the Governor for a reservation, acquires the page through the router, writes the raw object and the staged
observation, and commits; each is an awaited remote call that may fail, or take effect and lose its answer. The
platform redelivers messages and moves exhausted ones to the dead-letter queue. Independently the cron ticks the
source scheduler every minute, which fires batch jobs and learns of their end from manifests only. A job reads
its inputs, uploads a generation, verifies it and moves the CURRENT pointer of its family. The watermark block
of the same cron compares those pointers with the lineage Serving CURRENT carries and starts a serving build in
a container of its own; every five minutes the cron of the terminal Worker compares Serving CURRENT with what
the promotion state calls hosted, restarts the terminal's container and asks it what it serves. On the analyst's
host, programs that share one DuckDB file acquire events, derive tape and alerts, and publish the copy the local
terminal opens.

**What is hard here.** Leases that expire under a handler that is still at work; budgets whose day turns inside
the constructor of an object that may live for days; puts and commits with no transaction around them;
at-least-once delivery; state objects in R2 that are read, and several awaits later overwritten, without a
version check; checkpoints that are saved before or after the thing they promise; errors that are read as
"nothing there"; pointers that move between the two reads of one reader. `PROJECT.json` lists these hazards one
by one, each at its line.

## 2. Modules

| Module | Models | Builds on |
|---|---|---|
| `BudgetLedger` | the abstract promise about one budget: hold if it fits, settle a hold, overdraw visibly, begin a period | |
| `Governor` | the Durable Object; one action per RPC, plus `Restart` (constructor), `ResetState` and the clock | |
| `Governor_proofs` | theorems about `Governor`, checked by TLAPS | `Governor`, `BudgetLedger` |
| `SourceScheduler_proofs`, `ListenerScan_proofs`, `GoldPublication_proofs`, `HostedPromotion_proofs` | theorems about the module named | the module named |
| `ServingSnapshot_proofs` | theorems about the warehouse and its snapshots | `ServingSnapshot`, and with it `EventAlerts` |
| `ServingRefresh_proofs` | theorems about the chain | `ServingRefresh`, `HostedPromotion_proofs` |
| `FastQueue_proofs` | theorems about the consumers and their use of the Governor | `FastQueue`, `Governor_proofs` |
| `FastQueue` | queue, handlers, buckets, dead-letter queue; one action per await | EXTENDS `Governor` |
| `SourceScheduler` | ticks over two families, one action per await, and the ends of jobs | |
| `ListenerScan` | map workers, the seal, the reducers, their checkpoints in R2 | |
| `GoldPublication` | eight publishing jobs and their CURRENT pointers | |
| `EventAlerts` | acquisition, tape, resolution, alerts; one action per statement | |
| `ServingSnapshot` | publishers that copy the warehouse while it is written | EXTENDS `EventAlerts` |
| `HostedPromotion` | promotion ticks, the container and its boot | |
| `ServingRefresh` | watermark cron and serving builds | EXTENDS `HostedPromotion` |
| `MC...` | the instances TLC checks | the module named |

In every module `faults` counts what goes wrong (a call that throws, a process that dies, a message delivered
twice) up to `MaxFaults`; the other bounds are constants named in the module. A put that throws may have taken
effect. An error the code swallows is modelled as what the code then believes.

### Governor

The object is single-threaded and each RPC mutates its state before its one `save()`, so an RPC is one action.
`Next` lets anyone call anything at any time. Correspondence:

* `daily_spend`, `monthly_spend`, `reserved_spend`, `current_day`, `current_month`, `reservations`,
  `active_leases`, `recent_task_keys`, `observation_state`, `circuit_breakers`, `provider_cooldowns` are the
  fields of `GovernorState`; `rate_counts` is `provider_rate_limits`. `active_containers` is recomputed from
  the leases before each test and is not kept. `overdraft` is a history variable that no action reads.
* Money is counted in paid pages (0.0009 USD, the only amount producers of FAST tasks reserve), so a
  reservation is a set member and its sum a cardinality. A commit costs 0 or 1.
* `ReserveTask` has the three ways the code ends: known task (nothing changes), refused (stale leases are
  expired first), allowed. `ReserveReason` keeps the order of the tests.
* A refusal does not save the expiry it made. The constructor makes the same expiry again, so one copy of the
  state serves for memory and storage.
* `Restart` is the constructor: the only place where a new day or month is noticed.
* `reserveTask` never increases `reserved_spend`; the model has the field because commit, release and expiry
  decrease it, clamped at 0.

### FastQueue

`worker[w].pc` names the await a handler is at. `Await` says what every call may do: take effect and go on, or
throw, having taken effect or not, into the catch block. `Crash` kills a handler anywhere, `Redeliver` brings
back an acknowledged message, `Requeue` is the platform's retry with `max_retries`. All of these but `Retry`
use up `MaxFaults`; an exception of the router does not, since pages fail on a platform in order. A handler works on one message; `fi-browser` hands out batches of two, worked on in turn.
Two handlers stand for `fi-monid` (one) and `fi-browser` (two), which share `handleFastBatch`. The acquisition
router is reduced to its outcomes: a page for 0 or 1 units, no rail that works, an exception.
`commits`, `lapsed`, `forgotten`, `stranded` and `outcome` are history; `stranded[t]` is when the last handler left a
task for which the Governor holds something.

### SourceScheduler

`ticker[t]` is an invocation of `runTick`: the family it is at, the time it started (`nowIso`), the Gold and
state it has read. A tick walks gold, load, observe, save, fire and mark (or keep) for each family. What the
code computes without awaiting is one step (`Decide`). A put that throws ends the tick; a start that throws is
swallowed (`safeFire`); a read that throws is "nothing there" (`readJson`, `loadState`). A job is its manifest,
and `JobEnds` enumerates the manifests `batch_jobs.py` writes. Job ids hold the second of the tick, so every job
fired is taken for a new one, with a container of its own. Both families share no state, so the run about
overlapping ticks looks at Spotify alone. `Observed`, `ShouldTrigger` and the `On...` operators are the pure
functions of the source.

### ListenerScan

A batch (four shards of the dump) is the unit of the map, a listener partition that of the affinity reduction;
an object is the set of cells `<<partition, batch>>` summed into it, so that "whole" and "twice" can be told.
`ckpt` holds the checkpoint under each job's key, the canonical one under `Full`; it is overwritten without a
version, as `save_checkpoint` does. `job[j]` is a container: its `pc`, the checkpoint in memory, the work and the
steps left. A map worker (`StartMap`, `SkipBatch`, `UploadArtistDay`, `UploadListeners`, `CommitBatch`,
`FinishMap`) loses all but its checkpoint when it dies; `Loaded` is `load_checkpoint`, for which any exception
means a fresh start. `StartSeal` / `SealRead` / `SealPut` is the launcher's `--seal`. A reducer copies the
canonical checkpoint under its key (`Bootstrap`, `ResumeSlice`, `PutBootstrap`) and then walks its phases; what
each phase demands is `Admissible`, what it adds `Reduced`. Affinity slices have a key of their own, all other
reducers write the canonical one. The watchdog restarts a worker whose slice is incomplete; starting one whose
work is done counts as a fault, which keeps the instance finite.

### GoldPublication

A behaviour is about one of eight jobs (`family`), each with CURRENT and control keys of its own. They share
upload, verify, move, publish and differ in three ways: how they read their parent (a durable plan; the ETag at
the start; download and merge, an exception meaning no parent; not at all), how they move CURRENT
(`put_json_if_version` against a plain put, the scoreboard before its verification) and what a failure leaves in
the manifest (`FinalStatus`). A generation is the set of observations it holds; `run[r]` is a container, and two
of them may run the same job id. The factor tape's plan, chunk checkpoints and result are `ReadPlan` to
`PutResult`. `r2_lake.read_checkpoint` answers None for every exception, so a rebuild may take an observation for
missing (`Assemble`), which the history variable `unread` remembers.

### EventAlerts and ServingSnapshot

DuckDB admits one writing process, so `pc` is the one program at work; every statement commits by itself and is
an action; `Crash` leaves what was written. A snapshot's place in the ledger is its key and its time of
retrieval. `TapeRows` is what `intelligence/tape.py` would derive from the snapshots, `Changes` what
`_compare_consecutive` of `product/workflow.py` would; both are pure functions of the snapshots, while `tape`,
`alerts` and `edges` are what has been written. A batch is written in a fixed order (`NextOf`), which order does
not matter for what is checked. `ServingSnapshot` adds publishers that open the same file read-only between the
writers' programs: count, copy, strip, seal and verify (one step: the temporary is the publisher's own), rename,
and the three steps in which `CURRENT.json.tmp` is opened, written and renamed, with the descriptor that follows
a renamed file.

### HostedPromotion and ServingRefresh

`tick[t]` is an invocation of `runTick`: Serving CURRENT and the promotion state it has read and where it stands
(load, restart, verify, save). `Decision` is `decidePromotion` with its early returns in their order, the
`StateAfter...` operators build the state that is saved. `box[d]` is the container of a deployment: it boots by reading the metadata of CURRENT and then
streaming the database, whose digest must match what was read (`StreamMatches`), and otherwise exits. Backoff is
a flag that time clears (`BackoffEnds`). A cold start may outlast the cron's period, so ticks overlap.

`ServingRefresh` replaces `Publish` by the builds the watermark cron starts. `lineage[g]` is the fingerprint a
Serving generation carries. Two families stand for all: `w`, watched by the cron and read late by the build
(Wikimedia, Spotify), and `f`, folded in early and not watched (factor tape, ticket market). What a generation has of
`w` is the lineage the build collects and the cron compares (`batch_jobs.py:1736`); whether the build folded the data of
that very generation is not followed, and sentiment, which has no lineage in CURRENT, is not in the model. The
cron reads its three objects in any order (`Promise.all`), decides (`GoldIsAhead` is `decideServingTrigger`), starts a
build and records the trigger; the build remembers the CURRENT it found and publishes only over that one. Whether
`LAST_REFRESH.json`, read after the others, is a day old, missing or cannot be parsed is a choice of the model, so the
nightly build may come whenever Serving seems caught up. `blind` remembers what a build failed to read.

## 3. Runs

Passing runs (2 workers; each about three minutes at most):

| Run | Bounds | Shows |
|---|---|---|
| `governor` | 3 tasks, budget 1 a day and 2 a month, 2 leases, days of 1 tick, months of 3 days, clock to 3 | `LeasesWithinLimit`, `DailyLedger`, the refinement of `BudgetLedger` |
| `fast_one_task` | 2 messages of 1 task, 2 handlers, 1 retry, 1 fault, clock to 1 | `DoneIsEvidenced`, `ExclusiveUnlessLapsed`, `NoLeakWithoutFault`, `MessagesSettle` |
| `fast_three_tasks` | 3 messages of 3 tasks, one without a URL, 2 handlers, budget 1, a day of 1 tick, 1 fault; handlers and the two tasks with a URL are alike (2.5 million states) | `OverspendBounded`, `StrandedHoldsLapse` |
| `source_serial` | both families, 1 invocation, 2 jobs, 1 fault, clock to 4 | `OneLiveJobUnlessLost`, `BackoffHonoured`, `NeverWedged`, `EndedJobsAreObserved` |
| `source_overlap` | Spotify, 2 invocations, 3 jobs, clock to 1, no fault (2.9 million states) | `CursorFollowsPublication` |
| `listener_scan` | 3 batches in 2 slices, 2 partitions, 1 affinity slice, 2 other reducers, 2 of them at once, 1 fault | `GoldIsWhole`, `DoneIsInTheLake`, `BatchesInOrder`, `ProgressKept`, `MapCompletes` |
| `gold_publication` | each of 8 jobs, 2 containers, 2 job ids, 2 observations, 3 attempts, 2 faults for the jobs that compare and swap and 1 for the others (1.2 million states) | `CurrentIsVerified`, `CurrentNeverRegresses`, `TapeIsWhatWasPlanned`, `ManifestTellsTheTruth` |
| `terminal` | 1 event, 2 markets, 2 reports of it, 2 acquisition runs, 1 publisher, 2 snapshot ids, 1 fault (2.3 million states) | `OrphansNeedCrashes`, `AlertsAreTaped`, `NewEventsAreAnnounced`, `CurrentOpens`, `ServedIsOneCut` |
| `hosted_promotion` | 1 deployment, 2 overlapping ticks, 2 generations, 2 failures to give up, 2 faults (1.4 million states) | `HostedIsServed`, `RestartedOnce`, `PromotionSettles` |
| `serving_chain` | 1 deployment, 1 tick, 1 cron, 2 generations of Gold (two of one family, or one of each), 2 builds of which 1 may be nightly, 1 fault (0.8 million states) | `ServingNeverRegresses`, `NoDuplicateBuild`, `GoldReachesTheScreen` |

Why the bounds are enough for what they are used for: a lease expires, a day and a month turn, a second and a
last attempt happen, the idempotency table of 2 keys overflows with 3 tasks; the cohort of 2 wraps in a universe
of 3, windows and backoffs end before the clock does; a slice has a batch that was committed and one that was
not, each partition is empty in one batch, a worker is resumed and a seal repeated under a reducer; a job
id is retried, raced by a second container and overtaken by another id; an event is first seen, changes, and is
seen by a run that stops; a generation is published while a container boots and while a promotion is in flight,
and the last failure is reached; a build is overtaken by another, and Gold advances before, during and after the
build of the generation before. Every action fires in some passing run, and
each property has a mutant of the code, in the module, that violates it within the same bounds.

What the properties except, and where that leaves a hazard without one, is said in their comments and in the notes of
the hazards. Three are worth a word:

* `StrandedHoldsLapse`: what a killed handler, or one whose release failed in its catch block, leaves held counts
  against budget and containers for one lease at most. That the task itself may be lost meanwhile (its redelivery is
  refused and acknowledged) is what `MessagesSettle` allows.
* `AlertsAreTaped` demands, for every snapshot that makes the change an alert tells of, the row of that change with that
  snapshot as its source record. Status and price changes have no row on the tape. Presales are excepted as well:
  the docstring (`intelligence/tape.py:425`) promises them, but the row PRESALE_DISCOVERED is written for the first
  snapshot of every event (`:479`), with presales or without, and never when presales appear.
* `GoldReachesTheScreen` excepts what was given up (`GivenUp`: the ledger names a fingerprint whose build came to
  nothing) and the case that the bound on builds is reached while the cron would start another (`OnlyTheBoundStops`:
  two builds have run and what Gold has now is neither served nor in the ledger). When both generations of the
  watched family had a build of their own, neither exception applies, and Serving must have the second.

`FastQueue` and `SourceScheduler` stop their clock at `MaxTime`; both go on taking steps there (restarts,
ticks), so deadlock is checked. It is not checked in `listener_scan` and `gold_publication`, where the bounded
work really comes to an end: all jobs done, all attempts used.

### What the code does against its own words

Two runs each check one sentence that TLC refutes; the sentence and the line are under `findings`:

* `doc_hosted_fresh`: staging and production share one promotion state, so `HOSTED_FRESH` of one is taken for
  the other, whose container is never restarted. No call fails in the run.
* `doc_failed_retry`: the trigger ledger of a build that failed is never cleared, so the same Gold is not built
  again, neither by the watermark nor by the nightly build. The same happens without any failed call to a build
  that loses the race to an overlapping one: it ends FAILED, and the ledger has its fingerprint.

Further sentences the modelled code does not keep were met on the way. They are quoted in the notes of the
hazards or here:

* the hard budget invariant is broken when a day turns (`governor-do.ts:11`); `OverspendBounded` says by how much;
* tasks are lost on refusals that say nothing of budget or provider (`queue-consumer.ts:175`), and a cost is
  accounted twice after a lapsed lease (`docs/cloud-acquisition-runtime-v1.md:153`); `ExclusiveUnlessLapsed` is
  what does hold;
* a breaker does not close after its cooldown: theorem `BreakersStayOpen`;
* a tick that dies after firing a job starts a second one (`source-scheduler.ts:69`): `OneLiveJobUnlessLost`;
* the cursor passes artists that were skipped: `CursorFollowsPublication` speaks of cohorts;
* Gold is not append-only (`batch_jobs.py:4875`, `:4241`): overlapping Spotify, Wikimedia or social jobs, and one
  whose parent cannot be read, replace a generation by one that lacks rows; `CurrentNeverRegresses` promises it
  to the jobs that compare and swap (theorem `NothingPublishedIsLost`);
* a resumed Wikimedia or social job skips artists whose observations died with the first attempt
  (`batch_jobs.py:2919`);
* a PRESALE_DISCOVERED row is written for the first snapshot of every event (`intelligence/tape.py:479` against
  its docstring at `:425`);
* `read_checkpoint` "Returns None if not found" (`r2_lake.py:223`) and for any other exception;
* overlapping crons can publish one fingerprint twice, against invariant 10 of `watermark-controller.ts:14`;
* the nightly build runs only when Serving seems caught up, and a change of the factor tape, the sentiment or the
  ticket market alone starts no build: their live generation is taken from Serving itself (`index.ts:1122`).

### Fairness

`FastQueue`: weak fairness of each handler (the runtime runs an invocation it has started) and of the delivery
of each queued message (the platform delivers while a consumer is idle). `SourceScheduler`: weak fairness of
starting a tick (a cron of one minute) and of each step of a tick. Nothing is assumed of faults, sends, the
clock, or the end of jobs: a job may hang for ever, and `EndedJobsAreObserved` holds for the other family.
`ListenerScan`: weak fairness of starting and running each map worker; the watchdog does that for up to six
hours of rounds and an operator runs it again, and the platform reports a dead container as such. The reducers
and the seal are started by hand: nothing is assumed of them. `HostedPromotion` and `ServingRefresh`: weak
fairness of each invocation of the crons, of a booting container, of a build that was started, and of time
(backoffs end). Publications, visits, the nightly build and faults are not fair. `Governor`,
`GoldPublication`, `EventAlerts` and `ServingSnapshot` have no fairness: their programs are started by hand or
by the components above, and they promise nothing that must happen.

## 4. Proofs

`Governor_proofs` proves, for every set of tasks, providers and events and all values of the limits that
satisfy the module's assumptions (naturals, positive where the code divides by them or counts to them):

* `TypeCorrect`, `LeasesCorrect`, `LedgersBalance`: the state invariants of the run `governor`, and with them
  that every reservation is leased, that a completed task holds nothing, and the ledger of the month;
* `BreakersStayOpen`: only a reported success or a reset closes a breaker;
* `ImplementsDayLedger`, `ImplementsMonthLedger`: `Spec` implements `BudgetLedger` under the two mappings.

All rest on one inductive invariant, `GovInv`. The ledger inequalities are not inductive alone. A reservation
is granted only if it fits beside those that remain after stale leases are expired; for a `Cardinality` to grow
by exactly one the reservations must be finite; they are because they are a subset of the leased tasks
(`ReservationsAreLeased`), whose number is bounded by `LeasesWithinLimit`. `Restart` forgets reservations on a
new day and spend on a new month, which keeps the month's ledger because a month turns only when a day does
(`PeriodsAgree`). There is one lemma per action (`TickInv`, `RecordInv`, `ReserveInv`, `CommitInv`, `RestartInv`, ...),
combined in `StepInv`. For the refinement, `StepKinds` sorts the steps into drops, grants, settlements,
overdrafts and period turns, and each kind is matched with an action of `BudgetLedger`.

`HostedPromotion_proofs` proves `HostedIsCorrect` (`HPSpec => []HostedIsServed`) for any number of ticks,
generations and faults under one assumption, `Alone`: one deployment, which the run `doc_hosted_fresh` shows to be
needed. "The container shows nothing older than g" (`Served(g)`) is stable once it holds, since CURRENT never
goes back and a container that boots opens what CURRENT names then. The invariant `PromotionInv` says it of
everything that may become `hosted`: of the stored state, of the copy each tick has read, and of the generation
a tick has verified but not yet saved. `ServingRefresh_proofs` carries it over to the chain (`ChainIsHosted`),
where builds publish instead of the abstract `Publish`, and proves `ServingIsMonotone`
(`ChainSpec => []ServingNeverRegresses`) with the invariant `ServingInv`: Serving is never ahead of Gold, and what
a build has read is no older than its parent and all before it, so that publishing over the parent alone keeps
the order, whichever builds overlap.

`GoldPublication_proofs` proves `NothingPublishedIsLost` (`GPSpec => CurrentNeverRegresses`) for any number of
containers, job ids, observations, attempts and faults, assuming only that the value for "no CURRENT" is not a
generation (`NoneAssumption`). What an attempt carries towards CURRENT, `Holds(etag, rows)`: for a job that compares
and swaps, the ETag it remembers is not ahead of CURRENT, and if it is CURRENT's then the rows hold what CURRENT
holds but for the unread; for the others, the rows hold it as long as nothing overlapped or failed. The invariant
`GoldInv` says so of every phase of every attempt and of every durable plan, and that attempts exclude each other
until they have overlapped. When CURRENT moves its ETag grows, so all who remember the old one can no longer publish:
that, and not the order in which they run, is why old plans are harmless.

`FastQueue_proofs` proves the safety of the consumers for any messages, any finite, non-empty set of handlers
(`WorkerAssumption`, needed to count them) and any number of faults, crashes and redeliveries:

* `EvidenceIsKept`, `OverspendIsBounded`, `ReservationsComeBack` and `ExclusiveButForLosses`: the invariants
  `DoneIsEvidenced`, `OverspendBounded`, `NoLeakWithoutFault` and `ExclusiveUnlessLapsed` of the queue's runs;
* `StrandedHoldsEnd`: `StrandedHoldsLapse`, for any length of lease.

They use `GovInv`, which holds of the composition because the queue moves the Governor's state by the Governor's actions
only (a lemma, `ConsumersUseTheGovernor`: `Governor!Next` allows any call, so it says nothing about which calls are made).

`HandlersInv` says what a handler at each step already holds: the raw object when it stages, the staged observation
from the commit on; neither is ever deleted by a handler (`EvidenceGrows`). `SpendInv` counts: a handler that may
still commit was admitted when the day's spend left room for a page, and each commit moves one handler out of
`Spenders` as it adds its page. `LeakInv` keeps, for each reservation, a handler at a step from which every path
gives it back. `StrandedInv` bounds each lease by the time its last handler left it; its heart is that no action of the
Governor prolongs a lease there is (`LeasesAreNotProlonged`). `ExclusiveInv` holds a task at work to its lease or to `lapsed`, and a committed one to its key or
to `forgotten`.

`TruthInv`, a second invariant of `GoldPublication_proofs` beside `GoldInv`, gives the other safety properties of the jobs:
`CurrentWasVerified`, `PlansAreBuilt`, `ManifestsAreTrue` and the types (`PublicationTypeCorrect`). "CURRENT names what
was verified" is not inductive: something might be written under a key after its verification. It is not, because
attempts under way have keys of their own (`KeysAreOwn`, by the number of the attempt) or, in the factor tape, write
under the job id only what the durable plan says, whoever writes it. What was verified is what still lies under the
key, and what an attempt is about to move is what it has verified. Families whose key is the job id without a plan
(identity), and the scoreboard, which moves CURRENT first, are excluded from the property, as they must be.

`SourceScheduler_proofs` has two invariants. `SchedulerInv` needs no assumption about the ticks: every copy of a
family's state, stored or in the hand of a tick, was earned. It may be old, but jobs only end and covered cohorts only
grow, so what it says stays true, and a tick that overwrites a newer state with an older one cannot make it false. From
it follow `CursorIsEarned`, `SchedulerTypeCorrect` and the action property `NothingWedges`. `SerialInv` adds the
assumption `Serial` (one ticker, as in the run `source_serial`; ticks that overlap do fire twice): the one copy in hand,
and the stored state between ticks, name the last marked job of the family that may still be at work and hold every
backoff given so far, up to the time of the tick (`KeptFor`, `HorizonOf`). It gives `OneJobAtWork` and the action
property `BackoffsHold`. `Families` is assumed to be a non-empty sequence of the two that the code knows, the durations
to be positive.

`ListenerScan_proofs` proves `GoldNeverPartial`, `CheckpointsTellTheTruth`, `RangesStayExact`, the action property
`ProgressIsKept` and the types, with no assumption on how many containers run or die. `ScanInv` rests on one fact about
the lake: an artifact is written by many, but always with the cells of its batch or its partition (`LakeInv`), so that
it never changes once it is there (`Grows`) and what a checkpoint says remains true of every stale copy of it. For the
order of the batches the invariant needs to know that a worker's checkpoint is the beginning of its slice and that
what it has left is the end of it (`BatchesFit`, `Left`), also after it began again from nothing; for the reducers, that
what they read is whole. That a finite set of batches can be sorted (`AscendingFacts`) is proved by taking a smallest
counterexample, since induction theorems cannot be used. `ScanAssumption` says what the launcher's plan guarantees: the
slices are ascending and together all batches, slices and reducers are different jobs, the parts are finitely many.

`ServingSnapshot_proofs` is about the warehouse and its copies together, since `ServingSnapshot` has all steps of
`EventAlerts`. `WarehouseInv` gives the types, `CrashesMakeOrphans`, `AnalystsSeeTheTape` and `NothingGoesUnannounced`. Three of its
parts were not among the properties: every alert tells of a snapshot in the ledger (`AlertsAreTold`); an alert that
lacks edges is the one being related, or has cost a fault (`AtWork` and the count of `Orphans`); and the events of the
runs that were all followed up are announced (`FollowUpsAnnounce`), where an open run must be the last and not yet
followed up. Snapshots are only appended, so what a copy says of them remains true of the warehouse (`ServableStays`),
which gives `OneCutIsServed` for any number of publishers. `OnePublisherKeepsCurrent` needs one publisher (`Alone`): from
the rename on its file is there, and what it writes and replaces is its own temporary pointer. Assumed of the constants:
`Legacy` rows are snapshots without a run, and the value for "nothing" is no key, file or activity (`NoneAssumption`,
`FileAssumption`).

`RestartsAreFew` (in `HostedPromotion_proofs`, for at least one deployment) counts: restarts for a generation may exceed
the faults by one, and once they do, the trigger is on record, or about to be put, or no tick will decide about that
generation again (`RestartIsPaidFor`). A tick that decides to restart therefore has a fault to spare; for ticks that do
not overlap what it has read of CURRENT and of the state is still so (`TickIsUpToDate`).

In the chain one cron (`SoleCron`) is enough for three more results. `ChainRestartsAreFew` is the same count with builds as
the publishers. `BuildsAreNotRepeated`: until something fails, the
fingerprints the cron builds climb in both parts, since Gold advances and Serving holds the newest that was built
(`BuildInv`); a fingerprint that differs from the ledger, which is the last one built, is then above all of them. With
two crons it is false, as said above. `ChainTypeCorrect`: the number of generations is bounded by the builds that have
ended (`BoundedInv`), so none exists that the promotion does not count.

Every invariant and action property of the passing runs is a theorem, as is the refinement of `BudgetLedger` by the
Governor. Model-checked only is liveness, which is out of the prover's
reach: `MessagesSettle`, `EndedJobsAreObserved`, `MapCompletes`, `PromotionSettles` and `GoldReachesTheScreen`; and the two
sentences of the documents that TLC refutes. The theorems of `HostedPromotion_proofs` and `ServingRefresh_proofs` hold
for any bounds, but within them: a clock, a number of faults or of generations that ends is part of the model.

One definition was changed for the proofs. `Decision` was a `CASE` whose arms overlapped, which leaves open the arm that
is taken; it is now the sequence of tests the code makes.

## 5. Not modelled, and the plan

Not modelled because there is no protocol in them: mapping, task keys and cost constants, observability, the
provider clients, the Python analysis packages, the static terminal, the scripts.

Abstracted away in what is modelled:

* floating point (money is counted in pages) and the Wikimedia rate cooldown (a minute at most, below the
  model's unit of time); the contents of pages, rows and reports beyond what the properties tell apart;
* the budgets of the Governor are constants; a new construction may take others from the environment
  (`governor-do.ts:65`); the universe of the Spotify rotation is a constant, while the code takes its size from the
  manifest of the last job (`source-scheduler.ts:690`, `batch_jobs.py:4769`), so one that grows or shrinks between ticks
  is not checked;
* two containers of one Wikimedia job id that create its `plan.json` at once, of which one loses (`batch_jobs.py:2694`), and the manifests
  RUNNING and BUILD_COMPLETE that the jobs write on their way, which nothing modelled reads;
* clocks are monotone; `EventAlerts` takes the order of retrieval for that of the snapshots; generation names that
  hold a second are distinct, so two builds of one family do not start within the same second;
* one process at a time holds DuckDB for writing, which is what DuckDB enforces;
* the identity job's put of its previous report, and the sentiment job's NO_SAMPLES manifest beyond its empty
  generation; the wrap of the Spotify cursor is in `SourceScheduler`, not in `GoldPublication`; one set of cohorts
  stands for the artists of both spotlight families;
* in `terminal` one publisher is checked: two that publish at once share `CURRENT.json.tmp`, which the model has
  (`fd`), and can tear the pointer between them; publishing is an operator's command. Theorem
  `OnePublisherKeepsCurrent` has the same assumption, `OneCutIsServed` has not;
* the weather, Spotify, festival, news, watchlist and TODAY phases of the local programs, which write ledgers of
  their own and share no state with what is modelled but the database; the analysts' workspace database;
* the plan and qa commands of the full scan, its disk guards, and what its SQL computes beyond which batches and
  partitions are summed;
* the monitor, heartbeat and durable status of the batch container; `ServingRefresh` and `SourceScheduler` take
  its answers (started, failed, threw, no manifest) as they come.

Order of the modules to come:

1. `Materialization`: staging, chunks and deletes under retries of the processing queue; a listing that ends at
   its first page.
2. `BatchContainer`: startJob, monitors, the heartbeat alarm and restarts of one object, composed with the
   scheduler's view.
3. The multipart transfer of dumps (`scripts/stream_url_to_r2.py`) and its resume; the ticket-market collector
   (`scripts/collect_ticket_market.py`).
4. The lease of the Hetzner broker (`acquisition/hetzner_broker.py`) and its guardrail, which creating a worker does
   not charge.
5. Planner and bootstrap over the Governor's observation state; the structured, YouTube and dead-letter consumers.

Theorems to come: what does hold with several crons or several publishers; the refinement by `ServingRefresh` of an
abstract specification of "the screen follows Gold"; and the safety of the modules to come.
